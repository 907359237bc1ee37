------------------------------ MODULE Desktop ------------------------------
(***************************************************************************)
(* The desktop service behind its JSON-RPC server (desktop/service.go,     *)
(* desktop/rpc/server.go).  Every request of the client runs on a          *)
(* goroutine of its own.  The requests share one App, which works in one   *)
(* directory at a time, and the selected directory, kept in memory and in  *)
(* gui.toml.  The service calls the client back for dialogs and for the    *)
(* browser, and the client may answer twice, or never.  When the stream    *)
(* ends the server cancels what runs, waits for it and returns.            *)
(*                                                                         *)
(* An operation on a workspace is a phase between taking the mutex and     *)
(* releasing it; what it does there is in the other modules.               *)
(*                                                                         *)
(* Bounds: Req bounds the requests.                                        *)
(***************************************************************************)
EXTENDS Naturals

CONSTANTS Req, Dir, NoDir, NoReq

ASSUME DesktopOK == NoDir \notin Dir /\ NoReq \notin Req

VARIABLES
    kind,      \* the method of each request
    phase,     \* where its handler is
    target,    \* the directory it is about
    left,      \* the directories a listing has yet to describe
    signIn,    \* the goroutine a login request left behind
    sent,      \* what its call back to the client has been sent: messages and the closing
    picked,    \* the directory the answer names
    pending,   \* the requests whose call back is registered
    serving,   \* "reading", "cancelled", "waiting", "returned"
    gone,      \* the client closed its end
    late,      \* something was written after Serve returned
    repoMu,    \* who holds the mutex of the service
    repoPath,  \* the directory selected, in memory
    appDir,    \* the directory the App works in
    initBy,    \* whose storage and answers for an init the App holds
    gui        \* gui.toml: the directory selected and the history

callVars == <<signIn, sent, picked, pending>>
serveVars == <<serving, gone, late>>
repoVars == <<repoMu, repoPath, appDir, gui, initBy>>
reqVars == <<kind, phase, target, left>>
vars == <<reqVars, callVars, serveVars, repoVars>>

-----------------------------------------------------------------------------
\* The methods that only run an operation on the selected directory.
MemberMethods == {"ListMembers", "ListJoinRequests", "ApproveMember", "RemoveMember",
                  "SetAdmin", "ResolveMemberFork"}

ConfigMethods == {"ReadConfig", "WriteConfig"}

EnvironmentMethods == {"ListEnvironments", "CreateEnvironment", "SwitchEnvironment",
                       "RenameEnvironment", "DeleteEnvironment", "PurgeIncarnation"}

SecretMethods == {"ListSecrets", "AddSecret", "EditSecret", "DeleteSecret", "PullSecrets",
                  "SyncSecrets", "ListConflicts", "ResolveConflicts"}

HistoryMethods == {"ListHistory", "DiffHistory", "RestoreHistory"}

IdentityMethods == {"GetIdentity", "UpgradeIdentity", "ImportSecrets"}

OpMethods == MemberMethods \cup ConfigMethods \cup EnvironmentMethods \cup SecretMethods
             \cup HistoryMethods \cup IdentityMethods \cup {"SuggestStorage"}

\* The others, and what the server does with each.
OwnKind == [BrowseRepository |-> "browse", SelectRepository |-> "select",
            RemoveRepository |-> "remove", ListRepositories |-> "list",
            GetRepoStatus |-> "status", GetAuthStatus |-> "auth",
            Initialize |-> "init", StartOAuthLogin |-> "login",
            GetOAuthLoginStatus |-> "other", CancelOAuthLogin |-> "other", Logout |-> "other",
            DiagnoseIdentity |-> "other", GetAppVersion |-> "other"]

Methods == OpMethods \cup DOMAIN OwnKind

KindOf(m) == IF m \in OpMethods THEN "op" ELSE OwnKind[m]

Kind == {KindOf(m) : m \in Methods}

TypeOK ==
    /\ kind \in [Req -> Kind \cup {"none"}]
    /\ phase \in [Req -> {"no", "begin", "picking", "select", "listing", "enter", "run", "login", "done"}]
    /\ target \in [Req -> Dir \cup {NoDir}] /\ left \in [Req -> SUBSET Dir]
    /\ signIn \in [Req -> {"none", "authorize", "opening", "waiting", "opened", "ended"}]
    /\ sent \in [Req -> Nat]
    /\ picked \in [Req -> Dir \cup {NoDir}]
    /\ pending \subseteq {r \in Req : phase[r] = "picking" \/ signIn[r] = "waiting"}
    /\ serving \in {"reading", "cancelled", "waiting", "returned"}
    /\ gone \in BOOLEAN /\ late \in BOOLEAN
    /\ repoMu \in {NoReq} \cup {r \in Req : phase[r] = "run"}
    /\ repoPath \in Dir \cup {NoDir} /\ appDir \in Dir \cup {NoDir}
    /\ initBy \in {NoReq} \cup {r \in Req : kind[r] = "init"}
    /\ gui \in [selected : Dir \cup {NoDir}, history : SUBSET Dir]

\* The service selects what gui.toml says, unless it is no repository any more.
NewService ==
    /\ repoMu = NoReq /\ initBy = NoReq
    /\ \E d \in Dir \cup {NoDir}, valid \in BOOLEAN :
          /\ gui = [selected |-> d, history |-> {d} \cap Dir]
          /\ repoPath = IF valid THEN d ELSE NoDir
          /\ appDir = repoPath

NewServer ==
    /\ kind = [r \in Req |-> "none"] /\ phase = [r \in Req |-> "no"]
    /\ target = [r \in Req |-> NoDir] /\ left = [r \in Req |-> {}]
    /\ signIn = [r \in Req |-> "none"] /\ sent = [r \in Req |-> 0]
    /\ picked = [r \in Req |-> NoDir] /\ pending = {}
    /\ serving = "reading" /\ gone = FALSE /\ late = FALSE

Init == NewService /\ NewServer

Cancelled == serving # "reading"

GoesTo(r, next) == phase' = [phase EXCEPT ![r] = next]

\* The handler replies.
Replies(r) ==
    /\ GoesTo(r, "done")
    /\ late' = (late \/ serving = "returned")
    /\ UNCHANGED <<serving, gone>>

-----------------------------------------------------------------------------
\* A method gets its parameters, or the request is refused.
Decoded(m) == {KindOf(m), "other"}

\* The reader hands a request to a goroutine.
Receive(r) ==
    /\ serving = "reading" /\ ~ gone
    /\ phase[r] = "no"
    /\ \E k \in UNION {Decoded(m) : m \in Methods}, d \in Dir :
          /\ kind' = [kind EXCEPT ![r] = k]
          /\ target' = [target EXCEPT ![r] = IF k \in {"select", "remove"} THEN d ELSE NoDir]
    /\ GoesTo(r, "begin")
    /\ UNCHANGED left /\ UNCHANGED <<callVars, serveVars, repoVars>>

\* "initialize", an unknown method, wrong parameters, what needs no directory.
HandleOther(r) ==
    /\ phase[r] = "begin" /\ kind[r] = "other"
    /\ Replies(r)
    /\ UNCHANGED <<kind, target, left>> /\ UNCHANGED <<callVars, repoVars>>

-----------------------------------------------------------------------------
\* (Variant of MayPick, for mutation: one dialog at a time, under the mutex.)
MayPickAlone == repoMu = NoReq /\ \A r \in Req : phase[r] # "picking"

MayPick == TRUE

BrowseRepository(r) ==
    /\ phase[r] = "begin" /\ kind[r] = "browse" /\ MayPick
    /\ GoesTo(r, "picking")
    /\ pending' = pending \cup {r}
    /\ UNCHANGED <<kind, target, left, signIn, sent, picked>>
    /\ UNCHANGED <<serveVars, repoVars>>

\* (Variant of CallEnds, for mutation: only an answer or the closing ends a call.)
AnswerEnds(r) == sent[r] > 0

\* A call ends with what its channel was sent, or with the context.
CallEnds(r) == sent[r] > 0 \/ Cancelled

\* The dialog was answered with a directory, dismissed, or the call failed.
\* A directory picked is looked at before it is selected.
Picked(r) ==
    /\ phase[r] = "picking" /\ CallEnds(r)
    /\ pending' = pending \ {r}
    /\ IF sent[r] > 0 /\ picked[r] # NoDir
       THEN /\ target' = [target EXCEPT ![r] = picked[r]]
            /\ Replies(r) \/ (GoesTo(r, "select") /\ UNCHANGED serveVars)
       ELSE Replies(r) /\ UNCHANGED target
    /\ UNCHANGED <<kind, left, signIn, sent, picked>> /\ UNCHANGED repoVars

StartSelect(r) ==
    /\ phase[r] = "begin" /\ kind[r] = "select"
    /\ Replies(r) \/ (GoesTo(r, "select") /\ UNCHANGED serveVars)
    /\ UNCHANGED <<kind, target, left>> /\ UNCHANGED <<callVars, repoVars>>

\* The history names a directory once.
AppendUnique(history, d) == history \cup {d}

\* (Variant of Saved, for mutation: memory first.)
Remembered(d, saves) ==
    /\ gui' = IF saves THEN [selected |-> d, history |-> AppendUnique(gui.history, d)] ELSE gui
    /\ repoPath' = d /\ appDir' = d

\* A gui.toml that cannot be read is begun anew.
Saved(d, saves) ==
    /\ \E readable \in BOOLEAN :
          gui' = IF saves THEN [selected |-> d,
                                history |-> AppendUnique(IF readable THEN gui.history ELSE {}, d)]
                 ELSE gui
    /\ IF saves THEN repoPath' = d /\ appDir' = d ELSE UNCHANGED <<repoPath, appDir>>

SelectRepository(r) ==
    /\ phase[r] = "select" /\ repoMu = NoReq
    /\ \E saves \in BOOLEAN :
          /\ Saved(target[r], saves)
          /\ IF saves THEN GoesTo(r, "enter") /\ UNCHANGED serveVars ELSE Replies(r)
    /\ UNCHANGED <<kind, target, left>> /\ UNCHANGED callVars /\ UNCHANGED <<repoMu, initBy>>

\* Memory forgets the directory also when gui.toml cannot be written.
RemoveRepository(r) ==
    /\ phase[r] = "begin" /\ kind[r] = "remove" /\ repoMu = NoReq
    /\ LET d == target[r]
           rest == [selected |-> IF gui.selected = d THEN NoDir ELSE gui.selected,
                    history |-> gui.history \ {d}]
       IN \/ gui' \in {gui, rest} /\ repoPath' = IF gui.selected = d THEN NoDir ELSE repoPath
          \/ UNCHANGED <<gui, repoPath>>
    /\ Replies(r)
    /\ UNCHANGED <<kind, target, left>> /\ UNCHANGED callVars /\ UNCHANGED <<repoMu, appDir, initBy>>

-----------------------------------------------------------------------------
\* withRepo reads the selected directory and works there.
StartOp(r) ==
    /\ phase[r] = "begin" /\ kind[r] \in {"op", "init"}
    /\ repoMu = NoReq
    /\ IF repoPath = NoDir
       THEN Replies(r) /\ UNCHANGED target
       ELSE GoesTo(r, "enter") /\ target' = [target EXCEPT ![r] = repoPath] /\ UNCHANGED serveVars
    /\ UNCHANGED <<kind, left>> /\ UNCHANGED <<callVars, repoVars>>

\* The status of the directory is read without the mutex, but for its path.
GetRepoStatus(r) ==
    /\ phase[r] = "begin" /\ kind[r] = "status"
    /\ repoMu = NoReq
    /\ \/ Replies(r) /\ UNCHANGED target     \* none is selected, or it is none any more
       \/ /\ repoPath # NoDir
          /\ GoesTo(r, "enter") /\ target' = [target EXCEPT ![r] = repoPath] /\ UNCHANGED serveVars
    /\ UNCHANGED <<kind, left>> /\ UNCHANGED <<callVars, repoVars>>

\* Nobody is signed in, or the status of the directory is asked for too: it is
\* the one selected by then.
GetAuthStatus(r) ==
    /\ phase[r] = "begin" /\ kind[r] = "auth" /\ repoMu = NoReq
    /\ \/ Replies(r) /\ UNCHANGED kind
       \/ kind' = [kind EXCEPT ![r] = "status"] /\ UNCHANGED <<phase, serveVars>>
    /\ UNCHANGED <<target, left>> /\ UNCHANGED <<callVars, repoVars>>

\* The listing describes the directories of the history, one after the other.
ListRepositories(r) ==
    /\ phase[r] = "begin" /\ kind[r] = "list"
    /\ GoesTo(r, "listing")
    /\ \E dirs \in {gui.history, {}} : left' = [left EXCEPT ![r] = dirs]
    /\ UNCHANGED <<kind, target>> /\ UNCHANGED <<callVars, serveVars, repoVars>>

NextListed(r) ==
    /\ phase[r] = "listing"
    /\ \E d \in left[r] :
          /\ left' = [left EXCEPT ![r] = @ \ {d}]
          /\ target' = [target EXCEPT ![r] = d]
    /\ \/ GoesTo(r, "enter")
       \/ UNCHANGED phase     \* not a directory any more
    /\ UNCHANGED kind /\ UNCHANGED <<callVars, serveVars, repoVars>>

AllListed(r) ==
    /\ phase[r] = "listing" /\ left[r] = {}
    /\ Replies(r)
    /\ UNCHANGED <<kind, target, left>> /\ UNCHANGED <<callVars, repoVars>>

\* (Variant of WorkIn, for mutation: the App is where the selection left it.)
StaysIn(d) == UNCHANGED appDir

WorkIn(d) == appDir' = d

\* An init leaves its storage and its answers in the App, unless the project
\* file names a storage already.
Initialize(r) == initBy' \in IF kind[r] = "init" THEN {r, initBy} ELSE {initBy}

Enter(r) ==
    /\ phase[r] = "enter" /\ repoMu = NoReq
    /\ repoMu' = r /\ WorkIn(target[r]) /\ Initialize(r)
    /\ GoesTo(r, "run")
    /\ UNCHANGED <<kind, target, left>> /\ UNCHANGED <<callVars, serveVars>>
    /\ UNCHANGED <<repoPath, gui>>

Release == repoMu' = NoReq

ClearsInit(r) == initBy' = IF kind[r] = "init" THEN NoReq ELSE initBy

\* It returned, or panicked: the mutex is released on the way out.
Leave(r) ==
    /\ phase[r] = "run"
    /\ Release /\ ClearsInit(r)
    /\ IF kind[r] = "list" THEN GoesTo(r, "listing") /\ UNCHANGED serveVars ELSE Replies(r)
    /\ UNCHANGED <<kind, target, left>> /\ UNCHANGED callVars
    /\ UNCHANGED <<repoPath, appDir, gui>>

-----------------------------------------------------------------------------
\* StartOAuthLogin starts a goroutine the server does not wait for (SignIn).
StartLogin(r) ==
    /\ phase[r] = "begin" /\ kind[r] = "login"
    /\ GoesTo(r, "login")
    /\ signIn' = [signIn EXCEPT ![r] = "authorize"]
    /\ UNCHANGED <<kind, target, left, sent, picked, pending>>
    /\ UNCHANGED <<serveVars, repoVars>>

\* It fails, or has the service open the browser while there is an opener.
LoginOpens(r) ==
    /\ signIn[r] = "authorize"
    /\ \/ signIn' = [signIn EXCEPT ![r] = "ended"]
       \/ serving # "returned" /\ signIn' = [signIn EXCEPT ![r] = "opening"]
    /\ UNCHANGED <<sent, picked, pending>> /\ UNCHANGED <<reqVars, serveVars, repoVars>>

CallOpenExternal(r) ==
    /\ signIn[r] = "opening"
    /\ signIn' = [signIn EXCEPT ![r] = "waiting"]
    /\ pending' = pending \cup {r}
    /\ late' = (late \/ serving = "returned")
    /\ UNCHANGED <<sent, picked, serving, gone>> /\ UNCHANGED <<reqVars, repoVars>>

LoginGoesOn(r) ==
    /\ signIn[r] = "waiting" /\ CallEnds(r)
    /\ pending' = pending \ {r}
    /\ signIn' = [signIn EXCEPT ![r] = IF sent[r] > 0 THEN "opened" ELSE "ended"]
    /\ UNCHANGED <<sent, picked>> /\ UNCHANGED <<reqVars, serveVars, repoVars>>

LoginReturns(r) ==
    /\ phase[r] = "login"
    /\ signIn[r] \in {"opened", "ended"} \/ Cancelled
    /\ Replies(r)
    /\ UNCHANGED <<kind, target, left>> /\ UNCHANGED <<callVars, repoVars>>

-----------------------------------------------------------------------------
\* (Variant of Unregister, for mutation: the call itself unregisters.)
StaysRegistered(r) == UNCHANGED pending

Unregister(r) == pending' = pending \ {r}

\* resolve: the client answers a call that is registered; other answers are dropped.
Resolve(r) ==
    /\ serving = "reading" /\ r \in pending
    /\ Unregister(r)
    /\ sent' = [sent EXCEPT ![r] = @ + 1]
    /\ \E d \in Dir \cup {NoDir} : picked' = [picked EXCEPT ![r] = d]
    /\ UNCHANGED signIn /\ UNCHANGED <<reqVars, serveVars, repoVars>>

ClientGoes ==
    /\ ~ gone /\ gone' = TRUE
    /\ UNCHANGED <<serving, late>> /\ UNCHANGED <<reqVars, callVars, repoVars>>

\* Serve reads the end of the stream and cancels the context.
EndOfStream ==
    /\ serving = "reading" /\ gone
    /\ serving' = "cancelled"
    /\ UNCHANGED <<gone, late>> /\ UNCHANGED <<reqVars, callVars, repoVars>>

FailPending ==
    /\ serving = "cancelled"
    /\ serving' = "waiting"
    /\ sent' = [r \in Req |-> IF r \in pending THEN sent[r] + 1 ELSE sent[r]]
    /\ pending' = {}
    /\ UNCHANGED <<signIn, picked, gone, late>> /\ UNCHANGED <<reqVars, repoVars>>

Drained == \A r \in Req : phase[r] \in {"no", "done"}

ServeReturns ==
    /\ serving = "waiting" /\ Drained
    /\ serving' = "returned"
    /\ UNCHANGED <<gone, late>> /\ UNCHANGED <<reqVars, callVars, repoVars>>

-----------------------------------------------------------------------------
Handle(r) ==
    \/ HandleOther(r)
    \/ BrowseRepository(r) \/ Picked(r)
    \/ StartSelect(r) \/ SelectRepository(r) \/ RemoveRepository(r)
    \/ StartOp(r) \/ GetRepoStatus(r) \/ GetAuthStatus(r) \/ ListRepositories(r) \/ NextListed(r) \/ AllListed(r)
    \/ Enter(r) \/ Leave(r)
    \/ StartLogin(r) \/ LoginReturns(r)

LoginStep(r) == LoginOpens(r) \/ CallOpenExternal(r) \/ LoginGoesOn(r)

ServeStep == EndOfStream \/ FailPending \/ ServeReturns

Next ==
    \/ \E r \in Req : Receive(r) \/ Handle(r) \/ LoginStep(r) \/ Resolve(r)
    \/ ClientGoes \/ ServeStep

\* Goroutines run and a mutex does not starve; the client need never answer.
Fairness == WF_vars(ServeStep) /\ \A r \in Req : SF_vars(Handle(r)) /\ WF_vars(LoginStep(r))

Spec == Init /\ [][Next]_vars /\ Fairness

-----------------------------------------------------------------------------
\* An operation works in the directory it was started for, also when another
\* one is selected, removed or listed meanwhile (withRepoPathResult), and never
\* founds in the storage another request gave, nor accepts a new genesis
\* because another was told to (Initialize).
RunsWhereItStarted ==
    \A r \in Req : phase[r] = "run" =>
        repoMu = r /\ appDir = target[r] /\ initBy \in {r, NoReq}

\* The directory the service works in is the one it finds after a restart
\* (SelectRepository, RemoveRepository, loadSelectedRepo).
SelectionIsSaved == repoPath # NoDir => gui.selected = repoPath

\* Serve returns only when every request has been answered: no handler writes
\* to the stream afterwards (Serve, wg.Wait).
AnswersComeFirst == serving = "returned" => \A r \in Req : phase[r] \in {"no", "done"}

\* A channel of a call gets one message at most: a second send would stop the
\* reader, and one after the closing would end the process (resolve, failPending).
OneSendPerCall == \A r \in Req : sent[r] <= 1

\* Nothing is sent twice, or too late.
SendsAreSafe == AnswersComeFirst /\ OneSendPerCall

\* When the client goes, Serve returns, whatever was waiting for the client
\* (call, failPending).
ServeEnds == gone ~> (serving = "returned")

\* A dialog nobody answers holds up only the request that shows it.
OthersGoOn ==
    \A r \in Req : (phase[r] # "no" /\ kind[r] # "login") ~> (phase[r] \in {"picking", "done"})

\* Once Serve has returned the service writes nothing more (server.go:247).
NothingIsWrittenLate == ~ late
=============================================================================
