--------------------------- MODULE DesktopProofs ---------------------------
(***************************************************************************)
(* Theorems about Desktop, for any number of requests and directories and  *)
(* whatever the client answers, and about the logins it starts (SignIn),   *)
(* for any number of them and whatever the browser, GitHub, the keyring,   *)
(* the clock and the user do.                                              *)
(***************************************************************************)
EXTENDS Desktop, SignIn, FiniteSetTheorems, TLAPS

\* The request that runs is the one that holds the mutex, and the App holds the
\* answers of no other.
OneRuns ==
    /\ \A r \in Req : phase[r] = "run" <=> repoMu = r
    /\ \A r \in Req : phase[r] = "run" => appDir = target[r]
    /\ initBy \in {NoReq, repoMu}

\* What is selected is a directory.
Selects ==
    \A r \in Req :
        phase[r] = "select" \/ (phase[r] = "begin" /\ kind[r] = "select") => target[r] \in Dir

\* A call back is registered before it is sent anything, and a request makes one.
Calls ==
    \A r \in Req :
        /\ sent[r] \in {0, 1}
        /\ r \in pending => sent[r] = 0
        /\ phase[r] \in {"no", "begin"} => sent[r] = 0
        /\ signIn[r] \in {"authorize", "opening"} => sent[r] = 0
        /\ signIn[r] # "none" => phase[r] \in {"login", "done"}

Inv == TypeOK /\ OneRuns /\ Selects /\ Calls /\ AnswersComeFirst /\ SelectionIsSaved

-----------------------------------------------------------------------------
\* What a request can become is the kind of some method.
LEMMA Kinds ==
    /\ {"other", "status", "auth", "list", "init"} \subseteq Kind
    /\ \A m \in Methods : Decoded(m) \subseteq Kind
  <1> DEFINE Own == {"GetAppVersion", "GetRepoStatus", "GetAuthStatus", "ListRepositories",
                     "Initialize"}
  <1>1. Own \subseteq Methods /\ Own \cap OpMethods = {}
    BY DEF Methods, OwnKind, OpMethods, MemberMethods, ConfigMethods, EnvironmentMethods,
          SecretMethods, HistoryMethods, IdentityMethods
  <1>2. \A m \in Own : KindOf(m) = OwnKind[m] /\ KindOf(m) \in Kind
    BY <1>1 DEF KindOf, Kind
  <1>3. /\ OwnKind["GetAppVersion"] = "other" /\ OwnKind["GetRepoStatus"] = "status"
        /\ OwnKind["GetAuthStatus"] = "auth" /\ OwnKind["ListRepositories"] = "list"
        /\ OwnKind["Initialize"] = "init"
    BY DEF OwnKind
  <1>4. {"other", "status", "auth", "list", "init"} \subseteq Kind
    BY <1>2, <1>3
  <1> QED BY <1>4 DEF Decoded, Kind

LEMMA InvInit == Init => Inv
  <1> SUFFICES ASSUME Init
               PROVE  Inv
    OBVIOUS
  <1>1. PICK d \in Dir \cup {NoDir}, valid \in BOOLEAN :
           /\ gui = [selected |-> d, history |-> {d} \cap Dir]
           /\ repoPath = IF valid THEN d ELSE NoDir
           /\ appDir = repoPath
    BY DEF Init, NewService
  <1>2. /\ gui \in [selected : Dir \cup {NoDir}, history : SUBSET Dir]
        /\ repoPath \in Dir \cup {NoDir} /\ appDir \in Dir \cup {NoDir} /\ SelectionIsSaved
    BY <1>1 DEF SelectionIsSaved
  <1>3. TypeOK
    BY <1>2 DEF Init, NewService, NewServer, TypeOK
  <1> QED BY <1>2, <1>3, DesktopOK DEF Init, NewService, NewServer, Inv, OneRuns, Selects, Calls,
             AnswersComeFirst

\* A request arrives, and what needs no directory is answered.
LEMMA RequestStep ==
    ASSUME Inv, NEW r \in Req,
           \/ Receive(r) \/ HandleOther(r) \/ BrowseRepository(r) \/ Picked(r)
           \/ StartSelect(r) \/ GetAuthStatus(r) \/ StartOp(r) \/ GetRepoStatus(r)
    PROVE  Inv'
  <1> USE DesktopOK, Kinds
      DEF Inv, TypeOK, OneRuns, Selects, Calls, AnswersComeFirst, SelectionIsSaved, GoesTo, Replies,
          callVars, serveVars, repoVars
  <1>1. CASE Receive(r)
    BY <1>1 DEF Receive
  <1>2. CASE HandleOther(r)
    BY <1>2 DEF HandleOther
  <1>3. CASE BrowseRepository(r)
    BY <1>3 DEF BrowseRepository, MayPick
  <1>4. CASE Picked(r)
    BY <1>4 DEF Picked
  <1>5. CASE StartSelect(r)
    BY <1>5 DEF StartSelect
  <1>6. CASE GetAuthStatus(r)
    BY <1>6 DEF GetAuthStatus
  <1>7. CASE StartOp(r)
    BY <1>7 DEF StartOp
  <1>8. CASE GetRepoStatus(r)
    BY <1>8 DEF GetRepoStatus
  <1> QED BY <1>1, <1>2, <1>3, <1>4, <1>5, <1>6, <1>7, <1>8

\* The selection changes, and directories are listed and worked in.
LEMMA DirectoryStep ==
    ASSUME Inv, NEW r \in Req,
           \/ SelectRepository(r) \/ RemoveRepository(r) \/ ListRepositories(r)
           \/ NextListed(r) \/ AllListed(r) \/ Enter(r) \/ Leave(r)
    PROVE  Inv'
  <1> USE DesktopOK, Kinds
      DEF Inv, TypeOK, OneRuns, Selects, Calls, AnswersComeFirst, SelectionIsSaved, GoesTo, Replies,
          callVars, serveVars, repoVars
  <1>1. CASE SelectRepository(r)
    <2>1. PICK saves \in BOOLEAN :
             /\ Saved(target[r], saves)
             /\ IF saves THEN GoesTo(r, "enter") /\ UNCHANGED serveVars ELSE Replies(r)
      BY <1>1 DEF SelectRepository
    <2>2. /\ gui' \in [selected : Dir \cup {NoDir}, history : SUBSET Dir]
          /\ repoPath' \in Dir \cup {NoDir} /\ appDir' \in Dir \cup {NoDir}
          /\ SelectionIsSaved'
      <3>1. target[r] \in Dir
        BY <1>1 DEF SelectRepository
      <3>2. PICK history \in SUBSET Dir :
               gui' = IF saves THEN [selected |-> target[r], history |-> history \cup {target[r]}]
                      ELSE gui
        <4>1. PICK readable \in BOOLEAN :
                 gui' = IF saves THEN [selected |-> target[r],
                                       history |-> (IF readable THEN gui.history ELSE {})
                                                      \cup {target[r]}]
                        ELSE gui
          BY <2>1 DEF Saved, AppendUnique
        <4>2. (IF readable THEN gui.history ELSE {}) \in SUBSET Dir
          OBVIOUS
        <4> QED BY <4>1, <4>2
      <3>3. IF saves THEN repoPath' = target[r] /\ appDir' = target[r]
                     ELSE UNCHANGED <<repoPath, appDir>>
        BY <2>1 DEF Saved
      <3> QED BY <3>1, <3>2, <3>3
    <2> QED BY <1>1, <2>1, <2>2 DEF SelectRepository
  <1>2. CASE RemoveRepository(r)
    BY <1>2 DEF RemoveRepository
  <1>3. CASE ListRepositories(r)
    BY <1>3 DEF ListRepositories
  <1>4. CASE NextListed(r)
    BY <1>4 DEF NextListed
  <1>5. CASE AllListed(r)
    BY <1>5 DEF AllListed
  <1>6. CASE Enter(r)
    BY <1>6 DEF Enter, WorkIn, Initialize
  <1>7. CASE Leave(r)
    BY <1>7 DEF Leave, Release, ClearsInit
  <1> QED BY <1>1, <1>2, <1>3, <1>4, <1>5, <1>6, <1>7

\* Logins, answers of the client, and the end of the stream.
LEMMA ServerStep ==
    ASSUME Inv,
           \/ \E r \in Req : StartLogin(r) \/ LoginReturns(r) \/ LoginStep(r) \/ Resolve(r)
           \/ ClientGoes \/ ServeStep
    PROVE  Inv'
  <1> USE DesktopOK
      DEF Inv, TypeOK, OneRuns, Selects, Calls, AnswersComeFirst, SelectionIsSaved, GoesTo, Replies,
          reqVars, callVars, serveVars, repoVars
  <1>1. ASSUME NEW r \in Req, StartLogin(r)
        PROVE  Inv'
    BY <1>1 DEF StartLogin
  <1>2. ASSUME NEW r \in Req, LoginReturns(r)
        PROVE  Inv'
    BY <1>2 DEF LoginReturns
  <1>3. ASSUME NEW r \in Req, LoginOpens(r)
        PROVE  Inv'
    BY <1>3 DEF LoginOpens
  <1>4. ASSUME NEW r \in Req, CallOpenExternal(r)
        PROVE  Inv'
    BY <1>4 DEF CallOpenExternal
  <1>5. ASSUME NEW r \in Req, LoginGoesOn(r)
        PROVE  Inv'
    BY <1>5 DEF LoginGoesOn
  <1>6. ASSUME NEW r \in Req, Resolve(r)
        PROVE  Inv'
    BY <1>6 DEF Resolve, Unregister
  <1>7. CASE ClientGoes
    BY <1>7 DEF ClientGoes
  <1>8. CASE EndOfStream
    BY <1>8 DEF EndOfStream
  <1>9. CASE FailPending
    BY <1>9 DEF FailPending
  <1>10. CASE ServeReturns
    BY <1>10 DEF ServeReturns, Drained
  <1> QED BY <1>1, <1>2, <1>3, <1>4, <1>5, <1>6, <1>7, <1>8, <1>9, <1>10
          DEF LoginStep, ServeStep

LEMMA InvStep ==
    ASSUME Inv, [Next]_vars
    PROVE  Inv'
  <1>1. CASE UNCHANGED vars
    BY <1>1 DEF Inv, TypeOK, OneRuns, Selects, Calls, AnswersComeFirst, SelectionIsSaved, vars,
          reqVars, callVars, serveVars, repoVars
  <1>2. CASE Next
    BY <1>2, RequestStep, DirectoryStep, ServerStep DEF Next, Handle
  <1> QED BY <1>1, <1>2

LEMMA Invariance == Spec => []Inv
  BY InvInit, InvStep, PTL DEF Spec

-----------------------------------------------------------------------------
\* The types, who holds the mutex among them, hold at all times.
THEOREM TypeCorrect == Spec => []TypeOK
  <1>1. Inv => TypeOK
    BY DEF Inv
  <1> QED BY <1>1, Invariance, PTL

\* An operation is never moved to another directory, nor given another's
\* answers, by a selection, a removal or a listing (withRepoPathResult, Initialize).
THEOREM RunsAlwaysWhereItStarted == Spec => []RunsWhereItStarted
  <1>1. Inv => RunsWhereItStarted
    BY DEF Inv, OneRuns, RunsWhereItStarted
  <1> QED BY <1>1, Invariance, PTL

\* A restart finds the directory that was selected (SelectRepository,
\* RemoveRepository, loadSelectedRepo).
THEOREM SelectionIsAlwaysSaved == Spec => []SelectionIsSaved
  <1>1. Inv => SelectionIsSaved
    BY DEF Inv
  <1> QED BY <1>1, Invariance, PTL

\* No channel is sent to twice and none after Serve returned, however often the
\* client answers (resolve, failPending, Serve).
THEOREM SendsAreAlwaysSafe == Spec => []SendsAreSafe
  <1>1. Inv => SendsAreSafe
    BY DEF Inv, Calls, SendsAreSafe, OneSendPerCall
  <1> QED BY <1>1, Invariance, PTL

-----------------------------------------------------------------------------
\* Signing in (SignIn): the values of the variables, and which logins have
\* something to report.
Typed ==
    /\ status \in [Session -> Status]
    /\ login \in [Session -> {"no", "authorize", "opening", "callback", "exchange",
                              "backoff", "save", "verify", "end", "closed"}]
    /\ outcome \in [Session -> Result \cup {"none"}]
    /\ \A s \in Session : (outcome[s] # "none") <=> (login[s] \in {"end", "closed"})
    /\ caller \in [Session -> {"no", "waiting", "started", "failed", "stopped"}]
    /\ over \subseteq Session /\ done \subseteq Session /\ opened \subseteq Session
    /\ inbox \in [Session -> {"none", "code", "denied"}]
    /\ quit \in BOOLEAN
    /\ token \in Session \cup {DeviceFlow, NoToken}
    /\ saved \subseteq Session
    /\ device \in {"idle", "wait", "poll", "user", "verify"}
    /\ deviceOver \in BOOLEAN

\* A newer login takes the place of the registered one.
OneRegistered ==
    \A s, t \in Session : status[s] # "none" /\ status[t] # "none" => s = t

\* A login that has not begun is unknown; one that is closed has reported.
Lifecycle ==
    \A s \in Session :
        /\ login[s] = "no" => status[s] = "none" /\ caller[s] = "no"
        /\ login[s] = "closed" => status[s] # "pending"

\* What a login is about to report is true already.
ReportIsTrue == \A s \in Session : outcome[s] = "success" => s \in saved

LoginInv == Typed /\ OneRegistered /\ Lifecycle /\ ReportIsTrue /\ OutcomeIsTrue /\ CallerIsRight

-----------------------------------------------------------------------------
\* The types, with the one registered session, are those of the module.
LEMMA LoginInvTypes ==
    ASSUME LoginInv
    PROVE  SignInTypeOK
  <1> DEFINE R == {s \in Session : status[s] # "none"}
  <1>1. Cardinality(R) <= 1
    <2>1. CASE R = {}
      BY <2>1, FS_EmptySet
    <2>2. CASE R # {}
      <3>1. PICK s \in R : TRUE
        BY <2>2
      <3>2. R = {s}
        BY <3>1 DEF LoginInv, OneRegistered
      <3>3. Cardinality({s}) = 1
        BY FS_Singleton
      <3> QED BY <3>2, <3>3
    <2> QED BY <2>1, <2>2
  <1>2. \A s \in Session : (outcome[s] # "none") = (login[s] \in {"end", "closed"})
    BY DEF LoginInv, Typed
  <1> QED BY <1>1, <1>2 DEF LoginInv, Typed, SignInTypeOK

\* Nothing is registered, reported or saved at the start.
LEMMA LoginInvInit == SignInInit => LoginInv
  BY SignInOK DEF SignInInit, LoginInv, Typed, OneRegistered, Lifecycle, ReportIsTrue,
        OutcomeIsTrue, CallerIsRight, Status, Result

\* The steps of the goroutine of a login, but for its report.
LEMMA GoroutineStep ==
    ASSUME LoginInv, NEW s \in Session,
           Step(s) \/ OpenerReturns(s) \/ BrowserFails(s) \/ Callback(s), ~ EndLogin(s)
    PROVE  LoginInv'
  <1> USE DEF LoginInv, Typed, OneRegistered, Lifecycle, ReportIsTrue, OutcomeIsTrue, CallerIsRight,
              Status, Result, Moves, Ends, loginVars, deviceVars
  <1>1. CASE Authorize(s)
    BY <1>1 DEF Authorize, Request
  <1>2. CASE AwaitCallback(s)
    BY <1>2 DEF AwaitCallback
  <1>3. CASE Exchange(s)
    BY <1>3 DEF Exchange, Request
  <1>4. CASE Backoff(s)
    BY <1>4 DEF Backoff
  <1>5. CASE SaveToken(s)
    BY <1>5 DEF SaveToken
  <1>6. CASE VerifyToken(s)
    BY <1>6 DEF VerifyToken
  <1>7. CASE OpenerReturns(s)
    BY <1>7 DEF OpenerReturns
  <1>8. CASE BrowserFails(s)
    BY <1>8 DEF BrowserFails
  <1>9. CASE Callback(s)
    BY <1>9 DEF Callback
  <1> QED BY <1>1, <1>2, <1>3, <1>4, <1>5, <1>6, <1>7, <1>8, <1>9 DEF Step

\* The steps that write what the session shows.
LEMMA SessionStep ==
    ASSUME LoginInv, NEW s \in Session,
           \/ StartOAuthLogin(s) \/ EndLogin(s) \/ CallerReturns(s)
           \/ GetOAuthLoginStatus(s) \/ CancelOAuthLogin(s)
    PROVE  LoginInv'
  <1> USE DEF LoginInv, Typed, OneRegistered, Lifecycle, ReportIsTrue, OutcomeIsTrue, CallerIsRight,
              Status, Result, Moves, loginVars, deviceVars
  <1>1. CASE StartOAuthLogin(s)
    BY <1>1 DEF StartOAuthLogin, Registers, Registered
  <1>2. CASE EndLogin(s)
    BY <1>2 DEF EndLogin, StatusAfter
  <1>3. CASE CallerReturns(s)
    BY <1>3 DEF CallerReturns, Finished
  <1>4. CASE GetOAuthLoginStatus(s)
    BY <1>4 DEF GetOAuthLoginStatus
  <1>5. CASE CancelOAuthLogin(s)
    BY <1>5 DEF CancelOAuthLogin
  <1> QED BY <1>1, <1>2, <1>3, <1>4, <1>5

\* Time, the end of the program, the user and the device flow.
LEMMA OtherStep ==
    ASSUME LoginInv,
           \/ \E s \in Session : TimePasses(s) \/ ContextEnds(s)
           \/ Quit \/ Logout \/ LoginDevice \/ DeviceStep \/ DeviceTimePasses
    PROVE  LoginInv'
  <1> USE DEF LoginInv, Typed, OneRegistered, Lifecycle, ReportIsTrue, OutcomeIsTrue, CallerIsRight,
              loginVars, deviceVars
  <1>1. ASSUME NEW s \in Session, TimePasses(s) \/ ContextEnds(s)
        PROVE  LoginInv'
    BY <1>1 DEF TimePasses, ContextEnds
  <1>2. CASE Quit
    BY <1>2 DEF Quit
  <1>3. CASE Logout
    BY <1>3 DEF Logout
  <1>4. ASSUME NEW from, NEW to \in {"idle", "wait", "poll", "user", "verify"},
               DeviceGoes(from, to), token' \in {token, DeviceFlow}
        PROVE  LoginInv'
    <2>1. deviceOver' \in BOOLEAN
      BY <1>4 DEF DeviceGoes
    <2> QED BY <1>4, <2>1 DEF DeviceGoes
  <1>5. CASE LoginDevice \/ DeviceStep
    BY <1>4, <1>5 DEF LoginDevice, DeviceStep, WaitInterval, PollToken, StoreDeviceToken,
          VerifyDeviceToken
  <1>6. CASE DeviceTimePasses
    BY <1>6 DEF DeviceTimePasses
  <1> QED BY <1>1, <1>2, <1>3, <1>5, <1>6

LEMMA LoginInvStep ==
    ASSUME LoginInv, [SignInNext]_signInVars
    PROVE  LoginInv'
  <1>1. CASE UNCHANGED signInVars
    BY <1>1 DEF LoginInv, Typed, OneRegistered, Lifecycle, ReportIsTrue, OutcomeIsTrue,
          CallerIsRight, signInVars, loginVars, deviceVars
  <1>2. CASE SignInNext
    BY <1>2, GoroutineStep, SessionStep, OtherStep DEF SignInNext, Step
  <1> QED BY <1>1, <1>2

LEMMA LoginInvariance == SignInSpec => []LoginInv
  BY LoginInvInit, LoginInvStep, PTL DEF SignInSpec

-----------------------------------------------------------------------------
\* The types, at most one registered session among them, hold at all times.
THEOREM SignInTypeCorrect == SignInSpec => []SignInTypeOK
  BY LoginInvariance, LoginInvTypes, PTL

\* A session never shows a success that was not read back from the keyring
\* (login, SaveToken, setOAuthStatus).
THEOREM OutcomeIsAlwaysTrue == SignInSpec => []OutcomeIsTrue
  <1>1. LoginInv => OutcomeIsTrue
    BY DEF LoginInv
  <1> QED BY <1>1, LoginInvariance, PTL

\* What StartOAuthLogin told its caller stays true of the login.
THEOREM CallerIsAlwaysRight == SignInSpec => []CallerIsRight
  <1>1. LoginInv => CallerIsRight
    BY DEF LoginInv
  <1> QED BY <1>1, LoginInvariance, PTL

\* No late report changes what a session ended with (setOAuthStatus).
THEOREM StatusStays == SignInSpec => StatusIsFinal
  <1> DEFINE Final == \A s \in Session : status[s] \in Result => status'[s] \in {status[s], "none"}
  <1>1. ASSUME LoginInv, [SignInNext]_signInVars
        PROVE  Final \/ UNCHANGED signInVars
    <2> USE DEF LoginInv, Typed, Lifecycle, Result, loginVars, deviceVars
    <2> SUFFICES ASSUME SignInNext, NEW t \in Session, status[t] \in Result
                 PROVE  status'[t] \in {status[t], "none"}
      BY <1>1
    <2>1. ASSUME NEW s \in Session, StartOAuthLogin(s)
          PROVE  status'[t] = "none"
      BY <1>1, <2>1 DEF StartOAuthLogin, Registers
    <2>2. ASSUME NEW s \in Session, EndLogin(s)
          PROVE  status'[t] = status[t]
      BY <1>1, <2>2 DEF EndLogin, StatusAfter
    <2>3. ASSUME NEW s \in Session, GetOAuthLoginStatus(s)
          PROVE  status'[t] = status[t]
      BY <1>1, <2>3 DEF GetOAuthLoginStatus
    <2>4. ASSUME NEW s \in Session, CancelOAuthLogin(s)
          PROVE  status'[t] \in {status[t], "none"}
      BY <1>1, <2>4 DEF CancelOAuthLogin
    <2>5. \/ UNCHANGED status
          \/ \E s \in Session : \/ StartOAuthLogin(s) \/ EndLogin(s)
                                \/ GetOAuthLoginStatus(s) \/ CancelOAuthLogin(s)
      BY DEF SignInNext, Step, Authorize, AwaitCallback, Exchange, Request, Backoff, SaveToken,
            VerifyToken, OpenerReturns, BrowserFails, Callback, CallerReturns, TimePasses,
            ContextEnds, Quit, Logout, LoginDevice, DeviceStep, WaitInterval, PollToken,
            StoreDeviceToken, VerifyDeviceToken, DeviceGoes, DeviceTimePasses
    <2> QED BY <2>1, <2>2, <2>3, <2>4, <2>5
  <1> QED BY <1>1, LoginInvariance, PTL DEF SignInSpec, StatusIsFinal
=============================================================================
