------------------------------ MODULE SignIn ------------------------------
(***************************************************************************)
(* Signing in to GitHub (pkg/auth, and the login sessions of               *)
(* desktop/service.go).  The desktop runs each login on a goroutine of its *)
(* own, which a newer login, the user, a deadline or the end of the        *)
(* program cancels; the caller of StartOAuthLogin waits for the browser or *)
(* for the end of the login; the browser calls back on a local port; the   *)
(* frontend polls the session.  A device flow of the command line stores   *)
(* its token in the same keyring.                                          *)
(*                                                                         *)
(* A done context fails the next request; a reply that is being waited for *)
(* may come first.  Intervals and delays are left out: they pass.          *)
(*                                                                         *)
(* Bounds: MaxSessions bounds the logins started; the device flow runs     *)
(* beside the first MaxBeside of them only.                                *)
(***************************************************************************)
EXTENDS Naturals, FiniteSets

CONSTANTS MaxSessions, DeviceFlow, NoToken, MaxBeside

Session == 1..MaxSessions   \* in the order of their start

ASSUME SignInOK ==
    /\ DeviceFlow \notin Session /\ NoToken \notin Session \cup {DeviceFlow}
    /\ MaxSessions \in Nat /\ MaxBeside \in Nat

VARIABLES
    status,     \* the session as GetOAuthLoginStatus shows it; "none": not registered
    login,      \* where its goroutine is
    outcome,    \* what the goroutine is about to report
    caller,     \* where StartOAuthLogin is
    over,       \* the running sessions whose deadline has passed
    done,       \* the sessions whose context is done
    opened,     \* the sessions whose browser was opened
    inbox,      \* what the browser reported to a running callback server
    quit,       \* the context of the service is done
    token,      \* whose token the keyring holds
    saved,      \* the logins that read their token back
    device,     \* where the device flow is
    deviceOver  \* the code it polls with expired

loginVars == <<login, outcome, caller, opened, inbox>>
deviceVars == <<device, deviceOver>>
signInVars == <<status, over, done, quit, token, saved, loginVars, deviceVars>>

Status == {"none", "pending", "success", "error", "expired", "denied"}
Result == {"success", "error", "expired", "denied"}

SignInTypeOK ==
    /\ status \in [Session -> Status]
    /\ login \in [Session -> {"no", "authorize", "opening", "callback", "exchange",
                              "backoff", "save", "verify", "end", "closed"}]
    /\ outcome \in [Session -> Result \cup {"none"}]
    /\ \A s \in Session : (outcome[s] # "none") = (login[s] \in {"end", "closed"})
    /\ caller \in [Session -> {"no", "waiting", "started", "failed", "stopped"}]
    /\ Cardinality({s \in Session : status[s] # "none"}) <= 1
    /\ over \subseteq Session /\ done \subseteq Session /\ opened \subseteq Session
    /\ inbox \in [Session -> {"none", "code", "denied"}]
    /\ quit \in BOOLEAN
    /\ token \in Session \cup {DeviceFlow, NoToken}
    /\ saved \subseteq Session
    /\ device \in {"idle", "wait", "poll", "user", "verify"}
    /\ deviceOver \in BOOLEAN

SignInInit ==
    /\ status = [s \in Session |-> "none"] /\ login = [s \in Session |-> "no"]
    /\ outcome = [s \in Session |-> "none"] /\ caller = [s \in Session |-> "no"]
    /\ over = {} /\ done = {} /\ opened = {} /\ saved = {}
    /\ inbox = [s \in Session |-> "none"]
    /\ quit = FALSE /\ token = NoToken
    /\ device = "idle" /\ deviceOver = FALSE

Moves(s, phase) == login' = [login EXCEPT ![s] = phase] /\ UNCHANGED outcome

\* The login returns to the goroutine that StartOAuthLogin started.
Ends(s, result) ==
    /\ login' = [login EXCEPT ![s] = "end"]
    /\ outcome' = [outcome EXCEPT ![s] = result]

Registered == {s \in Session : status[s] # "none"}

-----------------------------------------------------------------------------
Registers(s) == [t \in Session |-> IF t = s THEN "pending" ELSE "none"]

\* A new login cancels the registered one and takes its place.
StartOAuthLogin(s) ==
    /\ login[s] = "no" /\ \A t \in 1..(s - 1) : login[t] # "no"
    /\ device = "idle" \/ s <= MaxBeside
    /\ done' = done \cup Registered \cup (IF quit THEN {s} ELSE {})
    /\ status' = Registers(s)
    /\ caller' = [caller EXCEPT ![s] = "waiting"]
    /\ Moves(s, "authorize")
    /\ UNCHANGED <<over, opened, inbox, quit, token, saved>> /\ UNCHANGED deviceVars

\* A request to the auth server or to GitHub.
Request(s, phase, next) ==
    /\ login[s] = phase
    /\ \/ s \in done /\ Ends(s, "expired")
       \/ s \notin done /\ Ends(s, "error")
       \/ s \notin done /\ Moves(s, next)
    /\ UNCHANGED <<status, caller, over, done, opened, inbox, quit, token, saved>>
    /\ UNCHANGED deviceVars

\* Listening comes first, so that the redirect names the port; then the
\* callback server runs and the opener is called.
Authorize(s) == Request(s, "authorize", "opening")

\* (Variant of MaySignal, for mutation: a channel without a buffer.)
CallerListens(s) == caller[s] = "waiting"

\* The channel that tells the caller holds one signal, and one is sent.
MaySignal(s) == s \notin opened

\* The opener answers: the OS browser started, or the client of the RPC did.
OpenerReturns(s) ==
    /\ login[s] = "opening" /\ MaySignal(s)
    /\ Moves(s, "callback") /\ opened' = opened \cup {s}
    /\ UNCHANGED <<status, caller, over, done, inbox, quit, token, saved>>
    /\ UNCHANGED deviceVars

\* The opener, or the callback server, reports an error.
BrowserFails(s) ==
    /\ login[s] \in {"opening", "callback"}
    /\ Ends(s, "error")
    /\ UNCHANGED <<status, caller, over, done, opened, inbox, quit, token, saved>>
    /\ UNCHANGED deviceVars

\* The callback server runs until the login returns, and delivers once.
Callback(s) ==
    /\ login[s] \in {"opening", "callback", "exchange", "backoff", "save", "verify"}
    /\ inbox[s] = "none"
    /\ \E reply \in {"code", "denied"} : inbox' = [inbox EXCEPT ![s] = reply]
    /\ UNCHANGED <<status, login, outcome, caller, over, done, opened, quit, token, saved>>
    /\ UNCHANGED deviceVars

\* Whichever is ready: the callback or the end of the context.
AwaitCallback(s) ==
    /\ login[s] = "callback"
    /\ \/ inbox[s] = "code" /\ Moves(s, "exchange")
       \/ inbox[s] = "denied" /\ Ends(s, "denied")
       \/ s \in done /\ Ends(s, "expired")
    /\ UNCHANGED <<status, caller, over, done, opened, inbox, quit, token, saved>>
    /\ UNCHANGED deviceVars

\* The code is exchanged and the token's owner asked for.  A rate limit is
\* waited for, when the delay ends before the deadline.
Exchange(s) ==
    \/ Request(s, "exchange", "save")
    \/ s \notin over /\ Request(s, "exchange", "backoff")

Backoff(s) ==
    /\ login[s] = "backoff"
    /\ IF s \in done THEN Ends(s, "expired") ELSE Moves(s, "exchange")
    /\ UNCHANGED <<status, caller, over, done, opened, inbox, quit, token, saved>>
    /\ UNCHANGED deviceVars

\* The keyring does not look at the context.
SaveToken(s) ==
    /\ login[s] = "save"
    /\ \/ Ends(s, "error") /\ UNCHANGED token
       \/ Moves(s, "verify") /\ token' = s
    /\ UNCHANGED <<status, caller, over, done, opened, inbox, quit, saved>>
    /\ UNCHANGED deviceVars

\* (Variant of VerifyToken, for mutation: the token just saved is taken to be there.)
TakesAsSaved(s) ==
    /\ login[s] = "verify"
    /\ Ends(s, "success") /\ saved' = IF token = s THEN saved \cup {s} ELSE saved
    /\ UNCHANGED <<status, caller, over, done, opened, inbox, quit, token>>
    /\ UNCHANGED deviceVars

\* The token is read back; another login's is an error.
VerifyToken(s) ==
    /\ login[s] = "verify"
    /\ \/ Ends(s, "error") /\ UNCHANGED saved
       \/ token = s /\ Ends(s, "success") /\ saved' = saved \cup {s}
    /\ UNCHANGED <<status, caller, over, done, opened, inbox, quit, token>>
    /\ UNCHANGED deviceVars

\* (Variant of StatusAfter, for mutation: the last report wins.)
Reported(s) == IF status[s] = "none" THEN "none" ELSE outcome[s]

\* setOAuthStatus
StatusAfter(s) ==
    IF status[s] # "pending" THEN status[s]
    ELSE IF s \in over THEN "expired" ELSE outcome[s]

EndLogin(s) ==
    /\ login[s] = "end"
    /\ status' = [status EXCEPT ![s] = StatusAfter(s)]
    /\ done' = done \cup {s}
    /\ Moves(s, "closed")
    /\ over' = over \ {s} /\ inbox' = [inbox EXCEPT ![s] = "none"]
    /\ UNCHANGED <<caller, opened, quit, token, saved>>
    /\ UNCHANGED deviceVars

-----------------------------------------------------------------------------
\* (Variant of Finished, for mutation: the login is over, and not yet reported.)
IsOver(s) == login[s] \in {"end", "closed"}

Finished(s) == login[s] = "closed"

\* StartOAuthLogin returns.
CallerReturns(s) ==
    /\ caller[s] = "waiting"
    /\ \/ /\ s \in opened
          /\ caller' = [caller EXCEPT ![s] = "started"] /\ UNCHANGED done
       \/ /\ Finished(s)
          /\ caller' = [caller EXCEPT ![s] = IF status[s] = "success" THEN "started" ELSE "failed"]
          /\ UNCHANGED done
       \/ /\ quit
          /\ caller' = [caller EXCEPT ![s] = "stopped"] /\ done' = done \cup {s}
    /\ UNCHANGED <<status, login, outcome, over, opened, inbox, quit, token, saved>>
    /\ UNCHANGED deviceVars

\* A poll ends a session that is over.
GetOAuthLoginStatus(s) ==
    /\ status[s] = "pending" /\ s \in over
    /\ status' = [status EXCEPT ![s] = "expired"]
    /\ done' = done \cup {s}
    /\ UNCHANGED <<over, quit, token, saved>> /\ UNCHANGED loginVars /\ UNCHANGED deviceVars

CancelOAuthLogin(s) ==
    /\ status[s] # "none" /\ caller[s] # "waiting"
    /\ status' = [status EXCEPT ![s] = "none"]
    /\ done' = done \cup {s}
    /\ UNCHANGED <<over, quit, token, saved>> /\ UNCHANGED loginVars /\ UNCHANGED deviceVars

TimePasses(s) ==
    /\ login[s] \notin {"no", "closed"} /\ s \notin over
    /\ over' = over \cup {s}
    /\ UNCHANGED <<status, done, quit, token, saved>> /\ UNCHANGED loginVars /\ UNCHANGED deviceVars

\* The timer of the context, or the goroutine that watches its parent.
ContextEnds(s) ==
    /\ login[s] # "no" /\ s \notin done
    /\ s \in over \/ quit
    /\ done' = done \cup {s}
    /\ UNCHANGED <<status, over, quit, token, saved>> /\ UNCHANGED loginVars /\ UNCHANGED deviceVars

Quit ==
    /\ ~ quit /\ quit' = TRUE
    /\ UNCHANGED <<status, over, done, token, saved>> /\ UNCHANGED loginVars /\ UNCHANGED deviceVars

Logout ==
    /\ token # NoToken /\ token' = NoToken
    /\ UNCHANGED <<status, over, done, quit, saved>> /\ UNCHANGED loginVars /\ UNCHANGED deviceVars

-----------------------------------------------------------------------------
\* LoginDevice: one command after the other.
DeviceGoes(from, to) ==
    /\ device = from
    /\ device' = to
    /\ deviceOver' = (deviceOver /\ to \in {"wait", "poll"})
    /\ UNCHANGED <<status, over, done, quit, saved>> /\ UNCHANGED loginVars

\* A device code was given and shown; its time starts to run.
LoginDevice ==
    /\ \A s \in Session : login[s] # "no" => s <= MaxBeside
    /\ DeviceGoes("idle", "wait")
    /\ UNCHANGED token

\* The interval passes, or the code expires first.
WaitInterval ==
    /\ IF deviceOver THEN DeviceGoes("wait", "idle") ELSE DeviceGoes("wait", "poll")
    /\ UNCHANGED token

\* Pending and slow_down wait again; every other error ends the flow.
PollToken ==
    /\ DeviceGoes("poll", "wait") \/ DeviceGoes("poll", "user") \/ DeviceGoes("poll", "idle")
    /\ UNCHANGED token

StoreDeviceToken ==
    \/ DeviceGoes("user", "idle") /\ UNCHANGED token
    \/ DeviceGoes("user", "verify") /\ token' = DeviceFlow

VerifyDeviceToken == DeviceGoes("verify", "idle") /\ UNCHANGED token

DeviceTimePasses ==
    /\ device \in {"wait", "poll"} /\ ~ deviceOver
    /\ deviceOver' = TRUE
    /\ UNCHANGED <<status, over, done, quit, token, saved, device>> /\ UNCHANGED loginVars

-----------------------------------------------------------------------------
Step(s) ==
    \/ Authorize(s) \/ AwaitCallback(s) \/ Exchange(s) \/ Backoff(s)
    \/ SaveToken(s) \/ VerifyToken(s) \/ EndLogin(s)

DeviceStep == WaitInterval \/ PollToken \/ StoreDeviceToken \/ VerifyDeviceToken

SignInNext ==
    \/ \E s \in Session :
          \/ StartOAuthLogin(s) \/ Step(s) \/ OpenerReturns(s) \/ BrowserFails(s) \/ Callback(s)
          \/ CallerReturns(s) \/ GetOAuthLoginStatus(s) \/ CancelOAuthLogin(s)
          \/ TimePasses(s) \/ ContextEnds(s)
    \/ Quit \/ Logout
    \/ LoginDevice \/ DeviceStep \/ DeviceTimePasses

\* Goroutines run, requests have timeouts, clocks go on, and the opener answers.
\* Nothing is assumed of the person at the browser.
SignInFairness ==
    /\ \A s \in Session :
          /\ WF_signInVars(Step(s)) /\ WF_signInVars(OpenerReturns(s))
          /\ WF_signInVars(CallerReturns(s))
          /\ WF_signInVars(TimePasses(s)) /\ WF_signInVars(ContextEnds(s))
    /\ WF_signInVars(DeviceStep) /\ WF_signInVars(DeviceTimePasses)

SignInSpec == SignInInit /\ [][SignInNext]_signInVars /\ SignInFairness

-----------------------------------------------------------------------------
\* What a session ended with stays: the late report of a login that was
\* cancelled or is over changes nothing (setOAuthStatus, GetOAuthLoginStatus).
StatusIsFinal ==
    [][\A s \in Session : status[s] \in Result => status'[s] \in {status[s], "none"}]_signInVars

\* Success is shown only of a login whose token was read back from the
\* keyring, which another login may have overwritten meanwhile (login, SaveToken).
OutcomeIsTrue == \A s \in Session : status[s] = "success" => s \in saved

\* What StartOAuthLogin returns is true of the login: a session it gives was
\* shown in a browser or signed in, and one it gives up on is over.
CallerIsRight ==
    \A s \in Session :
        /\ caller[s] = "started" => s \in opened \cup saved
        /\ caller[s] = "failed" => login[s] = "closed" /\ status[s] # "pending"

\* Every login ends, also one whose caller has gone or that nobody completes
\* (the buffered channels of StartOAuthLogin and login, the deadline).
LoginEnds == \A s \in Session : (login[s] # "no") ~> (login[s] = "closed")

\* Every call of StartOAuthLogin returns.
CallerIsAnswered == \A s \in Session : (caller[s] = "waiting") ~> (caller[s] # "waiting")

\* The device flow ends, whatever GitHub answers to the polls.
DeviceFlowEnds == (device # "idle") ~> (device = "idle")

\* Nothing of signing in hangs.
LoginsEnd == LoginEnds /\ CallerIsAnswered /\ DeviceFlowEnds

=============================================================================
