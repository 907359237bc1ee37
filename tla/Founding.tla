------------------------------ MODULE Founding ------------------------------
(***************************************************************************)
(* How a device comes to trust a workspace (app/init.go, pkg/wsp/trust.go, *)
(* verifyControl in app/workspace.go).  `init' founds a workspace or joins *)
(* the one enbu.toml names; every command checks what enbu.toml names      *)
(* against two local pins, one of the workspace and one of the checkout.   *)
(* Everything is a file or an object of its own, and a process may stop    *)
(* between any two of them.  enbu.toml also changes under the program, by  *)
(* a commit or a checkout, and storage may be emptied.                     *)
(*                                                                         *)
(* One checkout of one device.  Members and keys are the subject of        *)
(* ControlChain and KeyUpdate: a Control is its genesis.                   *)
(*                                                                         *)
(* Bounds: Genesis bounds the foundings, MaxEdits the commits and the      *)
(* emptying of storage, MaxAccepts the uses of --accept-new-genesis,       *)
(* MaxCrashes the processes that stop.                                     *)
(***************************************************************************)
EXTENDS Naturals, FiniteSets

CONSTANTS
    Workspace,
    Genesis,
    Foreign,        \* roots other people founded, which storage holds
    NoGenesis,
    Proc,
    Initializer,    \* the processes that run init
    MaxEdits, MaxAccepts, MaxCrashes

\* A trust root; one without genesis is an enbu.toml that does not name any.
Root == [ws : Workspace, gen : Genesis]
NoRoot == [ws |-> "none", gen |-> NoGenesis]

ASSUME FoundingOK ==
    /\ Foreign \subseteq Root /\ Initializer \subseteq Proc
    /\ NoGenesis \notin Genesis
    /\ MaxEdits \in Nat /\ MaxAccepts \in Nat /\ MaxCrashes \in Nat

VARIABLES
    toml,       \* workspace and genesis of enbu.toml
    wsPin,      \* the genesis this device trusts for each workspace
    repoPin,    \* the root this device trusts for the checkout
    pending,    \* the founding files: root |-> the pin of the checkout it may replace
    stored,     \* the genesis Controls storage holds
    proc,       \* what each process is doing
    authorized, \* the roots this device founded, each with the pin it replaces
    verified,   \* the roots whose genesis was read back from storage
    edits, accepts, crashes

vars == <<toml, wsPin, repoPin, pending, stored, proc, authorized, verified, edits, accepts, crashes>>

Pins == <<wsPin, repoPin>>
Counts == <<edits, accepts, crashes>>

Toml == [ws : Workspace, gen : Genesis \cup {NoGenesis}]

Idle == [phase |-> "idle", init |-> FALSE, cfg |-> NoRoot, accept |-> FALSE,
         founded |-> FALSE, expected |-> NoRoot, recovery |-> FALSE]

Phase == {"idle", "bind", "genesis", "keep", "name", "recover", "publish",
          "check", "load", "pinWorkspace", "pinCheckout", "clean"}

TypeOK ==
    /\ toml \in Toml \cup {NoRoot}
    /\ wsPin \in [Workspace -> Genesis \cup {NoGenesis}]
    /\ repoPin \in Root \cup {NoRoot}
    /\ DOMAIN pending \subseteq Root /\ \A r \in DOMAIN pending : pending[r] \in Root \cup {NoRoot}
    /\ stored \subseteq Root
    /\ \A p \in Proc :
          /\ proc[p].phase \in Phase
          /\ proc[p].cfg \in Toml \cup {NoRoot}
          /\ proc[p].phase \in {"pinWorkspace", "pinCheckout", "clean"} => proc[p].cfg \in verified
          /\ proc[p].recovery => proc[p].cfg \in Root
    /\ DOMAIN authorized \subseteq Root
    /\ verified \subseteq Root
    /\ edits \in 0..MaxEdits /\ accepts \in 0..MaxAccepts /\ crashes \in 0..MaxCrashes

Init ==
    /\ toml = NoRoot
    /\ wsPin = [w \in Workspace |-> NoGenesis] /\ repoPin = NoRoot
    /\ pending = [r \in {} |-> NoRoot] /\ authorized = [r \in {} |-> NoRoot]
    /\ stored = Foreign
    /\ proc = [p \in Proc |-> Idle]
    /\ verified = {}
    /\ edits = 0 /\ accepts = 0 /\ crashes = 0

Moves(p, phase) == proc' = [proc EXCEPT ![p].phase = phase]
Fails(p) == proc' = [proc EXCEPT ![p] = Idle]

WsRoot(w) == IF wsPin[w] = NoGenesis THEN NoRoot ELSE [ws |-> w, gen |-> wsPin[w]]

With(f, r, v) == [x \in DOMAIN f \cup {r} |-> IF x = r THEN v ELSE f[x]]
Without(f, r) == [x \in DOMAIN f \ {r} |-> f[x]]

Unused == Genesis \ {root.gen : root \in DOMAIN authorized \cup Foreign}

-----------------------------------------------------------------------------
\* InitializeRepository reads enbu.toml, or draws the ID of a new workspace.
StartInit(p) ==
    /\ p \in Initializer /\ proc[p].phase = "idle"
    /\ \E accept \in BOOLEAN, w \in Workspace \ {root.ws : root \in Foreign} :
          /\ accept => accepts < MaxAccepts
          /\ accepts' = IF accept THEN accepts + 1 ELSE accepts
          /\ proc' = [proc EXCEPT ![p] =
                [Idle EXCEPT !.phase = "bind", !.init = TRUE, !.accept = accept,
                             !.cfg = IF toml = NoRoot THEN [ws |-> w, gen |-> NoGenesis] ELSE toml]]
    /\ UNCHANGED <<toml, pending, stored, authorized, verified, edits, crashes>> /\ UNCHANGED Pins

\* Any other command, which needs an enbu.toml with a genesis.
Open(p) ==
    /\ proc[p].phase = "idle" /\ toml \in Root
    /\ proc' = [proc EXCEPT ![p] = [Idle EXCEPT !.phase = "check", !.cfg = toml]]
    /\ UNCHANGED <<toml, pending, stored, authorized, verified>> /\ UNCHANGED Pins /\ UNCHANGED Counts

\* The workspace is saved before keys are made for it.
SaveBinding(p) ==
    LET r == proc[p] IN
    /\ r.phase = "bind"
    /\ toml' = r.cfg
    /\ Moves(p, IF r.cfg.gen = NoGenesis THEN "genesis" ELSE "recover")
    /\ UNCHANGED <<pending, stored, authorized, verified>> /\ UNCHANGED Pins /\ UNCHANGED Counts

\* ensureControl, with no genesis named: one is founded only by a device that
\* trusts none for the workspace, in empty storage (and while the bound allows).
NewGenesis(p) ==
    LET w == proc[p].cfg.ws IN
    /\ proc[p].phase = "genesis"
    /\ IF proc[p].accept \/ wsPin[w] # NoGenesis \/ w \in {r.ws : r \in stored} \/ Unused = {}
       THEN Fails(p) /\ UNCHANGED authorized
       ELSE \E g \in Unused :
               LET root == [ws |-> w, gen |-> g] IN
               /\ authorized' = With(authorized, root, repoPin)
               /\ proc' = [proc EXCEPT ![p].phase = "keep", ![p].cfg = root]
    /\ UNCHANGED <<toml, pending, stored, verified>> /\ UNCHANGED Pins /\ UNCHANGED Counts

\* (Variant of KeepPending, for mutation: the file is never renamed into place.)
KeepsNothing(p) ==
    /\ proc[p].phase = "keep"
    /\ Moves(p, "name")
    /\ UNCHANGED <<toml, pending, stored, authorized, verified>> /\ UNCHANGED Pins /\ UNCHANGED Counts

\* The signed bytes are kept in a file before anything names them.
KeepPending(p) ==
    LET root == proc[p].cfg IN
    /\ proc[p].phase = "keep"
    /\ pending' = With(pending, root, authorized[root])
    /\ Moves(p, "name")
    /\ UNCHANGED <<toml, stored, authorized, verified>> /\ UNCHANGED Pins /\ UNCHANGED Counts

NameGenesis(p) ==
    /\ proc[p].phase = "name"
    /\ toml' = proc[p].cfg
    /\ proc' = [proc EXCEPT ![p].phase = "recover", ![p].founded = TRUE]
    /\ UNCHANGED <<pending, stored, authorized, verified>> /\ UNCHANGED Pins /\ UNCHANGED Counts

\* A founding file for the genesis is taken up again, unless the pins say that
\* this checkout or this workspace has moved on.
Recover(p) ==
    LET r == proc[p]
        root == r.cfg
        pinned == WsRoot(root.ws)
    IN
    /\ r.phase = "recover"
    /\ \/ /\ root \notin DOMAIN pending
          /\ Moves(p, "check")
       \/ /\ root \in DOMAIN pending
          /\ ~ r.accept /\ (pinned \notin {NoRoot, root} \/ repoPin \notin {root, pending[root]})
          /\ Fails(p)
       \/ /\ root \in DOMAIN pending
          /\ r.accept \/ (pinned \in {NoRoot, root} /\ repoPin \in {root, pending[root]})
          /\ proc' = [proc EXCEPT ![p] =
                [r EXCEPT !.phase = IF pinned # root THEN "publish" ELSE "check",
                          !.recovery = TRUE,
                          !.founded = ~ r.accept /\ (pinned # root \/ repoPin # root),
                          !.expected = pending[root]]]
    /\ UNCHANGED <<toml, pending, stored, authorized, verified>> /\ UNCHANGED Pins /\ UNCHANGED Counts

PublishGenesis(p) ==
    /\ proc[p].phase = "publish"
    /\ stored' = stored \cup {proc[p].cfg}
    /\ Moves(p, "check")
    /\ UNCHANGED <<toml, pending, authorized, verified>> /\ UNCHANGED Pins /\ UNCHANGED Counts

-----------------------------------------------------------------------------
\* verifyControl: no pin may hold another root, unless it is to be replaced.
CheckPins(p) ==
    LET r == proc[p]
        agrees == /\ r.accept \/ WsRoot(r.cfg.ws) \in {NoRoot, r.cfg}
                  /\ r.accept \/ r.founded \/ repoPin \in {NoRoot, r.cfg}
    IN
    /\ r.phase = "check"
    /\ IF agrees THEN Moves(p, "load") ELSE Fails(p)
    /\ UNCHANGED <<toml, pending, stored, authorized, verified>> /\ UNCHANGED Pins /\ UNCHANGED Counts

\* Only a genesis that was read and verified is pinned.
LoadControl(p) ==
    LET r == proc[p] IN
    /\ r.phase = "load"
    /\ IF r.cfg \in stored
       THEN Moves(p, "pinWorkspace") /\ verified' = verified \cup {r.cfg}
       ELSE Fails(p) /\ UNCHANGED verified
    /\ UNCHANGED <<toml, pending, stored, authorized>> /\ UNCHANGED Pins /\ UNCHANGED Counts

\* (Variant of MayPin, for mutation: whatever is pinned is replaced.)
AlwaysPins(pinned, root, replace, expected) == TRUE

\* TrustRoot.pin, under the lock of the pin's file.
MayPin(pinned, root, replace, expected) ==
    \/ pinned = root
    \/ expected # {} /\ pinned \in expected
    \/ expected = {} /\ (pinned = NoRoot \/ replace)

\* (Variant of PinWorkspace, for mutation: the founding file goes first.)
CleansFirst(p) ==
    LET r == proc[p] IN
    /\ r.phase = "pinWorkspace"
    /\ IF MayPin(WsRoot(r.cfg.ws), r.cfg, r.accept, {})
       THEN /\ wsPin' = [wsPin EXCEPT ![r.cfg.ws] = r.cfg.gen]
            /\ pending' = Without(pending, r.cfg)
            /\ Moves(p, "pinCheckout")
       ELSE Fails(p) /\ UNCHANGED <<wsPin, pending>>
    /\ UNCHANGED <<toml, repoPin, stored, authorized, verified>> /\ UNCHANGED Counts

PinWorkspace(p) ==
    LET r == proc[p] IN
    /\ r.phase = "pinWorkspace"
    /\ IF MayPin(WsRoot(r.cfg.ws), r.cfg, r.accept, {})
       THEN /\ wsPin' = [wsPin EXCEPT ![r.cfg.ws] = r.cfg.gen]
            /\ Moves(p, "pinCheckout")
       ELSE Fails(p) /\ UNCHANGED wsPin
    /\ UNCHANGED <<toml, repoPin, pending, stored, authorized, verified>> /\ UNCHANGED Counts

\* A founding may replace the pin its file names, and nothing else.
PinCheckout(p) ==
    LET r == proc[p]
        expected == IF r.founded /\ ~ r.accept THEN {r.expected} ELSE {}
    IN
    /\ r.phase = "pinCheckout"
    /\ IF MayPin(repoPin, r.cfg, r.accept \/ r.founded, expected)
       THEN /\ repoPin' = r.cfg
            /\ Moves(p, "clean")
       ELSE Fails(p) /\ UNCHANGED repoPin
    /\ UNCHANGED <<toml, wsPin, pending, stored, authorized, verified>> /\ UNCHANGED Counts

\* The founding file goes last.
RemovePending(p) ==
    LET r == proc[p] IN
    /\ r.phase = "clean"
    /\ pending' = IF r.recovery THEN Without(pending, r.cfg) ELSE pending
    /\ Fails(p)
    /\ UNCHANGED <<toml, stored, authorized, verified>> /\ UNCHANGED Pins /\ UNCHANGED Counts

-----------------------------------------------------------------------------
\* The process is killed, or a request fails (also after it took effect).
Crash(p) ==
    /\ proc[p].phase # "idle"
    /\ crashes < MaxCrashes
    /\ crashes' = crashes + 1
    /\ Fails(p)
    /\ UNCHANGED <<toml, pending, stored, authorized, verified, edits, accepts>> /\ UNCHANGED Pins

\* A commit or a checkout of another branch replaces enbu.toml (external).
EditToml ==
    /\ edits < MaxEdits
    /\ edits' = edits + 1
    /\ toml' \in {NoRoot} \cup {[ws |-> w, gen |-> NoGenesis] : w \in Workspace} \cup stored
    /\ toml' # toml
    /\ UNCHANGED <<pending, stored, proc, authorized, verified, accepts, crashes>> /\ UNCHANGED Pins

\* Somebody empties the storage location of a workspace (external).
EmptyStorage ==
    /\ edits < MaxEdits
    /\ edits' = edits + 1
    /\ \E w \in Workspace : stored' = {r \in stored : r.ws # w} /\ stored' # stored
    /\ UNCHANGED <<toml, pending, proc, authorized, verified, accepts, crashes>> /\ UNCHANGED Pins

Step(p) ==
    \/ SaveBinding(p) \/ NewGenesis(p) \/ KeepPending(p) \/ NameGenesis(p)
    \/ Recover(p) \/ PublishGenesis(p) \/ CheckPins(p) \/ LoadControl(p)
    \/ PinWorkspace(p) \/ PinCheckout(p) \/ RemovePending(p)

Next ==
    \/ \E p \in Proc : StartInit(p) \/ Open(p) \/ Step(p) \/ Crash(p)
    \/ EditToml \/ EmptyStorage

\* A process that runs takes its next step (no step waits for another), and the
\* user runs init again, whatever other commands come between.
Fairness == \A p \in Proc : WF_vars(Step(p)) /\ (p \in Initializer => SF_vars(StartInit(p)))

Spec == Init /\ [][Next]_vars /\ Fairness

-----------------------------------------------------------------------------
\* "trust is never re-rooted silently" (ensureControl): a pinned genesis is
\* replaced only by a process told to accept a new one.
WorkspacePinStays ==
    [][\A w \in Workspace : wsPin[w] \notin {NoGenesis, wsPin'[w]} =>
          \E p \in Proc : proc[p].phase = "pinWorkspace" /\ proc[p].accept]_vars

\* "A matching workspace pin alone is not permission to overwrite a checkout
\* that has since changed roots" (ensureControl): without being told so, only a
\* founding replaces the pin of the checkout, and only the one that stood there
\* when this device founded that root.
CheckoutPinStays ==
    [][repoPin \notin {NoRoot, repoPin'} =>
          \/ \E p \in Proc : proc[p].phase = "pinCheckout" /\ proc[p].accept
          \/ repoPin' \in DOMAIN authorized /\ authorized[repoPin'] = repoPin]_vars

\* No interleaving re-roots a device or a checkout without being told to.
PinsStay == WorkspacePinStays /\ CheckoutPinStays

\* "A disconnect before this point must remain retryable" (ensureControl): once
\* enbu.toml names a root founded here, and nobody changed it or storage, init
\* can go on from what a process left behind.
FoundingIsRetryable ==
    toml \in DOMAIN authorized /\ edits = 0 =>
        /\ WsRoot(toml.ws) \in {NoRoot, toml}
        /\ \/ toml \in DOMAIN pending /\ repoPin \in {toml, pending[toml]}
           \/ toml \in stored /\ WsRoot(toml.ws) = toml /\ repoPin = toml

\* Retried, a founding ends: both pins hold the root enbu.toml names.
FoundingEnds == [](edits = 0) => <>(toml \in Root /\ WsRoot(toml.ws) = toml /\ repoPin = toml)
=============================================================================
