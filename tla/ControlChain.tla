---------------------------- MODULE ControlChain ----------------------------
(***************************************************************************)
(* Devices changing the member list through storage nobody trusts and      *)
(* which has no compare-and-swap (pkg/wsp/chain.go, pkg/wsp/checkpoint.go, *)
(* app/workspace.go, app/members.go).                                      *)
(*                                                                         *)
(* A process (a CLI invocation, or the desktop app) of a device reads the  *)
(* device's checkpoint, loads and verifies the Control DAG, records its    *)
(* heads under the file lock, and works from that view: it publishes a     *)
(* successor of the only head, or joins competing heads.  After publishing *)
(* it loads the DAG again to find out whether another admin published at   *)
(* the same time.  Processes interleave between any two of these steps,    *)
(* and may fail or be killed at each.                                      *)
(*                                                                         *)
(* Bounds: Digest bounds the Controls that are ever stored, MaxForeign the *)
(* ones other software stored, and Changes says which member changes an    *)
(* instance runs.                                                          *)
(***************************************************************************)
EXTENDS ControlDag

CONSTANTS
    Proc,          \* processes
    DeviceOf,      \* [Proc -> Device]
    Lagging,       \* TRUE: a load may miss stored objects; FALSE: it sees all
    Changes,       \* the member changes that are asked for
    MaxForeign     \* how many Controls other software may store

ASSUME ProcOK ==
    /\ DeviceOf \in [Proc -> Device]
    /\ Lagging \in BOOLEAN
    /\ Changes \subseteq {"approve", "remove", "promote", "demote"}
    /\ MaxForeign \in Nat

VARIABLES
    dag,        \* storage: the stored Controls, by digest
    cp,         \* checkpoint file of each device: the accepted Control heads
    proc,       \* what each process is doing
    foreign,    \* the stored Controls this program did not publish
    settled     \* Controls whose author was told that the change took effect

vars == <<dag, cp, proc, foreign, settled>>

Stored == DOMAIN dag

Phase == {"idle", "snap", "loaded", "open", "published", "resolved"}

Idle == [phase |-> "idle", snap |-> {}, view |-> {}, own |-> {}]

\* The type invariant, with the shape of a process in each phase: a view that
\* was loaded holds the genesis, and a process that published knows what.
TypeOK ==
    /\ Genesis \in Stored /\ Stored \subseteq Digest
    /\ dag \in [Stored -> Control]
    /\ cp \in [Device -> SUBSET Stored]
    /\ proc \in [Proc -> [phase : Phase, snap : SUBSET Stored,
                          view : SUBSET Stored, own : SUBSET Stored]]
    /\ \A p \in Proc :
          /\ proc[p].phase = "idle" => proc[p] = Idle
          /\ proc[p].phase \in {"loaded", "open"} => Genesis \in proc[p].view
          /\ proc[p].phase \in {"published", "resolved"} => proc[p].own # {}
    /\ foreign \subseteq Stored
    /\ settled \in [Device -> SUBSET Stored]

Init ==
    /\ \E r \in Recipient : dag = [d \in {Genesis} |-> GenesisControl(r)]
    /\ cp = [x \in Device |-> {}]
    /\ proc = [p \in Proc |-> Idle]
    /\ foreign = {}
    /\ settled = [x \in Device |-> {}]

-----------------------------------------------------------------------------
\* What a load may be shown: every stored object, or, from storage that lags,
\* any of them as long as the genesis can be fetched.
Shown ==
    IF Lagging THEN {seen \in SUBSET Stored : Genesis \in seen} ELSE {Stored}

Moves(p, r) == proc' = [proc EXCEPT ![p] = r]

\* Storing an object under its digest.  Signing the same Control twice gives
\* the same bytes with Ed25519 and new ones with P-256.
Put(d, c) ==
    /\ d \in Digest
    /\ d \in Stored => dag[d] = c
    /\ dag' = [x \in Stored \cup {d} |-> IF x = d THEN c ELSE dag[x]]

\* verifyControl, first step: the accepted heads are read from the checkpoint.
ReadCheckpoint(p) ==
    /\ proc[p].phase = "idle"
    /\ Moves(p, [Idle EXCEPT !.phase = "snap", !.snap = cp[DeviceOf[p]]])
    /\ UNCHANGED <<dag, cp, foreign, settled>>

\* LoadControl against those heads: a view without one of them is a rollback,
\* and the operation fails (Return).
LoadControl(p) ==
    /\ proc[p].phase = "snap"
    /\ \E seen \in Shown :
          /\ proc[p].snap \subseteq Accepted(dag, seen)
          /\ Moves(p, [proc[p] EXCEPT !.phase = "loaded", !.snap = {},
                                      !.view = Accepted(dag, seen)])
    /\ UNCHANGED <<dag, cp, foreign, settled>>

\* (Variant of NothingMissing, for mutation: no comparison under the lock.)
AnyView(x, view) == TRUE

\* Checkpoints.AcceptControl compares the view again with what the file holds
\* by now, under the lock.
NothingMissing(x, view) == cp[x] \subseteq view

\* (Variant of OwnInView, for mutation: the reload is not looked at.)
OwnOrNot(r) == r.own # {}

\* In the second half of a member change the view must also hold the Control
\* just published (acceptControlHead).
OwnInView(r) == r.own # {} /\ r.own \subseteq r.view

AcceptControl(p) ==
    LET x == DeviceOf[p] IN
    /\ proc[p].phase = "loaded"
    /\ NothingMissing(x, proc[p].view)
    /\ cp' = [cp EXCEPT ![x] = Heads(dag, proc[p].view)]
    /\ Moves(p, IF proc[p].own = {} THEN [proc[p] EXCEPT !.phase = "open"] ELSE Idle)
    /\ settled' = [settled EXCEPT ![x] = @ \cup IF OwnInView(proc[p]) THEN proc[p].own ELSE {}]
    /\ UNCHANGED <<dag, foreign>>

-----------------------------------------------------------------------------
\* The edits of the principal list c an admin can ask for: ApproveMember of a
\* new device or of a member's new recipient, RemoveMember, SetAdmin.  Those
\* that would leave no admin are refused (requireAdmin).
Approved(c) == {[c EXCEPT !.key[m] = r] : m \in Device, r \in Recipient} \ {c}

Removed(c) ==
    {[c EXCEPT !.key[m] = NoKey, !.admins = @ \ {m}] : m \in Members(c)}

Promoted(c) == {[c EXCEPT !.admins = @ \cup {m}] : m \in Members(c)}

Demoted(c) == {[c EXCEPT !.admins = @ \ {m}] : m \in Members(c)}

Edits(c) ==
    {e \in UNION {CASE k = "approve" -> Approved(c)
                    [] k = "remove" -> Removed(c)
                    [] k = "promote" -> Promoted(c)
                    [] k = "demote" -> Demoted(c) : k \in Changes} :
        e.admins # {}}

\* changeMembers and UpdateControl, up to publishing: the view has one head
\* and this device is an admin of it.
ChangeMembers(p) ==
    LET x == DeviceOf[p] IN
    /\ proc[p].phase = "open"
    /\ \E h \in Heads(dag, proc[p].view), d \in Digest :
          /\ Heads(dag, proc[p].view) = {h}
          /\ x \in dag[h].admins
          /\ \E e \in Edits(dag[h]) :
                /\ VerifyChild(dag, Successor(dag, {h}, x, e.key, e.admins))
                /\ Put(d, Successor(dag, {h}, x, e.key, e.admins))
          /\ Moves(p, [proc[p] EXCEPT !.phase = "published", !.view = {}, !.own = {d}])
    /\ UNCHANGED <<cp, foreign, settled>>

\* (Variant of ListedByAll, for mutation: the union ResolveFork starts from.)
ListedBySome(H, m) == \E h \in H : m \in Members(dag[h])

\* The join ResolveControlFork makes of the heads H: the principals every head
\* lists, with the admin rights every head grants.  ResolveFork copies the
\* entries in the order of the digests, so a recipient comes from the last
\* head, here any of them.
ListedByAll(H, m) == \A h \in H : m \in Members(dag[h])

JoinedKey(H, last) ==
    [m \in Device |-> IF ListedByAll(H, m) THEN dag[last].key[m] ELSE NoKey]

JoinedAdmins(H) == {m \in Device : \A h \in H : m \in dag[h].admins}

Resolution(H, last, x) == Successor(dag, H, x, JoinedKey(H, last), JoinedAdmins(H))

\* ResolveControlFork and ResolveFork, up to publishing: this device is an
\* admin of every competing head.
ResolveControlFork(p) ==
    LET x == DeviceOf[p]
        H == Heads(dag, proc[p].view)
    IN
    /\ proc[p].phase = "open"
    /\ Forked(dag, proc[p].view)
    /\ \A h \in H : x \in dag[h].admins
    /\ \E last \in H, d \in Digest :
          /\ VerifyChild(dag, Resolution(H, last, x))
          /\ Put(d, Resolution(H, last, x))
          /\ Moves(p, [proc[p] EXCEPT !.phase = "resolved", !.view = {}, !.own = {d}])
    /\ UNCHANGED <<cp, foreign, settled>>

\* (Variant of HoldsOwnUnforked, for mutation: a fork is not reported.)
HoldsOwn(own, view) == own \subseteq view

\* publishChild loads the DAG again, against the Control it just published,
\* and reports a fork as an error.  A member change then goes on to reload and
\* record the heads (acceptControlHead), a resolution to re-encrypt, which
\* opens a session of its own.
HoldsOwnUnforked(own, view) == own \subseteq view /\ ~ Forked(dag, view)

Reload(p) ==
    /\ proc[p].phase \in {"published", "resolved"}
    /\ \E seen \in Shown : HoldsOwnUnforked(proc[p].own, Accepted(dag, seen))
    /\ Moves(p, [Idle EXCEPT !.phase = "snap", !.snap = cp[DeviceOf[p]],
                             !.own = IF proc[p].phase = "published" THEN proc[p].own ELSE {}])
    /\ UNCHANGED <<dag, cp, foreign, settled>>

\* An operation ends: it is done, one of its checks failed, storage did, or
\* the process was killed.
Return(p) ==
    /\ proc[p].phase # "idle"
    /\ Moves(p, Idle)
    /\ UNCHANGED <<dag, cp, foreign, settled>>

-----------------------------------------------------------------------------
\* Objects in storage that this program would not have published: Controls
\* signed without authority over their parents, or joining heads while
\* granting something.
Store(x, ps, m, r) ==
    LET k == [i \in Device |-> IF i = m THEN r ELSE
                LET L == {p \in ps : i \in Members(dag[p])}
                IN  IF L = {} THEN NoKey ELSE dag[CHOOSE p \in L : TRUE].key[i]]
        as == {m} \cup UNION {dag[p].admins : p \in ps}
    IN  /\ Cardinality(foreign) < MaxForeign
        /\ \E d \in Digest \ Stored :
              /\ Put(d, Successor(dag, ps, x, k, as))
              /\ foreign' = foreign \cup {d}
        /\ UNCHANGED <<cp, proc, settled>>

Next ==
    \/ \E p \in Proc : \/ ReadCheckpoint(p)
                       \/ LoadControl(p)
                       \/ AcceptControl(p)
                       \/ ChangeMembers(p)
                       \/ ResolveControlFork(p)
                       \/ Reload(p)
                       \/ Return(p)
    \/ \E x, m \in Device, ps \in (SUBSET Stored) \ {{}}, r \in Recipient : Store(x, ps, m, r)

Spec == Init /\ [][Next]_vars

-----------------------------------------------------------------------------
View == Accepted(dag, Stored)

\* A change of one head by one of its admins that brings m into the list, or
\* grants m admin rights.
Admits(a, m) ==
    \E p \in dag[a].parents : /\ dag[a].parents = {p}
                              /\ dag[a].author \in dag[p].admins
                              /\ m \notin Members(dag[p]) /\ m \in Members(dag[a])

Promotes(a, m) ==
    \E p \in dag[a].parents : /\ dag[a].parents = {p}
                              /\ dag[a].author \in dag[p].admins
                              /\ m \notin dag[p].admins /\ m \in dag[a].admins

\* Whatever storage holds, a device is a principal of an accepted Control only
\* if an admin of some Control before it admitted that device, and an admin
\* only if it was promoted that way: joining heads grants nothing
\* (checkResolution), and objects without authority are ignored (LoadControl).
MembersWereAdmitted ==
    \A d \in View : \A m \in Device \ {Founder} :
        /\ m \in Members(dag[d]) => \E a \in Past(dag, d) : Admits(a, m)
        /\ m \in dag[d].admins => \E a \in Past(dag, d) : Promotes(a, m)

\* A removal, or the loss of admin rights, stands until an admin who knows of
\* it approves or promotes the device again: no resolution of a fork brings
\* back what one side took away ("nothing is granted by chance",
\* ResolveControlFork).  Controls of other software are not judged.
RevocationsStand ==
    \A d \in View : Past(dag, d) \cap foreign = {} =>
        \A r \in Past(dag, d), m \in Device :
            /\ m \in Members(dag[d]) \ Members(dag[r]) =>
                  \E a \in Past(dag, d) : r \in dag[a].anc /\ Admits(a, m)
            /\ m \in dag[d].admins \ dag[r].admins =>
                  \E a \in Past(dag, d) : r \in dag[a].anc /\ Promotes(a, m)

\* Storage cannot make a device go back: no process, however stale its view,
\* replaces the accepted heads by heads that cover less (AcceptControl).
CheckpointNeverShrinks ==
    [][\A x \in Device : PastOf(dag, cp[x]) \subseteq PastOf(dag', cp'[x])]_vars

\* A change its author was told of stays below the heads that author's device
\* accepts, so storage cannot hide it from that device later ("Record it so
\* storage cannot later hide it", changeMembers).
SettledIsRecorded ==
    \A x \in Device : settled[x] \subseteq PastOf(dag, cp[x])

\* When loads see everything stored, two admins who changed the members at the
\* same time are not both told that it worked, unless a resolution that joins
\* the two changes is stored already.
SettledForksAreJoined ==
    Lagging \/ \A x, y \in Device : \A d \in settled[x], e \in settled[y] :
        \/ d \in Past(dag, e)
        \/ e \in Past(dag, d)
        \/ \E j \in View : {d, e} \subseteq dag[j].anc

\* The comment on UpdateControl: "if another admin published at the same time
\* the result is a *ForkError and the caller must not treat the update as
\* settled".
NoForkIsSettled ==
    \A x, y \in Device : \A d \in settled[x], e \in settled[y] :
        d \in Past(dag, e) \/ e \in Past(dag, d)

\* A membership MembershipUnbroken vouches for was continuous: a device listed
\* at from is listed in every Control on the way from there to head.
UnbrokenIsContinuous ==
    LET view == View IN
    \A head, from \in view : \A m \in Members(dag[from]) :
        MembershipUnbroken(dag, view, head, from, m) =>
            \A d \in Past(dag, head) : from \in Past(dag, d) => m \in Members(dag[d])

\* The loop of LoadControl finds the Controls it is meant to find, whatever
\* storage shows of the DAG.
LoadFindsAccepted ==
    \A seen \in SUBSET Stored :
        Genesis \in seen => AcceptLoop(dag, seen) = Accepted(dag, seen)

\* Both walks over what storage shows find what they are there to find.
WalksAreRight == UnbrokenIsContinuous /\ LoadFindsAccepted

\* "two admins changed the members at the same time; an admin must run 'enbu
\* member resolve-fork'": when the workspace forked, some device can.
ForkHasResolver ==
    Forked(dag, View) =>
        \E x \in Device : \A h \in Heads(dag, View) : x \in dag[h].admins

\* "ResolveControlFork joins competing Control heads [...] keeps only
\* principals every head lists and admin rights every head grants": an admin
\* of every head can publish that join.
ForkCanBeJoined ==
    Forked(dag, View) =>
        \A x \in Device : (\A h \in Heads(dag, View) : x \in dag[h].admins) =>
            \E last \in Heads(dag, View) :
                VerifyChild(dag, Resolution(Heads(dag, View), last, x))

\* The heads of a fork name one recipient for each principal they all list.
HeadsAgree ==
    \A g, h \in Heads(dag, View) :
        \A m \in Members(dag[g]) \cap Members(dag[h]) : dag[g].key[m] = dag[h].key[m]

\* A fork that changed no recipient is not final for an admin of every head:
\* what ResolveFork makes of the heads, in whatever order, passes the check
\* every child has to pass (checkResolution).
AgreedForkCanBeJoined ==
    LET H == Heads(dag, View) IN
    Forked(dag, View) /\ HeadsAgree =>
        \A x \in Device, last \in H :
            (\A h \in H : x \in dag[h].admins) => VerifyChild(dag, Resolution(H, last, x))
=============================================================================
