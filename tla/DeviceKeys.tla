----------------------------- MODULE DeviceKeys -----------------------------
(***************************************************************************)
(* The keys of one device in one workspace (pkg/identity/manager.go and    *)
(* signer.go, app/upgrade.go, pkg/wsp/join.go, the requests of             *)
(* app/members.go).  A key is a metadata file in a slot and key material   *)
(* in the keyring.  `init' creates the encryption and the signing key and  *)
(* asks to join; `upgrade' creates a hybrid key in the slot "next" and     *)
(* asks an admin to list it instead of the old one; every session that     *)
(* finds it listed makes it current and keeps the old one as "previous".   *)
(*                                                                         *)
(* Several processes of the device do this at once, under file locks that  *)
(* do not cover all of it, and may stop between any two files.  Control is *)
(* the recipient it lists for the device; ControlChain has its history.    *)
(*                                                                         *)
(* Bounds: Key and SigningKey bound the keys created, MaxChanges the       *)
(* changes of Control, MaxFaults the crashes and failed writes.            *)
(***************************************************************************)
EXTENDS Naturals, FiniteSets

CONSTANTS Key, Hybrid, SigningKey, NoKey, Proc, Nobody, MaxChanges, MaxFaults

ASSUME DeviceKeysOK ==
    /\ Hybrid \subseteq Key /\ Key \cap SigningKey = {}
    /\ NoKey \notin Key \cup SigningKey /\ Nobody \notin Proc
    /\ MaxChanges \in Nat /\ MaxFaults \in Nat

VARIABLES
    slot,       \* the key each metadata file names
    vault,      \* the keys whose material the keyring holds
    made,       \* the keys ever created
    lock,       \* the holder of each lock file
    requests,   \* the requests of the device in storage
    control,    \* the recipient Control lists for the device; NoKey: no member
    proc,       \* what each process is doing
    listed,     \* every recipient Control ever listed for it
    changes, faults

files == <<slot, vault, made>>
shared == <<requests, control, listed, changes>>
vars == <<slot, vault, made, lock, requests, control, listed, proc, changes, faults>>

Slot == {"current", "next", "previous", "signing"}

\* Promotion takes the lock under which the current key is created, and not
\* the one of "next".
LockOf == [create |-> [s \in Slot |-> s], promote |-> [s \in Slot |-> "current"]]

Request == [recipient : Key, replaces : Key \cup {NoKey}]

Idle == [pc |-> "idle", op |-> "none", view |-> NoKey, slot |-> "current",
         key |-> NoKey, new |-> NoKey, ids |-> {}, failed |-> FALSE]

Phase == {"idle", "lock", "stat", "reuse", "save", "pending", "lockPromote", "check",
          "keep", "replace", "load", "loadNext", "loadPrevious", "opened",
          "clean", "ask", "request", "approve"}

Process ==
    [pc : Phase, op : {"none", "init", "session", "upgrade", "own"}, view : Key \cup {NoKey},
     slot : Slot \ {"previous"}, key : Key \cup {NoKey},
     new : Key \cup SigningKey \cup {NoKey}, ids : SUBSET Key, failed : BOOLEAN]

TypeOK ==
    /\ slot \in [Slot -> Key \cup SigningKey \cup {NoKey}]
    /\ \A s \in Slot \ {"signing"} : slot[s] \in Key \cup {NoKey}
    /\ slot["signing"] \in SigningKey \cup {NoKey}
    /\ slot["next"] \in Hybrid \cup {NoKey}
    /\ vault \subseteq made /\ made \subseteq Key \cup SigningKey
    /\ lock \in [Slot -> Proc \cup {Nobody}]
    /\ requests \subseteq Request
    /\ listed \subseteq Key /\ control \in listed \cup {NoKey}
    /\ proc \in [Proc -> Process]
    /\ \A p \in Proc :
        /\ {proc[p].key, proc[p].new} \subseteq made \cup {NoKey}
        /\ proc[p].pc \in {"stat", "reuse", "save"} => lock[proc[p].slot] = p
        /\ proc[p].pc \in {"check", "keep", "replace"} => lock["current"] = p

Init ==
    /\ slot = [s \in Slot |-> NoKey] /\ vault = {} /\ made = {}
    /\ lock = [s \in Slot |-> Nobody]
    /\ requests = {} /\ control = NoKey /\ listed = {}
    /\ proc = [p \in Proc |-> Idle]
    /\ changes = 0 /\ faults = 0

At(p, pc) == proc[p].pc = pc
Goes(p, pc) == proc' = [proc EXCEPT ![p].pc = pc]
Ends(p) == proc' = [proc EXCEPT ![p] = Idle]

\* The lock file stays; the descriptor is closed, also by a crash.
Unlocked(p) == [s \in Slot |-> IF lock[s] = p THEN Nobody ELSE lock[s]]
Release(p) == lock' = Unlocked(p)

FaultsOnce == faults < MaxFaults /\ faults' = faults + 1

\* A metadata file without key material loads like a missing one.
Loadable(s) == {slot[s]} \cap vault

-----------------------------------------------------------------------------
(* Creating a key in a slot: Create, CreateSigner and CreatePending.       *)

Acquire(p) ==
    /\ At(p, "lock") /\ lock[LockOf.create[proc[p].slot]] = Nobody
    /\ lock' = [lock EXCEPT ![LockOf.create[proc[p].slot]] = p]
    /\ Goes(p, "stat")
    /\ UNCHANGED <<files, shared, faults>>

\* (Variant of Exists, for mutation: every init makes a signing key.)
NeverExists(s) == s # "signing" /\ slot[s] # NoKey

Exists(s) == slot[s] # NoKey

\* What comes after the key k was created or reused.
AfterCreate(p, k) ==
    \/ /\ proc[p].slot = "current"
       /\ proc' = [proc EXCEPT ![p].pc = "lock", ![p].slot = "signing", ![p].key = k, ![p].new = NoKey]
    \/ /\ proc[p].slot = "signing"
       /\ proc' = [proc EXCEPT ![p].pc = "clean", ![p].new = NoKey]
    \/ /\ proc[p].slot = "next"
       /\ proc' = [proc EXCEPT ![p].pc = "ask", ![p].key = k, ![p].new = NoKey]

Stat(p) ==
    /\ At(p, "stat") /\ Exists(proc[p].slot)
    /\ Goes(p, "reuse")
    /\ UNCHANGED <<files, lock, shared, faults>>

\* The file may have been promoted since.
Reuse(p) ==
    /\ At(p, "reuse") /\ Release(p)
    /\ IF Loadable(proc[p].slot) # {} THEN AfterCreate(p, slot[proc[p].slot]) ELSE Ends(p)
    /\ UNCHANGED <<files, shared, faults>>

\* Only a key update insists on a hybrid key.
MayMake == [current |-> Key, next |-> Hybrid, signing |-> SigningKey]

\* The key material, for hardware keys the stored seed.
Stored(k) == vault \cup {k}
Erased(k) == vault \ {k}

\* Which of the unused keys is made does not matter, but for their kind.
OneOf(keys) == IF keys = {} THEN {} ELSE {CHOOSE k \in keys : TRUE}
Fresh(s) == OneOf((MayMake[s] \cap Hybrid) \ made) \cup OneOf((MayMake[s] \ Hybrid) \ made)

Generate(p) ==
    /\ At(p, "stat") /\ ~Exists(proc[p].slot)
    /\ \E k \in Fresh(proc[p].slot) :
        /\ vault' = Stored(k) /\ made' = made \cup {k}
        /\ proc' = [proc EXCEPT ![p].pc = "save", ![p].new = k]
    /\ UNCHANGED <<slot, lock, shared, faults>>

\* No backend can hold a new key.
Unavailable(p) ==
    /\ At(p, "stat") /\ ~Exists(proc[p].slot)
    /\ Ends(p) /\ Release(p)
    /\ UNCHANGED <<files, shared, faults>>

Save(p) ==
    /\ At(p, "save")
    /\ slot' = [slot EXCEPT ![proc[p].slot] = proc[p].new]
    /\ Release(p) /\ AfterCreate(p, proc[p].new)
    /\ UNCHANGED <<vault, made, shared, faults>>

SaveFails(p) ==
    /\ At(p, "save") /\ FaultsOnce
    /\ vault' = Erased(proc[p].new)
    /\ Ends(p) /\ Release(p)
    /\ UNCHANGED <<slot, made, shared>>

-----------------------------------------------------------------------------
(* init: the two keys, then a request to join.                             *)

StartInit(p) ==
    /\ At(p, "idle")
    /\ proc' = [proc EXCEPT ![p].pc = "lock", ![p].op = "init"]
    /\ UNCHANGED <<files, lock, shared, faults>>

\* A member has nothing to ask for.  A removed device removes the requests
\* that name another of its keys, where the storage can delete.
Obsolete(p) == {r \in requests : r.replaces = NoKey /\ r.recipient # proc[p].key}

Clean(p) ==
    /\ At(p, "clean")
    /\ IF control # NoKey
       THEN Ends(p) /\ UNCHANGED requests
       ELSE Goes(p, "ask") /\ requests' \in {requests, requests \ Obsolete(p)}
    /\ UNCHANGED <<files, lock, control, listed, changes, faults>>

(* The request of an init, or of an upgrade, which names the recipient to  *)
(* replace.  An admin goes on to approve its own.                          *)
Ask(p) ==
    /\ At(p, "ask")
    /\ requests' = requests \cup {[recipient |-> proc[p].key, replaces |-> proc[p].view]}
    /\ \/ Ends(p)
       \/ proc[p].op = "upgrade" /\ Goes(p, "approve")
    /\ UNCHANGED <<files, lock, control, listed, changes, faults>>

-----------------------------------------------------------------------------
(* An admin approves the one recipient the pending requests name.          *)

\* An update must replace another recipient.
VerifyJoinRequest(r) == r.recipient # r.replaces

ListJoinRequests == {r \in requests : VerifyJoinRequest(r)}

\* (Variant of Pending, for mutation: what is not listed yet is pending.)
PendingStale == {r \in ListJoinRequests : r.recipient # control /\ (control = NoKey => r.replaces = NoKey)}

Pending == {r \in ListJoinRequests :
    IF control = NoKey THEN r.replaces = NoKey
    ELSE r.replaces # NoKey /\ r.replaces = control}

Recipients == {r.recipient : r \in Pending}

Lists(k) ==
    /\ control' = k /\ listed' = listed \cup ({k} \ {NoKey})
    /\ changes < MaxChanges /\ changes' = changes + 1

ApproveMember ==
    /\ \E k \in Recipients : Recipients = {k} /\ Lists(k)
    /\ UNCHANGED <<files, lock, requests, proc, faults>>

RemoveMember ==
    /\ control # NoKey /\ Lists(NoKey)
    /\ UNCHANGED <<files, lock, requests, proc, faults>>

\* The session of the approval is a new one.
ApproveOwn(p) ==
    /\ At(p, "approve") /\ control # NoKey
    /\ \E k \in Recipients : Recipients = {k} /\ Lists(k)
    /\ proc' = [proc EXCEPT ![p].pc = "lockPromote", ![p].op = "own"]
    /\ UNCHANGED <<files, lock, requests, faults>>

ApprovalFails(p) ==
    /\ At(p, "approve")
    /\ Ends(p)
    /\ UNCHANGED <<files, lock, shared, faults>>

-----------------------------------------------------------------------------
(* Opening a session: promote an approved key, then load what can decrypt. *)

Open(p, op) ==
    /\ At(p, "idle") /\ Exists("signing") /\ control # NoKey
    /\ proc' = [proc EXCEPT ![p].pc = "pending", ![p].op = op, ![p].view = control]
    /\ UNCHANGED <<files, lock, shared, faults>>

OpenSession(p) == Open(p, "session")

\* A device whose key is hybrid has nothing to upgrade.
UpgradeIdentity(p) == control \notin Hybrid /\ Open(p, "upgrade")

\* (Variant of IsApproved, for mutation: Control is compared with the current key.)
IsCurrent(p) == Exists("next") /\ slot["current"] = proc[p].view

IsApproved(p) == Exists("next") /\ slot["next"] = proc[p].view

PendingInfo(p) ==
    /\ At(p, "pending")
    /\ Goes(p, IF IsApproved(p) THEN "lockPromote" ELSE "load")
    /\ UNCHANGED <<files, lock, shared, faults>>

AcquireToPromote(p) ==
    /\ At(p, "lockPromote") /\ lock[LockOf.promote["next"]] = Nobody
    /\ lock' = [lock EXCEPT ![LockOf.promote["next"]] = p]
    /\ Goes(p, "check")
    /\ UNCHANGED <<files, shared, faults>>

\* A failed promotion does not end a session; the approval of its own update
\* was all an upgrade had left.
AfterPromote(p, fails) ==
    /\ Release(p)
    /\ IF proc[p].op = "own" THEN Ends(p)
       ELSE proc' = [proc EXCEPT ![p].pc = "load", ![p].failed = fails]

\* (Variant of Older, for mutation: a rerun deletes the previous key without comparing.)
OlderAlways == {slot["previous"]}

\* The previous slot may hold the current key already.
Older == IF slot["previous"] = slot["current"] THEN {} ELSE {slot["previous"]}

Check(p) ==
    /\ At(p, "check")
    /\ IF Exists("next")
       THEN /\ vault' = vault \ Older
            /\ Goes(p, "keep") /\ UNCHANGED lock
       ELSE AfterPromote(p, TRUE) /\ UNCHANGED vault
    /\ UNCHANGED <<slot, made, shared, faults>>

Kept(s) == [s EXCEPT !["previous"] = s["current"]]

KeepCurrent(p) ==
    /\ At(p, "keep") /\ slot' = Kept(slot)
    /\ Goes(p, "replace")
    /\ UNCHANGED <<vault, made, lock, shared, faults>>

Replace(p) ==
    /\ At(p, "replace")
    /\ slot' = [slot EXCEPT !["current"] = slot["next"], !["next"] = NoKey]
    /\ AfterPromote(p, FALSE)
    /\ UNCHANGED <<vault, made, shared, faults>>

PromoteFails(p) ==
    /\ proc[p].pc \in {"keep", "replace"} /\ FaultsOnce
    /\ AfterPromote(p, TRUE)
    /\ UNCHANGED <<files, shared>>

Load(p) ==
    /\ At(p, "load")
    /\ IF Loadable("current") = {} THEN Ends(p)
       ELSE proc' = [proc EXCEPT ![p].pc = "loadNext", ![p].ids = Loadable("current")]
    /\ UNCHANGED <<files, lock, shared, faults>>

\* (Variant of LoadRetained, for mutation: only the current key is loaded.)
LoadCurrentOnly(p, s) == proc[p].ids

LoadRetained(p, s) == proc[p].ids \cup Loadable(s)

LoadNext(p) ==
    /\ At(p, "loadNext")
    /\ proc' = [proc EXCEPT ![p].pc = "loadPrevious", ![p].ids = LoadRetained(p, "next")]
    /\ UNCHANGED <<files, lock, shared, faults>>

LoadPrevious(p) ==
    /\ At(p, "loadPrevious")
    /\ proc' = [proc EXCEPT ![p].pc = "opened", ![p].ids = LoadRetained(p, "previous")]
    /\ UNCHANGED <<files, lock, shared, faults>>

CloseSession(p) ==
    /\ At(p, "opened") /\ proc[p].op = "session"
    /\ Ends(p)
    /\ UNCHANGED <<files, lock, shared, faults>>

\* The session of an upgrade saw the old key listed, maybe long ago.
CreatePending(p) ==
    /\ At(p, "opened") /\ proc[p].op = "upgrade"
    /\ proc' = [proc EXCEPT ![p] = [Idle EXCEPT !.pc = "lock", !.op = "upgrade",
                                                !.slot = "next", !.view = proc[p].view]]
    /\ UNCHANGED <<files, lock, shared, faults>>

\* A process stops; its locks go with it.
Stop(p) ==
    /\ ~At(p, "idle") /\ FaultsOnce
    /\ Ends(p) /\ Release(p)
    /\ UNCHANGED <<files, shared>>

-----------------------------------------------------------------------------
Creates(p) == Stat(p) \/ Reuse(p) \/ Generate(p) \/ Unavailable(p) \/ Save(p) \/ SaveFails(p)

Promotes(p) == PendingInfo(p) \/ Check(p) \/ KeepCurrent(p) \/ Replace(p) \/ PromoteFails(p)

Loads(p) == Load(p) \/ LoadNext(p) \/ LoadPrevious(p) \/ CloseSession(p) \/ CreatePending(p)

Asks(p) == Clean(p) \/ Ask(p) \/ ApproveOwn(p) \/ ApprovalFails(p)

\* The steps of a running process.
Runs(p) == Creates(p) \/ Promotes(p) \/ Loads(p) \/ Asks(p)

Next ==
    \/ \E p \in Proc :
        \/ StartInit(p) \/ OpenSession(p) \/ UpgradeIdentity(p)
        \/ Acquire(p) \/ AcquireToPromote(p) \/ Runs(p) \/ Stop(p)
    \/ ApproveMember \/ RemoveMember

(* Processes run on, somebody keeps using the device, and a process that   *)
(* waits for a lock gets it: its holders are short.                        *)
Spec ==
    /\ Init /\ [][Next]_vars
    /\ SF_vars(\E p \in Proc : OpenSession(p))
    /\ \A p \in Proc : WF_vars(Runs(p)) /\ SF_vars(Acquire(p) \/ AcquireToPromote(p))

-----------------------------------------------------------------------------
(* What the keys must satisfy.                                             *)

\* Once anything names a key of the device, the current key can be loaded, also
\* between the steps of a promotion and after one that stopped ("the current
\* identity exists at every point", manager.go:590).
CurrentIsThere ==
    requests # {} \/ control # NoKey => Loadable("current") # {}

\* Until the device makes a second hybrid key, which may be promoted in the
\* place of the first (see PromotedIsListed).
OneUpdate == Cardinality(made \cap Hybrid) <= 1

\* What Control lists for the device can be decrypted by it: the key is in some
\* slot, and a session whose promotion did not fail holds the one its view of
\* Control lists, although others promote while it loads the three slots.
ListedIsHeld ==
    OneUpdate =>
        /\ control # NoKey =>
               \E s \in {"current", "next", "previous"} : control \in Loadable(s)
        /\ \A p \in Proc :
               At(p, "opened") /\ ~proc[p].failed => proc[p].view \in proc[p].ids

\* "A stale update, or an old join request, must not swap a key back"
\* (members.go:125): a member's hybrid recipient stays.
NeverSwappedBack ==
    [][(control \in Hybrid) => control' \in {control, NoKey}]_vars

\* The device keeps its signing key, and so its id, whatever runs at once.
OneDevice ==
    [][slot["signing"] # NoKey => slot["signing"] = slot'["signing"]]_vars

\* Material is deleted with the previous key only, or with a creation that
\* failed: never under a key in another slot.
DeletesOnlyPrevious ==
    [][\A k \in vault \ vault', s \in Slot \ {"previous"} : slot[s] # k]_vars

\* While the device is used, a key that stays listed is promoted in the end,
\* after crashes and failed writes.
ApprovedIsPromoted ==
    \A k \in Hybrid :
        control = k /\ slot["next"] = k ~> control # k \/ slot["current"] = k

\* "PromotePending makes the pending identity current once the workspace lists
\* its recipient" (manager.go:542): no other key becomes current.
PromotedIsListed == Exists("previous") => slot["current"] \in listed
=============================================================================
