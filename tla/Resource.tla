------------------------------ MODULE Resource ------------------------------
(***************************************************************************)
(* One environment's secrets (app/workspace.go, app/secrets.go,            *)
(* app/members.go, pkg/wsp/state.go).  Devices read, merge and publish     *)
(* revisions in storage nobody trusts and which has no compare-and-swap,   *)
(* while admins change the member list below them.                         *)
(*                                                                         *)
(* The member list is a sequence here: forks stop every operation and are  *)
(* the subject of ControlChain.  A Control is its number, and sessions see *)
(* the newest one.  Revisions of non-members, compaction and a member's    *)
(* new recipient are left out; so are the attempt counters: a process may  *)
(* give up whenever it is about to try again.                              *)
(*                                                                         *)
(* Bounds: Rev bounds the revisions stored, Value the edits (each writes a *)
(* value of its own), MaxControls the member lists, and Kinds says which   *)
(* operations an instance runs.                                            *)
(***************************************************************************)
EXTENDS Naturals, Sequences, FiniteSets, RevisionDag, Merge

CONSTANTS
    Device,
    Admin,         \* the device that changes members, never removed
    Proc,          \* processes
    DeviceOf,      \* [Proc -> Device]
    Rev,           \* digests of revisions
    Lagging,       \* TRUE: a listing may miss stored revisions
    FirstMembers,  \* the member list at the start
    MaxControls,   \* how many member lists there can be
    Kinds          \* the operations that are started

ASSUME ResourceOK ==
    /\ FirstMembers \subseteq Device
    /\ Admin \in FirstMembers
    /\ DeviceOf \in [Proc -> Device]
    /\ Lagging \in BOOLEAN
    /\ MaxControls \in Nat \ {0}

VARIABLES
    members,    \* the member lists, oldest first
    states,     \* storage: the stored revisions
    cp,         \* each device's checkpoint of this resource
    proc,       \* what each process is doing
    settled,    \* the edits whose process was told that they were saved
    sealed      \* the last Control everything was re-encrypted for

vars == <<members, states, cp, proc, settled, sealed>>

Stored == DOMAIN states

Control == 1..Len(members)

Current == Len(members)

\* A revision.  `op' and `keys' are not in the code's State: they say which
\* operation published it and which keys that operation set, for properties.
OpKind == {"none", "set", "delete", "sync", "look", "resolve", "remove", "revoke", "approve"}

State ==
    [parents : SUBSET Rev, anc : SUBSET Rev, author : Device, control : Nat,
     secrets : Map, op : OpKind, keys : SUBSET Key]

Op == [kind : OpKind, key : SUBSET Key, value : Value \cup {Deleted}, who : SUBSET Device]

NoOp == [kind |-> "none", key |-> {}, value |-> Deleted, who |-> {}]

Phase == {"idle", "open", "read", "accept", "looked", "recheck", "write",
          "publish", "published", "reload", "record", "members"}

Idle == [phase |-> "idle", op |-> NoOp, control |-> 0, view |-> {}, heads |-> {},
         conflicts |-> {}, secrets |-> EmptyMap, keys |-> {}, seen |-> {},
         published |-> {}, own |-> {}, seals |-> FALSE]

TypeOK ==
    /\ members \in Seq(SUBSET Device) /\ Len(members) \in 1..MaxControls
    /\ Stored \subseteq Rev
    /\ states \in [Stored -> State] /\ \A d \in Stored : states[d].control \in Control
    /\ cp \in [Device -> [heads : SUBSET Stored, control : {0} \cup Control]]
    /\ \A p \in Proc :
          /\ proc[p].phase \in Phase
          /\ proc[p].op \in Op
          /\ proc[p].control \in {0} \cup Control
          /\ proc[p].view \subseteq Stored
          /\ proc[p].heads \subseteq Stored
          /\ proc[p].conflicts \subseteq Key /\ proc[p].keys \subseteq Key
          /\ proc[p].secrets \in Map
          /\ proc[p].seen \subseteq Stored
          /\ proc[p].published \subseteq Stored
          /\ proc[p].own \subseteq proc[p].published
          /\ proc[p].seals \in BOOLEAN
    /\ settled \subseteq [rev : Stored, key : Key, value : Value]
    /\ sealed \in Control

Init ==
    /\ members = <<FirstMembers>>
    /\ states = [d \in {} |-> {}]
    /\ cp = [x \in Device |-> [heads |-> {}, control |-> 0]]
    /\ proc = [p \in Proc |-> Idle]
    /\ settled = {}
    /\ sealed = 1

-----------------------------------------------------------------------------
\* MembershipUnbroken along the sequence: m was not removed after `from'.
Unbroken(to, from, m) ==
    /\ from \in 1..to
    /\ \A c \in (from + 1)..to : m \in members[c] \/ m \notin members[c - 1]

\* AuthorIsCurrent
AuthorIsCurrent(c, d) ==
    /\ states[d].author \in members[c]
    /\ Unbroken(c, states[d].control, states[d].author)

\* (Variant of TakenOver, for mutation: whoever accepted it may keep it.)
AcceptedOnce(x, c, d) == d \in cp[x].heads

\* A revision this device accepted while it was itself a member ever since.
TakenOver(x, c, d) == d \in cp[x].heads /\ Unbroken(c, cp[x].control, x)

Trusted(x, c, d) == AuthorIsCurrent(c, d) \/ TakenOver(x, c, d)

\* trustedHeads: a head that is not trusted is set aside and its parents stand
\* in for it, which leaves the trusted revisions nothing trusted lies above.
TrustedHeads(x, c, view) == Uncovered(states, {d \in view : Trusted(x, c, d)})

\* (Variant of WalkTrustedHeads, for mutation: what another one covers stays.)
WalkKeepsCovered(x, c, view) ==
    LET Down(S) == S \cup UNION {states[d].parents \cap view : d \in {e \in S : ~ Trusted(x, c, e)}}
        reached[n \in 0..Cardinality(view)] ==
            IF n = 0 THEN Heads(states, view) ELSE Down(reached[n - 1])
    IN  {d \in reached[Cardinality(view)] : Trusted(x, c, d)}

\* The walk of trustedHeads: from the heads of the view down through the
\* revisions that are not trusted, then without those another one covers.
WalkTrustedHeads(x, c, view) ==
    LET Down(S) == S \cup UNION {states[d].parents \cap view : d \in {e \in S : ~ Trusted(x, c, e)}}
        reached[n \in 0..Cardinality(view)] ==
            IF n = 0 THEN Heads(states, view) ELSE Down(reached[n - 1])
        found == {d \in reached[Cardinality(view)] : Trusted(x, c, d)}
    IN  {d \in found : ~ \E e \in found \ {d} : d \in Past(states, e)}

\* A ciphertext is encrypted for the members of the Control it names.
Readable(x, d) == x \in members[states[d].control]

\* (Variant of KnownBases, for mutation: an unreadable base counts as empty.)
BasesOrEmpty(x, heads) ==
    {IF Readable(x, b) THEN states[b].secrets ELSE EmptyMap : b \in MergeBases(states, heads)}

\* mergeResource: a base the device has no key for is replaced by every head.
KnownBases(x, heads) ==
    UNION {IF Readable(x, b) THEN {states[b].secrets} ELSE {states[h].secrets : h \in heads} :
           b \in MergeBases(states, heads)}

HeadMaps(heads) == {states[h].secrets : h \in heads}

-----------------------------------------------------------------------------
Moves(p, r) == proc' = [proc EXCEPT ![p] = r]

\* LoadStates and CheckStates: what storage lists of the resource, with the
\* revisions this call published and the ancestors of both, fetched by digest.
\* It must hold the heads this device accepted; those it fetches by digest as
\* well when the listing missed them.
Loads(p, known, view) ==
    /\ \E listed \in IF Lagging THEN SUBSET Stored ELSE {Stored} :
          view = PastOf(states, listed \cup known)
    /\ cp[DeviceOf[p]].heads \subseteq view
    /\ \A d \in view : states[d].control <= proc[p].control

\* An operation starts.  An edit writes a value no other edit writes.
Fresh(v) ==
    /\ \A d \in Stored, k \in Key : states[d].secrets[k] # v
    /\ \A q \in Proc : proc[q].op.value # v

Starts(p, op) ==
    /\ op.kind \in Kinds
    /\ proc[p].phase = "idle"
    /\ Moves(p, [Idle EXCEPT !.phase = "open", !.op = op])
    /\ UNCHANGED <<members, states, cp, settled, sealed>>

SetSecret(p) ==
    \E k \in Key, v \in Value :
        /\ Fresh(v)
        /\ Starts(p, [NoOp EXCEPT !.kind = "set", !.key = {k}, !.value = v])

DeleteSecret(p) ==
    \E k \in Key : Starts(p, [NoOp EXCEPT !.kind = "delete", !.key = {k}])

SyncSecrets(p) == Starts(p, [NoOp EXCEPT !.kind = "sync"])

ListConflicts(p) == Starts(p, [NoOp EXCEPT !.kind = "look"])

\* RemoveMember first reads the current states, which accepts them.
RemoveMember(p) ==
    /\ DeviceOf[p] = Admin
    /\ \E m \in Device \ {Admin} : Starts(p, [NoOp EXCEPT !.kind = "remove", !.who = {m}])

ApproveMember(p) ==
    /\ DeviceOf[p] = Admin
    /\ \E m \in Device \ {Admin} : Starts(p, [NoOp EXCEPT !.kind = "approve", !.who = {m}])

\* ResolveSecrets, with the heads that were listed before.
ResolveSecrets(p) ==
    /\ "resolve" \in Kinds
    /\ proc[p].phase = "looked"
    /\ Moves(p, [Idle EXCEPT !.phase = "open", !.op = [NoOp EXCEPT !.kind = "resolve"],
                             !.seen = proc[p].seen])
    /\ UNCHANGED <<members, states, cp, settled, sealed>>

-----------------------------------------------------------------------------
\* openSession: the device is a member of the newest Control.
OpenSession(p) ==
    /\ proc[p].phase = "open"
    /\ DeviceOf[p] \in members[Current]
    /\ Moves(p, [proc[p] EXCEPT !.control = Current,
                    !.phase = IF proc[p].op.kind \in {"approve", "revoke"}
                              THEN "members" ELSE "read"])
    /\ UNCHANGED <<members, states, cp, settled, sealed>>

\* changeResource finds no revision: an edit starts from the empty map, with
\* nothing to look at once more, and a sync or a deletion is done.
ReadNothing(p) ==
    /\ proc[p].phase = "read"
    /\ Loads(p, proc[p].published, {})
    /\ IF proc[p].op.kind = "set"
       THEN /\ Moves(p, [proc[p] EXCEPT !.phase = "write", !.keys = proc[p].op.key,
                            !.secrets = [k \in Key |-> IF k \in proc[p].op.key
                                                       THEN proc[p].op.value ELSE Deleted]])
            /\ UNCHANGED sealed
       ELSE /\ proc[p].op.kind \in {"sync", "delete"}
            /\ Moves(p, Idle)
            /\ sealed' = IF proc[p].seals THEN proc[p].control ELSE sealed
    /\ UNCHANGED <<members, states, cp, settled>>

\* readResource, up to recording the view.  A resolution settles every
\* conflict with one of its candidates.
Choices(conflicts, maps) ==
    {c \in [Key -> Value \cup {Deleted}] :
        \A k \in Key : IF k \in conflicts THEN c[k] \in Side(maps, k) ELSE c[k] = Deleted}

ReadResource(p) ==
    LET x == DeviceOf[p] IN
    /\ proc[p].phase = "read"
    /\ \E view \in (SUBSET Stored) \ {{}} :
          LET heads == TrustedHeads(x, proc[p].control, view)
              bases == KnownBases(x, heads)
              conflicts == Conflicts(bases, HeadMaps(heads))
          IN  /\ Loads(p, proc[p].published, view)
              /\ heads # {}
              /\ \A h \in heads : Readable(x, h)
              /\ \E choice \in IF proc[p].op.kind = "resolve"
                               THEN Choices(conflicts, HeadMaps(heads)) ELSE {EmptyMap} :
                    Moves(p, [proc[p] EXCEPT !.phase = "accept", !.view = view, !.heads = heads,
                                 !.conflicts = conflicts,
                                 !.secrets = Merged(bases, HeadMaps(heads), choice)])
    /\ UNCHANGED <<members, states, cp, settled, sealed>>

\* (Variant of NothingMissing, for mutation: the view is recorded as it is.)
AnyView(p) == TRUE

\* AcceptStates, under the file lock: a view that lacks a head another process
\* of this device accepted meanwhile is read again.
NothingMissing(p) == cp[DeviceOf[p]].heads \subseteq proc[p].view

Records(p, heads) ==
    cp' = [cp EXCEPT ![DeviceOf[p]] = [heads |-> heads, control |-> proc[p].control]]

ReadAgain(p) ==
    /\ proc[p].phase = "accept"
    /\ ~ NothingMissing(p)
    /\ Moves(p, [proc[p] EXCEPT !.phase = "read", !.view = {}, !.heads = {},
                                !.conflicts = {}, !.secrets = EmptyMap])
    /\ UNCHANGED <<members, states, cp, settled, sealed>>

\* (Variant of InRead, for mutation: the change is applied on every attempt.)
NeverInRead(p) == FALSE

\* publishedInRead: an earlier attempt of this call is below what was read.
InRead(p) == proc[p].published \cap PastOf(states, proc[p].heads) # {}

\* What the operation makes of the merged map.
Changed(p) ==
    LET op == proc[p].op IN
    IF op.kind \in {"set", "delete"} /\ ~ InRead(p)
    THEN [k \in Key |-> IF k \in op.key THEN op.value ELSE proc[p].secrets[k]]
    ELSE proc[p].secrets

KeysSet(p) ==
    CASE proc[p].op.kind = "resolve" -> proc[p].conflicts
      [] proc[p].op.kind \in {"set", "delete"} /\ ~ InRead(p) -> proc[p].op.key
      [] OTHER -> {}

\* A deletion of a key that is not there publishes only a merge.
NothingToDo(p) ==
    /\ proc[p].op.kind = "delete"
    /\ ~ InRead(p)
    /\ \A k \in proc[p].op.key : proc[p].secrets[k] = Deleted

\* The end of readResource, and what comes of the merged content: it is shown
\* (ListConflicts), the removal goes on (RemoveMember), conflicts or other
\* heads than the person saw end the call, or the change is applied.
AcceptRead(p) ==
    LET r == proc[p] IN
    /\ r.phase = "accept"
    /\ NothingMissing(p)
    /\ Records(p, r.heads)
    /\ \/ /\ r.op.kind = "look"
          /\ Moves(p, IF r.conflicts = {} THEN Idle
                      ELSE [Idle EXCEPT !.phase = "looked", !.seen = r.heads])
       \/ /\ r.op.kind = "remove"
          /\ Moves(p, [Idle EXCEPT !.phase = "open", !.op = [r.op EXCEPT !.kind = "revoke"]])
       \/ /\ r.op.kind \in {"set", "delete", "sync", "resolve"}
          /\ IF \/ r.op.kind = "resolve" /\ r.heads # r.seen
                \/ r.op.kind # "resolve" /\ r.conflicts # {}
                \/ NothingToDo(p) /\ \A g, h \in r.heads : g = h
             THEN Moves(p, Idle)
             ELSE Moves(p, [r EXCEPT !.phase = "recheck", !.view = {}, !.conflicts = {},
                               !.secrets = Changed(p), !.keys = KeysSet(p)])
    /\ UNCHANGED <<members, states, settled, sealed>>

\* acceptCurrentStates is best effort: RemoveMember goes on without it.
RemoveUnread(p) ==
    /\ proc[p].op.kind = "remove"
    /\ proc[p].phase \in {"open", "read", "accept"}
    /\ Moves(p, [Idle EXCEPT !.phase = "open", !.op = [proc[p].op EXCEPT !.kind = "revoke"]])
    /\ UNCHANGED <<members, states, cp, settled, sealed>>

\* UpdateControl, when nobody else changed the members, then reencryptAll.
ChangeMembers(p) ==
    LET r == proc[p] IN
    /\ r.phase = "members"
    /\ r.control = Current /\ Current < MaxControls
    /\ \/ r.op.kind = "revoke" /\ r.op.who \subseteq members[Current]
          /\ members' = Append(members, members[Current] \ r.op.who)
       \/ r.op.kind = "approve" /\ ~ r.op.who \subseteq members[Current]
          /\ members' = Append(members, members[Current] \cup r.op.who)
    /\ Moves(p, [Idle EXCEPT !.phase = "open", !.op = [NoOp EXCEPT !.kind = "sync"],
                             !.seals = TRUE])
    /\ UNCHANGED <<states, cp, settled, sealed>>

\* changeResource looks once more: heads that appeared are merged now.
HeadsStayed(p, view) ==
    TrustedHeads(DeviceOf[p], proc[p].control, view) = proc[p].heads

Recheck(p) ==
    /\ proc[p].phase = "recheck"
    /\ \E view \in (SUBSET Stored) \ {{}} :
          /\ Loads(p, proc[p].published, view)
          /\ IF HeadsStayed(p, view)
             THEN Moves(p, [proc[p] EXCEPT !.phase = "write"])
             ELSE Moves(p, [proc[p] EXCEPT !.phase = "read", !.heads = {}, !.keys = {},
                                           !.secrets = EmptyMap])
    /\ UNCHANGED <<members, states, cp, settled, sealed>>

\* The session is opened again on the new member list.
Reopened(p) ==
    [proc[p] EXCEPT !.phase = "open", !.control = 0, !.heads = {}, !.keys = {},
                    !.secrets = EmptyMap, !.own = {}]

ControlUnchanged(p) == proc[p].control = Current

\* writeState, one action for each access to storage: the Control is read,
\* the revision is published, the Control is read again.
CheckControl(p) ==
    /\ proc[p].phase = "write"
    /\ Moves(p, IF ControlUnchanged(p) THEN [proc[p] EXCEPT !.phase = "publish"] ELSE Reopened(p))
    /\ UNCHANGED <<members, states, cp, settled, sealed>>

Revision(p) ==
    [parents |-> proc[p].heads, anc |-> PastOf(states, proc[p].heads),
     author |-> DeviceOf[p], control |-> proc[p].control, secrets |-> proc[p].secrets,
     op |-> proc[p].op.kind, keys |-> proc[p].keys]

Publish(p) ==
    /\ proc[p].phase = "publish"
    /\ \E d \in Rev \ Stored :
          /\ states' = [e \in Stored \cup {d} |-> IF e = d THEN Revision(p) ELSE states[e]]
          /\ Moves(p, [proc[p] EXCEPT !.phase = "published", !.own = {d}, !.heads = {},
                          !.keys = {}, !.secrets = EmptyMap,
                          !.published = @ \cup {d}])
    /\ UNCHANGED <<members, cp, settled, sealed>>

\* (Variant of StillUnchanged, for mutation: only looked at before publishing.)
NotCheckedAgain(p) == TRUE

StillUnchanged(p) == proc[p].control = Current

CheckControlAgain(p) ==
    /\ proc[p].phase = "published"
    /\ Moves(p, IF StillUnchanged(p) THEN [proc[p] EXCEPT !.phase = "reload"] ELSE Reopened(p))
    /\ UNCHANGED <<members, states, cp, settled, sealed>>

\* acceptPublished: the new revision is loaded, its view recorded, and the
\* call returns; a rollback another process caused is loaded again.
LoadPublished(p) ==
    /\ proc[p].phase = "reload"
    /\ \E view \in SUBSET Stored :
          /\ Loads(p, proc[p].own, view)
          /\ Moves(p, [proc[p] EXCEPT !.phase = "record", !.view = view,
                          !.heads = TrustedHeads(DeviceOf[p], proc[p].control, view)])
    /\ UNCHANGED <<members, states, cp, settled, sealed>>

AcceptPublished(p) ==
    LET r == proc[p] IN
    /\ r.phase = "record"
    /\ IF NothingMissing(p)
       THEN /\ Records(p, r.heads)
            /\ settled' = settled \cup
                  {[rev |-> d, key |-> k, value |-> r.op.value] :
                     d \in r.own, k \in IF r.op.kind = "set" THEN r.op.key ELSE {}}
            /\ sealed' = IF r.seals THEN r.control ELSE sealed
            /\ Moves(p, Idle)
       ELSE /\ Moves(p, [r EXCEPT !.phase = "reload", !.view = {}, !.heads = {}])
            /\ UNCHANGED <<cp, settled, sealed>>
    /\ UNCHANGED <<members, states>>

\* An operation ends without success: a check or storage failed, the attempts
\* are used up, or the process was killed.
Return(p) ==
    /\ proc[p].phase # "idle"
    /\ Moves(p, Idle)
    /\ UNCHANGED <<members, states, cp, settled, sealed>>

Next ==
    \E p \in Proc :
        \/ SetSecret(p) \/ DeleteSecret(p) \/ SyncSecrets(p)
        \/ ListConflicts(p) \/ ResolveSecrets(p)
        \/ RemoveMember(p) \/ ApproveMember(p)
        \/ OpenSession(p) \/ ReadNothing(p) \/ ReadResource(p)
        \/ ReadAgain(p) \/ AcceptRead(p) \/ RemoveUnread(p) \/ ChangeMembers(p)
        \/ Recheck(p) \/ CheckControl(p) \/ Publish(p) \/ CheckControlAgain(p)
        \/ LoadPublished(p) \/ AcceptPublished(p) \/ Return(p)

Spec == Init /\ [][Next]_vars

-----------------------------------------------------------------------------
\* What device x reads when storage shows everything.
HeadsFor(x) == TrustedHeads(x, Current, Stored)

BasesFor(x) == KnownBases(x, HeadsFor(x))

ReadFor(x) == Merged(BasesFor(x), HeadMaps(HeadsFor(x)), EmptyMap)

CanRead(x) == x \in members[Current] /\ \A h \in HeadsFor(x) : Readable(x, h)

\* "Two people saving at the same time publish side by side and neither update
\* is lost": an edit that was saved, by a device that was not removed since, is
\* what every member reads, or waits as a conflict, or somebody who had it
\* before them set the key again.
EditsSurvive ==
    \A e \in settled, x \in Device :
        CanRead(x) /\ AuthorIsCurrent(Current, e.rev) =>
            \/ e.key \in Conflicts(BasesFor(x), HeadMaps(HeadsFor(x)))
            \/ ReadFor(x)[e.key] = e.value
            \/ \E a, c \in PastOf(states, HeadsFor(x)) :
                  /\ states[a].op = "set" /\ states[a].secrets[e.key] = e.value
                  /\ e.key \in states[a].keys
                  /\ a \in states[c].anc /\ e.key \in states[c].keys

\* A merge takes no side: whatever a head changed since the merge base, even
\* one the device has no key for, is in the result or in conflict.
MergesLoseNothing ==
    \A x \in Device : CanRead(x) =>
        LET heads == HeadsFor(x) IN
        \A h \in heads, b \in MergeBases(states, heads), k \in Key :
            \/ states[h].secrets[k] = states[b].secrets[k]
            \/ ReadFor(x)[k] = states[h].secrets[k]
            \/ k \in Conflicts(BasesFor(x), HeadMaps(heads))

\* An edit is applied once: a call that is run again because the members
\* changed does not undo what others built on its first revision.
EditAppliedOnce ==
    \A d \in Stored : \A e \in states[d].anc : \A k \in states[d].keys \cap states[e].keys :
        states[d].op = "set" /\ states[e].op = "set" =>
            states[d].secrets[k] # states[e].secrets[k]

\* After the members changed and everything was re-encrypted, nothing that a
\* present member saved is left encrypted for the old members (when listings
\* are complete).  What a removed one saved, the admin did not read and another
\* member accepted stays as it is until that member writes.
SavedIsSealed ==
    Lagging \/ \A x \in members[Current], e \in settled :
        AuthorIsCurrent(Current, e.rev) /\ e.rev \in HeadsFor(x) =>
            states[e.rev].control >= sealed

\* A revision is built on another one only by a witness: its author read it
\* when the other author was still a member, and has been a member since.  So
\* what a removed device left unread stays out, also when it is approved again.
BuiltByWitnesses ==
    \A d \in Stored : \A h \in states[d].parents :
        \E c \in states[h].control..states[d].control :
            /\ Unbroken(c, states[h].control, states[h].author)
            /\ Unbroken(states[d].control, c, states[d].author)

\* Storage cannot take back what a device accepted: no process of the device
\* replaces its heads by heads that leave out a revision of a current member.
AcceptedNeverShrinks ==
    [][\A x \in Device : \A h \in cp[x].heads :
          h \in PastOf(states', cp'[x].heads) \/ ~ AuthorIsCurrent(cp'[x].control, h)]_vars

\* "An accepted head is later allowed even if its author has been removed": no
\* process drops one either, unless the device itself was removed meanwhile.
AcceptedHeadsStay ==
    [][\A x \in Device : \A h \in cp[x].heads :
          h \in PastOf(states', cp'[x].heads) \/ ~ Unbroken(cp'[x].control, cp[x].control, x)]_vars

\* Looking for the trusted heads from the top finds the highest trusted
\* revisions, whatever part of the history is shown.
WalkFindsTrusted ==
    \A x \in Device, c \in Control, S \in SUBSET Stored :
        LET view == PastOf(states, S) IN
        WalkTrustedHeads(x, c, view) = TrustedHeads(x, c, view)
=============================================================================
