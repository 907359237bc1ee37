----------------------------- MODULE Compaction -----------------------------
(***************************************************************************)
(* Deleting old revisions of one environment (app/compact.go,              *)
(* pkg/wsp/compaction.go) while others read and write it.  An admin        *)
(* publishes signed records of what goes and only then deletes; a device   *)
(* that misses something it accepted looks for a record that excuses it.   *)
(* Processes interleave between any two accesses to storage, deletions     *)
(* happen one by one, and a process may stop anywhere.                     *)
(*                                                                         *)
(* Every author of a revision is a member and every device that compacts   *)
(* an admin: trust in authors is the subject of Resource.  A record of     *)
(* another author lies in storage from the start.  A revision stands for   *)
(* the edit it makes, so its content is its whole past.                    *)
(*                                                                         *)
(* Bounds: Rev bounds the revisions, MaxCompactions the compactions, Keep  *)
(* the values of --keep, RecordSize the revisions one record lists         *)
(* (MaxCompactionRemoved).                                                 *)
(***************************************************************************)
EXTENDS Naturals, FiniteSets, RevisionDag

CONSTANTS
    Device, Proc, DeviceOf, Rev,
    First,           \* the graph at the start
    Behind,          \* the revision of it that every device accepted
    Order,           \* the order of digests
    Lagging,         \* TRUE: a listing may miss stored revisions
    Keep,
    RecordSize,
    MaxCompactions

ASSUME CompactionOK ==
    /\ DeviceOf \in [Proc -> Device]
    /\ DOMAIN First \subseteq Rev /\ IsFiniteSet(DOMAIN First) /\ Behind \in DOMAIN First
    /\ First \in [DOMAIN First -> [parents : SUBSET DOMAIN First, anc : SUBSET DOMAIN First]]
    /\ \A d \in DOMAIN First :
          d \notin First[d].anc /\ First[d].anc = PastOf(First, First[d].parents)
    /\ Order \in [Rev -> Nat] /\ \A d, e \in Rev : Order[d] = Order[e] => d = e
    /\ Lagging \in BOOLEAN
    /\ Keep \subseteq Nat \ {0}
    /\ RecordSize \in Nat \ {0}
    /\ MaxCompactions \in Nat

VARIABLES
    graph,       \* every revision ever published: its parents and its past
    shown,       \* the revisions storage holds
    records,     \* the compaction records storage holds
    cp,          \* each device's accepted heads
    proc,        \* what each process is doing
    settled,     \* the revisions whose author was told that they were saved
    started      \* how many compactions were started

vars == <<graph, shown, records, cp, proc, settled, started>>

Phase == {"idle", "load", "loaded", "checked", "write", "record", "delete"}

\* What one record may say.
ValidRecord(r) ==
    /\ r.removed # {} /\ Cardinality(r.removed) <= RecordSize
    /\ r.floor \notin r.removed

SignCompaction(floor, removed) == [floor |-> floor, removed |-> removed, byAdmin |-> TRUE]

\* A record that is damaged, or whose author was no admin, is not read.
VerifyCompaction(r) == ValidRecord(r) /\ r.byAdmin

LoadCompactions == {r \in records : VerifyCompaction(r)}

Idle == [phase |-> "idle", op |-> "none", stage |-> "first", view |-> {}, excused |-> {},
         floors |-> {}, heads |-> {}, own |-> {}, floor |-> {}, left |-> {}, gone |-> {}]

TypeOK ==
    /\ DOMAIN graph \subseteq Rev
    /\ graph \in [DOMAIN graph -> [parents : SUBSET Rev, anc : SUBSET Rev]]
    /\ shown \subseteq DOMAIN graph
    /\ \A r \in records : ValidRecord(r) /\ r.removed \cup {r.floor} \subseteq DOMAIN graph
    /\ cp \in [Device -> SUBSET DOMAIN graph]
    /\ \A p \in Proc :
          /\ proc[p].phase \in Phase
          /\ proc[p].op \in {"none", "edit", "compact"}
          /\ proc[p].stage \in {"first", "again", "reload"}
          /\ proc[p].phase \in {"idle", "load"} => proc[p].view = {}
          /\ proc[p].heads \subseteq DOMAIN graph /\ proc[p].floors \subseteq proc[p].view
          /\ proc[p].gone # {} => proc[p].phase \in {"record", "delete"}
          /\ proc[p].own \subseteq DOMAIN graph
    /\ settled \subseteq DOMAIN graph
    /\ started \in 0..MaxCompactions

Init ==
    /\ graph = First
    /\ shown = DOMAIN First
    /\ \E d \in DOMAIN First \ {Behind} :
          records = {[floor |-> Behind, removed |-> {d}, byAdmin |-> FALSE]}
    /\ cp = [x \in Device |-> {Behind}]     \* readers that are behind
    /\ proc = [p \in Proc |-> Idle]
    /\ settled = DOMAIN First
    /\ started = 0

-----------------------------------------------------------------------------
(***************************************************************************)
(* A view is the part of the graph a load got: parents that are gone are   *)
(* ignored, and a path through one is cut.                                 *)
(***************************************************************************)
\* What n passes of F make of X.
Passes(F, X, n) ==
    LET f[m \in 0..n] == IF m = 0 THEN X ELSE F[f[m - 1]] IN f[n]

\* Graph.Ancestors
Ancestors(view, d) ==
    Passes([S \in SUBSET view |-> S \cup ((UNION {graph[e].parents : e \in S}) \cap view)],
           {d} \cap view, Cardinality(view))

\* Graph.Missing
Missing(view) == (UNION {graph[d].parents : d \in view}) \ view

Listed(recs) == UNION {r.removed : r \in recs}

\* The records that count: the floor is shown or itself excused, which can make
\* an older one count, until nothing changes.
Applied(recs, view) ==
    Passes([S \in SUBSET recs |-> S \cup {r \in recs : r.floor \in view \cup Listed(S)}],
           {}, Cardinality(recs))

\* (Variant of Excused, for mutation: only floors that are shown count.)
ExcusedAtOnce(recs, view) == Listed({r \in recs : r.floor \in view}) \ view

\* Compute
Excused(recs, view) == Listed(Applied(recs, view)) \ view

\* (Variant of Floors, for mutation: floors that were removed in their turn count.)
EveryFloor(recs, view) == {r.floor : r \in recs}

Floors(recs, view) == {r.floor : r \in recs} \cap view

AboveFloors(view, floors, d) == floors \subseteq Ancestors(view, d)

\* trustedHeads, for members: no revision below a head that is set aside lies
\* above the floors, so nothing stands in for it.
TrustedHeads(view, floors) == {h \in Heads(graph, view) : AboveFloors(view, floors, h)}

-----------------------------------------------------------------------------
Moves(p, r) == proc' = [proc EXCEPT ![p] = r]

Edit(p) ==
    /\ proc[p].phase = "idle"
    /\ Moves(p, [Idle EXCEPT !.phase = "load", !.op = "edit"])
    /\ UNCHANGED <<graph, shown, records, cp, settled, started>>

CompactHistory(p) ==
    /\ proc[p].phase = "idle"
    /\ started < MaxCompactions
    /\ started' = started + 1
    /\ Moves(p, [Idle EXCEPT !.phase = "load", !.op = "compact"])
    /\ UNCHANGED <<graph, shown, records, cp, settled>>

\* LoadStates: the revisions storage lists, those known by digest and the
\* ancestors of both that are still there.
LoadStates(p) ==
    /\ proc[p].phase = "load"
    /\ \E listed \in IF Lagging THEN (SUBSET shown) \ {{}} ELSE {shown} :
          LET known == listed \cup (shown \cap (proc[p].own \cup cp[DeviceOf[p]]))
              view == UNION {Ancestors(shown, d) : d \in known}
          IN  Moves(p, [proc[p] EXCEPT !.phase = "loaded", !.view = view])
    /\ UNCHANGED <<graph, shown, records, cp, settled, started>>

\* loadResource reads the records only when something is missing, and then
\* checks the view against what this device accepted.  A rollback ends the
\* call (Return).
ReadRecords(p) ==
    LET r == proc[p]
        lacks == Missing(r.view) # {} \/ ~ cp[DeviceOf[p]] \subseteq r.view
        recs == IF lacks THEN LoadCompactions ELSE {}
        excused == Excused(recs, r.view)
        floors == Floors(recs, r.view)
    IN
    /\ r.phase = "loaded"
    /\ cp[DeviceOf[p]] \subseteq r.view \cup excused
    /\ Moves(p, [r EXCEPT !.phase = "checked", !.excused = excused, !.floors = floors,
                          !.heads = IF r.stage = "again" THEN r.heads
                                    ELSE TrustedHeads(r.view, floors)])
    /\ UNCHANGED <<graph, shown, records, cp, settled, started>>

\* AcceptStates, under the lock, after a read and after publishing.  The heads
\* cannot be merged while a parent is missing that no record excuses; a
\* compaction needs one head.
Mergeable(r) ==
    /\ r.heads # {}
    /\ Cardinality(r.heads) > 1 => Missing(r.view) \subseteq r.excused

AcceptStates(p) ==
    LET r == proc[p]
        x == DeviceOf[p]
    IN
    /\ r.phase = "checked" /\ r.stage # "again"
    /\ cp[x] \subseteq r.view \cup r.excused
    /\ r.stage = "first" => Mergeable(r)
    /\ cp' = [cp EXCEPT ![x] = r.heads]
    /\ IF r.stage = "reload"
       THEN /\ settled' = settled \cup r.own
            /\ Moves(p, Idle)
       ELSE /\ UNCHANGED settled
            /\ IF r.op = "edit"
               THEN Moves(p, [r EXCEPT !.phase = "load", !.stage = "again", !.view = {},
                                       !.excused = {}, !.floors = {}])
               ELSE /\ Cardinality(r.heads) = 1
                    /\ Moves(p, [r EXCEPT !.phase = "record"])
    /\ UNCHANGED <<graph, shown, records, started>>

\* changeResource looks once more before it writes.
LookAgain(p) ==
    LET r == proc[p] IN
    /\ r.phase = "checked" /\ r.stage = "again"
    /\ IF TrustedHeads(r.view, r.floors) = r.heads
       THEN Moves(p, [r EXCEPT !.phase = "write", !.view = {}, !.excused = {}, !.floors = {}])
       ELSE Moves(p, [Idle EXCEPT !.phase = "load", !.op = "edit"])
    /\ UNCHANGED <<graph, shown, records, cp, settled, started>>

\* writeState
Publish(p) ==
    LET r == proc[p] IN
    /\ r.phase = "write"
    /\ \E d \in Rev \ DOMAIN graph :
          /\ graph' = [e \in DOMAIN graph \cup {d} |->
                         IF e = d THEN [parents |-> r.heads, anc |-> PastOf(graph, r.heads)]
                         ELSE graph[e]]
          /\ shown' = shown \cup {d}
          /\ Moves(p, [Idle EXCEPT !.phase = "load", !.op = "edit", !.stage = "reload",
                                   !.own = {d}])
    /\ UNCHANGED <<records, cp, settled, started>>

-----------------------------------------------------------------------------
\* Parents are sorted.
FirstOf(S) == CHOOSE d \in S : \A e \in S : Order[d] <= Order[e]

\* compactionFloor: keep - 1 steps down from the head, each to the first
\* parent that is shown.
Floor(view, head, keep) ==
    Passes([d \in view |->
              IF graph[d].parents \cap view = {} THEN d ELSE FirstOf(graph[d].parents \cap view)],
           head, keep - 1)

\* keptRevisions
KeptRevisions(view, head, floor) ==
    {d \in Ancestors(view, head) : floor \in Ancestors(view, d)}

\* What goes and the floor of the records.
Choose(p) ==
    LET r == proc[p]
        head == CHOOSE h \in r.heads : TRUE
    IN
    /\ r.phase = "record" /\ r.gone = {}
    /\ \E keep \in Keep :
          LET floor == Floor(r.view, head, keep)
              gone == r.view \ KeptRevisions(r.view, head, floor)
          IN  Moves(p, IF gone = {} THEN Idle
                       ELSE [r EXCEPT !.floor = {floor}, !.left = gone, !.gone = gone])
    /\ UNCHANGED <<graph, shown, records, cp, settled, started>>

\* publishCompaction, one record after the other, in some order of digests.
PublishRecord(p) ==
    LET r == proc[p] IN
    /\ r.phase = "record" /\ r.left # {}
    /\ \E part \in SUBSET r.left, floor \in r.floor :
          /\ part = r.left \/ Cardinality(part) = RecordSize
          /\ VerifyCompaction(SignCompaction(floor, part))
          /\ records' = records \cup {SignCompaction(floor, part)}
          /\ Moves(p, [r EXCEPT !.left = @ \ part,
                                !.phase = IF part = r.left THEN "delete" ELSE "record"])
    /\ UNCHANGED <<graph, shown, cp, settled, started>>

MayDelete(r) == r.phase = "delete"

Delete(p) ==
    LET r == proc[p] IN
    /\ MayDelete(r)
    /\ \E d \in r.gone :
          /\ shown' = shown \ {d}
          /\ Moves(p, IF r.gone = {d} THEN Idle
                      ELSE [r EXCEPT !.gone = @ \ {d}, !.phase = "delete"])
    /\ UNCHANGED <<graph, records, cp, settled, started>>

\* A check or storage failed, the process was killed.
Return(p) ==
    /\ proc[p].phase # "idle"
    /\ Moves(p, Idle)
    /\ UNCHANGED <<graph, shown, records, cp, settled, started>>

Next ==
    \E p \in Proc :
        \/ Edit(p) \/ CompactHistory(p)
        \/ LoadStates(p) \/ ReadRecords(p) \/ AcceptStates(p) \/ LookAgain(p) \/ Publish(p)
        \/ Choose(p) \/ PublishRecord(p) \/ Delete(p) \/ Return(p)

Spec == Init /\ [][Next]_vars

-----------------------------------------------------------------------------
\* What a device that sees everything stored makes of it.
MissesSomething(x) == Missing(shown) # {} \/ ~ cp[x] \subseteq shown

RecordsFor(x) == IF MissesSomething(x) THEN LoadCompactions ELSE {}

HeadsFor(x) == TrustedHeads(shown, Floors(RecordsFor(x), shown))

\* "a device must never see a revision it accepted gone without the record that
\* excuses it" (CompactHistory).
DeletionsStayExcused ==
    \A x \in Device : cp[x] \subseteq shown \cup Excused(RecordsFor(x), shown)

\* Compactions that ran at the same time removed each other's floors: no record
\* of the circle counts once its floor is gone.
Crossed ==
    \E circle \in (SUBSET LoadCompactions) \ {{}} :
        \A r \in circle : \E q \in circle : r.floor \in q.removed

\* A compaction is never taken for a rollback: whatever a device accepted, and
\* wherever compactions stopped, what storage lacks is excused, unless
\* compactions crossed.
DeletionsAreExcused == DeletionsStayExcused \/ Crossed

\* "it is set aside and its parents stand in for it, so it neither injects
\* content nor blocks reading" (trustedHeads): some head is above every floor.
SomeHeadIsTrusted == \A x \in Device : HeadsFor(x) # {}

\* Once everything the records list is gone, the environment is readable.
Carried == \A r \in LoadCompactions : r.removed \cap shown = {}

ReadableAfterwards == Carried => SomeHeadIsTrusted
=============================================================================
