--------------------------- MODULE ResourceProofs ---------------------------
(***************************************************************************)
(* Theorems about Resource, for any number of devices, keys, values and    *)
(* revisions, and about the loops of MergeLoop that merge them.            *)
(***************************************************************************)
EXTENDS Resource, MergeLoop, FiniteSetTheorems, SequenceTheorems, WellFoundedInduction, TLAPS

-----------------------------------------------------------------------------
\* What a merge makes of the heads.

\* A key in whose outcome every head agrees has the value of each head that
\* differs from some base: Merge never drops a change without a conflict.
LEMMA MergeKeepsChanges ==
    ASSUME NEW bases, NEW heads, NEW choice, NEW k \in Key,
           ~ InConflict(bases, heads, k),
           NEW m \in heads, NEW b \in BaseMaps(bases), m[k] # b[k]
    PROVE  Merged(bases, heads, choice)[k] = m[k]
  <1>1. m[k] \in Outcomes(b[k], Side(heads, k))
    BY DEF Outcomes, Side
  <1>2. m[k] \in Resolved(bases, heads, k)
    BY <1>1 DEF Resolved
  <1>3. \A v \in Resolved(bases, heads, k) : v = m[k]
    BY <1>2 DEF InConflict
  <1>4. (CHOOSE v \in Resolved(bases, heads, k) : TRUE) = m[k]
    BY <1>2, <1>3
  <1> QED BY <1>4 DEF Merged

\* Heads merged against themselves, as mergeResource does for a base it has
\* no key for, conflict wherever two of them differ.
LEMMA HeadsAsBases ==
    ASSUME NEW bases, NEW heads, heads \subseteq bases, NEW k,
           NEW m \in heads, NEW n \in heads, m[k] # n[k]
    PROVE  InConflict(bases, heads, k)
  <1>1. n[k] \in Outcomes(m[k], Side(heads, k))
    BY DEF Outcomes, Side
  <1>2. m[k] \in Outcomes(n[k], Side(heads, k))
    BY DEF Outcomes, Side
  <1>3. BaseMaps(bases) = bases
    BY DEF BaseMaps
  <1>4. m \in bases /\ n \in bases
    OBVIOUS
  <1>5. m[k] \in Resolved(bases, heads, k) /\ n[k] \in Resolved(bases, heads, k)
    BY <1>1, <1>2, <1>3, <1>4 DEF Resolved
  <1> QED BY <1>5 DEF InConflict

\* Where all heads agree and are among the bases, the merge has their value.
LEMMA AgreedHeads ==
    ASSUME NEW bases, NEW heads, NEW choice, NEW k \in Key, NEW m \in heads,
           m \in bases, \A n \in heads : n[k] = m[k], ~ InConflict(bases, heads, k)
    PROVE  Merged(bases, heads, choice)[k] = m[k]
  <1>1. Side(heads, k) = {m[k]}
    BY DEF Side
  <1>2. m[k] \in Outcomes(m[k], Side(heads, k))
    BY <1>1 DEF Outcomes
  <1>3. m \in BaseMaps(bases)
    BY DEF BaseMaps
  <1>4. m[k] \in Resolved(bases, heads, k)
    BY <1>2, <1>3 DEF Resolved
  <1>5. \A v \in Resolved(bases, heads, k) : v = m[k]
    BY <1>4 DEF InConflict
  <1>6. (CHOOSE v \in Resolved(bases, heads, k) : TRUE) = m[k]
    BY <1>4, <1>5
  <1> QED BY <1>6 DEF Merged

\* readResource takes no side: whatever a head changed since a merge base is in
\* what is read, or in conflict, also when the reader was approved later than
\* the base and has no key for it (mergeResource puts every head in its place).
THEOREM MergesAlwaysLoseNothing == Spec => []MergesLoseNothing
<1>1. MergesLoseNothing
  <2> SUFFICES ASSUME NEW x \in Device, CanRead(x),
                      NEW h \in HeadsFor(x), NEW b \in MergeBases(states, HeadsFor(x)),
                      NEW k \in Key,
                      states[h].secrets[k] # states[b].secrets[k],
                      k \notin Conflicts(BasesFor(x), HeadMaps(HeadsFor(x)))
               PROVE  ReadFor(x)[k] = states[h].secrets[k]
    BY DEF MergesLoseNothing
  <2> DEFINE heads == HeadMaps(HeadsFor(x))
             bases == BasesFor(x)
             m == states[h].secrets
  <2>1. m \in heads
    BY DEF HeadMaps
  <2>2. ~ InConflict(bases, heads, k)
    BY DEF Conflicts
  <2>3. ReadFor(x) = Merged(bases, heads, EmptyMap)
    BY DEF ReadFor
  <2>4. CASE Readable(x, b)
    <3>1. states[b].secrets \in bases
      BY <2>4 DEF BasesFor, KnownBases
    <3>2. states[b].secrets \in BaseMaps(bases)
      BY <3>1 DEF BaseMaps
    <3> HIDE DEF heads, bases, m
    <3>3. m[k] # states[b].secrets[k]
      BY DEF m
    <3>4. Merged(bases, heads, EmptyMap)[k] = m[k]
      BY <2>1, <2>2, <3>2, <3>3, MergeKeepsChanges
    <3> QED BY <2>3, <3>4 DEF m
  <2>5. CASE ~ Readable(x, b)
    <3>1. heads \subseteq bases
      BY <2>5 DEF BasesFor, KnownBases, HeadMaps
    <3> HIDE DEF heads, bases, m
    <3>2. \A n \in heads : n[k] = m[k]
      BY <2>1, <2>2, <3>1, HeadsAsBases
    <3>3. Merged(bases, heads, EmptyMap)[k] = m[k]
      BY <2>1, <2>2, <3>1, <3>2, AgreedHeads
    <3> QED BY <2>3, <3>3 DEF m
  <2> QED BY <2>4, <2>5
<1>2. QED BY <1>1, PTL

-----------------------------------------------------------------------------
(***************************************************************************)
(* The inductive core: types, the shape of the history, and what a process *)
(* holds in each phase.  The predicates take the member lists and storage  *)
(* as parameters, so that they can be compared before and after a step.    *)
(***************************************************************************)
Process ==
    [phase : Phase, op : Op, control : Nat, view : SUBSET Rev, heads : SUBSET Rev,
     conflicts : SUBSET Key, secrets : Map, keys : SUBSET Key, seen : SUBSET Rev,
     published : SUBSET Rev, own : SUBSET Rev, seals : BOOLEAN]

Typed ==
    /\ members \in Seq(SUBSET Device) /\ Len(members) \in 1..MaxControls
    /\ Stored \subseteq Rev /\ states \in [Stored -> State]
    /\ cp \in [Device -> [heads : SUBSET Stored, control : 0..Len(members)]]
    /\ proc \in [Proc -> Process]
    /\ settled \subseteq [rev : Stored, key : Key, value : Value]
    /\ sealed \in Control

\* Storage is finite, and a revision carries exactly the ancestors its parents
\* give it; its author was a member of the list it names.
HistoryOK ==
    /\ IsFiniteSet(Stored)
    /\ \A d \in Stored :
          /\ states[d].parents \subseteq Stored
          /\ states[d].anc = PastOf(states, states[d].parents)
          /\ states[d].anc \subseteq Stored
          /\ d \notin states[d].anc
          /\ \A e \in states[d].anc : Past(states, e) \subseteq states[d].anc
          /\ states[d].control \in Control
          /\ states[d].author \in members[states[d].control]

MembersOK == \A c \in Control : Admin \in members[c]

\* What a process r of device x holds, under the member lists M and storage S.
Held(M, S, x, r) ==
    /\ r.view \cup r.heads \cup r.seen \cup r.published \subseteq DOMAIN S
    /\ r.own \subseteq r.published
    /\ \A d \in r.own : S[d].control = r.control /\ S[d].author = x
    /\ r.control <= Len(M)
    /\ r.phase \notin {"idle", "open", "looked"} => r.control # 0 /\ x \in M[r.control]
    /\ r.phase \notin {"accept", "recheck", "write", "publish", "record"} => r.heads = {}
    /\ r.phase \notin {"recheck", "write", "publish"} => r.keys = {}
    /\ r.phase \notin {"accept", "record"} => r.view = {}
    /\ r.phase \notin {"published", "reload", "record"} => r.own = {}
    /\ r.op.kind \in {"remove", "revoke", "approve"} \/ r.seals => x = Admin
    /\ Admin \notin r.op.who
    /\ r.seals => r.op.kind = "sync"
    /\ IF r.op.kind = "set" THEN r.op.value \in Value ELSE r.op.value = Deleted

Core ==
    /\ Typed /\ HistoryOK /\ MembersOK
    /\ \A p \in Proc : Held(members, states, DeviceOf[p], proc[p])

\* Lists are only appended, and revisions only added.
Grows ==
    /\ Len(members') \in Nat /\ Len(members) <= Len(members')
    /\ \A c \in Control : members'[c] = members[c]
    /\ Stored \subseteq Stored' /\ \A d \in Stored : states'[d] = states[d]

LEMMA PastStays ==
    ASSUME Core, Grows
    PROVE  /\ \A d \in Stored : Past(states', d) = Past(states, d)
           /\ \A H \in SUBSET Stored : PastOf(states', H) = PastOf(states, H)
  <1>1. \A d \in Stored : Past(states', d) = Past(states, d)
    BY DEF Grows, Past
  <1> QED BY <1>1 DEF PastOf

\* The past of stored revisions is stored, and closed.
LEMMA PastStored ==
    ASSUME Core, NEW H \in SUBSET Stored
    PROVE  /\ H \subseteq PastOf(states, H) /\ PastOf(states, H) \subseteq Stored
           /\ \A d \in PastOf(states, H) : Past(states, d) \subseteq PastOf(states, H)
  BY DEF Core, HistoryOK, PastOf, Past

LEMMA HeldStays ==
    ASSUME Core, Grows, NEW p \in Proc
    PROVE  Held(members', states', DeviceOf[p], proc[p])
  <1>1. /\ Len(members) \in Nat /\ Len(members) <= Len(members') /\ Len(members') \in Nat
        /\ \A c \in Control : members'[c] = members[c]
        /\ DOMAIN states \subseteq DOMAIN states' /\ \A d \in DOMAIN states : states'[d] = states[d]
    BY DEF Grows, Core, Typed, Stored
  <1>2. proc[p].control \in Nat /\ Held(members, states, DeviceOf[p], proc[p])
    BY DEF Core, Typed, Process
  <1>3. proc[p].own \subseteq DOMAIN states
    BY <1>2 DEF Held
  <1> QED BY <1>1, <1>2, <1>3 DEF Held, Control, Stored

LEMMA MovesTyped ==
    ASSUME Core, NEW p \in Proc, NEW e \in Process, Moves(p, e)
    PROVE  /\ proc' \in [Proc -> Process] /\ proc'[p] = e
           /\ \A q \in Proc \ {p} : proc'[q] = proc[q]
  BY DEF Core, Typed, Moves

\* The merge of maps is a map.
LEMMA MergedTyped ==
    ASSUME NEW bases \in SUBSET Map, NEW heads \in SUBSET Map, heads # {}, NEW choice \in Map
    PROVE  Merged(bases, heads, choice) \in Map
  <1>1. SUFFICES ASSUME NEW k \in Key
                 PROVE  (CHOOSE v \in Resolved(bases, heads, k) : TRUE) \in Value \cup {Deleted}
    BY DEF Merged, Map
  <1>2. BaseMaps(bases) \in SUBSET Map /\ BaseMaps(bases) # {}
    BY DEF BaseMaps, Map, EmptyMap
  <1>3. Side(heads, k) \in SUBSET (Value \cup {Deleted}) /\ Side(heads, k) # {}
    BY DEF Side, Map
  <1>4. \A b \in BaseMaps(bases) : /\ Outcomes(b[k], Side(heads, k)) # {}
                                   /\ Outcomes(b[k], Side(heads, k)) \subseteq Value \cup {Deleted}
    BY <1>2, <1>3 DEF Outcomes, Map
  <1>5. Resolved(bases, heads, k) # {} /\ Resolved(bases, heads, k) \subseteq Value \cup {Deleted}
    BY <1>2, <1>4 DEF Resolved
  <1> QED BY <1>5

\* A step of p that leaves lists and storage alone keeps the core, when it
\* moves p to a state a process can hold and records a proper checkpoint.
LEMMA QuietCore ==
    ASSUME Core, NEW p \in Proc, NEW e \in Process, Moves(p, e),
           Held(members, states, DeviceOf[p], e), UNCHANGED <<members, states>>,
           cp' \in [Device -> [heads : SUBSET Stored, control : 0..Len(members)]],
           settled' \subseteq [rev : Stored, key : Key, value : Value], sealed' \in Control
    PROVE  Core'
  <1>1. Typed'
    BY MovesTyped DEF Core, Typed, Stored, Control
  <1>2. HistoryOK' /\ MembersOK'
    BY DEF Core, HistoryOK, MembersOK, Stored, Control, PastOf, Past
  <1>3. \A q \in Proc : Held(members', states', DeviceOf[q], proc[q]')
    <2> TAKE q \in Proc
    <2>1. Held(members, states, DeviceOf[q], proc'[q])
      BY MovesTyped DEF Core
    <2> QED BY <2>1
  <1> QED BY <1>1, <1>2, <1>3 DEF Core

\* The facts of the core about one process.
LEMMA CoreAt ==
    ASSUME Core, NEW p \in Proc
    PROVE  /\ proc[p] \in Process /\ Held(members, states, DeviceOf[p], proc[p])
           /\ DeviceOf[p] \in Device
           /\ cp \in [Device -> [heads : SUBSET Stored, control : 0..Len(members)]]
           /\ settled \subseteq [rev : Stored, key : Key, value : Value]
           /\ sealed \in Control /\ Len(members) \in Nat \ {0}
           /\ Stored \subseteq Rev /\ states \in [Stored -> State]
  BY ResourceOK DEF Core, Typed

LEMMA IdleHeld ==
    ASSUME Core, NEW x \in Device
    PROVE  Idle \in Process /\ Held(members, states, x, Idle)
  BY DEF Idle, NoOp, Process, Held, Op, Phase, OpKind, Map, EmptyMap, Core, Typed

LEMMA StartsCore ==
    ASSUME Core, NEW p \in Proc, NEW op \in Op, Starts(p, op),
           op.kind \in {"remove", "approve"} => DeviceOf[p] = Admin,
           op.kind # "revoke", Admin \notin op.who,
           IF op.kind = "set" THEN op.value \in Value ELSE op.value = Deleted
    PROVE  Core'
  <1> DEFINE e == [Idle EXCEPT !.phase = "open", !.op = op]
  <1>1. e \in Process
    BY IdleHeld, CoreAt DEF Process, Phase
  <1>2. Held(members, states, DeviceOf[p], e)
    BY IdleHeld, CoreAt DEF Held, Idle
  <1>3. Moves(p, e) /\ UNCHANGED <<members, states, cp, settled, sealed>>
    BY DEF Starts
  <1> HIDE DEF e
  <1> QED BY <1>1, <1>2, <1>3, CoreAt, QuietCore

LEMMA OperationsCore ==
    ASSUME Core, NEW p \in Proc,
           \/ SetSecret(p) \/ DeleteSecret(p) \/ SyncSecrets(p)
           \/ ListConflicts(p) \/ RemoveMember(p) \/ ApproveMember(p)
    PROVE  \E op \in Op : Starts(p, op) /\ Core'
  <1> USE DEF NoOp, Op, OpKind
  <1>1. CASE SetSecret(p)
    <2>1. PICK k \in Key, v \in Value :
             Starts(p, [NoOp EXCEPT !.kind = "set", !.key = {k}, !.value = v])
      BY <1>1 DEF SetSecret
    <2> QED BY <2>1, StartsCore
  <1>2. CASE DeleteSecret(p)
    <2>1. PICK k \in Key : Starts(p, [NoOp EXCEPT !.kind = "delete", !.key = {k}])
      BY <1>2 DEF DeleteSecret
    <2> QED BY <2>1, StartsCore
  <1>3. CASE SyncSecrets(p)
    BY <1>3, StartsCore DEF SyncSecrets
  <1>4. CASE ListConflicts(p)
    BY <1>4, StartsCore DEF ListConflicts
  <1>5. CASE RemoveMember(p)
    <2>1. PICK m \in Device \ {Admin} : Starts(p, [NoOp EXCEPT !.kind = "remove", !.who = {m}])
      BY <1>5 DEF RemoveMember
    <2> QED BY <1>5, <2>1, StartsCore DEF RemoveMember
  <1>6. CASE ApproveMember(p)
    <2>1. PICK m \in Device \ {Admin} : Starts(p, [NoOp EXCEPT !.kind = "approve", !.who = {m}])
      BY <1>6 DEF ApproveMember
    <2> QED BY <1>6, <2>1, StartsCore DEF ApproveMember
  <1> QED BY <1>1, <1>2, <1>3, <1>4, <1>5, <1>6

\* The trusted heads of a view are in it.
LEMMA TrustedInView ==
    ASSUME NEW x, NEW c, NEW view
    PROVE  /\ TrustedHeads(x, c, view) \subseteq view
           /\ \A d \in TrustedHeads(x, c, view) : Trusted(x, c, d)
  BY DEF TrustedHeads, Uncovered

\* The steps that only move p: what p holds next is a state of a process.
LEMMA SimpleCore ==
    ASSUME Core, NEW p \in Proc,
           \/ ResolveSecrets(p) \/ OpenSession(p) \/ ReadAgain(p) \/ RemoveUnread(p)
           \/ Recheck(p) \/ CheckControl(p) \/ CheckControlAgain(p) \/ LoadPublished(p)
           \/ Return(p)
    PROVE  /\ UNCHANGED <<members, states, cp, settled, sealed>>
           /\ \E e \in Process : Moves(p, e) /\ Held(members, states, DeviceOf[p], e)
  <1> DEFINE OK(e) == e \in Process /\ Moves(p, e) /\ Held(members, states, DeviceOf[p], e)
             x == DeviceOf[p]
  <1>p. /\ proc[p] \in Process /\ Held(members, states, x, proc[p])
        /\ Idle \in Process /\ Held(members, states, x, Idle)
        /\ Len(members) \in Nat \ {0} /\ Stored \subseteq Rev
    BY CoreAt, IdleHeld
  <1>q. /\ proc[p].heads \subseteq Stored /\ proc[p].seen \subseteq Stored
        /\ proc[p].published \subseteq Stored
    BY <1>p DEF Held, Stored
  <1>u. UNCHANGED <<members, states, cp, settled, sealed>>
    BY DEF ResolveSecrets, OpenSession, ReadAgain, RemoveUnread, Recheck, CheckControl,
           CheckControlAgain, LoadPublished, Return
  <1>r. ASSUME proc[p].phase \in {"write", "published"}
        PROVE  Reopened(p) \in Process /\ Held(members, states, x, Reopened(p))
    <2> DEFINE e == Reopened(p)
    <2>1. EmptyMap \in Map
      BY DEF Map, EmptyMap
    <2>2. e \in Process
      BY <1>p, <2>1 DEF Reopened, Process, Phase
    <2>3. /\ e.control = 0 /\ e.phase = "open" /\ e.heads = {} /\ e.keys = {} /\ e.own = {}
          /\ \A f \in {"op", "view", "seen", "published", "seals"} : e[f] = proc[p][f]
      BY <1>p DEF Reopened, Process
    <2> HIDE DEF e
    <2>4. Held(members, states, x, e)
      BY <1>p, <1>r, <2>3 DEF Held
    <2> QED BY <2>2, <2>4 DEF e
  <1>1. CASE ResolveSecrets(p)
    <2> DEFINE e == [Idle EXCEPT !.phase = "open", !.op = [NoOp EXCEPT !.kind = "resolve"],
                                 !.seen = proc[p].seen]
    <2>1. Moves(p, e)
      BY <1>1 DEF ResolveSecrets
    <2>2. [NoOp EXCEPT !.kind = "resolve"] \in Op /\ EmptyMap \in Map
      BY DEF NoOp, Op, OpKind, Map, EmptyMap
    <2>3. e \in Process
      BY <1>p, <1>q, <2>2 DEF Process, Idle, Phase
    <2>4. Held(members, states, x, e)
      BY <1>p, <1>q DEF Held, Idle, NoOp, Stored
    <2> HIDE DEF e
    <2> QED BY <1>u, <2>1, <2>3, <2>4
  <1>2. CASE OpenSession(p)
    <2> DEFINE e == [proc[p] EXCEPT !.control = Current,
                       !.phase = IF proc[p].op.kind \in {"approve", "revoke"}
                                 THEN "members" ELSE "read"]
    <2>1. Moves(p, e) /\ x \in members[Current] /\ proc[p].phase = "open"
      BY <1>2 DEF OpenSession
    <2>2. e \in Process
      BY <1>p, <2>1 DEF Process, Phase, Current
    <2>3. /\ e.control = Len(members)
          /\ \A f \in {"op", "view", "heads", "seen", "published", "own", "keys", "seals"} :
                e[f] = proc[p][f]
          /\ e.phase \in {"members", "read"}
      BY <1>p, <2>1 DEF Process, Current
    <2> HIDE DEF e
    <2>4. Held(members, states, x, e)
      BY <1>p, <2>1, <2>3 DEF Held, Current
    <2> QED BY <1>u, <2>1, <2>2, <2>4
  <1>3. CASE ReadAgain(p)
    <2> DEFINE e == [proc[p] EXCEPT !.phase = "read", !.view = {}, !.heads = {},
                                    !.conflicts = {}, !.secrets = EmptyMap]
    <2>1. Moves(p, e) /\ proc[p].phase = "accept"
      BY <1>3 DEF ReadAgain
    <2>2. EmptyMap \in Map
      BY DEF Map, EmptyMap
    <2>3. e \in Process
      BY <1>p, <2>2 DEF Process, Phase
    <2>4. Held(members, states, x, e)
      BY <1>p, <2>1 DEF Process, Held
    <2> HIDE DEF e
    <2> QED BY <1>u, <2>1, <2>3, <2>4
  <1>4. CASE RemoveUnread(p)
    <2> DEFINE e == [Idle EXCEPT !.phase = "open", !.op = [proc[p].op EXCEPT !.kind = "revoke"]]
    <2>1. Moves(p, e) /\ proc[p].op.kind = "remove"
      BY <1>4 DEF RemoveUnread
    <2>2. [proc[p].op EXCEPT !.kind = "revoke"] \in Op
      BY <1>p DEF Process, Op, OpKind
    <2>3. e \in Process
      BY <1>p, <2>2 DEF Process, Phase
    <2>4. Held(members, states, x, e)
      BY <1>p, <1>q, <2>1 DEF Held, Idle, Process, Op, Stored
    <2> HIDE DEF e
    <2> QED BY <1>u, <2>1, <2>3, <2>4
  <1>5. CASE Recheck(p)
    <2> DEFINE e == [proc[p] EXCEPT !.phase = "write"]
               f == [proc[p] EXCEPT !.phase = "read", !.heads = {}, !.keys = {},
                                    !.secrets = EmptyMap]
    <2>1. (Moves(p, e) \/ Moves(p, f)) /\ proc[p].phase = "recheck"
      BY <1>5 DEF Recheck
    <2>2. e \in Process /\ Held(members, states, x, e)
      BY <1>p, <2>1 DEF Process, Held, Phase
    <2>3. EmptyMap \in Map
      BY DEF Map, EmptyMap
    <2>4. f \in Process
      BY <1>p, <2>3 DEF Process, Phase
    <2>5. Held(members, states, x, f)
      BY <1>p, <2>1 DEF Process, Held
    <2> HIDE DEF e, f
    <2> QED BY <1>u, <2>1, <2>2, <2>4, <2>5
  <1>6. CASE CheckControl(p)
    <2> DEFINE e == [proc[p] EXCEPT !.phase = "publish"]
    <2>1. (Moves(p, e) \/ Moves(p, Reopened(p))) /\ proc[p].phase = "write"
      BY <1>6 DEF CheckControl
    <2>2. e \in Process /\ Held(members, states, x, e)
      BY <1>p, <2>1 DEF Process, Held, Phase
    <2> HIDE DEF e
    <2> QED BY <1>u, <1>r, <2>1, <2>2
  <1>7. CASE CheckControlAgain(p)
    <2> DEFINE e == [proc[p] EXCEPT !.phase = "reload"]
    <2>1. (Moves(p, e) \/ Moves(p, Reopened(p))) /\ proc[p].phase = "published"
      BY <1>7 DEF CheckControlAgain
    <2>2. e \in Process /\ Held(members, states, x, e)
      BY <1>p, <2>1 DEF Process, Held, Phase
    <2> HIDE DEF e
    <2> QED BY <1>u, <1>r, <2>1, <2>2
  <1>8. CASE LoadPublished(p)
    <2>1. PICK view \in SUBSET Stored :
             Moves(p, [proc[p] EXCEPT !.phase = "record", !.view = view,
                          !.heads = TrustedHeads(DeviceOf[p], proc[p].control, view)])
      BY <1>8 DEF LoadPublished
    <2>2. PICK heads \in SUBSET Stored : heads = TrustedHeads(DeviceOf[p], proc[p].control, view)
      BY TrustedInView
    <2> DEFINE e == [proc[p] EXCEPT !.phase = "record", !.view = view, !.heads = heads]
    <2>3. proc[p].phase = "reload"
      BY <1>8 DEF LoadPublished
    <2>4. e \in Process
      BY <1>p DEF Process, Phase
    <2>5. Moves(p, e)
      BY <2>1, <2>2
    <2>6. Held(members, states, x, e)
      BY <1>p, <2>3 DEF Process, Held, Stored
    <2> HIDE DEF e
    <2> QED BY <1>u, <2>4, <2>5, <2>6
  <1>9. CASE Return(p)
    BY <1>9, <1>u, <1>p DEF Return
  <1> QED BY <1>1, <1>2, <1>3, <1>4, <1>5, <1>6, <1>7, <1>8, <1>9

\* What a device reads: the trusted heads of the view, merged.
LEMMA ReadTyped ==
    ASSUME Core, NEW x \in Device, NEW heads \in SUBSET Stored, heads # {},
           NEW choice \in [Key -> Value \cup {Deleted}]
    PROVE  /\ KnownBases(x, heads) \in SUBSET Map /\ HeadMaps(heads) \in SUBSET Map
           /\ Conflicts(KnownBases(x, heads), HeadMaps(heads)) \in SUBSET Key
           /\ Merged(KnownBases(x, heads), HeadMaps(heads), choice) \in Map
  <1>1. MergeBases(states, heads) \subseteq Stored
    BY PastStored DEF MergeBases, Uncovered, CommonAncestors
  <1>2. \A d \in Stored : states[d].secrets \in Map
    BY DEF Core, Typed, State
  <1>3. KnownBases(x, heads) \in SUBSET Map /\ HeadMaps(heads) \in SUBSET Map
    BY <1>1, <1>2 DEF KnownBases, HeadMaps
  <1>4. HeadMaps(heads) # {} /\ choice \in Map
    BY DEF HeadMaps, Map
  <1> QED BY <1>3, <1>4, MergedTyped DEF Conflicts

\* ReadResource, in the parts the proofs use.
ReadStep(p, view, heads, choice, e) ==
    /\ proc[p].phase = "read"
    /\ view \in SUBSET Stored /\ Loads(p, proc[p].published, view)
    /\ heads = TrustedHeads(DeviceOf[p], proc[p].control, view) /\ heads # {}
    /\ \A h \in heads : Readable(DeviceOf[p], h)
    /\ choice \in [Key -> Value \cup {Deleted}]
    /\ choice \in IF proc[p].op.kind = "resolve"
                  THEN Choices(Conflicts(KnownBases(DeviceOf[p], heads), HeadMaps(heads)),
                               HeadMaps(heads))
                  ELSE {EmptyMap}
    /\ e = [proc[p] EXCEPT !.phase = "accept", !.view = view, !.heads = heads,
              !.conflicts = Conflicts(KnownBases(DeviceOf[p], heads), HeadMaps(heads)),
              !.secrets = Merged(KnownBases(DeviceOf[p], heads), HeadMaps(heads), choice)]

LEMMA ReadCore ==
    ASSUME Core, NEW p \in Proc, ReadResource(p)
    PROVE  /\ UNCHANGED <<members, states, cp, settled, sealed>> /\ proc[p].phase = "read"
           /\ \E view, heads, choice, e :
                 /\ ReadStep(p, view, heads, choice, e)
                 /\ e \in Process /\ Moves(p, e) /\ Held(members, states, DeviceOf[p], e)
  <1> DEFINE x == DeviceOf[p]
  <1>1. PICK view \in (SUBSET Stored) \ {{}} :
           LET heads == TrustedHeads(x, proc[p].control, view)
               bases == KnownBases(x, heads)
               conflicts == Conflicts(bases, HeadMaps(heads))
           IN  /\ Loads(p, proc[p].published, view)
               /\ heads # {}
               /\ \A h \in heads : Readable(x, h)
               /\ \E choice \in IF proc[p].op.kind = "resolve"
                                THEN Choices(conflicts, HeadMaps(heads)) ELSE {EmptyMap} :
                     Moves(p, [proc[p] EXCEPT !.phase = "accept", !.view = view,
                                  !.heads = heads, !.conflicts = conflicts,
                                  !.secrets = Merged(bases, HeadMaps(heads), choice)])
    BY DEF ReadResource
  <1> DEFINE heads == TrustedHeads(x, proc[p].control, view)
             conflicts == Conflicts(KnownBases(x, heads), HeadMaps(heads))
  <1>2. PICK choice \in IF proc[p].op.kind = "resolve"
                        THEN Choices(conflicts, HeadMaps(heads)) ELSE {EmptyMap} :
           Moves(p, [proc[p] EXCEPT !.phase = "accept", !.view = view,
                        !.heads = heads, !.conflicts = conflicts,
                        !.secrets = Merged(KnownBases(x, heads), HeadMaps(heads), choice)])
    BY <1>1
  <1>3. choice \in [Key -> Value \cup {Deleted}]
    BY <1>2 DEF Choices, EmptyMap
  <1> DEFINE secrets == Merged(KnownBases(x, heads), HeadMaps(heads), choice)
             e == [proc[p] EXCEPT !.phase = "accept", !.view = view, !.heads = heads,
                      !.conflicts = conflicts, !.secrets = secrets]
  <1>4. ReadStep(p, view, heads, choice, e) /\ Moves(p, e)
    BY <1>1, <1>2, <1>3 DEF ReadStep, ReadResource
  <1>5. heads \in SUBSET Stored /\ heads # {}
    BY <1>1, TrustedInView
  <1>6. conflicts \in SUBSET Key /\ secrets \in Map
    BY <1>3, <1>5, CoreAt, ReadTyped
  <1>7. view \in SUBSET Stored /\ proc[p].phase = "read" /\ x \in Device
    BY <1>1, CoreAt DEF ReadResource
  <1>8. /\ proc[p] \in Process /\ Held(members, states, x, proc[p]) /\ Stored \subseteq Rev
    BY CoreAt
  <1> HIDE DEF conflicts, secrets, heads
  <1>9. e \in Process
    BY <1>5, <1>6, <1>7, <1>8 DEF Process, Phase
  <1>10. Held(members, states, x, e)
    BY <1>5, <1>7, <1>8 DEF Held, Process, Stored
  <1>11. UNCHANGED <<members, states, cp, settled, sealed>>
    BY DEF ReadResource
  <1> HIDE DEF e
  <1> QED BY <1>4, <1>7, <1>9, <1>10, <1>11

LEMMA ReadNothingCore ==
    ASSUME Core, NEW p \in Proc, ReadNothing(p)
    PROVE  /\ UNCHANGED <<members, states, cp, settled>> /\ sealed' \in Control
           /\ proc[p].phase = "read" /\ Loads(p, proc[p].published, {})
           /\ \/ /\ Moves(p, Idle) /\ sealed' = IF proc[p].seals THEN proc[p].control ELSE sealed
                 /\ Idle \in Process /\ Held(members, states, DeviceOf[p], Idle)
              \/ /\ proc[p].op.kind = "set" /\ UNCHANGED sealed
                 /\ \E e \in Process :
                       /\ e = [proc[p] EXCEPT !.phase = "write", !.keys = proc[p].op.key,
                                 !.secrets = [k \in Key |-> IF k \in proc[p].op.key
                                              THEN proc[p].op.value ELSE Deleted]]
                       /\ Moves(p, e) /\ Held(members, states, DeviceOf[p], e)
  <1>p. /\ proc[p] \in Process /\ Held(members, states, DeviceOf[p], proc[p])
        /\ Idle \in Process /\ Held(members, states, DeviceOf[p], Idle)
        /\ Len(members) \in Nat \ {0} /\ sealed \in Control
    BY CoreAt, IdleHeld
  <1>1. /\ UNCHANGED <<members, states, cp, settled>>
        /\ proc[p].phase = "read" /\ Loads(p, proc[p].published, {})
    BY DEF ReadNothing
  <1>2. proc[p].control \in Control
    BY <1>p, <1>1 DEF Held, Process, Control
  <1>3. CASE proc[p].op.kind = "set"
    <2> DEFINE secrets == [k \in Key |-> IF k \in proc[p].op.key THEN proc[p].op.value ELSE Deleted]
               e == [proc[p] EXCEPT !.phase = "write", !.keys = proc[p].op.key, !.secrets = secrets]
    <2>1. Moves(p, e) /\ UNCHANGED sealed
      BY <1>3 DEF ReadNothing
    <2>2. secrets \in Map /\ proc[p].op.key \in SUBSET Key
      BY <1>p DEF Process, Op, Map
    <2> HIDE DEF secrets
    <2>3. e \in Process
      BY <1>p, <2>2 DEF Process, Phase
    <2>4. Held(members, states, DeviceOf[p], e)
      BY <1>p, <1>1 DEF Process, Held
    <2>5. e = [proc[p] EXCEPT !.phase = "write", !.keys = proc[p].op.key,
                 !.secrets = [k \in Key |-> IF k \in proc[p].op.key
                              THEN proc[p].op.value ELSE Deleted]]
      BY DEF secrets
    <2> HIDE DEF e
    <2> QED BY <1>1, <1>3, <1>p, <2>1, <2>3, <2>4, <2>5
  <1>4. CASE proc[p].op.kind # "set"
    <2>1. Moves(p, Idle) /\ sealed' = IF proc[p].seals THEN proc[p].control ELSE sealed
      BY <1>4 DEF ReadNothing
    <2>2. sealed' \in Control
      BY <1>p, <1>2, <2>1
    <2> QED BY <1>1, <1>p, <2>1, <2>2
  <1> QED BY <1>3, <1>4

\* What an accepted read becomes when the change is applied.
Applied(p) ==
    [proc[p] EXCEPT !.phase = "recheck", !.view = {}, !.conflicts = {},
                    !.secrets = Changed(p), !.keys = KeysSet(p)]

LEMMA RecordsTyped ==
    ASSUME Core, NEW p \in Proc, Records(p, proc[p].heads)
    PROVE  /\ cp' \in [Device -> [heads : SUBSET Stored, control : 0..Len(members)]]
           /\ cp'[DeviceOf[p]] = [heads |-> proc[p].heads, control |-> proc[p].control]
           /\ \A x \in Device \ {DeviceOf[p]} : cp'[x] = cp[x]
  <1>1. proc[p].heads \subseteq Stored /\ proc[p].control \in 0..Len(members)
    BY CoreAt DEF Held, Stored, Process
  <1> QED BY <1>1, CoreAt DEF Records

LEMMA AcceptCore ==
    ASSUME Core, NEW p \in Proc, AcceptRead(p)
    PROVE  /\ UNCHANGED <<members, states, settled, sealed>>
           /\ proc[p].phase = "accept" /\ NothingMissing(p) /\ Records(p, proc[p].heads)
           /\ \E e \in Process :
                 /\ Moves(p, e) /\ Held(members, states, DeviceOf[p], e)
                 /\ \/ e = Idle
                    \/ e = [Idle EXCEPT !.phase = "looked", !.seen = proc[p].heads]
                    \/ e = [Idle EXCEPT !.phase = "open",
                                        !.op = [proc[p].op EXCEPT !.kind = "revoke"]]
                    \/ /\ e = Applied(p)
                       /\ proc[p].op.kind \in {"set", "delete", "sync", "resolve"}
                       /\ proc[p].op.kind # "resolve" => proc[p].conflicts = {}
  <1> DEFINE x == DeviceOf[p]
             seen == [Idle EXCEPT !.phase = "looked", !.seen = proc[p].heads]
             goes == [Idle EXCEPT !.phase = "open", !.op = [proc[p].op EXCEPT !.kind = "revoke"]]
  <1>p. /\ proc[p] \in Process /\ Held(members, states, x, proc[p])
        /\ Idle \in Process /\ Held(members, states, x, Idle)
        /\ Len(members) \in Nat \ {0} /\ Stored \subseteq Rev
    BY CoreAt, IdleHeld
  <1>u. /\ UNCHANGED <<members, states, settled, sealed>>
        /\ proc[p].phase = "accept" /\ NothingMissing(p) /\ Records(p, proc[p].heads)
    BY DEF AcceptRead
  <1>1. CASE /\ proc[p].op.kind = "look"
             /\ Moves(p, IF proc[p].conflicts = {} THEN Idle ELSE seen)
    <2>1. Moves(p, Idle) \/ Moves(p, seen)
      BY <1>1
    <2>2. seen \in Process
      BY <1>p DEF Process, Phase
    <2>3. Held(members, states, x, seen)
      BY <1>p DEF Process, Held, Idle, NoOp
    <2> HIDE DEF seen
    <2> QED BY <1>p, <1>u, <2>1, <2>2, <2>3 DEF seen
  <1>2. CASE proc[p].op.kind = "remove" /\ Moves(p, goes)
    <2>1. goes \in Process
      BY <1>p DEF Process, Phase, Op, OpKind
    <2>2. Held(members, states, x, goes)
      BY <1>p, <1>2 DEF Process, Held, Idle, Op
    <2> QED BY <1>u, <1>2, <2>1, <2>2
  <1>3. CASE /\ proc[p].op.kind \in {"set", "delete", "sync", "resolve"}
             /\ Moves(p, Idle)
    BY <1>p, <1>u, <1>3
  <1>4. CASE /\ proc[p].op.kind \in {"set", "delete", "sync", "resolve"}
             /\ proc[p].op.kind # "resolve" => proc[p].conflicts = {}
             /\ Moves(p, Applied(p))
    <2>1. Changed(p) \in Map /\ KeysSet(p) \in SUBSET Key
      BY <1>p DEF Changed, KeysSet, Process, Op, Map
    <2>2. Applied(p) \in Process
      BY <1>p, <2>1 DEF Applied, Process, Phase
    <2>3. Held(members, states, x, Applied(p))
      BY <1>p, <1>u DEF Applied, Process, Held
    <2> QED BY <1>u, <1>4, <2>2, <2>3
  <1> QED BY <1>1, <1>2, <1>3, <1>4 DEF AcceptRead, Applied

\* The edits p is told were saved.
Saves(p) ==
    {[rev |-> d, key |-> k, value |-> proc[p].op.value] :
       d \in proc[p].own, k \in IF proc[p].op.kind = "set" THEN proc[p].op.key ELSE {}}

LEMMA PublishedCore ==
    ASSUME Core, NEW p \in Proc, AcceptPublished(p)
    PROVE  /\ UNCHANGED <<members, states>> /\ proc[p].phase = "record"
           /\ \/ /\ NothingMissing(p) /\ Records(p, proc[p].heads)
                 /\ settled' = settled \cup Saves(p)
                 /\ settled' \subseteq [rev : Stored, key : Key, value : Value]
                 /\ sealed' = (IF proc[p].seals THEN proc[p].control ELSE sealed)
                 /\ sealed' \in Control
                 /\ Moves(p, Idle)
                 /\ Idle \in Process /\ Held(members, states, DeviceOf[p], Idle)
              \/ /\ UNCHANGED <<cp, settled, sealed>>
                 /\ \E e \in Process :
                       /\ e = [proc[p] EXCEPT !.phase = "reload", !.view = {}, !.heads = {}]
                       /\ Moves(p, e) /\ Held(members, states, DeviceOf[p], e)
  <1> DEFINE x == DeviceOf[p]
             e == [proc[p] EXCEPT !.phase = "reload", !.view = {}, !.heads = {}]
  <1>p. /\ proc[p] \in Process /\ Held(members, states, x, proc[p])
        /\ Idle \in Process /\ Held(members, states, x, Idle)
        /\ Len(members) \in Nat \ {0} /\ sealed \in Control
        /\ settled \subseteq [rev : Stored, key : Key, value : Value]
    BY CoreAt, IdleHeld
  <1>u. UNCHANGED <<members, states>> /\ proc[p].phase = "record"
    BY DEF AcceptPublished
  <1>1. CASE NothingMissing(p)
    <2>1. /\ Records(p, proc[p].heads)
          /\ settled' = settled \cup Saves(p)
          /\ sealed' = (IF proc[p].seals THEN proc[p].control ELSE sealed)
          /\ Moves(p, Idle)
      BY <1>1 DEF AcceptPublished, Saves
    <2>2. proc[p].own \subseteq Stored /\ proc[p].control \in Control
      BY <1>p, <1>u DEF Held, Process, Control, Stored
    <2>3. proc[p].op.kind = "set" => proc[p].op.key \subseteq Key /\ proc[p].op.value \in Value
      BY <1>p DEF Held, Process, Op
    <2>4. settled' \subseteq [rev : Stored, key : Key, value : Value]
      BY <1>p, <2>1, <2>2, <2>3 DEF Saves
    <2>5. sealed' \in Control
      BY <1>p, <2>1, <2>2
    <2> QED BY <1>p, <1>u, <1>1, <2>1, <2>4, <2>5
  <1>2. CASE ~ NothingMissing(p)
    <2>1. Moves(p, e) /\ UNCHANGED <<cp, settled, sealed>>
      BY <1>2 DEF AcceptPublished
    <2>2. e \in Process
      BY <1>p DEF Process, Phase
    <2>3. Held(members, states, x, e)
      BY <1>p, <1>u DEF Process, Held
    <2> HIDE DEF e
    <2> QED BY <1>u, <2>1, <2>2, <2>3 DEF e
  <1> QED BY <1>1, <1>2

\* What publishing leaves p with.
Sent(p, d) ==
    [proc[p] EXCEPT !.phase = "published", !.own = {d}, !.heads = {}, !.keys = {},
                    !.secrets = EmptyMap, !.published = proc[p].published \cup {d}]

LEMMA PublishCore ==
    ASSUME Core, NEW p \in Proc, Publish(p)
    PROVE  /\ UNCHANGED <<members, cp, settled, sealed>> /\ proc[p].phase = "publish"
           /\ \E d \in Rev \ Stored :
                 /\ Stored' = Stored \cup {d} /\ states'[d] = Revision(p)
                 /\ Sent(p, d) \in Process /\ Moves(p, Sent(p, d))
                 /\ Held(members, states', DeviceOf[p], Sent(p, d))
           /\ Grows /\ Core'
  <1> DEFINE x == DeviceOf[p]
  <1>p. /\ proc[p] \in Process /\ Held(members, states, x, proc[p]) /\ x \in Device
        /\ Len(members) \in Nat \ {0} /\ Stored \subseteq Rev /\ states \in [Stored -> State]
    BY CoreAt
  <1>u. UNCHANGED <<members, cp, settled, sealed>> /\ proc[p].phase = "publish"
    BY DEF Publish
  <1>1. PICK d \in Rev \ Stored :
           /\ states' = [e \in Stored \cup {d} |-> IF e = d THEN Revision(p) ELSE states[e]]
           /\ Moves(p, Sent(p, d))
    BY DEF Publish, Sent
  <1>2. /\ Stored' = Stored \cup {d} /\ states'[d] = Revision(p)
        /\ \A e \in Stored : states'[e] = states[e]
    BY <1>1 DEF Stored
  <1>3. Grows
    BY <1>p, <1>u, <1>2 DEF Grows
  <1>4. /\ proc[p].heads \in SUBSET Stored /\ proc[p].control \in Control
        /\ x \in members[proc[p].control]
    BY <1>p, <1>u DEF Held, Stored, Process, Control
  <1>5. Revision(p) \in State
    <2>1. PastOf(states, proc[p].heads) \subseteq Rev
      BY <1>4, <1>p, PastStored
    <2> QED BY <1>p, <2>1 DEF Revision, State, Process, Op
  <1>6. states' \in [Stored' -> State] /\ Stored' \subseteq Rev
    BY <1>p, <1>1, <1>2, <1>5
  <1>7. Sent(p, d) \in Process
    <2>1. EmptyMap \in Map
      BY DEF EmptyMap, Map
    <2>2. proc[p].published \subseteq Rev
      BY <1>p DEF Process
    <2> QED BY <1>p, <2>1, <2>2 DEF Sent, Process, Phase
  <1>8. Held(members, states', x, Sent(p, d))
    <2>1. Revision(p).control = proc[p].control /\ Revision(p).author = x
      BY DEF Revision
    <2> QED BY <1>p, <1>u, <1>2, <2>1 DEF Sent, Held, Process, Stored
  <1>9. Typed'
    <2>1. /\ proc' \in [Proc -> Process] /\ Len(members') \in 1..MaxControls
          /\ members' \in Seq(SUBSET Device) /\ sealed' \in Control'
      BY <1>1, <1>7, <1>u, MovesTyped DEF Core, Typed, Control
    <2>2. cp' \in [Device -> [heads : SUBSET Stored', control : 0..Len(members')]]
      BY <1>u, <1>2, CoreAt
    <2>3. settled' \subseteq [rev : Stored', key : Key, value : Value]
      BY <1>u, <1>2, CoreAt
    <2> QED BY <2>1, <2>2, <2>3, <1>6 DEF Typed
  <1>10. HistoryOK' /\ MembersOK'
    <2>1. IsFiniteSet(Stored')
      BY <1>2, FS_AddElement DEF Core, HistoryOK
    <2>2. /\ \A e \in Stored : Past(states', e) = Past(states, e)
          /\ \A H \in SUBSET Stored : PastOf(states', H) = PastOf(states, H)
      BY <1>3, PastStays
    <2>3. ASSUME NEW e \in Stored
          PROVE  /\ states'[e].parents \subseteq Stored'
                 /\ states'[e].anc = PastOf(states', states'[e].parents)
                 /\ states'[e].anc \subseteq Stored'
                 /\ e \notin states'[e].anc
                 /\ \A a \in states'[e].anc : Past(states', a) \subseteq states'[e].anc
                 /\ states'[e].control \in Control'
                 /\ states'[e].author \in members'[states'[e].control]
      BY <1>2, <1>u, <2>2, <2>3 DEF Core, HistoryOK, Control
    <2>4. /\ states'[d].parents \subseteq Stored'
          /\ states'[d].anc = PastOf(states', states'[d].parents)
          /\ states'[d].anc \subseteq Stored'
          /\ d \notin states'[d].anc
          /\ \A a \in states'[d].anc : Past(states', a) \subseteq states'[d].anc
          /\ states'[d].control \in Control'
          /\ states'[d].author \in members'[states'[d].control]
      <3>1. /\ Revision(p).parents = proc[p].heads /\ Revision(p).control = proc[p].control
            /\ Revision(p).anc = PastOf(states, proc[p].heads) /\ Revision(p).author = x
        BY DEF Revision
      <3>2. /\ PastOf(states, proc[p].heads) \subseteq Stored
            /\ \A a \in PastOf(states, proc[p].heads) :
                  Past(states, a) \subseteq PastOf(states, proc[p].heads)
        BY <1>4, PastStored
      <3> QED BY <1>2, <1>4, <1>u, <2>2, <3>1, <3>2 DEF Control
    <2>5. HistoryOK'
      BY <1>2, <2>1, <2>3, <2>4 DEF HistoryOK
    <2> QED BY <2>5, <1>u DEF Core, MembersOK, Control
  <1>11. \A q \in Proc : Held(members', states', DeviceOf[q], proc'[q])
    <2> TAKE q \in Proc
    <2>1. CASE q = p
      BY <1>1, <1>7, <1>8, <1>u, <2>1, MovesTyped
    <2>2. CASE q # p
      BY <1>1, <1>3, <1>7, <2>2, MovesTyped, HeldStays
    <2> QED BY <2>1, <2>2
  <1>12. Core'
    BY <1>9, <1>10, <1>11 DEF Core
  <1> QED BY <1>u, <1>1, <1>2, <1>3, <1>7, <1>8, <1>12

\* What changing the members leaves p with: the revisions are to be written again.
Sealing == [Idle EXCEPT !.phase = "open", !.op = [NoOp EXCEPT !.kind = "sync"], !.seals = TRUE]

LEMMA ChangeCore ==
    ASSUME Core, NEW p \in Proc, ChangeMembers(p)
    PROVE  /\ UNCHANGED <<states, cp, settled, sealed>>
           /\ Len(members') = Len(members) + 1 /\ DeviceOf[p] = Admin
           /\ Sealing \in Process /\ Moves(p, Sealing)
           /\ Grows /\ Core'
  <1> DEFINE x == DeviceOf[p]
  <1>p. /\ proc[p] \in Process /\ Held(members, states, x, proc[p]) /\ x \in Device
        /\ Len(members) \in Nat \ {0} /\ members \in Seq(SUBSET Device)
    BY CoreAt DEF Core, Typed
  <1>u. /\ UNCHANGED <<states, cp, settled, sealed>> /\ Moves(p, Sealing)
        /\ Len(members) < MaxControls
    BY DEF ChangeMembers, Sealing, Current
  <1>1. PICK M \in SUBSET Device :
           /\ members' = Append(members, M)
           /\ M \in {members[Current] \ proc[p].op.who, members[Current] \cup proc[p].op.who}
    <2>1. members[Current] \in SUBSET Device /\ proc[p].op.who \in SUBSET Device
      BY <1>p DEF Current, Process, Op
    <2>2. \/ members' = Append(members, members[Current] \ proc[p].op.who)
          \/ members' = Append(members, members[Current] \cup proc[p].op.who)
      BY DEF ChangeMembers
    <2>3. /\ members[Current] \ proc[p].op.who \in SUBSET Device
          /\ members[Current] \cup proc[p].op.who \in SUBSET Device
      BY <2>1
    <2> QED BY <2>2, <2>3
  <1>2. Admin \in M /\ x = Admin
    <2>1. proc[p].op.kind \in {"revoke", "approve"}
      BY DEF ChangeMembers
    <2>2. Admin \in members[Current]
      BY <1>p DEF Core, MembersOK, Control, Current
    <2> QED BY <1>p, <1>1, <2>1, <2>2 DEF Held
  <1>3. /\ members' \in Seq(SUBSET Device) /\ Len(members') = Len(members) + 1
        /\ \A c \in Control : members'[c] = members[c]
        /\ members'[Len(members) + 1] = M
    BY <1>p, <1>1 DEF Control
  <1>4. Grows
    BY <1>p, <1>u, <1>3 DEF Grows, Stored
  <1>5. Sealing \in Process /\ Held(members', states', x, Sealing)
    <2>1. /\ [NoOp EXCEPT !.kind = "sync"] \in Op /\ EmptyMap \in Map
          /\ Idle \in Process
      BY <1>p, IdleHeld DEF NoOp, Op, OpKind, EmptyMap, Map
    <2>2. Sealing \in Process
      BY <2>1 DEF Sealing, Process, Phase
    <2>3. Held(members', states', x, Sealing)
      BY <1>2, <1>3, <1>p DEF Sealing, Idle, NoOp, Held
    <2> QED BY <2>2, <2>3
  <1>6. Typed'
    <2>1. proc' \in [Proc -> Process]
      BY <1>u, <1>5, MovesTyped
    <2>2. Len(members') \in 1..MaxControls
      BY <1>p, <1>u, <1>3, ResourceOK
    <2>3. cp' \in [Device -> [heads : SUBSET Stored', control : 0..Len(members')]]
      <3>1. 0..Len(members) \subseteq 0..Len(members')
        BY <1>p, <1>3
      <3>2. Stored' = Stored /\ cp' = cp
        BY <1>u DEF Stored
      <3> QED BY <3>1, <3>2, CoreAt
    <2>4. sealed' \in Control'
      BY <1>u, <1>p, <1>3, CoreAt DEF Control
    <2> QED BY <1>u, <1>3, <2>1, <2>2, <2>3, <2>4 DEF Core, Typed, Stored
  <1>7. MembersOK'
    BY <1>2, <1>3, <1>p DEF Core, MembersOK, Control
  <1>8. HistoryOK'
    <2>1. Control \subseteq Control'
      BY <1>p, <1>3 DEF Control
    <2> QED BY <1>u, <1>3, <2>1 DEF Core, HistoryOK, Stored, PastOf, Past
  <1>9. \A q \in Proc : Held(members', states', DeviceOf[q], proc'[q])
    <2> TAKE q \in Proc
    <2>1. CASE q = p
      BY <1>u, <1>5, <2>1, MovesTyped
    <2>2. CASE q # p
      BY <1>u, <1>4, <1>5, <2>2, MovesTyped, HeldStays
    <2> QED BY <2>1, <2>2
  <1>10. Core'
    BY <1>6, <1>7, <1>8, <1>9 DEF Core
  <1> QED BY <1>u, <1>2, <1>3, <1>4, <1>5, <1>10

Acts(p) ==
    \/ SetSecret(p) \/ DeleteSecret(p) \/ SyncSecrets(p)
    \/ ListConflicts(p) \/ ResolveSecrets(p)
    \/ RemoveMember(p) \/ ApproveMember(p)
    \/ OpenSession(p) \/ ReadNothing(p) \/ ReadResource(p)
    \/ ReadAgain(p) \/ AcceptRead(p) \/ RemoveUnread(p) \/ ChangeMembers(p)
    \/ Recheck(p) \/ CheckControl(p) \/ Publish(p) \/ CheckControlAgain(p)
    \/ LoadPublished(p) \/ AcceptPublished(p) \/ Return(p)

\* One step of p: the core, what grows, and that no other process moves.
LEMMA ActsCore ==
    ASSUME Core, NEW p \in Proc, Acts(p)
    PROVE  /\ Core' /\ Grows
           /\ proc'[p] \in Process /\ \A q \in Proc \ {p} : proc'[q] = proc[q]
  <1> DEFINE Goal == /\ Core' /\ Grows
                     /\ proc'[p] \in Process /\ \A q \in Proc \ {p} : proc'[q] = proc[q]
  <1>g. UNCHANGED <<members, states>> => Grows
    BY CoreAt DEF Grows, Stored
  <1>c. /\ cp \in [Device -> [heads : SUBSET Stored, control : 0..Len(members)]]
        /\ settled \subseteq [rev : Stored, key : Key, value : Value] /\ sealed \in Control
    BY CoreAt
  <1>1. CASE \/ SetSecret(p) \/ DeleteSecret(p) \/ SyncSecrets(p)
             \/ ListConflicts(p) \/ RemoveMember(p) \/ ApproveMember(p)
    <2>1. PICK op \in Op : Starts(p, op) /\ Core'
      BY <1>1, OperationsCore
    <2>2. [Idle EXCEPT !.phase = "open", !.op = op] \in Process
      BY CoreAt, IdleHeld DEF Process, Phase
    <2> QED BY <1>g, <2>1, <2>2, MovesTyped DEF Starts
  <1>2. CASE \/ ResolveSecrets(p) \/ OpenSession(p) \/ ReadAgain(p) \/ RemoveUnread(p)
             \/ Recheck(p) \/ CheckControl(p) \/ CheckControlAgain(p) \/ LoadPublished(p)
             \/ Return(p)
    <2>1. UNCHANGED <<members, states, cp, settled, sealed>>
      BY <1>2, SimpleCore
    <2>2. PICK e \in Process : Moves(p, e) /\ Held(members, states, DeviceOf[p], e)
      BY <1>2, SimpleCore
    <2> QED BY <1>c, <1>g, <2>1, <2>2, QuietCore, MovesTyped
  <1>3. CASE ReadNothing(p)
    <2>1. PICK e \in Process : Moves(p, e) /\ Held(members, states, DeviceOf[p], e)
      BY <1>3, ReadNothingCore
    <2>2. UNCHANGED <<members, states, cp, settled>> /\ sealed' \in Control
      BY <1>3, ReadNothingCore
    <2> QED BY <1>c, <1>g, <2>1, <2>2, QuietCore, MovesTyped
  <1>4. CASE ReadResource(p)
    <2>1. UNCHANGED <<members, states, cp, settled, sealed>>
      BY <1>4, ReadCore
    <2>2. PICK e \in Process : Moves(p, e) /\ Held(members, states, DeviceOf[p], e)
      BY <1>4, ReadCore
    <2> QED BY <1>c, <1>g, <2>1, <2>2, QuietCore, MovesTyped
  <1>5. CASE AcceptRead(p)
    <2>1. UNCHANGED <<members, states, settled, sealed>> /\ Records(p, proc[p].heads)
      BY <1>5, AcceptCore
    <2>2. PICK e \in Process : Moves(p, e) /\ Held(members, states, DeviceOf[p], e)
      BY <1>5, AcceptCore
    <2>3. cp' \in [Device -> [heads : SUBSET Stored, control : 0..Len(members)]]
      BY <2>1, RecordsTyped
    <2> QED BY <1>c, <1>g, <2>1, <2>2, <2>3, QuietCore, MovesTyped
  <1>6. CASE AcceptPublished(p)
    <2>1. /\ UNCHANGED <<members, states>> /\ sealed' \in Control
          /\ settled' \subseteq [rev : Stored, key : Key, value : Value]
      BY <1>6, <1>c, PublishedCore
    <2>2. PICK e \in Process : Moves(p, e) /\ Held(members, states, DeviceOf[p], e)
      BY <1>6, PublishedCore
    <2>3. cp' \in [Device -> [heads : SUBSET Stored, control : 0..Len(members)]]
      BY <1>6, <1>c, PublishedCore, RecordsTyped
    <2> QED BY <1>g, <2>1, <2>2, <2>3, QuietCore, MovesTyped
  <1>7. CASE Publish(p)
    BY <1>7, PublishCore, MovesTyped
  <1>8. CASE ChangeMembers(p)
    BY <1>8, ChangeCore, MovesTyped
  <1> QED BY <1>1, <1>2, <1>3, <1>4, <1>5, <1>6, <1>7, <1>8 DEF Acts

LEMMA CoreStep == Core /\ [Next]_vars => Core' /\ Grows
  <1> SUFFICES ASSUME Core, [Next]_vars PROVE Core' /\ Grows
    OBVIOUS
  <1>1. CASE UNCHANGED vars
    <2>1. Grows
      BY <1>1, CoreAt DEF vars, Grows, Stored, Core, Typed
    <2> QED BY <1>1, <2>1
          DEF vars, Core, Typed, HistoryOK, MembersOK, Stored, Control, PastOf, Past
  <1>2. CASE \E p \in Proc : Acts(p)
    BY <1>2, ActsCore
  <1> QED BY <1>1, <1>2 DEF Next, Acts

LEMMA CoreInit == Init => Core
  <1> SUFFICES ASSUME Init PROVE Core
    OBVIOUS
  <1>1. /\ Len(members) = 1 /\ members \in Seq(SUBSET Device) /\ members[1] = FirstMembers
        /\ Stored = {} /\ states \in [{} -> State]
    BY ResourceOK DEF Init, Stored
  <1>2. Idle \in Process
    BY DEF Idle, NoOp, Process, Op, Phase, OpKind, Map, EmptyMap
  <1>3. Typed
    BY <1>1, <1>2, ResourceOK DEF Init, Typed, Control
  <1>4. HistoryOK /\ MembersOK
    BY <1>1, ResourceOK, FS_EmptySet DEF HistoryOK, MembersOK, Control
  <1>5. \A p \in Proc : Held(members, states, DeviceOf[p], proc[p])
    BY <1>1 DEF Init, Held, Idle, NoOp
  <1> QED BY <1>3, <1>4, <1>5 DEF Core

\* Every reachable state is well typed: no process names a revision that is
\* not stored, and no checkpoint a list that does not exist.
THEOREM TypeCorrect == Spec => []TypeOK
<1>1. Spec => []Core
  BY CoreInit, CoreStep, PTL DEF Spec
<1>2. Core => TypeOK
  <2> SUFFICES ASSUME Core PROVE TypeOK
    OBVIOUS
  <2>1. /\ members \in Seq(SUBSET Device) /\ Len(members) \in 1..MaxControls
        /\ Stored \subseteq Rev
        /\ settled \subseteq [rev : Stored, key : Key, value : Value]
        /\ sealed \in Control
        /\ states \in [Stored -> State] /\ \A d \in Stored : states[d].control \in Control
    BY DEF Core, Typed, HistoryOK
  <2>2. 0..Len(members) = {0} \cup Control
    BY <2>1 DEF Control
  <2>3. cp \in [Device -> [heads : SUBSET Stored, control : {0} \cup Control]]
    BY <2>2 DEF Core, Typed
  <2>4. ASSUME NEW p \in Proc
        PROVE  /\ proc[p].phase \in Phase
               /\ proc[p].op \in Op
               /\ proc[p].control \in {0} \cup Control
               /\ proc[p].view \subseteq Stored
               /\ proc[p].heads \subseteq Stored
               /\ proc[p].conflicts \subseteq Key /\ proc[p].keys \subseteq Key
               /\ proc[p].secrets \in Map
               /\ proc[p].seen \subseteq Stored
               /\ proc[p].published \subseteq Stored
               /\ proc[p].own \subseteq proc[p].published
               /\ proc[p].seals \in BOOLEAN
    <3>1. proc[p] \in Process /\ Held(members, states, DeviceOf[p], proc[p])
      BY CoreAt
    <3>2. proc[p].control \in 0..Len(members)
      BY <3>1, <2>1 DEF Held, Process
    <3> QED BY <3>1, <3>2, <2>2 DEF Held, Process, Stored
  <2> QED BY <2>1, <2>3, <2>4 DEF TypeOK
<1>3. QED BY <1>1, <1>2, PTL

-----------------------------------------------------------------------------
(***************************************************************************)
(* Where heads come from: a process has none, keeps those it read, or has  *)
(* just taken the trusted heads of a view.                                 *)
(***************************************************************************)
Reads(p, view) ==
    /\ UNCHANGED <<members, states, cp>>
    /\ proc'[p].phase \in {"accept", "record"} /\ proc'[p].control = proc[p].control
    /\ proc[p].control \in Control
    /\ view \in SUBSET Stored /\ \E K \in SUBSET Stored : view = PastOf(states, K)
    /\ cp[DeviceOf[p]].heads \subseteq view
    /\ \A d \in view : states[d].control <= proc[p].control
    /\ proc'[p].view = view
    /\ proc'[p].heads = TrustedHeads(DeviceOf[p], proc[p].control, view)

Keeps(p) ==
    /\ proc'[p].heads = proc[p].heads /\ proc'[p].control = proc[p].control
    /\ proc'[p].phase \in {"recheck", "write", "publish"}

LEMMA LoadsFacts ==
    ASSUME Core, NEW p \in Proc, NEW known \in SUBSET Stored, NEW view, Loads(p, known, view)
    PROVE  /\ \E K \in SUBSET Stored : known \subseteq K /\ view = PastOf(states, K)
           /\ view \in SUBSET Stored /\ known \subseteq view
           /\ cp[DeviceOf[p]].heads \subseteq view
           /\ \A d \in view : states[d].control <= proc[p].control
  <1>1. PICK listed \in SUBSET Stored : view = PastOf(states, listed \cup known)
    BY DEF Loads
  <1>2. listed \cup known \in SUBSET Stored
    OBVIOUS
  <1> QED BY <1>1, <1>2, PastStored DEF Loads

LEMMA HeadsMove ==
    ASSUME Core, NEW p \in Proc, Acts(p)
    PROVE  /\ \/ proc'[p].heads = {} /\ proc'[p].phase \notin {"accept", "record"}
              \/ Keeps(p)
              \/ \E view : Reads(p, view)
           /\ \/ UNCHANGED cp
              \/ /\ Records(p, proc[p].heads) /\ NothingMissing(p)
                 /\ proc[p].phase \in {"accept", "record"}
                 /\ UNCHANGED <<members, states>>
           /\ UNCHANGED states \/ Publish(p)
           /\ UNCHANGED members \/ ChangeMembers(p)
  <1> DEFINE Empty == proc'[p].heads = {} /\ proc'[p].phase \notin {"accept", "record"}
  <1>p. /\ proc[p] \in Process /\ Held(members, states, DeviceOf[p], proc[p])
        /\ Len(members) \in Nat /\ proc \in [Proc -> Process]
    BY CoreAt DEF Core, Typed
  <1>m. ASSUME NEW e, Moves(p, e) PROVE proc'[p] = e
    BY <1>p, <1>m DEF Moves
  <1>i. Idle.heads = {} /\ Idle.phase \notin {"accept", "record"}
    BY DEF Idle
  <1>e. proc[p].phase \notin {"accept", "recheck", "write", "publish", "record"} =>
           proc[p].heads = {}
    BY <1>p DEF Held
  <1>k. proc[p].published \in SUBSET Stored /\ proc[p].own \in SUBSET Stored
    BY <1>p DEF Held, Stored
  <1>1. CASE \/ SetSecret(p) \/ DeleteSecret(p) \/ SyncSecrets(p)
             \/ ListConflicts(p) \/ RemoveMember(p) \/ ApproveMember(p)
    <2>1. PICK op \in Op : Starts(p, op)
      BY <1>1, OperationsCore
    <2> QED BY <1>m, <1>i, <2>1 DEF Starts, Idle
  <1>2. CASE ResolveSecrets(p) \/ RemoveUnread(p) \/ Return(p)
    <2>1. /\ UNCHANGED <<members, states, cp>>
          /\ \E e : Moves(p, e) /\ e.heads = {} /\ e.phase \in {"idle", "open"}
      <3>1. CASE ResolveSecrets(p)
        <4> DEFINE o == [NoOp EXCEPT !.kind = "resolve"]
                   e == [Idle EXCEPT !.phase = "open", !.op = o, !.seen = proc[p].seen]
        <4>1. UNCHANGED <<members, states, cp>> /\ Moves(p, e)
          BY <3>1 DEF ResolveSecrets
        <4> HIDE DEF o
        <4>2. e.heads = {} /\ e.phase = "open"
          BY DEF Idle
        <4> QED BY <4>1, <4>2
      <3>2. CASE RemoveUnread(p)
        <4> DEFINE o == [proc[p].op EXCEPT !.kind = "revoke"]
                   e == [Idle EXCEPT !.phase = "open", !.op = o]
        <4>1. UNCHANGED <<members, states, cp>> /\ Moves(p, e)
          BY <3>2 DEF RemoveUnread
        <4> HIDE DEF o
        <4>2. e.heads = {} /\ e.phase = "open"
          BY DEF Idle
        <4> QED BY <4>1, <4>2
      <3>3. CASE Return(p)
        BY <3>3 DEF Return, Idle
      <3> QED BY <1>2, <3>1, <3>2, <3>3
    <2> QED BY <1>m, <2>1
  <1>3. CASE OpenSession(p)
    <2>1. proc'[p] = [proc[p] EXCEPT !.control = Current,
                        !.phase = IF proc[p].op.kind \in {"approve", "revoke"}
                                  THEN "members" ELSE "read"]
      BY <1>3, <1>m DEF OpenSession
    <2>2. proc[p].heads = {} /\ UNCHANGED <<members, states, cp>>
      BY <1>3, <1>e DEF OpenSession
    <2> QED BY <1>p, <2>1, <2>2 DEF Process
  <1>4. CASE ReadAgain(p)
    BY <1>4, <1>m, <1>p DEF ReadAgain, Process
  <1>5. CASE Recheck(p)
    BY <1>5, <1>m, <1>p DEF Recheck, Process, Keeps
  <1>6. CASE CheckControl(p)
    BY <1>6, <1>m, <1>p DEF CheckControl, Process, Keeps, Reopened
  <1>7. CASE CheckControlAgain(p)
    <2>1. /\ proc[p].phase = "published" /\ UNCHANGED <<members, states, cp>>
          /\ Moves(p, IF StillUnchanged(p) THEN [proc[p] EXCEPT !.phase = "reload"]
                      ELSE Reopened(p))
      BY <1>7 DEF CheckControlAgain
    <2>2. CASE StillUnchanged(p)
      <3>1. proc'[p] = [proc[p] EXCEPT !.phase = "reload"]
        BY <1>m, <2>1, <2>2
      <3>2. proc[p].heads = {}
        BY <1>e, <2>1
      <3>3. Empty
        BY <1>p, <3>1, <3>2 DEF Process
      <3> QED BY <2>1, <3>3
    <2>3. CASE ~StillUnchanged(p)
      <3>1. proc'[p] = Reopened(p)
        BY <1>m, <2>1, <2>3
      <3>2. Empty
        BY <1>p, <3>1 DEF Process, Reopened
      <3> QED BY <2>1, <3>2
    <2> QED BY <2>2, <2>3
  <1>8. CASE ReadNothing(p)
    <2>1. /\ UNCHANGED <<members, states, cp, settled>> /\ proc[p].phase = "read"
          /\ \/ Moves(p, Idle)
             \/ \E s \in Map : Moves(p, [proc[p] EXCEPT !.phase = "write", !.keys = proc[p].op.key,
                                                        !.secrets = s])
      BY <1>8, <1>p DEF ReadNothing, Process, Op, Map
    <2>2. ASSUME NEW s \in Map,
                 Moves(p, [proc[p] EXCEPT !.phase = "write", !.keys = proc[p].op.key,
                                          !.secrets = s])
          PROVE  Empty
      BY <1>m, <1>p, <1>e, <2>1, <2>2 DEF Process
    <2>3. Empty
      BY <1>m, <1>i, <2>1, <2>2
    <2> QED BY <2>1, <2>3
  <1>9. CASE ReadResource(p)
    <2>1. PICK view, heads, choice, e : ReadStep(p, view, heads, choice, e) /\ Moves(p, e)
      BY <1>9, ReadCore
    <2>2. proc'[p] = e /\ UNCHANGED <<members, states, cp>> /\ proc[p].control \in Control
      BY <1>9, <1>m, <1>p, <2>1, ReadCore DEF Held, Control, Process
    <2>3. /\ e.phase = "accept" /\ e.control = proc[p].control /\ e.view = view
          /\ e.heads = TrustedHeads(DeviceOf[p], proc[p].control, view)
          /\ Loads(p, proc[p].published, view)
      BY <1>p, <2>1 DEF ReadStep, Process
    <2>4. /\ \E K \in SUBSET Stored : view = PastOf(states, K)
          /\ view \in SUBSET Stored /\ cp[DeviceOf[p]].heads \subseteq view
          /\ \A d \in view : states[d].control <= proc[p].control
      <3>1. PICK known \in SUBSET Stored : known = proc[p].published
        BY <1>k
      <3>2. Loads(p, known, view)
        BY <2>3, <3>1
      <3>3. view \in SUBSET Stored
        BY <3>2, LoadsFacts
      <3>4. \A d \in view : states[d].control <= proc[p].control
        BY <3>2, LoadsFacts
      <3>5. \E K \in SUBSET Stored : view = PastOf(states, K)
        <4>1. \E K \in SUBSET Stored : known \subseteq K /\ view = PastOf(states, K)
          BY <3>2, LoadsFacts
        <4> QED BY <4>1
      <3>6. cp[DeviceOf[p]].heads \subseteq view
        BY <3>2, LoadsFacts
      <3> QED BY <3>3, <3>4, <3>5, <3>6
    <2>5. Reads(p, view)
      BY <2>2, <2>3, <2>4 DEF Reads
    <2> QED BY <2>2, <2>5
  <1>10. CASE LoadPublished(p)
    <2>1. PICK view \in SUBSET Stored :
             /\ Loads(p, proc[p].own, view)
             /\ Moves(p, [proc[p] EXCEPT !.phase = "record", !.view = view,
                          !.heads = TrustedHeads(DeviceOf[p], proc[p].control, view)])
      BY <1>10 DEF LoadPublished
    <2>2. UNCHANGED <<members, states, cp>> /\ proc[p].control \in Control
      BY <1>10, <1>p DEF LoadPublished, Held, Control, Process
    <2>3. /\ proc'[p].phase = "record" /\ proc'[p].control = proc[p].control
          /\ proc'[p].view = view
          /\ proc'[p].heads = TrustedHeads(DeviceOf[p], proc[p].control, view)
      BY <1>p, <1>m, <2>1 DEF Process
    <2>4. /\ \E K \in SUBSET Stored : view = PastOf(states, K)
          /\ view \in SUBSET Stored /\ cp[DeviceOf[p]].heads \subseteq view
          /\ \A d \in view : states[d].control <= proc[p].control
      <3>1. PICK known \in SUBSET Stored : known = proc[p].own
        BY <1>k
      <3>2. Loads(p, known, view)
        BY <2>1, <3>1
      <3>3. view \in SUBSET Stored
        BY <3>2, LoadsFacts
      <3>4. \A d \in view : states[d].control <= proc[p].control
        BY <3>2, LoadsFacts
      <3>5. \E K \in SUBSET Stored : view = PastOf(states, K)
        <4>1. PICK listed \in SUBSET Stored : view = PastOf(states, listed \cup known)
          BY <3>2 DEF Loads
        <4>2. listed \cup known \in SUBSET Stored
          BY <3>1
        <4> QED BY <4>1, <4>2
      <3>6. cp[DeviceOf[p]].heads \subseteq view
        BY <3>2, LoadsFacts
      <3> QED BY <3>3, <3>4, <3>5, <3>6
    <2>5. Reads(p, view)
      BY <2>2, <2>3, <2>4 DEF Reads
    <2> QED BY <2>2, <2>5
  <1>11. CASE AcceptRead(p)
    <2>1. PICK e \in Process :
             /\ Moves(p, e)
             /\ \/ e = Idle
                \/ e = [Idle EXCEPT !.phase = "looked", !.seen = proc[p].heads]
                \/ e = [Idle EXCEPT !.phase = "open", !.op = [proc[p].op EXCEPT !.kind = "revoke"]]
                \/ e = Applied(p)
      BY <1>11, AcceptCore
    <2>2. /\ UNCHANGED <<members, states>> /\ Records(p, proc[p].heads)
          /\ NothingMissing(p) /\ proc[p].phase = "accept"
      BY <1>11, AcceptCore
    <2>3. e = Applied(p) => Keeps(p)
      BY <1>m, <1>p, <2>1 DEF Applied, Keeps, Process
    <2>4. e # Applied(p) => Empty
      <3>1. e # Applied(p) => e.heads = {} /\ e.phase \notin {"accept", "record"}
        <4>1. Idle.heads = {} /\ Idle.phase = "idle"
          BY DEF Idle
        <4>2. e = [Idle EXCEPT !.phase = "looked", !.seen = proc[p].heads] =>
                 e.heads = {} /\ e.phase = "looked"
          BY DEF Idle
        <4>3. e = [Idle EXCEPT !.phase = "open", !.op = [proc[p].op EXCEPT !.kind = "revoke"]] =>
                 e.heads = {} /\ e.phase = "open"
          BY DEF Idle
        <4> QED BY <2>1, <4>1, <4>2, <4>3
      <3> QED BY <1>m, <2>1, <3>1
    <2> QED BY <2>2, <2>3, <2>4
  <1>12. CASE AcceptPublished(p)
    <2>1. /\ UNCHANGED <<members, states>> /\ proc[p].phase = "record"
          /\ UNCHANGED cp \/ (NothingMissing(p) /\ Records(p, proc[p].heads))
          /\ \/ Moves(p, Idle)
             \/ Moves(p, [proc[p] EXCEPT !.phase = "reload", !.view = {}, !.heads = {}])
      <3>1. CASE NothingMissing(p)
        BY <1>12, <3>1 DEF AcceptPublished
      <3>2. CASE ~ NothingMissing(p)
        <4>1. UNCHANGED cp
          BY <1>12, <3>2 DEF AcceptPublished
        <4>2. Moves(p, [proc[p] EXCEPT !.phase = "reload", !.view = {}, !.heads = {}])
          BY <1>12, <3>2 DEF AcceptPublished
        <4>3. UNCHANGED <<members, states>> /\ proc[p].phase = "record"
          BY <1>12, PublishedCore
        <4> QED BY <4>1, <4>2, <4>3
      <3> QED BY <3>1, <3>2
    <2>2. Empty
      BY <1>m, <1>p, <1>i, <2>1 DEF Process
    <2> QED BY <2>1, <2>2
  <1>13. CASE Publish(p)
    <2>1. UNCHANGED <<members, cp>> /\ \E d : Moves(p, Sent(p, d))
      BY <1>13, PublishCore
    <2> QED BY <1>13, <1>m, <1>p, <2>1 DEF Sent, Process
  <1>14. CASE ChangeMembers(p)
    <2>1. UNCHANGED <<states, cp>> /\ Moves(p, Sealing)
      BY <1>14, ChangeCore
    <2> QED BY <1>14, <1>m, <2>1 DEF Sealing, Idle
  <1> QED BY <1>1, <1>2, <1>3, <1>4, <1>5, <1>6, <1>7, <1>8, <1>9, <1>10, <1>11, <1>12,
             <1>13, <1>14 DEF Acts

-----------------------------------------------------------------------------
(***************************************************************************)
(* Witnesses: every head a process or a checkpoint holds was read by its   *)
(* device while the head's author was a member, and both stayed since.     *)
(***************************************************************************)
Serves(M, to, from, m) ==
    /\ from \in 1..to
    /\ \A c \in (from + 1)..to : m \in M[c] \/ m \notin M[c - 1]

Witnessed(M, S, x, c, h) ==
    \E b \in S[h].control..c : Serves(M, b, S[h].control, S[h].author) /\ Serves(M, c, b, x)

Witnesses ==
    /\ \A d \in Stored : \A h \in states[d].parents :
          Witnessed(members, states, states[d].author, states[d].control, h)
    /\ \A x \in Device : \A h \in cp[x].heads :
          Witnessed(members, states, x, cp[x].control, h)
    /\ \A p \in Proc : \A h \in proc[p].heads :
          Witnessed(members, states, DeviceOf[p], proc[p].control, h)

\* To serve is to serve up to some list and on from there.
LEMMA ServesOn ==
    ASSUME NEW M, NEW a \in Nat, NEW b \in Nat, NEW c \in Nat, NEW m,
           Serves(M, b, a, m), Serves(M, c, b, m)
    PROVE  Serves(M, c, a, m)
  BY DEF Serves

\* Serving depends on the lists up to the last one only.
LEMMA ServesSame ==
    ASSUME NEW M, NEW N, NEW a, NEW c \in Nat, NEW m,
           \A i \in 1..c : N[i] = M[i], Serves(M, c, a, m)
    PROVE  Serves(N, c, a, m)
  <1>1. a \in 1..c
    BY DEF Serves
  <1>2. \A i \in (a + 1)..c : i \in 1..c /\ i - 1 \in 1..c
    BY <1>1
  <1> QED BY <1>1, <1>2 DEF Serves

LEMMA WitnessedStays ==
    ASSUME Core, Grows, NEW h \in Stored, NEW c \in 0..Len(members), NEW x,
           Witnessed(members, states, x, c, h)
    PROVE  Witnessed(members', states', x, c, h)
  <1>1. states'[h] = states[h] /\ Len(members) \in Nat /\ states[h].control \in Nat
    BY DEF Grows, Core, Typed, State
  <1>2. PICK b \in states[h].control..c :
           /\ Serves(members, b, states[h].control, states[h].author)
           /\ Serves(members, c, b, x)
    BY DEF Witnessed
  <1>3. \A i \in 1..Len(members) : members'[i] = members[i]
    BY DEF Grows, Control
  <1>n. b \in Nat /\ b <= c /\ c <= Len(members)
    BY <1>1, <1>2
  <1>4. Serves(members', b, states[h].control, states[h].author)
    <2>1. \A i \in 1..b : members'[i] = members[i]
      BY <1>1, <1>3, <1>n
    <2> QED BY <1>2, <1>n, <2>1, ServesSame
  <1>5. Serves(members', c, b, x)
    <2>1. \A i \in 1..c : members'[i] = members[i]
      BY <1>1, <1>3, <1>n
    <2> QED BY <1>2, <2>1, ServesSame
  <1> QED BY <1>1, <1>2, <1>4, <1>5 DEF Witnessed

\* Trusted heads are witnessed: their author is a present member, or the
\* device witnessed them before and has been a member since.
LEMMA TrustedAreWitnessed ==
    ASSUME Core, Witnesses, NEW x \in Device, NEW c \in Control, NEW d \in Stored,
           Trusted(x, c, d)
    PROVE  Witnessed(members, states, x, c, d)
  <1>1. states[d].control \in Nat /\ c \in Nat \ {0}
    BY DEF Core, Typed, State, Control
  <1>2. CASE AuthorIsCurrent(c, d)
    <2>1. Serves(members, c, states[d].control, states[d].author)
      BY <1>2 DEF AuthorIsCurrent, Unbroken, Serves
    <2>2. Serves(members, c, c, x)
      BY <1>1 DEF Serves
    <2> QED BY <1>1, <2>1, <2>2 DEF Witnessed, Serves
  <1>3. CASE TakenOver(x, c, d)
    <2>1. cp[x].control \in Nat
      BY DEF Core, Typed
    <2>2. Serves(members, c, cp[x].control, x) /\ d \in cp[x].heads
      BY <1>3 DEF TakenOver, Unbroken, Serves
    <2>3. PICK b \in states[d].control..cp[x].control :
             /\ Serves(members, b, states[d].control, states[d].author)
             /\ Serves(members, cp[x].control, b, x)
      BY <2>2 DEF Witnesses, Witnessed
    <2>4. b \in Nat /\ b <= c
      BY <1>1, <2>1, <2>2, <2>3 DEF Serves
    <2>5. Serves(members, c, b, x)
      BY <1>1, <2>1, <2>2, <2>3, <2>4, ServesOn
    <2> QED BY <1>1, <2>3, <2>4, <2>5 DEF Witnessed
  <1> QED BY <1>2, <1>3 DEF Trusted

LEMMA WitnessesStep == Core /\ Witnesses /\ [Next]_vars => Witnesses'
  <1> SUFFICES ASSUME Core, Witnesses, [Next]_vars PROVE Witnesses'
    OBVIOUS
  <1>1. CASE UNCHANGED vars
    BY <1>1 DEF vars, Witnesses, Stored
  <1>2. ASSUME NEW p \in Proc, Acts(p) PROVE Witnesses'
    <2>g. Grows /\ \A q \in Proc \ {p} : proc'[q] = proc[q]
      BY <1>2, ActsCore
    <2>p. DeviceOf[p] \in Device /\ Len(members) \in Nat /\ Stored \subseteq Stored'
      BY <2>g, CoreAt DEF Grows
    <2>h. \A q \in Proc : proc[q].heads \subseteq Stored /\ proc[q].control \in 0..Len(members)
      BY CoreAt DEF Held, Stored, Process
    <2>s. \A q \in Proc : \A h \in proc[q].heads :
             Witnessed(members', states', DeviceOf[q], proc[q].control, h)
      BY <2>g, <2>h, WitnessedStays DEF Witnesses
    <2>c. \A x \in Device : \A h \in cp[x].heads :
             Witnessed(members', states', x, cp[x].control, h)
      <3>1. \A x \in Device : cp[x].heads \subseteq Stored /\ cp[x].control \in 0..Len(members)
        BY DEF Core, Typed
      <3> QED BY <2>g, <3>1, WitnessedStays DEF Witnesses
    <2>1. ASSUME NEW q \in Proc, NEW h \in proc'[q].heads
          PROVE  Witnessed(members', states', DeviceOf[q], proc'[q].control, h)
      <3>1. CASE q # p
        BY <2>1, <2>g, <2>s, <3>1
      <3>2. CASE q = p /\ Keeps(p)
        BY <2>1, <2>s, <3>2 DEF Keeps
      <3>3. CASE q = p /\ \E view : Reads(p, view)
        <4>1. PICK view : Reads(p, view)
          BY <3>3
        <4>2. /\ h \in Stored /\ Trusted(DeviceOf[p], proc[p].control, h)
              /\ proc[p].control \in Control /\ proc'[p].control = proc[p].control
          BY <2>1, <3>3, <4>1, TrustedInView DEF Reads
        <4>3. Witnessed(members, states, DeviceOf[p], proc[p].control, h)
          BY <2>p, <4>2, TrustedAreWitnessed
        <4> QED BY <2>g, <2>h, <3>3, <4>2, <4>3, WitnessedStays
      <3> QED BY <1>2, <2>1, <3>1, <3>2, <3>3, HeadsMove
    <2>2. ASSUME NEW x \in Device, NEW h \in cp'[x].heads
          PROVE  Witnessed(members', states', x, cp'[x].control, h)
      <3>1. CASE UNCHANGED cp
        BY <2>2, <2>c, <3>1
      <3>2. CASE Records(p, proc[p].heads)
        <4>1. CASE x = DeviceOf[p]
          <5>1. cp'[x].heads = proc[p].heads /\ cp'[x].control = proc[p].control
            <6>1. cp'[DeviceOf[p]] = [heads |-> proc[p].heads, control |-> proc[p].control]
              BY <3>2, RecordsTyped
            <6> QED BY <4>1, <6>1
          <5> QED BY <2>2, <2>s, <4>1, <5>1
        <4>2. CASE x # DeviceOf[p]
          BY <2>2, <2>c, <3>2, <4>2, RecordsTyped
        <4> QED BY <4>1, <4>2
      <3> QED BY <1>2, <3>1, <3>2, HeadsMove
    <2>3. ASSUME NEW d \in Stored', NEW h \in states'[d].parents
          PROVE  Witnessed(members', states', states'[d].author, states'[d].control, h)
      <3>1. CASE d \in Stored
        <4>1. /\ states'[d] = states[d] /\ states[d].parents \subseteq Stored
              /\ states[d].control \in 0..Len(members)
          BY <2>g, <2>p, <3>1 DEF Grows, Core, HistoryOK, Control
        <4> QED BY <2>3, <2>g, <3>1, <4>1, WitnessedStays DEF Witnesses
      <3>2. CASE d \notin Stored
        <4>1. ~ UNCHANGED states
          BY <2>3, <3>2 DEF Stored
        <4>2. Publish(p)
          BY <1>2, <4>1, HeadsMove
        <4>3. Stored' = Stored \cup {d} /\ states'[d] = Revision(p)
          BY <2>3, <3>2, <4>2, PublishCore
        <4>4. /\ Revision(p).parents = proc[p].heads /\ Revision(p).author = DeviceOf[p]
              /\ Revision(p).control = proc[p].control
          BY DEF Revision
        <4> QED BY <2>3, <2>s, <4>3, <4>4
      <3> QED BY <3>1, <3>2
    <2> QED BY <2>1, <2>2, <2>3 DEF Witnesses
  <1> QED BY <1>1, <1>2 DEF Next, Acts

\* A revision is built on another one only by a witness: its author read the
\* other one while that one's author was a member, and has been a member since
\* (trustedHeads takes over what the checkpoint holds only from such a device).
THEOREM RevisionsAreBuiltByWitnesses == Spec => []BuiltByWitnesses
<1>1. Init => Core /\ Witnesses
  BY CoreInit DEF Init, Witnesses, Stored, Idle
<1>2. Core /\ Witnesses /\ [Next]_vars => (Core /\ Witnesses)'
  BY CoreStep, WitnessesStep
<1>3. Core /\ Witnesses => BuiltByWitnesses
  <2> SUFFICES ASSUME Core, Witnesses, NEW d \in Stored, NEW h \in states[d].parents
               PROVE  \E c \in states[h].control..states[d].control :
                         /\ Unbroken(c, states[h].control, states[h].author)
                         /\ Unbroken(states[d].control, c, states[d].author)
    BY DEF BuiltByWitnesses
  <2> QED BY DEF Witnesses, Witnessed, Serves, Unbroken
<1>4. QED BY <1>1, <1>2, <1>3, PTL DEF Spec

-----------------------------------------------------------------------------
(***************************************************************************)
(* What is read covers what is to be trusted: nothing a device records     *)
(* leaves out a revision of a present member that it had accepted.         *)
(***************************************************************************)

\* Dropping what another one covers leaves everything covered.
LEMMA UncoveredCovers ==
    ASSUME Core, NEW T \in SUBSET Stored, NEW x \in T
    PROVE  x \in PastOf(states, Uncovered(states, T))
  <1> DEFINE Above(z) == {y \in T : z \in Past(states, y)}
             A == {Above(y) : y \in Above(x)}
  <1>h. \A d \in Stored : /\ d \notin states[d].anc
                          /\ \A e \in states[d].anc : Past(states, e) \subseteq states[d].anc
    BY DEF Core, HistoryOK
  <1>1. IsFiniteSet(T)
    BY FS_Subset DEF Core, HistoryOK
  <1>2. A \in SUBSET FiniteSubsetsOf(T) /\ A # {}
    <2>1. x \in Above(x)
      BY DEF Past
    <2>2. \A z \in T : Above(z) \in FiniteSubsetsOf(T)
      BY <1>1, FS_Subset DEF FiniteSubsetsOf
    <2>3. Above(x) \subseteq T
      OBVIOUS
    <2> HIDE DEF Above
    <2> QED BY <2>1, <2>2, <2>3
  <1>3. IsWellFoundedOn(StrictSubsetOrdering(T), FiniteSubsetsOf(T))
    BY FS_StrictSubsetOrderingWellFounded
  <1>4. PICK S \in A : \A U \in A : ~ (<<U, S>> \in StrictSubsetOrdering(T))
    BY <1>2, <1>3, WFMin
  <1>5. PICK y \in Above(x) : S = Above(y)
    BY <1>4
  <1>6. ASSUME NEW e \in T, y \in states[e].anc
        PROVE  FALSE
    <2>1. Past(states, y) \subseteq states[e].anc
      BY <1>6, <1>h
    <2>2. e \in Above(x)
      BY <1>5, <2>1 DEF Past
    <2>3. e \notin Past(states, y)
      BY <2>1, <1>h
    <2>4. Above(e) \subseteq Above(y)
      BY <2>1, <1>6, <1>h DEF Past
    <2>5. y \in Above(y) /\ y \notin Above(e)
      BY <1>6, <1>h, <2>3 DEF Past
    <2>6. <<Above(e), Above(y)>> \in StrictSubsetOrdering(T)
      BY <2>4, <2>5 DEF StrictSubsetOrdering
    <2> QED BY <1>4, <1>5, <2>2, <2>6
  <1>7. y \in Uncovered(states, T) /\ x \in Past(states, y)
    BY <1>5, <1>6 DEF Uncovered
  <1> QED BY <1>7 DEF PastOf

Present(M, S, c, d) == S[d].author \in M[c] /\ Serves(M, c, S[d].control, S[d].author)

Completes ==
    \A p \in Proc : proc[p].phase \in {"accept", "record"} =>
        \A d \in proc[p].view :
            Present(members, states, proc[p].control, d) => d \in PastOf(states, proc[p].heads)

LEMMA PresentIsCurrent ==
    ASSUME NEW c, NEW d
    PROVE  Present(members, states, c, d) <=> AuthorIsCurrent(c, d)
  BY DEF Present, Serves, AuthorIsCurrent, Unbroken

LEMMA ServesStays ==
    ASSUME Core, Grows, NEW c \in 0..Len(members), NEW b \in Nat, NEW m
    PROVE  Serves(members', c, b, m) <=> Serves(members, c, b, m)
  <1>1. \A i \in 1..Len(members) : members'[i] = members[i]
    BY DEF Grows, Control
  <1>2. Len(members) \in Nat
    BY DEF Core, Typed
  <1> QED BY <1>1, <1>2 DEF Serves

LEMMA PresentStays ==
    ASSUME Core, Grows, NEW d \in Stored, NEW c \in Control
    PROVE  Present(members', states', c, d) <=> Present(members, states, c, d)
  <1>1. /\ states'[d] = states[d] /\ Len(members) \in Nat /\ states[d].control \in Nat
        /\ members'[c] = members[c] /\ c \in 0..Len(members)
    BY DEF Grows, Core, Typed, State, Control
  <1>2. Serves(members', c, states[d].control, states[d].author)
           <=> Serves(members, c, states[d].control, states[d].author)
    BY <1>1, ServesStays
  <1> QED BY <1>1, <1>2 DEF Present

\* The trusted heads of a view cover everything in it that is trusted.
LEMMA ReadCovers ==
    ASSUME Core, NEW x, NEW c, NEW view \in SUBSET Stored, NEW d \in view, Trusted(x, c, d)
    PROVE  d \in PastOf(states, TrustedHeads(x, c, view))
  BY UncoveredCovers DEF TrustedHeads

LEMMA CompletesStep == Core /\ Completes /\ [Next]_vars => Completes'
  <1> SUFFICES ASSUME Core, Completes, [Next]_vars PROVE Completes'
    OBVIOUS
  <1>1. CASE UNCHANGED vars
    BY <1>1 DEF vars, Completes, PastOf, Past
  <1>2. ASSUME NEW p \in Proc, Acts(p) PROVE Completes'
    <2>g. Grows /\ \A q \in Proc \ {p} : proc'[q] = proc[q]
      BY <1>2, ActsCore
    <2> SUFFICES ASSUME NEW q \in Proc, proc'[q].phase \in {"accept", "record"},
                        NEW d \in proc'[q].view,
                        Present(members', states', proc'[q].control, d)
                 PROVE  d \in PastOf(states', proc'[q].heads)
      BY DEF Completes
    <2>1. CASE q # p
      <3>1. proc'[q] = proc[q]
        BY <2>g, <2>1
      <3>2. /\ proc[q].heads \in SUBSET Stored /\ d \in Stored /\ proc[q].control \in Control
        BY <3>1, CoreAt DEF Held, Stored, Process, Control
      <3>3. Present(members, states, proc[q].control, d)
        BY <2>g, <3>1, <3>2, PresentStays
      <3> QED BY <2>g, <3>1, <3>2, <3>3, PastStays DEF Completes
    <2>2. CASE q = p
      <3>1. PICK view : Reads(p, view)
        BY <1>2, <2>2, HeadsMove DEF Keeps
      <3>2. /\ view \in SUBSET Stored /\ d \in view /\ UNCHANGED <<members, states>>
            /\ proc'[p].control = proc[p].control
            /\ proc'[p].heads = TrustedHeads(DeviceOf[p], proc[p].control, view)
        BY <2>2, <3>1 DEF Reads
      <3>3. Trusted(DeviceOf[p], proc[p].control, d)
        BY <2>2, <3>2, PresentIsCurrent DEF Trusted
      <3> QED BY <2>2, <3>2, <3>3, ReadCovers
    <2> QED BY <2>1, <2>2
  <1> QED BY <1>1, <1>2 DEF Next, Acts

\* Storage cannot take back what a device accepted: AcceptStates records heads
\* only when the view they were chosen from holds all that was accepted before,
\* and the heads chosen cover whatever of it a present member wrote.
THEOREM AcceptedIsKept == Spec => AcceptedNeverShrinks
<1>1. Init => Core /\ Completes
  BY CoreInit DEF Init, Completes, Idle
<1>2. Core /\ Completes /\ [Next]_vars => (Core /\ Completes)'
  BY CoreStep, CompletesStep
<1>3. ASSUME Core, Completes, [Next]_vars
      PROVE  \A x \in Device : \A h \in cp[x].heads :
                h \in PastOf(states', cp'[x].heads) \/ ~ AuthorIsCurrent(cp'[x].control, h)
  <2>g. Grows
    BY <1>3, CoreStep
  <2>c. \A x \in Device : cp[x].heads \in SUBSET Stored
    BY <1>3 DEF Core, Typed
  <2>1. CASE UNCHANGED cp
    <3>1. \A x \in Device : cp[x].heads \subseteq PastOf(states', cp[x].heads)
      BY <1>3, <2>g, <2>c, PastStored, PastStays
    <3> QED BY <2>1, <3>1
  <2>2. ASSUME NEW p \in Proc, Acts(p), ~ UNCHANGED cp,
               NEW x \in Device, NEW h \in cp[x].heads, AuthorIsCurrent(cp'[x].control, h)
        PROVE  h \in PastOf(states', cp'[x].heads)
    <3>1. /\ Records(p, proc[p].heads) /\ NothingMissing(p)
          /\ proc[p].phase \in {"accept", "record"} /\ UNCHANGED <<members, states>>
      BY <1>3, <2>2, HeadsMove
    <3>2. CASE x = DeviceOf[p]
      <4>1. cp'[DeviceOf[p]] = [heads |-> proc[p].heads, control |-> proc[p].control]
        BY <1>3, <3>1, RecordsTyped
      <4>2. cp'[x].heads = proc[p].heads /\ cp'[x].control = proc[p].control
        BY <3>2, <4>1
      <4>3. h \in proc[p].view /\ Present(members, states, proc[p].control, h)
        BY <2>2, <3>1, <3>2, <4>2, PresentIsCurrent DEF NothingMissing
      <4>4. h \in PastOf(states, proc[p].heads)
        BY <1>3, <3>1, <4>3 DEF Completes
      <4> QED BY <3>1, <4>2, <4>4
    <3>3. CASE x # DeviceOf[p]
      <4>1. cp'[x] = cp[x]
        BY <1>3, <3>1, <3>3, RecordsTyped
      <4> QED BY <1>3, <2>2, <2>c, <3>1, <4>1, PastStored
    <3> QED BY <3>2, <3>3
  <2>3. CASE \E p \in Proc : Acts(p)
    BY <2>1, <2>2, <2>3
  <2>4. CASE UNCHANGED vars
    BY <2>1, <2>4 DEF vars
  <2> QED BY <1>3, <2>3, <2>4 DEF Next, Acts
<1>4. QED BY <1>1, <1>2, <1>3, PTL DEF Spec, AcceptedNeverShrinks

\* Each device runs one process of enbu at a time.
OneEachDevice == \A p, q \in Proc : DeviceOf[p] = DeviceOf[q] => p = q

TakesOver(M, a, x, c, d) == d \in a.heads /\ Serves(M, c, a.control, x)

Wholes ==
    \A p \in Proc : proc[p].phase \in {"accept", "record"} =>
        \A d \in proc[p].view :
            TakesOver(members, cp[DeviceOf[p]], DeviceOf[p], proc[p].control, d) =>
                d \in PastOf(states, proc[p].heads)

LEMMA WholesStep == OneEachDevice /\ Core /\ Wholes /\ [Next]_vars => Wholes'
  <1> SUFFICES ASSUME OneEachDevice, Core, Wholes, [Next]_vars PROVE Wholes'
    OBVIOUS
  <1>1. CASE UNCHANGED vars
    BY <1>1 DEF vars, Wholes, PastOf, Past
  <1>2. ASSUME NEW p \in Proc, Acts(p) PROVE Wholes'
    <2>g. Grows /\ \A q \in Proc \ {p} : proc'[q] = proc[q]
      BY <1>2, ActsCore
    <2> SUFFICES ASSUME NEW q \in Proc, proc'[q].phase \in {"accept", "record"},
                        NEW d \in proc'[q].view,
                        TakesOver(members', cp'[DeviceOf[q]], DeviceOf[q], proc'[q].control, d)
                 PROVE  d \in PastOf(states', proc'[q].heads)
      BY DEF Wholes
    <2>1. CASE q # p
      <3>1. proc'[q] = proc[q] /\ DeviceOf[q] \in Device /\ DeviceOf[q] # DeviceOf[p]
        BY <2>g, <2>1, CoreAt DEF OneEachDevice
      <3>2. cp'[DeviceOf[q]] = cp[DeviceOf[q]]
        BY <1>2, <3>1, HeadsMove, RecordsTyped
      <3>3. /\ proc[q].heads \in SUBSET Stored /\ proc[q].control \in 0..Len(members)
            /\ cp[DeviceOf[q]].control \in Nat
        BY <3>1, CoreAt DEF Held, Stored, Process
      <3>4. TakesOver(members, cp[DeviceOf[q]], DeviceOf[q], proc[q].control, d)
        BY <2>g, <3>1, <3>2, <3>3, ServesStays DEF TakesOver
      <3> QED BY <2>g, <3>1, <3>3, <3>4, PastStays DEF Wholes
    <2>2. CASE q = p
      <3>1. PICK view : Reads(p, view)
        BY <1>2, <2>2, HeadsMove DEF Keeps
      <3>2. /\ view \in SUBSET Stored /\ d \in view /\ UNCHANGED <<members, states, cp>>
            /\ proc'[p].control = proc[p].control
            /\ proc'[p].heads = TrustedHeads(DeviceOf[p], proc[p].control, view)
        BY <2>2, <3>1 DEF Reads
      <3>3. Trusted(DeviceOf[p], proc[p].control, d)
        BY <2>2, <3>2 DEF Trusted, TakenOver, TakesOver, Serves, Unbroken
      <3> QED BY <2>2, <3>2, <3>3, ReadCovers
    <2> QED BY <2>1, <2>2
  <1> QED BY <1>1, <1>2 DEF Next, Acts

\* "An accepted head is later allowed even if its author has been removed":
\* where each device runs one process, no head it accepted is dropped while it
\* stays a member.  With two, one of them can record what the other one chose
\* not to trust just before, and the other one's record then drops it.
THEOREM TakenOverIsKept == OneEachDevice => (Spec => AcceptedHeadsStay)
<1> SUFFICES ASSUME OneEachDevice PROVE Spec => AcceptedHeadsStay
  OBVIOUS
<1>1. Init => Core /\ Wholes
  BY CoreInit DEF Init, Wholes, Idle
<1>2. Core /\ Wholes /\ [Next]_vars => (Core /\ Wholes)'
  BY CoreStep, WholesStep
<1>3. ASSUME Core, Wholes, [Next]_vars
      PROVE  \A x \in Device : \A h \in cp[x].heads :
                h \in PastOf(states', cp'[x].heads) \/ ~ Unbroken(cp'[x].control, cp[x].control, x)
  <2>g. Grows
    BY <1>3, CoreStep
  <2>c. \A x \in Device : cp[x].heads \in SUBSET Stored
    BY <1>3 DEF Core, Typed
  <2>1. CASE UNCHANGED cp
    <3>1. \A x \in Device : cp[x].heads \subseteq PastOf(states', cp[x].heads)
      BY <1>3, <2>g, <2>c, PastStored, PastStays
    <3> QED BY <2>1, <3>1
  <2>2. ASSUME NEW p \in Proc, Acts(p), ~ UNCHANGED cp, NEW x \in Device,
               NEW h \in cp[x].heads, Unbroken(cp'[x].control, cp[x].control, x)
        PROVE  h \in PastOf(states', cp'[x].heads)
    <3>1. /\ Records(p, proc[p].heads) /\ NothingMissing(p)
          /\ proc[p].phase \in {"accept", "record"} /\ UNCHANGED <<members, states>>
      BY <1>3, <2>2, HeadsMove
    <3>2. CASE x = DeviceOf[p]
      <4>1. cp'[DeviceOf[p]] = [heads |-> proc[p].heads, control |-> proc[p].control]
        BY <1>3, <3>1, RecordsTyped
      <4>2. cp'[x].heads = proc[p].heads /\ cp'[x].control = proc[p].control
        BY <3>2, <4>1
      <4>3. h \in proc[p].view /\ TakesOver(members, cp[x], x, proc[p].control, h)
        BY <2>2, <3>1, <3>2, <4>2 DEF NothingMissing, TakesOver, Unbroken, Serves
      <4>4. h \in PastOf(states, proc[p].heads)
        BY <1>3, <3>1, <3>2, <4>3 DEF Wholes
      <4> QED BY <3>1, <4>2, <4>4
    <3>3. CASE x # DeviceOf[p]
      <4>1. cp'[x] = cp[x]
        BY <1>3, <3>1, <3>3, RecordsTyped
      <4> QED BY <1>3, <2>2, <2>c, <3>1, <4>1, PastStored
    <3> QED BY <3>2, <3>3
  <2>3. CASE \E p \in Proc : Acts(p)
    BY <2>1, <2>2, <2>3
  <2>4. CASE UNCHANGED vars
    BY <2>1, <2>4 DEF vars
  <2> QED BY <1>3, <2>3, <2>4 DEF Next, Acts
<1>4. QED BY <1>1, <1>2, <1>3, PTL DEF Spec, AcceptedHeadsStay

-----------------------------------------------------------------------------
(***************************************************************************)
(* What an operation carries from step to step: its change, the revisions  *)
(* it published, and the content it is about to publish.                   *)
(***************************************************************************)
Same(p) == proc'[p].op = proc[p].op /\ proc'[p].published = proc[p].published

Working == {"accept", "recheck", "write", "publish"}

StartsSet(p) ==
    \E k \in Key, v \in Value :
        /\ Fresh(v)
        /\ proc'[p] = [Idle EXCEPT !.phase = "open",
                         !.op = [NoOp EXCEPT !.kind = "set", !.key = {k}, !.value = v]]

LEMMA StartedSet ==
    ASSUME NEW p, StartsSet(p)
    PROVE  \E v \in Value : Fresh(v) /\ proc'[p].op.value = v /\ proc'[p].phase = "open"
  <1>1. PICK k \in Key, v \in Value :
           /\ Fresh(v)
           /\ proc'[p] = [Idle EXCEPT !.phase = "open",
                            !.op = [NoOp EXCEPT !.kind = "set", !.key = {k}, !.value = v]]
    BY DEF StartsSet
  <1> DEFINE o == [NoOp EXCEPT !.kind = "set", !.key = {k}, !.value = v]
             e == [Idle EXCEPT !.phase = "open", !.op = o]
  <1>2. o.value = v
    BY DEF NoOp
  <1>3. proc'[p] = e
    BY <1>1
  <1> HIDE DEF o
  <1>4. e.op = o /\ e.phase = "open"
    BY DEF Idle
  <1> HIDE DEF e
  <1> QED BY <1>1, <1>2, <1>3, <1>4

Applies(p) ==
    /\ proc[p].phase = "accept" /\ proc'[p] = Applied(p)
    /\ proc[p].op.kind # "resolve" => proc[p].conflicts = {}

StartsEmpty(p) ==
    /\ proc[p].phase = "read" /\ proc[p].op.kind = "set" /\ Loads(p, proc[p].published, {})
    /\ proc'[p] = [proc[p] EXCEPT !.phase = "write", !.keys = proc[p].op.key,
                     !.secrets = [k \in Key |-> IF k \in proc[p].op.key
                                  THEN proc[p].op.value ELSE Deleted]]

GoesOn(p) ==
    \/ proc[p].phase = "recheck" /\ proc'[p] = [proc[p] EXCEPT !.phase = "write"]
    \/ proc[p].phase = "write" /\ proc'[p] = [proc[p] EXCEPT !.phase = "publish"]

Publishes(p) ==
    /\ proc[p].phase = "publish"
    /\ \E d \in Rev \ Stored :
          Stored' = Stored \cup {d} /\ states'[d] = Revision(p) /\ proc'[p] = Sent(p, d)

LEMMA WorkMoves ==
    ASSUME Core, NEW p \in Proc, Acts(p)
    PROVE  \/ /\ UNCHANGED states
              /\ \/ StartsSet(p)
                 \/ proc'[p].op.kind # "set" /\ proc'[p].phase \notin Working
                 \/ Same(p) /\ proc'[p].phase \notin Working
                 \/ \E view, heads, choice : ReadStep(p, view, heads, choice, proc'[p])
                 \/ Applies(p) \/ StartsEmpty(p) \/ GoesOn(p)
           \/ Publishes(p)
  <1> DEFINE Other == proc'[p].op.kind # "set" /\ proc'[p].phase \notin Working
             Still == Same(p) /\ proc'[p].phase \notin Working
  <1>p. /\ proc[p] \in Process /\ Held(members, states, DeviceOf[p], proc[p])
        /\ proc \in [Proc -> Process]
    BY CoreAt DEF Core, Typed
  <1>m. ASSUME NEW e, Moves(p, e) PROVE proc'[p] = e
    BY <1>p, <1>m DEF Moves
  <1>i. Idle.op.kind = "none" /\ Idle.phase = "idle"
    BY DEF Idle, NoOp
  <1>1. CASE SetSecret(p)
    <2>1. UNCHANGED states
      BY <1>1 DEF SetSecret, Starts
    <2>2. PICK k \in Key, v \in Value :
             /\ Fresh(v)
             /\ Moves(p, [Idle EXCEPT !.phase = "open",
                          !.op = [NoOp EXCEPT !.kind = "set", !.key = {k}, !.value = v]])
      BY <1>1 DEF SetSecret, Starts
    <2> QED BY <2>1, <2>2, <1>m DEF StartsSet
  <1>2. ASSUME NEW op, Starts(p, op), op.kind # "set" PROVE UNCHANGED states /\ Other
    <2>1. proc'[p] = [Idle EXCEPT !.phase = "open", !.op = op] /\ UNCHANGED states
      BY <1>2, <1>m DEF Starts
    <2> QED BY <1>2, <2>1 DEF Idle, Working
  <1>3. CASE \/ DeleteSecret(p) \/ SyncSecrets(p) \/ ListConflicts(p)
             \/ RemoveMember(p) \/ ApproveMember(p)
    <2>1. \E op : Starts(p, op) /\ op.kind # "set"
      <3>1. \A k : [NoOp EXCEPT !.kind = "delete", !.key = {k}].kind = "delete"
        BY DEF NoOp
      <3>2. /\ [NoOp EXCEPT !.kind = "sync"].kind = "sync"
            /\ [NoOp EXCEPT !.kind = "look"].kind = "look"
        BY DEF NoOp
      <3>3. \A m : /\ [NoOp EXCEPT !.kind = "remove", !.who = {m}].kind = "remove"
                   /\ [NoOp EXCEPT !.kind = "approve", !.who = {m}].kind = "approve"
        BY DEF NoOp
      <3>4. CASE DeleteSecret(p)
        <4>1. PICK k : Starts(p, [NoOp EXCEPT !.kind = "delete", !.key = {k}])
          BY <3>4 DEF DeleteSecret
        <4> QED BY <3>1, <4>1
      <3>5. CASE SyncSecrets(p)
        BY <3>2, <3>5 DEF SyncSecrets
      <3>6. CASE ListConflicts(p)
        BY <3>2, <3>6 DEF ListConflicts
      <3>7. CASE RemoveMember(p)
        <4>1. PICK m : Starts(p, [NoOp EXCEPT !.kind = "remove", !.who = {m}])
          BY <3>7 DEF RemoveMember
        <4> QED BY <3>3, <4>1
      <3>8. CASE ApproveMember(p)
        <4>1. PICK m : Starts(p, [NoOp EXCEPT !.kind = "approve", !.who = {m}])
          BY <3>8 DEF ApproveMember
        <4> QED BY <3>3, <4>1
      <3> QED BY <1>3, <3>4, <3>5, <3>6, <3>7, <3>8
    <2> QED BY <1>2, <2>1
  <1>4. CASE ResolveSecrets(p)
    <2>1. proc'[p] = [Idle EXCEPT !.phase = "open", !.op = [NoOp EXCEPT !.kind = "resolve"],
                                  !.seen = proc[p].seen]
      BY <1>4, <1>m DEF ResolveSecrets
    <2> QED BY <1>4, <2>1 DEF ResolveSecrets, Idle, NoOp, Working
  <1>5. CASE RemoveUnread(p)
    <2>1. proc'[p] = [Idle EXCEPT !.phase = "open", !.op = [proc[p].op EXCEPT !.kind = "revoke"]]
      BY <1>5, <1>m DEF RemoveUnread
    <2>2. [proc[p].op EXCEPT !.kind = "revoke"].kind = "revoke"
      BY <1>p DEF Process, Op
    <2> QED BY <1>5, <2>1, <2>2 DEF RemoveUnread, Idle, Working
  <1>6. CASE Return(p)
    BY <1>6, <1>m, <1>i DEF Return, Working
  <1>7. CASE OpenSession(p)
    <2>1. proc'[p] = [proc[p] EXCEPT !.control = Current,
                        !.phase = IF proc[p].op.kind \in {"approve", "revoke"}
                                  THEN "members" ELSE "read"]
      BY <1>7, <1>m DEF OpenSession
    <2> QED BY <1>7, <1>p, <2>1 DEF OpenSession, Process, Same, Working
  <1>8. CASE ReadAgain(p)
    BY <1>8, <1>m, <1>p DEF ReadAgain, Process, Same, Working
  <1>9. CASE Recheck(p)
    <2>1. \/ proc'[p] = [proc[p] EXCEPT !.phase = "write"]
          \/ proc'[p] = [proc[p] EXCEPT !.phase = "read", !.heads = {}, !.keys = {},
                                        !.secrets = EmptyMap]
      BY <1>9, <1>m DEF Recheck
    <2> QED BY <1>9, <1>p, <2>1 DEF Recheck, Process, Same, Working, GoesOn
  <1>r. proc'[p] = Reopened(p) => Still
    BY <1>p DEF Reopened, Process, Same, Working
  <1>10. CASE CheckControl(p)
    BY <1>10, <1>m, <1>r DEF CheckControl, GoesOn
  <1>11. CASE CheckControlAgain(p)
    <2>1. proc'[p] = [proc[p] EXCEPT !.phase = "reload"] \/ proc'[p] = Reopened(p)
      BY <1>11, <1>m DEF CheckControlAgain
    <2> QED BY <1>11, <1>p, <1>r, <2>1 DEF CheckControlAgain, Process, Same, Working
  <1>12. CASE ReadNothing(p)
    <2>1. UNCHANGED states /\ (Moves(p, Idle) \/ StartsEmpty(p))
      <3>1. CASE proc[p].op.kind = "set"
        BY <1>12, <1>m, <3>1 DEF ReadNothing, StartsEmpty
      <3>2. CASE proc[p].op.kind # "set"
        BY <1>12, <3>2 DEF ReadNothing
      <3> QED BY <3>1, <3>2
    <2> QED BY <1>m, <1>i, <2>1 DEF Working
  <1>13. CASE ReadResource(p)
    BY <1>13, <1>m, ReadCore
  <1>14. CASE AcceptRead(p)
    <2>1. PICK e \in Process :
             /\ Moves(p, e)
             /\ \/ e = Idle
                \/ e = [Idle EXCEPT !.phase = "looked", !.seen = proc[p].heads]
                \/ e = [Idle EXCEPT !.phase = "open", !.op = [proc[p].op EXCEPT !.kind = "revoke"]]
                \/ /\ e = Applied(p)
                   /\ proc[p].op.kind # "resolve" => proc[p].conflicts = {}
      BY <1>14, AcceptCore
    <2>2. UNCHANGED states /\ proc[p].phase = "accept" /\ proc'[p] = e
      BY <1>14, <1>m, <2>1, AcceptCore
    <2>3. [proc[p].op EXCEPT !.kind = "revoke"].kind = "revoke"
      BY <1>p DEF Process, Op
    <2>4. e = [Idle EXCEPT !.phase = "looked", !.seen = proc[p].heads] =>
             e.op.kind # "set" /\ e.phase \notin Working
      BY DEF Idle, NoOp, Working
    <2>5. e = [Idle EXCEPT !.phase = "open", !.op = [proc[p].op EXCEPT !.kind = "revoke"]] =>
             e.op.kind # "set" /\ e.phase \notin Working
      BY <2>3 DEF Idle, Working
    <2> QED BY <1>i, <2>1, <2>2, <2>4, <2>5 DEF Applies, Working
  <1>15. CASE LoadPublished(p)
    <2>1. \E view : proc'[p] = [proc[p] EXCEPT !.phase = "record", !.view = view,
                          !.heads = TrustedHeads(DeviceOf[p], proc[p].control, view)]
      BY <1>15, <1>m DEF LoadPublished
    <2> QED BY <1>15, <1>p, <2>1 DEF LoadPublished, Process, Same, Working
  <1>16. CASE AcceptPublished(p)
    <2>1. /\ UNCHANGED states
          /\ \/ proc'[p] = Idle
             \/ proc'[p] = [proc[p] EXCEPT !.phase = "reload", !.view = {}, !.heads = {}]
      <3>1. UNCHANGED states
        BY <1>16 DEF AcceptPublished
      <3>2. CASE NothingMissing(p)
        BY <1>16, <1>m, <3>1, <3>2 DEF AcceptPublished
      <3>3. CASE ~ NothingMissing(p)
        <4>1. Moves(p, [proc[p] EXCEPT !.phase = "reload", !.view = {}, !.heads = {}])
          BY <1>16, <3>3 DEF AcceptPublished
        <4> QED BY <1>m, <3>1, <4>1
      <3> QED BY <3>2, <3>3
    <2> QED BY <1>p, <1>i, <2>1 DEF Process, Same, Working
  <1>17. CASE Publish(p)
    BY <1>17, <1>m, PublishCore DEF Publishes
  <1>18. CASE ChangeMembers(p)
    <2>1. UNCHANGED states /\ proc'[p] = Sealing
      BY <1>18, <1>m, ChangeCore
    <2> QED BY <2>1 DEF Sealing, Idle, NoOp, Working
  <1> QED BY <1>1, <1>3, <1>4, <1>5, <1>6, <1>7, <1>8, <1>9, <1>10, <1>11, <1>12, <1>13, <1>14,
             <1>15, <1>16, <1>17, <1>18 DEF Acts

\* No other edit in flight writes p's value, the revisions that set it are p's
\* own, and what p is about to publish sets it only where none of them is below.
Edits ==
    /\ \A p, q \in Proc : p # q /\ proc[p].op.kind = "set" /\ proc[q].op.kind = "set" =>
          proc[p].op.value # proc[q].op.value
    /\ \A p \in Proc : proc[p].op.kind = "set" =>
          /\ \A d \in Stored, k \in Key :
                /\ states[d].op = "set" /\ k \in states[d].keys
                /\ states[d].secrets[k] = proc[p].op.value
                => d \in proc[p].published
          /\ proc[p].phase \in {"recheck", "write", "publish"} =>
                \A k \in proc[p].keys :
                   /\ proc[p].secrets[k] = proc[p].op.value
                   /\ proc[p].published \cap PastOf(states, proc[p].heads) = {}

\* What Edits says of one process.
EditOf(S, r) ==
    r.op.kind = "set" =>
       /\ \A d \in DOMAIN S, k \in Key :
             S[d].op = "set" /\ k \in S[d].keys /\ S[d].secrets[k] = r.op.value => d \in r.published
       /\ r.phase \in {"recheck", "write", "publish"} =>
             \A k \in r.keys :
                r.secrets[k] = r.op.value /\ r.published \cap PastOf(S, r.heads) = {}

LEMMA EditsParts ==
    Edits <=> /\ \A p, q \in Proc : p # q /\ proc[p].op.kind = "set" /\ proc[q].op.kind = "set" =>
                     proc[p].op.value # proc[q].op.value
              /\ \A p \in Proc : EditOf(states, proc[p])
  BY DEF Edits, EditOf, Stored

\* Nothing p does gives another edit's value to a revision.
LEMMA OtherEdits ==
    ASSUME Core, Edits, NEW p \in Proc, Acts(p), NEW q \in Proc, q # p
    PROVE  EditOf(states', proc'[q])
  <1>1. Grows /\ proc'[q] = proc[q]
    BY ActsCore
  <1>2. proc[q].heads \in SUBSET Stored /\ EditOf(states, proc[q])
    BY EditsParts, CoreAt DEF Held, Stored
  <1>3. CASE UNCHANGED states
    BY <1>1, <1>2, <1>3
  <1>4. CASE Publishes(p)
    <2> SUFFICES ASSUME proc[q].op.kind = "set" PROVE EditOf(states', proc[q])
      BY <1>1 DEF EditOf
    <2>1. PICK d \in Rev \ Stored : Stored' = Stored \cup {d} /\ states'[d] = Revision(p)
      BY <1>4 DEF Publishes
    <2>2. ASSUME NEW a \in Stored', NEW k \in Key, states'[a].op = "set", k \in states'[a].keys,
                 states'[a].secrets[k] = proc[q].op.value
          PROVE  a \in proc[q].published
      <3>1. CASE a \in Stored
        BY <1>1, <1>2, <2>2, <3>1 DEF Grows, EditOf, Stored
      <3>2. CASE a = d
        <4>1. /\ proc[p].op.kind = "set" /\ k \in proc[p].keys
              /\ proc[p].secrets[k] = proc[q].op.value
          BY <2>1, <2>2, <3>2 DEF Revision
        <4>2. proc[p].secrets[k] = proc[p].op.value
          BY <1>4, <4>1, EditsParts DEF EditOf, Publishes
        <4> QED BY <4>1, <4>2, EditsParts
      <3> QED BY <2>1, <3>1, <3>2
    <2>3. PastOf(states', proc[q].heads) = PastOf(states, proc[q].heads)
      BY <1>1, <1>2, PastStays
    <2> QED BY <1>2, <2>2, <2>3 DEF EditOf, Stored
  <1> QED BY <1>3, <1>4, WorkMoves

\* A step of p keeps what is said of p.
LEMMA OwnEdit ==
    ASSUME Core, Edits, NEW p \in Proc, Acts(p)
    PROVE  EditOf(states', proc'[p])
  <1>p. /\ proc[p] \in Process /\ Held(members, states, DeviceOf[p], proc[p])
        /\ EditOf(states, proc[p])
    BY EditsParts, CoreAt
  <1>g. Grows
    BY ActsCore
  <1>1. CASE StartsSet(p) /\ UNCHANGED states
    <2>1. PICK v \in Value : Fresh(v) /\ proc'[p].op.value = v /\ proc'[p].phase = "open"
      BY <1>1, StartedSet
    <2> QED BY <1>1, <2>1 DEF EditOf, Fresh, Stored
  <1>2. CASE proc'[p].op.kind # "set"
    BY <1>2 DEF EditOf
  <1>3. CASE Same(p) /\ proc'[p].phase \notin Working /\ UNCHANGED states
    BY <1>3, <1>p DEF Same, Working, EditOf
  <1>4. CASE UNCHANGED states /\ \E view, heads, choice : ReadStep(p, view, heads, choice, proc'[p])
    <2>1. /\ proc'[p].op = proc[p].op /\ proc'[p].published = proc[p].published
          /\ proc'[p].phase = "accept"
      BY <1>4, <1>p DEF ReadStep, Process
    <2> QED BY <1>4, <1>p, <2>1 DEF EditOf
  <1>5. CASE Applies(p) /\ UNCHANGED states
    <2>1. /\ proc'[p].op = proc[p].op /\ proc'[p].published = proc[p].published
          /\ proc'[p].phase = "recheck" /\ proc'[p].heads = proc[p].heads
          /\ proc'[p].secrets = Changed(p) /\ proc'[p].keys = KeysSet(p)
      BY <1>5, <1>p DEF Applies, Applied, Process
    <2>2. ASSUME proc[p].op.kind = "set", NEW k \in KeysSet(p)
          PROVE  /\ Changed(p)[k] = proc[p].op.value
                 /\ proc[p].published \cap PastOf(states, proc[p].heads) = {}
      BY <1>p, <2>2 DEF KeysSet, Changed, InRead, Process, Op
    <2> QED BY <1>5, <1>p, <2>1, <2>2 DEF EditOf
  <1>6. CASE StartsEmpty(p) /\ UNCHANGED states
    <2>1. /\ proc'[p].op = proc[p].op /\ proc'[p].published = proc[p].published
          /\ proc'[p].heads = {} /\ proc'[p].keys = proc[p].op.key
          /\ proc'[p].secrets = [k \in Key |-> IF k \in proc[p].op.key
                                 THEN proc[p].op.value ELSE Deleted]
          /\ proc[p].op.key \subseteq Key
      BY <1>6, <1>p DEF StartsEmpty, Process, Held, Op
    <2>2. PastOf(states, {}) = {}
      BY DEF PastOf
    <2> QED BY <1>6, <1>p, <2>1, <2>2 DEF EditOf
  <1>7. CASE GoesOn(p) /\ UNCHANGED states
    <2>1. /\ proc'[p].op = proc[p].op /\ proc'[p].published = proc[p].published
          /\ proc'[p].heads = proc[p].heads /\ proc'[p].keys = proc[p].keys
          /\ proc'[p].secrets = proc[p].secrets /\ proc[p].phase \in {"recheck", "write"}
      BY <1>7, <1>p DEF GoesOn, Process
    <2> QED BY <1>7, <1>p, <2>1 DEF EditOf
  <1>8. CASE Publishes(p)
    <2>1. PICK d \in Rev \ Stored :
             Stored' = Stored \cup {d} /\ states'[d] = Revision(p) /\ proc'[p] = Sent(p, d)
      BY <1>8 DEF Publishes
    <2>2. /\ proc'[p].op = proc[p].op /\ proc'[p].published = proc[p].published \cup {d}
          /\ proc'[p].phase = "published"
      BY <1>p, <2>1 DEF Sent, Process
    <2> QED BY <1>p, <1>g, <2>1, <2>2 DEF EditOf, Grows, Stored
  <1> QED BY <1>1, <1>2, <1>3, <1>4, <1>5, <1>6, <1>7, <1>8, WorkMoves

\* No two edits in flight come to write the same value.
LEMMA ValuesApart ==
    ASSUME Core, Edits, NEW p \in Proc, Acts(p),
           NEW q \in Proc, q # p, proc'[p].op.kind = "set", proc'[q].op.kind = "set"
    PROVE  proc'[p].op.value # proc'[q].op.value
  <1>1. proc'[q] = proc[q] /\ proc[p] \in Process
    BY ActsCore, CoreAt
  <1>2. CASE StartsSet(p)
    <2>1. PICK v \in Value : Fresh(v) /\ proc'[p].op.value = v
      BY <1>2, StartedSet
    <2> QED BY <1>1, <2>1 DEF Fresh
  <1>3. CASE proc'[p].op = proc[p].op
    BY <1>1, <1>3, EditsParts
  <1>4. CASE \E view, heads, choice : ReadStep(p, view, heads, choice, proc'[p])
    <2>1. proc'[p].op = proc[p].op
      BY <1>1, <1>4 DEF ReadStep, Process
    <2> QED BY <1>3, <2>1
  <1>5. CASE Applies(p) \/ StartsEmpty(p) \/ GoesOn(p) \/ Publishes(p)
    <2>1. proc'[p].op = proc[p].op
      BY <1>1, <1>5 DEF Applies, Applied, StartsEmpty, GoesOn, Publishes, Sent, Process
    <2> QED BY <1>3, <2>1
  <1> QED BY <1>2, <1>3, <1>4, <1>5, WorkMoves DEF Same

LEMMA AppliedOnceStep ==
    ASSUME Core, Edits, EditAppliedOnce, NEW p \in Proc, Acts(p)
    PROVE  EditAppliedOnce'
  <1>g. Grows
    BY ActsCore
  <1>1. CASE UNCHANGED states
    BY <1>1 DEF EditAppliedOnce, Stored
  <1>2. CASE Publishes(p)
    <2>1. PICK d \in Rev \ Stored : Stored' = Stored \cup {d} /\ states'[d] = Revision(p)
      BY <1>2 DEF Publishes
    <2>2. /\ proc[p].heads \in SUBSET Stored /\ EditOf(states, proc[p])
          /\ proc[p].keys \subseteq Key /\ proc[p].phase = "publish"
      BY <1>2, CoreAt, EditsParts DEF Held, Stored, Process, Publishes
    <2>3. PastOf(states, proc[p].heads) \subseteq Stored
      BY <2>2, PastStored
    <2> SUFFICES ASSUME NEW a \in Stored', NEW e \in states'[a].anc,
                        NEW k \in states'[a].keys \cap states'[e].keys,
                        states'[a].op = "set", states'[e].op = "set",
                        states'[a].secrets[k] = states'[e].secrets[k]
                 PROVE  FALSE
      BY DEF EditAppliedOnce
    <2>4. CASE a \in Stored
      <3>1. states'[a] = states[a] /\ e \in Stored /\ states'[e] = states[e]
        BY <1>g, <2>4 DEF Grows, Core, HistoryOK
      <3> QED BY <2>4, <3>1 DEF EditAppliedOnce
    <2>5. CASE a = d
      <3>1. /\ e \in PastOf(states, proc[p].heads) /\ k \in proc[p].keys
            /\ proc[p].op.kind = "set" /\ states'[a].secrets = proc[p].secrets
        BY <2>1, <2>5 DEF Revision
      <3>2. e \in Stored /\ states'[e] = states[e]
        BY <1>g, <2>3, <3>1 DEF Grows
      <3>3. /\ proc[p].secrets[k] = proc[p].op.value
            /\ proc[p].published \cap PastOf(states, proc[p].heads) = {}
        BY <2>2, <3>1 DEF EditOf
      <3>4. e \in proc[p].published
        BY <2>2, <3>1, <3>2, <3>3 DEF EditOf, Stored
      <3> QED BY <3>1, <3>3, <3>4
    <2> QED BY <2>1, <2>4, <2>5
  <1> QED BY <1>1, <1>2, WorkMoves

\* An edit is applied once: a call run again because the members changed finds
\* its first revision below what it reads (publishedInRead) and does not set
\* the key a second time on top of what others built there.
THEOREM EditsAreAppliedOnce == Spec => []EditAppliedOnce
<1>1. Init => Core /\ Edits /\ EditAppliedOnce
  BY CoreInit DEF Init, Edits, EditAppliedOnce, Stored, Idle, NoOp
<1>2. Core /\ Edits /\ EditAppliedOnce /\ [Next]_vars => (Core /\ Edits /\ EditAppliedOnce)'
  <2> SUFFICES ASSUME Core, Edits, EditAppliedOnce, [Next]_vars
               PROVE  (Core /\ Edits /\ EditAppliedOnce)'
    OBVIOUS
  <2>1. Core'
    BY CoreStep
  <2>2. CASE UNCHANGED vars
    <3>1. Edits' /\ EditAppliedOnce'
      BY <2>2 DEF vars, Edits, EditAppliedOnce, PastOf, Past, Stored
    <3> QED BY <2>1, <3>1
  <2>3. ASSUME NEW p \in Proc, Acts(p) PROVE Edits' /\ EditAppliedOnce'
    <3>1. \A q \in Proc : EditOf(states', proc'[q])
      BY <2>3, OtherEdits, OwnEdit
    <3>2. ASSUME NEW q \in Proc, NEW r \in Proc, q # r,
                 proc'[q].op.kind = "set", proc'[r].op.kind = "set"
          PROVE  proc'[q].op.value # proc'[r].op.value
      <4>1. CASE q = p
        BY <2>3, <3>2, <4>1, ValuesApart
      <4>2. CASE r = p
        BY <2>3, <3>2, <4>2, ValuesApart
      <4>3. CASE q # p /\ r # p
        BY <2>3, <3>2, <4>3, ActsCore, EditsParts
      <4> QED BY <4>1, <4>2, <4>3
    <3>3. Edits'
      BY <3>1, <3>2 DEF Edits, EditOf, Stored
    <3> QED BY <2>3, <3>3, AppliedOnceStep
  <2> QED BY <2>1, <2>2, <2>3 DEF Next, Acts
<1>3. QED BY <1>1, <1>2, PTL DEF Spec

-----------------------------------------------------------------------------
(***************************************************************************)
(* From publishing to the answer: a call is told that it saved only after  *)
(* the members were found unchanged, and the last sealing process has all  *)
(* that was saved below its revision.                                      *)
(***************************************************************************)
After == {"published", "reload", "record"}

Confirms(p) ==
    /\ proc[p].phase = "published" /\ proc[p].control = Current
    /\ proc'[p] = [proc[p] EXCEPT !.phase = "reload"]

Reloads(p) ==
    /\ proc[p].phase \in {"reload", "record"} /\ proc'[p].phase \in {"reload", "record"}
    /\ \A f \in {"op", "control", "published", "own", "seals"} : proc'[p][f] = proc[p][f]

Settles(p) ==
    /\ proc[p].phase = "record" /\ proc'[p] = Idle
    /\ settled' = settled \cup Saves(p)
    /\ sealed' = IF proc[p].seals THEN proc[p].control ELSE sealed

FindsNothing(p) ==
    /\ proc[p].phase = "read" /\ Loads(p, proc[p].published, {}) /\ proc'[p] = Idle
    /\ sealed' = IF proc[p].seals THEN proc[p].control ELSE sealed

LEMMA SealMoves ==
    ASSUME Core, NEW p \in Proc, Acts(p)
    PROVE  \/ /\ UNCHANGED <<settled, sealed>>
              /\ \/ proc'[p].phase \notin Working \cup After
                 \/ \E view, heads, choice : ReadStep(p, view, heads, choice, proc'[p])
                 \/ Applies(p) \/ StartsEmpty(p) \/ GoesOn(p) \/ Publishes(p)
                 \/ Confirms(p) \/ Reloads(p)
           \/ Settles(p) /\ UNCHANGED states
           \/ FindsNothing(p) /\ UNCHANGED <<states, settled>>
  <1> DEFINE Out == proc'[p].phase \notin Working \cup After /\ UNCHANGED <<settled, sealed>>
  <1>p. /\ proc[p] \in Process /\ proc \in [Proc -> Process]
    BY CoreAt DEF Core, Typed
  <1>m. ASSUME NEW e, Moves(p, e) PROVE proc'[p] = e
    BY <1>p, <1>m DEF Moves
  <1>i. Idle.phase \notin Working \cup After
    BY DEF Idle, Working, After
  <1>o. ASSUME NEW f, Moves(p, [Idle EXCEPT !.phase = "open", !.op = f]) PROVE
               proc'[p].phase \notin Working \cup After
    <2>1. proc'[p] = [Idle EXCEPT !.phase = "open", !.op = f]
      BY <1>o, <1>m
    <2> QED BY <2>1 DEF Idle, Working, After
  <1>1. CASE \/ SetSecret(p) \/ DeleteSecret(p) \/ SyncSecrets(p)
             \/ ListConflicts(p) \/ RemoveMember(p) \/ ApproveMember(p)
    <2>1. PICK op \in Op : Starts(p, op)
      BY <1>1, OperationsCore
    <2> QED BY <2>1, <1>o DEF Starts
  <1>2. CASE ResolveSecrets(p)
    <2>1. proc'[p] = [Idle EXCEPT !.phase = "open", !.op = [NoOp EXCEPT !.kind = "resolve"],
                                  !.seen = proc[p].seen]
      BY <1>2, <1>m DEF ResolveSecrets
    <2> QED BY <1>2, <2>1 DEF ResolveSecrets, Idle, Working, After
  <1>3. CASE RemoveUnread(p)
    BY <1>3, <1>o DEF RemoveUnread
  <1>4. CASE Return(p)
    BY <1>4, <1>m, <1>i DEF Return
  <1>5. CASE OpenSession(p)
    <2>1. proc'[p] = [proc[p] EXCEPT !.control = Current,
                        !.phase = IF proc[p].op.kind \in {"approve", "revoke"}
                                  THEN "members" ELSE "read"]
      BY <1>5, <1>m DEF OpenSession
    <2> QED BY <1>5, <1>p, <2>1 DEF OpenSession, Process, Working, After
  <1>6. CASE ReadAgain(p)
    BY <1>6, <1>m, <1>p DEF ReadAgain, Process, Working, After
  <1>7. CASE Recheck(p)
    <2>1. \/ proc'[p] = [proc[p] EXCEPT !.phase = "write"]
          \/ proc'[p] = [proc[p] EXCEPT !.phase = "read", !.heads = {}, !.keys = {},
                                        !.secrets = EmptyMap]
      BY <1>7, <1>m DEF Recheck
    <2> QED BY <1>7, <1>p, <2>1 DEF Recheck, Process, Working, After, GoesOn
  <1>r. proc'[p] = Reopened(p) => proc'[p].phase \notin Working \cup After
    BY <1>p DEF Reopened, Process, Working, After
  <1>8. CASE CheckControl(p)
    BY <1>8, <1>m, <1>r DEF CheckControl, GoesOn
  <1>9. CASE CheckControlAgain(p)
    BY <1>9, <1>m, <1>r DEF CheckControlAgain, StillUnchanged, Confirms
  <1>10. CASE ReadNothing(p)
    <2>1. CASE proc[p].op.kind = "set"
      BY <1>10, <1>m, <2>1 DEF ReadNothing, StartsEmpty
    <2>2. CASE proc[p].op.kind # "set"
      BY <1>10, <1>m, <2>2 DEF ReadNothing, FindsNothing
    <2> QED BY <2>1, <2>2
  <1>11. CASE ReadResource(p)
    BY <1>11, <1>m, ReadCore
  <1>12. CASE AcceptRead(p)
    <2>1. PICK e \in Process :
             /\ Moves(p, e)
             /\ \/ e = Idle
                \/ e = [Idle EXCEPT !.phase = "looked", !.seen = proc[p].heads]
                \/ e = [Idle EXCEPT !.phase = "open", !.op = [proc[p].op EXCEPT !.kind = "revoke"]]
                \/ /\ e = Applied(p)
                   /\ proc[p].op.kind # "resolve" => proc[p].conflicts = {}
      BY <1>12, AcceptCore
    <2>2. UNCHANGED <<settled, sealed>> /\ proc[p].phase = "accept" /\ proc'[p] = e
      BY <1>12, <1>m, <2>1, AcceptCore
    <2>3. e = [Idle EXCEPT !.phase = "looked", !.seen = proc[p].heads] =>
             e.phase \notin Working \cup After
      BY DEF Idle, Working, After
    <2>4. e = [Idle EXCEPT !.phase = "open", !.op = [proc[p].op EXCEPT !.kind = "revoke"]] =>
             e.phase \notin Working \cup After
      BY DEF Idle, Working, After
    <2>5. e = Applied(p) /\ (proc[p].op.kind # "resolve" => proc[p].conflicts = {}) => Applies(p)
      BY <2>2 DEF Applies
    <2> QED BY <1>i, <2>1, <2>2, <2>3, <2>4, <2>5
  <1>13. CASE LoadPublished(p)
    <2>1. \E view : proc'[p] = [proc[p] EXCEPT !.phase = "record", !.view = view,
                          !.heads = TrustedHeads(DeviceOf[p], proc[p].control, view)]
      BY <1>13, <1>m DEF LoadPublished
    <2> QED BY <1>13, <1>p, <2>1 DEF LoadPublished, Process, Reloads
  <1>14. CASE AcceptPublished(p)
    <2>1. CASE NothingMissing(p)
      BY <1>14, <1>m, <2>1 DEF AcceptPublished, Settles, Saves
    <2>2. CASE ~ NothingMissing(p)
      <3>1. /\ Moves(p, [proc[p] EXCEPT !.phase = "reload", !.view = {}, !.heads = {}])
            /\ UNCHANGED <<settled, sealed>> /\ proc[p].phase = "record"
        BY <1>14, <2>2 DEF AcceptPublished
      <3>2. proc'[p] = [proc[p] EXCEPT !.phase = "reload", !.view = {}, !.heads = {}]
        BY <1>m, <3>1
      <3>3. Reloads(p)
        BY <1>p, <3>1, <3>2 DEF Reloads, Process
      <3> QED BY <3>1, <3>3
    <2> QED BY <2>1, <2>2
  <1>15. CASE Publish(p)
    BY <1>15, <1>m, PublishCore DEF Publishes
  <1>16. CASE ChangeMembers(p)
    BY <1>16, <1>m, ChangeCore DEF Sealing, Idle, Working, After
  <1> QED BY <1>1, <1>2, <1>3, <1>4, <1>5, <1>6, <1>7, <1>8, <1>9, <1>10, <1>11, <1>12, <1>13,
             <1>14, <1>15, <1>16 DEF Acts

\* Who was a member and served on is a member.
ServingAreMembers ==
    \A f, c \in Control : \A m \in members[f] : Serves(members, c, f, m) => m \in members[c]

LEMMA ServingStep == Core /\ ServingAreMembers /\ [Next]_vars => ServingAreMembers'
  <1> SUFFICES ASSUME Core, ServingAreMembers, [Next]_vars PROVE ServingAreMembers'
    OBVIOUS
  <1>1. CASE UNCHANGED vars
    BY <1>1 DEF vars, ServingAreMembers, Control, Serves
  <1>2. ASSUME NEW p \in Proc, Acts(p) PROVE ServingAreMembers'
    <2>1. CASE UNCHANGED members
      BY <2>1 DEF ServingAreMembers, Control, Serves
    <2>2. CASE ChangeMembers(p)
      <3>1. /\ Grows /\ Len(members') = Len(members) + 1 /\ Len(members) \in Nat \ {0}
            /\ \A c \in 1..Len(members) : members'[c] = members[c]
        BY <2>2, ChangeCore, CoreAt DEF Grows, Control
      <3> SUFFICES ASSUME NEW f \in Control', NEW c \in Control', NEW m \in members'[f],
                          Serves(members', c, f, m)
                   PROVE  m \in members'[c]
        BY DEF ServingAreMembers
      <3>2. f <= c /\ f \in Nat /\ c \in Nat /\ c <= Len(members) + 1 /\ 1 <= f
        BY <3>1 DEF Serves, Control
      <3>3. CASE c <= Len(members)
        <4>1. f \in Control /\ c \in Control /\ members'[f] = members[f] /\ members'[c] = members[c]
          BY <3>1, <3>2, <3>3 DEF Control
        <4>2. Serves(members, c, f, m)
          BY <3>1, <4>1, ServesStays DEF Control
        <4> QED BY <4>1, <4>2 DEF ServingAreMembers
      <3>4. CASE c = Len(members) + 1 /\ f <= Len(members)
        <4>1. f \in Control /\ Len(members) \in Control /\ members'[f] = members[f]
              /\ members'[Len(members)] = members[Len(members)]
          BY <3>1, <3>2, <3>4 DEF Control
        <4>2. Serves(members', Len(members), f, m)
          BY <3>1, <3>2, <3>4 DEF Serves
        <4>3. Serves(members, Len(members), f, m)
          BY <3>1, <3>2, <4>2, ServesStays
        <4>4. m \in members'[Len(members)]
          BY <4>1, <4>3 DEF ServingAreMembers
        <4>5. c \in (f + 1)..c /\ c - 1 = Len(members)
          BY <3>1, <3>2, <3>4
        <4> QED BY <4>4, <4>5 DEF Serves
      <3>5. CASE f = c
        BY <3>5
      <3> QED BY <3>1, <3>2, <3>3, <3>4, <3>5
    <2> QED BY <1>2, <2>1, <2>2, HeadsMove
  <1> QED BY <1>1, <1>2 DEF Next, Acts

\* A revision whose process is about to be told, or was told, that it saved.
Confirmed(d) ==
    \/ \E e \in settled : e.rev = d
    \/ \E p \in Proc : proc[p].phase \in {"reload", "record"} /\ d \in proc[p].own

\* Everything confirmed of list c or before, by present members, lies in P.
Sealed(M, S, c, P, D) ==
    \A d \in D : S[d].control < c /\ Present(M, S, c, d) => d \in P

SealOf(M, S, r, D) ==
    /\ r.phase \in After => r.own # {}
    /\ r.seals /\ r.phase \in Working => Sealed(M, S, r.control, PastOf(S, r.heads), D)
    /\ r.seals /\ r.phase \in After => \A d \in r.own : Sealed(M, S, r.control, S[d].anc, D)

AllConfirmed == {d \in Stored : Confirmed(d)}

Seals ==
    /\ \A p \in Proc : SealOf(members, states, proc[p], AllConfirmed)
    /\ \A d \in AllConfirmed : states[d].control < sealed /\ Present(members, states, sealed, d) =>
          \E s \in Stored : states[s].author = Admin /\ d \in states[s].anc

\* After a step the phases and the confirmed revisions of p come from its move.
LEMMA PhaseFacts ==
    ASSUME Core, NEW p \in Proc, Acts(p)
    PROVE  /\ \A view, heads, choice : ReadStep(p, view, heads, choice, proc'[p]) =>
                proc'[p].phase = "accept"
           /\ Applies(p) => proc'[p].phase = "recheck"
           /\ StartsEmpty(p) \/ GoesOn(p) => proc'[p].phase \in {"write", "publish"}
           /\ Publishes(p) => proc'[p].phase = "published"
           /\ Confirms(p) => proc'[p].phase = "reload" /\ proc'[p].own = proc[p].own
           /\ Settles(p) \/ FindsNothing(p) => proc'[p].phase = "idle"
  <1>1. proc[p] \in Process
    BY CoreAt
  <1>2. \A view, heads, choice : ReadStep(p, view, heads, choice, proc'[p]) =>
           proc'[p].phase = "accept"
    BY <1>1 DEF ReadStep, Process
  <1>3. Applies(p) => proc'[p].phase = "recheck"
    BY <1>1 DEF Applies, Applied, Process
  <1>4. StartsEmpty(p) \/ GoesOn(p) => proc'[p].phase \in {"write", "publish"}
    BY <1>1 DEF StartsEmpty, GoesOn, Process
  <1>5. Publishes(p) => proc'[p].phase = "published"
    BY <1>1 DEF Publishes, Sent, Process
  <1>6. Confirms(p) => proc'[p].phase = "reload" /\ proc'[p].own = proc[p].own
    BY <1>1 DEF Confirms, Process
  <1>7. Settles(p) \/ FindsNothing(p) => proc'[p].phase = "idle"
    BY DEF Settles, FindsNothing, Idle
  <1> QED BY <1>2, <1>3, <1>4, <1>5, <1>6, <1>7

LEMMA NewlyConfirmed ==
    ASSUME Core, NEW p \in Proc, Acts(p), NEW d \in Stored', Confirmed(d)'
    PROVE  /\ d \in Stored
           /\ Confirmed(d) \/ states[d].control = Len(members)
  <1>h. \A q \in Proc : /\ proc[q].own \subseteq Stored
                        /\ \A a \in proc[q].own : states[a].control = proc[q].control
    BY CoreAt DEF Held, Stored
  <1>t. \A e \in settled : e.rev \in Stored
    BY DEF Core, Typed
  <1>g. \A q \in Proc \ {p} : proc'[q] = proc[q]
    BY ActsCore
  <1>1. CASE \E e \in settled' : e.rev = d
    <2>1. CASE UNCHANGED settled
      BY <1>1, <1>t, <2>1 DEF Confirmed
    <2>2. CASE Settles(p)
      <3>1. PICK e \in settled' : e.rev = d
        BY <1>1
      <3>2. e \in settled \/ (d \in proc[p].own /\ proc[p].phase = "record")
        BY <2>2, <3>1 DEF Settles, Saves
      <3> QED BY <1>h, <1>t, <3>1, <3>2 DEF Confirmed
    <2> QED BY <2>1, <2>2, SealMoves
  <1>2. ASSUME NEW q \in Proc, proc'[q].phase \in {"reload", "record"}, d \in proc'[q].own
        PROVE  d \in Stored /\ (Confirmed(d) \/ states[d].control = Len(members))
    <2>1. CASE q # p
      BY <1>2, <1>g, <1>h, <2>1 DEF Confirmed
    <2>2. CASE q = p /\ Confirms(p)
      BY <1>2, <1>h, <2>2, PhaseFacts DEF Confirms, Current
    <2>3. CASE q = p /\ Reloads(p)
      BY <1>2, <1>h, <2>3 DEF Reloads, Confirmed
    <2> QED BY <1>2, <2>1, <2>2, <2>3, SealMoves, PhaseFacts DEF Working, After
  <1> QED BY <1>1, <1>2 DEF Confirmed

\* What is said of a list and a set of revisions stays as lists and storage grow.
LEMMA SealedStays ==
    ASSUME Core, NEW p \in Proc, Acts(p), NEW c \in Control, NEW P,
           Sealed(members, states, c, P, AllConfirmed)
    PROVE  Sealed(members', states', c, P, AllConfirmed')
  <1> SUFFICES ASSUME NEW d \in Stored', Confirmed(d)', states'[d].control < c,
                      Present(members', states', c, d)
               PROVE  d \in P
    BY DEF Sealed, AllConfirmed
  <1>1. /\ d \in Stored /\ Grows /\ c <= Len(members)
        /\ Confirmed(d) \/ states[d].control = Len(members)
    BY NewlyConfirmed, ActsCore DEF Control
  <1>2. states'[d] = states[d] /\ Len(members) \in Nat /\ c \in Nat
    BY <1>1, CoreAt DEF Grows, Control
  <1>3. Confirmed(d) /\ states[d].control < c /\ Present(members, states, c, d)
    BY <1>1, <1>2, PresentStays
  <1> QED BY <1>1, <1>3 DEF Sealed, AllConfirmed

LEMMA OtherSeals ==
    ASSUME Core, Seals, NEW p \in Proc, Acts(p), NEW q \in Proc, q # p
    PROVE  SealOf(members', states', proc'[q], AllConfirmed')
  <1>1. proc'[q] = proc[q] /\ Grows
    BY ActsCore
  <1>2. /\ SealOf(members, states, proc[q], AllConfirmed)
        /\ proc[q].heads \in SUBSET Stored /\ proc[q].own \subseteq Stored
        /\ proc[q].phase \in Working \cup After => proc[q].control \in Control
    BY CoreAt DEF Seals, Held, Stored, Working, After, Control, Process
  <1>3. ASSUME proc[q].seals, proc[q].phase \in Working
        PROVE  Sealed(members', states', proc[q].control, PastOf(states', proc[q].heads),
                      AllConfirmed')
    <2>1. Sealed(members', states', proc[q].control, PastOf(states, proc[q].heads), AllConfirmed')
      BY <1>2, <1>3, SealedStays DEF SealOf
    <2> QED BY <1>1, <1>2, <2>1, PastStays
  <1>4. ASSUME proc[q].seals, proc[q].phase \in After, NEW d \in proc[q].own
        PROVE  Sealed(members', states', proc[q].control, states'[d].anc, AllConfirmed')
    <2>1. Sealed(members', states', proc[q].control, states[d].anc, AllConfirmed')
      BY <1>2, <1>4, SealedStays DEF SealOf
    <2> QED BY <1>1, <1>2, <1>4, <2>1 DEF Grows
  <1> QED BY <1>1, <1>2, <1>3, <1>4 DEF SealOf

\* A sealing process has read everything that was confirmed before its list.
LEMMA OwnSeal ==
    ASSUME ~ Lagging, Core, Seals, NEW p \in Proc, Acts(p)
    PROVE  SealOf(members', states', proc'[p], AllConfirmed')
  <1>p. /\ proc[p] \in Process /\ Held(members, states, DeviceOf[p], proc[p])
        /\ SealOf(members, states, proc[p], AllConfirmed)
    BY CoreAt DEF Seals
  <1>q. /\ proc[p].heads \in SUBSET Stored /\ proc[p].own \subseteq Stored
        /\ proc[p].phase \in Working \cup After \cup {"read"} => proc[p].control \in Control
    BY <1>p, CoreAt DEF Held, Stored, Working, After, Control, Process
  <1>g. Grows
    BY ActsCore
  <1>s. \A d \in Stored : states'[d].anc = states[d].anc
    BY <1>g DEF Grows
  <1>1. CASE proc'[p].phase \notin Working \cup After
    BY <1>1 DEF SealOf
  <1>2. CASE \E view, heads, choice : ReadStep(p, view, heads, choice, proc'[p])
    <2>1. PICK view, heads, choice : ReadStep(p, view, heads, choice, proc'[p])
      BY <1>2
    <2>2. /\ view \in SUBSET Stored /\ Loads(p, proc[p].published, view)
          /\ heads = TrustedHeads(DeviceOf[p], proc[p].control, view)
          /\ proc'[p].heads = heads /\ proc'[p].control = proc[p].control
          /\ proc'[p].phase = "accept"
      BY <1>p, <2>1 DEF ReadStep, Process
    <2>3. Stored \subseteq view
      <3>1. view = PastOf(states, Stored \cup proc[p].published)
        BY <2>2 DEF Loads
      <3>2. Stored \cup proc[p].published \in SUBSET Stored
        BY <1>p DEF Held, Stored
      <3> QED BY <3>1, <3>2, PastStored
    <2>4. ASSUME NEW d \in Stored, Present(members, states, proc[p].control, d)
          PROVE  d \in PastOf(states, heads)
      <3>1. Trusted(DeviceOf[p], proc[p].control, d)
        BY <2>4, PresentIsCurrent DEF Trusted
      <3> QED BY <2>2, <2>3, <3>1, ReadCovers
    <2>5. Sealed(members, states, proc[p].control, PastOf(states, heads), AllConfirmed)
      BY <2>4 DEF Sealed, AllConfirmed
    <2>6. proc[p].control \in Control
      BY <1>q, <2>1 DEF ReadStep
    <2>7. Sealed(members', states', proc[p].control, PastOf(states', heads), AllConfirmed')
      <3>1. heads \in SUBSET Stored
        BY <2>2, TrustedInView
      <3>2. Sealed(members', states', proc[p].control, PastOf(states, heads), AllConfirmed')
        BY <2>5, <2>6, SealedStays
      <3> QED BY <1>g, <3>1, <3>2, PastStays
    <2> QED BY <2>2, <2>7 DEF SealOf, After
  <1>3. ASSUME Applies(p) \/ GoesOn(p) PROVE SealOf(members', states', proc'[p], AllConfirmed')
    <2>1. /\ proc'[p].heads = proc[p].heads /\ proc'[p].control = proc[p].control
          /\ proc'[p].seals = proc[p].seals /\ proc'[p].phase \in {"recheck", "write", "publish"}
          /\ proc[p].phase \in Working
      BY <1>3, <1>p DEF Applies, Applied, GoesOn, Process, Working
    <2>2. ASSUME proc[p].seals
          PROVE  Sealed(members', states', proc[p].control, PastOf(states', proc[p].heads),
                        AllConfirmed')
      <3>1. Sealed(members', states', proc[p].control, PastOf(states, proc[p].heads), AllConfirmed')
        BY <1>p, <1>q, <2>1, <2>2, SealedStays DEF SealOf
      <3> QED BY <1>g, <1>q, <3>1, PastStays
    <2> QED BY <2>1, <2>2 DEF SealOf, After
  <1>4. CASE StartsEmpty(p)
    <2>1. proc'[p].seals = proc[p].seals /\ proc'[p].phase = "write" /\ ~ proc[p].seals
      BY <1>4, <1>p DEF StartsEmpty, Process, Held
    <2> QED BY <2>1 DEF SealOf, After
  <1>5. CASE Publishes(p)
    <2>1. PICK d \in Rev \ Stored :
             Stored' = Stored \cup {d} /\ states'[d] = Revision(p) /\ proc'[p] = Sent(p, d)
      BY <1>5 DEF Publishes
    <2>2. /\ proc'[p].own = {d} /\ proc'[p].control = proc[p].control
          /\ proc'[p].seals = proc[p].seals /\ proc'[p].phase = "published"
      BY <1>p, <2>1 DEF Sent, Process
    <2>3. ASSUME proc[p].seals
          PROVE  Sealed(members', states', proc[p].control, states'[d].anc, AllConfirmed')
      <3>1. states'[d].anc = PastOf(states, proc[p].heads) /\ proc[p].phase \in Working
        BY <1>5, <2>1 DEF Revision, Publishes, Working
      <3>2. Sealed(members, states, proc[p].control, PastOf(states, proc[p].heads), AllConfirmed)
        BY <1>p, <2>3, <3>1 DEF SealOf
      <3> QED BY <1>q, <3>1, <3>2, SealedStays
    <2> QED BY <2>2, <2>3 DEF SealOf, Working
  <1>6. ASSUME Confirms(p) \/ Reloads(p) PROVE SealOf(members', states', proc'[p], AllConfirmed')
    <2>1. /\ proc'[p].own = proc[p].own /\ proc'[p].control = proc[p].control
          /\ proc'[p].seals = proc[p].seals
          /\ proc[p].phase \in After /\ proc'[p].phase \in {"reload", "record"}
      BY <1>6, <1>p DEF Confirms, Reloads, Process, After
    <2>2. ASSUME proc[p].seals, NEW d \in proc[p].own
          PROVE  Sealed(members', states', proc[p].control, states'[d].anc, AllConfirmed')
      <3>1. Sealed(members', states', proc[p].control, states[d].anc, AllConfirmed')
        BY <1>p, <1>q, <2>1, <2>2, SealedStays DEF SealOf
      <3> QED BY <1>q, <1>s, <2>2, <3>1
    <2> QED BY <1>p, <2>1, <2>2 DEF SealOf, Working, After
  <1>7. CASE Settles(p) \/ FindsNothing(p)
    BY <1>1, <1>7, PhaseFacts DEF Working, After
  <1> QED BY <1>1, <1>2, <1>3, <1>4, <1>5, <1>6, <1>7, SealMoves

\* When listings are complete nothing is missed: an empty view is empty storage.
LEMMA NothingStored ==
    ASSUME ~ Lagging, Core, NEW p \in Proc, FindsNothing(p)
    PROVE  Stored = {}
  <1>1. {} = PastOf(states, Stored \cup proc[p].published)
    BY DEF FindsNothing, Loads
  <1> QED BY <1>1 DEF PastOf, Past

LEMMA SealedByAdmin ==
    ASSUME ~ Lagging, Core, Seals, NEW p \in Proc, Acts(p),
           NEW d \in Stored', Confirmed(d)', states'[d].control < sealed',
           Present(members', states', sealed', d)
    PROVE  \E s \in Stored' : states'[s].author = Admin /\ d \in states'[s].anc
  <1>p. /\ proc[p] \in Process /\ Held(members, states, DeviceOf[p], proc[p])
        /\ SealOf(members, states, proc[p], AllConfirmed)
        /\ sealed \in Control /\ Len(members) \in Nat \ {0}
    BY CoreAt DEF Seals
  <1>1. /\ d \in Stored /\ Grows
        /\ Confirmed(d) \/ states[d].control = Len(members)
    BY NewlyConfirmed, ActsCore
  <1>2. /\ states'[d] = states[d] /\ Stored \subseteq Stored'
        /\ \A s \in Stored : states'[s] = states[s]
    BY <1>1 DEF Grows
  <1>3. SUFFICES \E s \in Stored : states[s].author = Admin /\ d \in states[s].anc
    BY <1>2
  <1>4. CASE sealed' = sealed
    <2>1. Confirmed(d) /\ states[d].control < sealed /\ Present(members, states, sealed, d)
      BY <1>p, <1>1, <1>2, <1>4, PresentStays DEF Control
    <2> QED BY <1>1, <2>1 DEF Seals, AllConfirmed
  <1>5. CASE Settles(p) /\ proc[p].seals
    <2>1. sealed' = proc[p].control /\ proc[p].phase = "record"
      BY <1>5 DEF Settles
    <2>2. proc[p].control \in Control /\ DeviceOf[p] = Admin
      BY <1>p, <1>5, <2>1 DEF Held, Control, Process
    <2>3. Confirmed(d) /\ states[d].control < proc[p].control
          /\ Present(members, states, proc[p].control, d)
      BY <1>p, <1>1, <1>2, <2>1, <2>2, PresentStays DEF Control
    <2>4. PICK s \in proc[p].own :
             Sealed(members, states, proc[p].control, states[s].anc, AllConfirmed)
      BY <1>p, <1>5, <2>1 DEF SealOf, After
    <2>5. s \in Stored /\ states[s].author = Admin
      BY <1>p, <2>2 DEF Held, Stored
    <2>6. d \in states[s].anc
      BY <1>1, <2>3, <2>4 DEF Sealed, AllConfirmed
    <2> QED BY <2>5, <2>6
  <1>6. CASE FindsNothing(p)
    BY <1>1, <1>6, NothingStored
  <1> QED BY <1>4, <1>5, <1>6, SealMoves DEF Settles

LEMMA SealsStep == ~ Lagging /\ Core /\ Seals /\ [Next]_vars => Seals'
  <1> SUFFICES ASSUME ~ Lagging, Core, Seals, [Next]_vars PROVE Seals'
    OBVIOUS
  <1>1. CASE UNCHANGED vars
    BY <1>1 DEF vars, Seals, SealOf, Sealed, AllConfirmed, Confirmed, Stored, PastOf, Past
  <1>2. ASSUME NEW p \in Proc, Acts(p) PROVE Seals'
    <2>1. \A q \in Proc : SealOf(members', states', proc'[q], AllConfirmed')
      BY <1>2, OtherSeals, OwnSeal
    <2>2. ASSUME NEW d \in AllConfirmed', states'[d].control < sealed',
                 Present(members', states', sealed', d)
          PROVE  \E s \in Stored' : states'[s].author = Admin /\ d \in states'[s].anc
      BY <1>2, <2>2, SealedByAdmin DEF AllConfirmed
    <2> QED BY <2>1, <2>2 DEF Seals
  <1> QED BY <1>1, <1>2 DEF Next, Acts

\* After the members changed and reencryptAll was through, nothing a present
\* member was told to be saved is left encrypted for the old members: a save is
\* confirmed only when the list is still the one it was encrypted for.
THEOREM SavesAreSealed == Spec => []SavedIsSealed
<1>1. CASE Lagging
  BY <1>1, PTL DEF SavedIsSealed
<1>2. CASE ~ Lagging
  <2>1. Init => Core /\ Seals /\ ServingAreMembers
    <3> SUFFICES ASSUME Init PROVE Core /\ Seals /\ ServingAreMembers
      OBVIOUS
    <3>1. Core /\ Stored = {} /\ Len(members) = 1
      BY CoreInit DEF Init, Stored
    <3>2. Seals
      BY <3>1 DEF Init, Seals, SealOf, AllConfirmed, Idle, After, Working
    <3>3. ServingAreMembers
      BY <3>1 DEF ServingAreMembers, Control
    <3> QED BY <3>1, <3>2, <3>3
  <2>2. Core /\ Seals /\ ServingAreMembers /\ [Next]_vars => (Core /\ Seals /\ ServingAreMembers)'
    BY <1>2, CoreStep, SealsStep, ServingStep
  <2>3. Core /\ Seals /\ ServingAreMembers => SavedIsSealed
    <3> SUFFICES ASSUME Core, Seals, ServingAreMembers,
                        NEW x \in members[Current], NEW e \in settled,
                        AuthorIsCurrent(Current, e.rev), e.rev \in HeadsFor(x),
                        states[e.rev].control < sealed
                 PROVE  FALSE
      BY DEF SavedIsSealed, Core, Typed, State, Control
    <3> DEFINE d == e.rev
    <3>1. /\ d \in Stored /\ Len(members) \in Nat \ {0} /\ sealed \in 1..Len(members)
          /\ states[d].control \in Control /\ states[d].author \in members[states[d].control]
      BY DEF Core, Typed, HistoryOK, Control
    <3>2. Confirmed(d)
      BY DEF Confirmed
    <3>3. Serves(members, sealed, states[d].control, states[d].author)
      BY <3>1 DEF AuthorIsCurrent, Unbroken, Serves, Current, Control
    <3>4. Present(members, states, sealed, d)
      BY <3>1, <3>3 DEF Present, ServingAreMembers, Control
    <3>5. PICK s \in Stored : states[s].author = Admin /\ d \in states[s].anc
      BY <3>1, <3>2, <3>4 DEF Seals, AllConfirmed
    <3>6. AuthorIsCurrent(Current, s)
      <4>1. states[s].control \in 1..Len(members) /\ \A c \in 1..Len(members) : Admin \in members[c]
        BY DEF Core, HistoryOK, MembersOK, Control
      <4> QED BY <3>1, <3>5, <4>1 DEF AuthorIsCurrent, Unbroken, Current
    <3> QED BY <3>5, <3>6 DEF HeadsFor, TrustedHeads, Uncovered, Trusted
  <2>4. QED BY <2>1, <2>2, <2>3, PTL DEF Spec
<1>3. QED BY <1>1, <1>2

-----------------------------------------------------------------------------
(***************************************************************************)
(* Where content comes from and what becomes of an edit.  A value in a map *)
(* was set by some revision below it; and an edit below a map is in it, or *)
(* below a revision that set the key again, in full sight of the edit.     *)
(***************************************************************************)
Sets(S, a, k, v) == S[a].op = "set" /\ k \in S[a].keys /\ S[a].secrets[k] = v

SetIn(S, P, k, v) == \E a \in P : Sets(S, a, k, v)

OverIn(S, P, k, v) ==
    \E a \in P, c \in P : Sets(S, a, k, v) /\ a \in S[c].anc /\ k \in S[c].keys

From(S, m, P) == \A k \in Key, v \in Value : m[k] = v => SetIn(S, P, k, v)

Carried(S, m, P, K) ==
    \A k \in Key \ K, v \in Value : SetIn(S, P, k, v) => m[k] = v \/ OverIn(S, P, k, v)

HistoryCarries ==
    \A d \in Stored : /\ From(states, states[d].secrets, Past(states, d))
                      /\ Carried(states, states[d].secrets, Past(states, d), {})

\* Where every head agrees, the merge has their value.
LEMMA AllAgree ==
    ASSUME NEW bases, NEW heads, NEW choice, NEW k \in Key, NEW m \in heads,
           \A n \in heads : n[k] = m[k]
    PROVE  Merged(bases, heads, choice)[k] = m[k]
  <1>1. Side(heads, k) = {m[k]}
    BY DEF Side
  <1>2. \A b \in BaseMaps(bases) : Outcomes(b[k], Side(heads, k)) = {m[k]}
    BY <1>1 DEF Outcomes
  <1>3. BaseMaps(bases) # {}
    BY DEF BaseMaps
  <1>4. Resolved(bases, heads, k) = {m[k]}
    BY <1>2, <1>3 DEF Resolved
  <1>5. ~ InConflict(bases, heads, k)
    BY <1>4 DEF InConflict
  <1>6. (CHOOSE w \in Resolved(bases, heads, k) : TRUE) = m[k]
    BY <1>4
  <1> QED BY <1>5, <1>6 DEF Merged

\* What comes out of a merge stood in one of the bases or heads.
LEMMA MergedFrom ==
    ASSUME NEW bases \in SUBSET Map, NEW heads \in SUBSET Map, heads # {},
           NEW choice \in Map, NEW k \in Key, NEW v \in Value,
           Merged(bases, heads, choice)[k] = v,
           InConflict(bases, heads, k) => choice[k] \in Side(heads, k) \cup {Deleted}
    PROVE  \E m \in bases \cup heads : m[k] = v
  <1>1. CASE InConflict(bases, heads, k)
    <2>1. choice[k] = v
      BY <1>1 DEF Merged
    <2>2. v \in Side(heads, k)
      BY <1>1, <2>1, DeletedOK
    <2> QED BY <2>2 DEF Side
  <1>2. CASE ~ InConflict(bases, heads, k)
    <2>1. (CHOOSE w \in Resolved(bases, heads, k) : TRUE) = v
      BY <1>2 DEF Merged
    <2>2. Side(heads, k) # {} /\ BaseMaps(bases) # {}
      BY DEF Side, BaseMaps
    <2>3. Resolved(bases, heads, k) # {}
      BY <2>2 DEF Resolved, Outcomes
    <2>4. v \in Resolved(bases, heads, k)
      BY <2>1, <2>3
    <2>5. PICK b \in BaseMaps(bases) : v \in Outcomes(b[k], Side(heads, k))
      BY <2>4 DEF Resolved
    <2>6. v = b[k] \/ v \in Side(heads, k)
      BY <2>5 DEF Outcomes
    <2>7. b \in bases \/ b[k] = Deleted
      BY <2>5 DEF BaseMaps, EmptyMap
    <2> QED BY <2>6, <2>7, DeletedOK DEF Side
  <1> QED BY <1>1, <1>2

LEMMA PastOfPast ==
    ASSUME Core, NEW H \in SUBSET Stored, NEW h \in H
    PROVE  Past(states, h) \subseteq PastOf(states, H)
  BY DEF PastOf

\* The merge bases lie below every head.
LEMMA BasesBelow ==
    ASSUME Core, NEW H \in SUBSET Stored, NEW b \in MergeBases(states, H), NEW h \in H
    PROVE  b \in Stored /\ Past(states, b) \subseteq Past(states, h)
  <1>1. b \in Past(states, h) /\ b \in PastOf(states, H)
    BY DEF MergeBases, Uncovered, CommonAncestors
  <1>2. b \in Stored
    BY <1>1, PastStored
  <1>3. Past(states, b) \subseteq Past(states, h)
    BY <1>1 DEF Past, Core, HistoryOK
  <1> QED BY <1>2, <1>3

\* A read comes from what lies below its heads.
LEMMA ReadFrom ==
    ASSUME Core, HistoryCarries, NEW x \in Device, NEW H \in SUBSET Stored, H # {},
           NEW choice \in [Key -> Value \cup {Deleted}],
           \A k \in Key : InConflict(KnownBases(x, H), HeadMaps(H), k) =>
                             choice[k] \in Side(HeadMaps(H), k) \cup {Deleted}
    PROVE  From(states, Merged(KnownBases(x, H), HeadMaps(H), choice), PastOf(states, H))
  <1> SUFFICES ASSUME NEW k \in Key, NEW v \in Value,
                      Merged(KnownBases(x, H), HeadMaps(H), choice)[k] = v
               PROVE  SetIn(states, PastOf(states, H), k, v)
    BY DEF From
  <1>1. /\ KnownBases(x, H) \in SUBSET Map /\ HeadMaps(H) \in SUBSET Map
        /\ HeadMaps(H) # {} /\ choice \in Map
    <2>1. KnownBases(x, H) \in SUBSET Map /\ HeadMaps(H) \in SUBSET Map
      BY ReadTyped
    <2> QED BY <2>1 DEF HeadMaps, Map
  <1>2. PICK m \in KnownBases(x, H) \cup HeadMaps(H) : m[k] = v
    BY <1>1, MergedFrom
  <1>3. PICK d \in PastOf(states, H) : states[d].secrets = m
    <2>1. MergeBases(states, H) \subseteq PastOf(states, H) /\ H \subseteq PastOf(states, H)
      BY PastStored DEF MergeBases, Uncovered, CommonAncestors
    <2> QED BY <2>1 DEF KnownBases, HeadMaps
  <1>4. d \in Stored /\ Past(states, d) \subseteq PastOf(states, H)
    BY PastStored
  <1>5. SetIn(states, Past(states, d), k, v)
    BY <1>2, <1>3, <1>4 DEF HistoryCarries, From
  <1> QED BY <1>4, <1>5 DEF SetIn

\* A read carries every edit below its heads that was not set again, wherever
\* it has no conflict: a head below which the edit lies has its value, and the
\* bases, which lie below the heads that do not have it, differ from it.
LEMMA ReadCarries ==
    ASSUME Core, HistoryCarries, NEW x \in Device, NEW H \in SUBSET Stored, NEW choice
    PROVE  Carried(states, Merged(KnownBases(x, H), HeadMaps(H), choice), PastOf(states, H),
                   Conflicts(KnownBases(x, H), HeadMaps(H)))
  <1> DEFINE bases == KnownBases(x, H)
             maps == HeadMaps(H)
  <1> SUFFICES ASSUME NEW k \in Key, ~ InConflict(bases, maps, k), NEW v \in Value,
                      SetIn(states, PastOf(states, H), k, v),
                      ~ OverIn(states, PastOf(states, H), k, v)
               PROVE  Merged(bases, maps, choice)[k] = v
    BY DEF Carried, Conflicts
  <1>1. ASSUME NEW h \in H, SetIn(states, Past(states, h), k, v)
        PROVE  states[h].secrets[k] = v
    <2>1. ~ OverIn(states, Past(states, h), k, v)
      BY <1>1, PastOfPast DEF OverIn
    <2> QED BY <1>1, <2>1 DEF HistoryCarries, Carried
  <1>2. PICK h0 \in H : SetIn(states, Past(states, h0), k, v)
    BY DEF SetIn, PastOf
  <1>3. states[h0].secrets \in maps /\ states[h0].secrets[k] = v
    BY <1>1, <1>2 DEF HeadMaps
  <1>4. CASE \A h \in H : SetIn(states, Past(states, h), k, v)
    <2>1. \A m \in maps : m[k] = v
      BY <1>1, <1>4 DEF HeadMaps
    <2> HIDE DEF maps, bases
    <2> QED BY <1>3, <2>1, AllAgree
  <1>5. ASSUME NEW h1 \in H, ~ SetIn(states, Past(states, h1), k, v)
        PROVE  Merged(bases, maps, choice)[k] = v
    <2>1. ASSUME NEW d \in Stored, Past(states, d) \subseteq Past(states, h1)
          PROVE  states[d].secrets[k] # v
      BY <1>5, <2>1 DEF HistoryCarries, From, SetIn
    <2>2. \A b \in MergeBases(states, H) : states[b].secrets[k] # v
      BY <2>1, BasesBelow
    <2>3. states[h1].secrets \in maps /\ states[h1].secrets[k] # v
      BY <2>1 DEF HeadMaps
    <2>4. CASE \A b \in MergeBases(states, H) : Readable(x, b)
      <3>1. \A m \in bases : m[k] # v
        BY <2>2, <2>4 DEF KnownBases
      <3>2. EmptyMap[k] # v
        BY DeletedOK DEF EmptyMap
      <3>3. PICK b \in BaseMaps(bases) : b[k] # v
        BY <3>1, <3>2 DEF BaseMaps
      <3> HIDE DEF maps, bases
      <3> QED BY <1>3, <3>3, MergeKeepsChanges
    <2>5. CASE \E b \in MergeBases(states, H) : ~ Readable(x, b)
      <3>1. maps \subseteq bases
        BY <2>5 DEF KnownBases, HeadMaps
      <3> HIDE DEF maps, bases
      <3> QED BY <1>3, <2>3, <3>1, HeadsAsBases
    <2> QED BY <2>4, <2>5
  <1> QED BY <1>4, <1>5

\* What is said of edits below some revisions stays as storage grows.
LEMMA EditsBelowStay ==
    ASSUME Core, Grows, NEW P \in SUBSET Stored, NEW k, NEW v
    PROVE  /\ SetIn(states', P, k, v) <=> SetIn(states, P, k, v)
           /\ OverIn(states', P, k, v) <=> OverIn(states, P, k, v)
  <1>1. \A a \in P : states'[a] = states[a]
    BY DEF Grows
  <1> QED BY <1>1 DEF SetIn, OverIn, Sets

LEMMA CarriedStays ==
    ASSUME Core, Grows, NEW P \in SUBSET Stored, NEW m, NEW K
    PROVE  /\ From(states', m, P) <=> From(states, m, P)
           /\ Carried(states', m, P, K) <=> Carried(states, m, P, K)
  BY EditsBelowStay DEF From, Carried

\* What a process has read, and what it is about to publish.
ReadOK(S, r) ==
    /\ From(S, r.secrets, PastOf(S, r.heads))
    /\ Carried(S, r.secrets, PastOf(S, r.heads), r.conflicts)

DraftOK(S, r) ==
    /\ \A k \in Key, v \in Value : r.secrets[k] = v =>
          SetIn(S, PastOf(S, r.heads), k, v) \/ (r.op.kind = "set" /\ k \in r.keys)
    /\ Carried(S, r.secrets, PastOf(S, r.heads), r.keys)

\* An edit is below every revision its process published, and it is in what the
\* process is about to publish or already below that.
ApplyOK(S, r) ==
    /\ \A d \in r.published, k \in r.op.key : SetIn(S, Past(S, d), k, r.op.value)
    /\ r.phase \in {"recheck", "write", "publish"} =>
          \/ r.keys = r.op.key /\ \A k \in r.keys : r.secrets[k] = r.op.value
          \/ r.published \cap PastOf(S, r.heads) # {}

WorkOf(S, r) ==
    /\ r.phase = "accept" => ReadOK(S, r)
    /\ r.phase \in {"recheck", "write", "publish"} => DraftOK(S, r)
    /\ r.op.kind = "set" => ApplyOK(S, r)

Works ==
    /\ HistoryCarries
    /\ \A p \in Proc : WorkOf(states, proc[p])
    /\ \A e \in settled : SetIn(states, Past(states, e.rev), e.key, e.value)

LEMMA WorkStays ==
    ASSUME Core, Grows, NEW q \in Proc, WorkOf(states, proc[q])
    PROVE  WorkOf(states', proc[q])
  <1>1. proc[q].heads \in SUBSET Stored /\ proc[q].published \in SUBSET Stored
    BY CoreAt DEF Held, Stored
  <1>2. /\ PastOf(states', proc[q].heads) = PastOf(states, proc[q].heads)
        /\ \A d \in proc[q].published : Past(states', d) = Past(states, d)
    BY <1>1, PastStays
  <1>3. PastOf(states, proc[q].heads) \in SUBSET Stored
    BY <1>1, PastStored
  <1>4. \A d \in proc[q].published : Past(states, d) \in SUBSET Stored
    BY <1>1 DEF Past, Core, HistoryOK
  <1>5. ReadOK(states, proc[q]) => ReadOK(states', proc[q])
    BY <1>2, <1>3, CarriedStays DEF ReadOK
  <1>6. DraftOK(states, proc[q]) => DraftOK(states', proc[q])
    BY <1>2, <1>3, CarriedStays, EditsBelowStay DEF DraftOK
  <1>7. ApplyOK(states, proc[q]) => ApplyOK(states', proc[q])
    BY <1>2, <1>4, EditsBelowStay DEF ApplyOK
  <1> QED BY <1>5, <1>6, <1>7 DEF WorkOf

\* What publishing adds to the history: its past is that of the heads and itself.
LEMMA PublishedPast ==
    ASSUME Core, NEW p \in Proc, Acts(p), NEW d \in Rev \ Stored,
           Stored' = Stored \cup {d}, states'[d] = Revision(p)
    PROVE  /\ Past(states', d) = PastOf(states, proc[p].heads) \cup {d}
           /\ PastOf(states, proc[p].heads) \in SUBSET Stored
           /\ states'[d].anc = PastOf(states, proc[p].heads)
           /\ states'[d].secrets = proc[p].secrets /\ states'[d].keys = proc[p].keys
           /\ states'[d].op = proc[p].op.kind
  <1>1. proc[p].heads \in SUBSET Stored
    BY CoreAt DEF Held, Stored
  <1> QED BY <1>1, PastStored DEF Revision, Past

\* The change is applied: what was read stays, or its key is among those set.
LEMMA ApplyWork ==
    ASSUME Core, NEW p \in Proc, WorkOf(states, proc[p]), Applies(p)
    PROVE  WorkOf(states, proc'[p])
  <1> DEFINE r == proc[p]
             P == PastOf(states, r.heads)
  <1>p. /\ r \in Process /\ Held(members, states, DeviceOf[p], r) /\ ReadOK(states, r)
        /\ r.op.key \subseteq Key /\ r.secrets \in Map
    BY CoreAt DEF WorkOf, Applies, Process, Op
  <1>1. /\ proc'[p].op = r.op /\ proc'[p].published = r.published
        /\ proc'[p].phase = "recheck" /\ proc'[p].heads = r.heads
        /\ proc'[p].secrets = Changed(p) /\ proc'[p].keys = KeysSet(p)
    BY <1>p DEF Applies, Applied, Process
  <1>2. \A k \in Key \ KeysSet(p) : Changed(p)[k] = r.secrets[k] /\ k \notin r.conflicts
    BY <1>p DEF Changed, KeysSet, Applies
  <1>3. ASSUME NEW k \in KeysSet(p), Changed(p)[k] \in Value
        PROVE  r.op.kind = "set" \/ Changed(p)[k] = r.secrets[k]
    BY <1>p, <1>3, DeletedOK DEF Changed, KeysSet, Held
  <1>4. KeysSet(p) \subseteq Key
    BY <1>p DEF KeysSet, Process
  <1>5. DraftOK(states, proc'[p])
    <2>1. ASSUME NEW k \in Key, NEW v \in Value, Changed(p)[k] = v
          PROVE  SetIn(states, P, k, v) \/ (r.op.kind = "set" /\ k \in KeysSet(p))
      BY <1>p, <1>2, <1>3, <2>1 DEF ReadOK, From
    <2>2. Carried(states, Changed(p), P, KeysSet(p))
      BY <1>p, <1>2 DEF ReadOK, Carried
    <2> QED BY <1>1, <2>1, <2>2 DEF DraftOK
  <1>6. ASSUME r.op.kind = "set" PROVE ApplyOK(states, proc'[p])
    <2>1. ApplyOK(states, r)
      BY <1>6 DEF WorkOf
    <2>2. CASE InRead(p)
      BY <1>1, <2>1, <2>2 DEF ApplyOK, InRead
    <2>3. CASE ~ InRead(p)
      <3>1. KeysSet(p) = r.op.key /\ \A k \in r.op.key : Changed(p)[k] = r.op.value
        BY <1>p, <1>6, <2>3 DEF KeysSet, Changed
      <3> QED BY <1>1, <2>1, <3>1 DEF ApplyOK
    <2> QED BY <2>2, <2>3
  <1> QED BY <1>1, <1>5, <1>6 DEF WorkOf

LEMMA OwnWork ==
    ASSUME Core, Works, NEW p \in Proc, Acts(p)
    PROVE  WorkOf(states', proc'[p])
  <1>p. /\ proc[p] \in Process /\ Held(members, states, DeviceOf[p], proc[p])
        /\ WorkOf(states, proc[p]) /\ DeviceOf[p] \in Device
    BY CoreAt DEF Works
  <1>g. Grows
    BY ActsCore
  <1>1. CASE StartsSet(p)
    <2>1. proc'[p].published = {} /\ proc'[p].phase = "open"
      BY <1>1 DEF StartsSet, Idle
    <2> QED BY <2>1 DEF WorkOf, ApplyOK
  <1>2. CASE proc'[p].op.kind # "set" /\ proc'[p].phase \notin Working
    BY <1>2 DEF WorkOf, Working
  <1>3. CASE UNCHANGED states /\ Same(p) /\ proc'[p].phase \notin Working
    BY <1>3, <1>p DEF WorkOf, Working, Same, ApplyOK
  <1>4. CASE UNCHANGED states /\ \E view, heads, choice : ReadStep(p, view, heads, choice, proc'[p])
    <2>1. PICK view, heads, choice : ReadStep(p, view, heads, choice, proc'[p])
      BY <1>4
    <2> DEFINE bases == KnownBases(DeviceOf[p], heads)
               maps == HeadMaps(heads)
    <2>2. /\ proc'[p].op = proc[p].op /\ proc'[p].published = proc[p].published
          /\ proc'[p].phase = "accept" /\ proc'[p].heads = heads
          /\ proc'[p].conflicts = Conflicts(bases, maps)
          /\ proc'[p].secrets = Merged(bases, maps, choice)
      BY <1>p, <2>1 DEF ReadStep, Process
    <2>3. /\ heads \in SUBSET Stored /\ heads # {}
          /\ choice \in [Key -> Value \cup {Deleted}]
      BY <2>1, TrustedInView DEF ReadStep
    <2>4. \A k \in Key : InConflict(bases, maps, k) => choice[k] \in Side(maps, k) \cup {Deleted}
      <3>1. CASE proc[p].op.kind = "resolve"
        BY <2>1, <3>1 DEF ReadStep, Choices, Conflicts
      <3>2. CASE proc[p].op.kind # "resolve"
        BY <2>1, <3>2 DEF ReadStep, EmptyMap
      <3> QED BY <3>1, <3>2
    <2>5. From(states, Merged(bases, maps, choice), PastOf(states, heads))
      BY <1>p, <2>3, <2>4, ReadFrom DEF Works
    <2>6. Carried(states, Merged(bases, maps, choice), PastOf(states, heads),
                  Conflicts(bases, maps))
      BY <1>p, <2>3, ReadCarries DEF Works
    <2> HIDE DEF bases, maps
    <2>7. ReadOK(states, proc'[p])
      BY <2>2, <2>5, <2>6 DEF ReadOK
    <2> QED BY <1>4, <1>p, <2>2, <2>7 DEF WorkOf, ApplyOK
  <1>5. CASE UNCHANGED states /\ Applies(p)
    BY <1>5, <1>p, ApplyWork
  <1>6. CASE UNCHANGED states /\ StartsEmpty(p)
    <2>1. /\ proc'[p].op = proc[p].op /\ proc'[p].published = proc[p].published
          /\ proc'[p].heads = {} /\ proc'[p].keys = proc[p].op.key /\ proc'[p].phase = "write"
          /\ proc'[p].secrets = [k \in Key |-> IF k \in proc[p].op.key
                                 THEN proc[p].op.value ELSE Deleted]
          /\ proc[p].op.key \subseteq Key /\ proc[p].op.kind = "set"
      BY <1>6, <1>p DEF StartsEmpty, Process, Held, Op
    <2>2. PastOf(states, {}) = {}
      BY DEF PastOf
    <2>3. DraftOK(states, proc'[p])
      BY <2>1, <2>2, DeletedOK DEF DraftOK, Carried, SetIn
    <2>4. ApplyOK(states, proc'[p])
      BY <1>p, <2>1 DEF WorkOf, ApplyOK
    <2> QED BY <1>6, <2>1, <2>3, <2>4 DEF WorkOf
  <1>7. CASE UNCHANGED states /\ GoesOn(p)
    <2>1. /\ proc'[p].op = proc[p].op /\ proc'[p].published = proc[p].published
          /\ proc'[p].heads = proc[p].heads /\ proc'[p].keys = proc[p].keys
          /\ proc'[p].secrets = proc[p].secrets /\ proc[p].phase \in {"recheck", "write"}
          /\ proc'[p].phase \in {"write", "publish"}
      BY <1>7, <1>p DEF GoesOn, Process
    <2> QED BY <1>7, <1>p, <2>1 DEF WorkOf, DraftOK, ApplyOK
  <1>8. CASE Publishes(p)
    <2>1. PICK d \in Rev \ Stored :
             Stored' = Stored \cup {d} /\ states'[d] = Revision(p) /\ proc'[p] = Sent(p, d)
      BY <1>8 DEF Publishes
    <2>2. /\ proc'[p].op = proc[p].op /\ proc'[p].published = proc[p].published \cup {d}
          /\ proc'[p].phase = "published" /\ proc[p].phase = "publish"
      BY <1>8, <1>p, <2>1 DEF Sent, Process, Publishes
    <2>3. ASSUME proc[p].op.kind = "set", NEW k \in proc[p].op.key
          PROVE  SetIn(states', Past(states', d), k, proc[p].op.value)
      <3>1. /\ Past(states', d) = PastOf(states, proc[p].heads) \cup {d}
            /\ PastOf(states, proc[p].heads) \in SUBSET Stored
            /\ states'[d].secrets = proc[p].secrets /\ states'[d].keys = proc[p].keys
            /\ states'[d].op = proc[p].op.kind
        BY <2>1, PublishedPast
      <3>2. ApplyOK(states, proc[p])
        BY <1>p, <2>3 DEF WorkOf
      <3>3. CASE /\ proc[p].keys = proc[p].op.key
                 /\ \A i \in proc[p].keys : proc[p].secrets[i] = proc[p].op.value
        BY <2>3, <3>1, <3>3 DEF SetIn, Sets
      <3>4. CASE proc[p].published \cap PastOf(states, proc[p].heads) # {}
        <4>1. PICK b \in proc[p].published : b \in PastOf(states, proc[p].heads)
          BY <3>4
        <4>2. SetIn(states, Past(states, b), k, proc[p].op.value)
          BY <2>3, <3>2 DEF ApplyOK
        <4>3. Past(states, b) \subseteq PastOf(states, proc[p].heads)
          BY <1>p, <4>1, PastStored DEF Held, Stored
        <4>4. SetIn(states, PastOf(states, proc[p].heads), k, proc[p].op.value)
          BY <4>2, <4>3 DEF SetIn
        <4>5. SetIn(states', PastOf(states, proc[p].heads), k, proc[p].op.value)
          BY <1>g, <3>1, <4>4, EditsBelowStay
        <4> QED BY <3>1, <4>5 DEF SetIn
      <3> QED BY <2>2, <3>2, <3>3, <3>4 DEF ApplyOK
    <2>4. ASSUME proc[p].op.kind = "set", NEW k \in proc[p].op.key, NEW b \in proc[p].published
          PROVE  SetIn(states', Past(states', b), k, proc[p].op.value)
      <3>1. WorkOf(states', proc[p])
        BY <1>g, <1>p, WorkStays
      <3> QED BY <2>4, <3>1 DEF WorkOf, ApplyOK
    <2> QED BY <2>2, <2>3, <2>4 DEF WorkOf, ApplyOK
  <1> QED BY <1>1, <1>2, <1>3, <1>4, <1>5, <1>6, <1>7, <1>8, WorkMoves

\* Old revisions carry what they carried; a new one carries what its process
\* was about to publish, and lies above every edit of a key that it sets.
LEMMA HistoryCarriesStep ==
    ASSUME Core, Works, NEW p \in Proc, Acts(p)
    PROVE  HistoryCarries'
  <1>g. Grows
    BY ActsCore
  <1>1. ASSUME NEW d \in Stored
        PROVE  /\ From(states', states'[d].secrets, Past(states', d))
               /\ Carried(states', states'[d].secrets, Past(states', d), {})
    <2>1. /\ Past(states', d) = Past(states, d) /\ Past(states, d) \in SUBSET Stored
          /\ states'[d] = states[d]
      BY <1>g, PastStays DEF Grows, Past, Core, HistoryOK
    <2>2. /\ From(states, states[d].secrets, Past(states, d))
          /\ Carried(states, states[d].secrets, Past(states, d), {})
      BY DEF Works, HistoryCarries
    <2> QED BY <1>g, <2>1, <2>2, CarriedStays
  <1>2. CASE UNCHANGED states
    BY <1>1, <1>2 DEF HistoryCarries, Stored
  <1>3. CASE Publishes(p)
    <2> DEFINE r == proc[p]
               P == PastOf(states, r.heads)
    <2>1. PICK d \in Rev \ Stored : Stored' = Stored \cup {d} /\ states'[d] = Revision(p)
      BY <1>3 DEF Publishes
    <2>2. /\ Past(states', d) = P \cup {d} /\ P \in SUBSET Stored
          /\ states'[d].anc = P /\ states'[d].op = r.op.kind
          /\ states'[d].secrets = r.secrets /\ states'[d].keys = r.keys
      BY <2>1, PublishedPast
    <2>3. DraftOK(states, r)
      BY <1>3 DEF Works, WorkOf, Publishes
    <2>4. ASSUME NEW k \in Key, NEW v \in Value, r.secrets[k] = v
          PROVE  SetIn(states', Past(states', d), k, v)
      <3>1. CASE SetIn(states, P, k, v)
        <4>1. SetIn(states', P, k, v)
          BY <1>g, <2>2, <3>1, EditsBelowStay
        <4> QED BY <2>2, <4>1 DEF SetIn
      <3>2. CASE r.op.kind = "set" /\ k \in r.keys
        <4>1. Sets(states', d, k, v)
          BY <2>2, <2>4, <3>2 DEF Sets
        <4> QED BY <2>2, <4>1 DEF SetIn
      <3> QED BY <2>3, <2>4, <3>1, <3>2 DEF DraftOK
    <2>5. ASSUME NEW k \in Key, NEW v \in Value, SetIn(states', Past(states', d), k, v),
                 r.secrets[k] # v
          PROVE  OverIn(states', Past(states', d), k, v)
      <3>1. PICK a \in Past(states', d) : Sets(states', a, k, v)
        BY <2>5 DEF SetIn
      <3>2. a \in P
        BY <2>2, <2>5, <3>1 DEF Sets
      <3>3. CASE k \in r.keys
        BY <2>2, <3>1, <3>2, <3>3 DEF OverIn
      <3>4. CASE k \notin r.keys
        <4>1. SetIn(states, P, k, v)
          BY <1>g, <2>2, <3>1, <3>2, EditsBelowStay DEF SetIn
        <4>2. OverIn(states, P, k, v)
          BY <2>3, <2>5, <3>4, <4>1 DEF DraftOK, Carried
        <4>3. OverIn(states', P, k, v)
          BY <1>g, <2>2, <4>2, EditsBelowStay
        <4> QED BY <2>2, <4>3 DEF OverIn
      <3> QED BY <3>3, <3>4
    <2>6. From(states', states'[d].secrets, Past(states', d))
      BY <2>2, <2>4 DEF From
    <2>7. Carried(states', states'[d].secrets, Past(states', d), {})
      BY <2>2, <2>5 DEF Carried
    <2> QED BY <1>1, <2>1, <2>6, <2>7 DEF HistoryCarries
  <1> QED BY <1>2, <1>3, WorkMoves

\* What a call was told to have saved is set below the revision it published.
LEMMA SettledStep ==
    ASSUME Core, Works, NEW p \in Proc, Acts(p), NEW e \in settled'
    PROVE  SetIn(states', Past(states', e.rev), e.key, e.value)
  <1>g. Grows
    BY ActsCore
  <1>1. CASE e \in settled
    <2>1. e.rev \in Stored
      BY <1>1, CoreAt
    <2>2. Past(states', e.rev) = Past(states, e.rev) /\ Past(states, e.rev) \in SUBSET Stored
      BY <1>g, <2>1, PastStays DEF Past, Core, HistoryOK
    <2>3. SetIn(states, Past(states, e.rev), e.key, e.value)
      BY <1>1 DEF Works
    <2> QED BY <1>g, <2>2, <2>3, EditsBelowStay
  <1>2. CASE e \notin settled
    <2>1. UNCHANGED states /\ e \in Saves(p)
      BY <1>2, SealMoves DEF Settles
    <2>2. proc[p].op.kind = "set" /\ e.rev \in proc[p].own /\ e.key \in proc[p].op.key
          /\ e.value = proc[p].op.value
      BY <2>1 DEF Saves
    <2>3. ApplyOK(states, proc[p]) /\ e.rev \in proc[p].published
      BY <2>2, CoreAt DEF Works, WorkOf, Held
    <2> QED BY <2>1, <2>2, <2>3 DEF ApplyOK
  <1> QED BY <1>1, <1>2

LEMMA WorksStep == Core /\ Works /\ [Next]_vars => Works'
  <1> SUFFICES ASSUME Core, Works, [Next]_vars PROVE Works'
    OBVIOUS
  <1>1. CASE UNCHANGED vars
    BY <1>1 DEF vars, Works, HistoryCarries, Stored
  <1>2. ASSUME NEW p \in Proc, Acts(p) PROVE Works'
    <2>1. Grows /\ \A q \in Proc \ {p} : proc'[q] = proc[q]
      BY <1>2, ActsCore
    <2>2. \A q \in Proc : WorkOf(states', proc'[q])
      BY <1>2, <2>1, WorkStays, OwnWork DEF Works
    <2>3. /\ HistoryCarries'
          /\ \A e \in settled' : SetIn(states', Past(states', e.rev), e.key, e.value)
      BY <1>2, HistoryCarriesStep, SettledStep
    <2> QED BY <2>2, <2>3 DEF Works
  <1> QED BY <1>1, <1>2 DEF Next, Acts

\* Neither of two updates saved at the same time is lost: what every member
\* reads has the edit, shows a conflict on its key, or lies above a revision
\* that set the key again by somebody who had the edit.
THEOREM EditsAlwaysSurvive == Spec => []EditsSurvive
<1>1. Init => Core /\ Works
  <2> SUFFICES ASSUME Init PROVE Works
    BY CoreInit
  <2> QED BY DEF Init, Works, WorkOf, HistoryCarries, Stored, Idle, NoOp
<1>2. Core /\ Works /\ [Next]_vars => (Core /\ Works)'
  BY CoreStep, WorksStep
<1>3. Core /\ Works => EditsSurvive
  <2> SUFFICES ASSUME Core, Works, NEW e \in settled, NEW x \in Device,
                      AuthorIsCurrent(Current, e.rev),
                      e.key \notin Conflicts(BasesFor(x), HeadMaps(HeadsFor(x))),
                      ReadFor(x)[e.key] # e.value
               PROVE  \E a, c \in PastOf(states, HeadsFor(x)) :
                         /\ states[a].op = "set" /\ states[a].secrets[e.key] = e.value
                         /\ e.key \in states[a].keys
                         /\ a \in states[c].anc /\ e.key \in states[c].keys
    BY DEF EditsSurvive
  <2> DEFINE H == HeadsFor(x)
  <2>1. e.rev \in Stored /\ e.key \in Key /\ e.value \in Value /\ H \in SUBSET Stored
    BY DEF Core, Typed, HeadsFor, TrustedHeads, Uncovered
  <2>2. e.rev \in PastOf(states, H)
    BY <2>1, ReadCovers DEF HeadsFor, Trusted
  <2>3. Past(states, e.rev) \subseteq PastOf(states, H)
    BY <2>1, <2>2, PastStored
  <2>4. SetIn(states, PastOf(states, H), e.key, e.value)
    BY <2>3 DEF Works, SetIn
  <2>5. Carried(states, ReadFor(x), PastOf(states, H), Conflicts(BasesFor(x), HeadMaps(H)))
    BY <2>1, ReadCarries DEF Works, ReadFor, BasesFor
  <2>6. OverIn(states, PastOf(states, H), e.key, e.value)
    BY <2>1, <2>4, <2>5 DEF Carried
  <2> QED BY <2>6 DEF OverIn, Sets
<1>4. QED BY <1>1, <1>2, <1>3, PTL DEF Spec

-----------------------------------------------------------------------------
(***************************************************************************)
(* The walk of trustedHeads finds the trusted heads.                       *)
(***************************************************************************)
\* A bounded set of numbers has a least one.
LEMMA LeastOf ==
    ASSUME NEW N \in Nat, NEW Q \in SUBSET (0..N), Q # {}
    PROVE  \E n \in Q : \A m \in Q : n <= m
  <1> DEFINE A == {0..n : n \in Q}
  <1>1. IsWellFoundedOn(StrictSubsetOrdering(0..N), FiniteSubsetsOf(0..N))
    BY FS_StrictSubsetOrderingWellFounded
  <1>2. A \subseteq FiniteSubsetsOf(0..N) /\ A # {}
    <2>1. \A n \in 0..N : 0..n \subseteq 0..N
      OBVIOUS
    <2>2. IsFiniteSet(0..N)
      BY FS_Interval
    <2>3. \A n \in Q : 0..n \in FiniteSubsetsOf(0..N)
      BY <2>1, <2>2, FS_Subset DEF FiniteSubsetsOf
    <2> QED BY <2>3
  <1>3. PICK S \in A : \A U \in A : ~ (<<U, S>> \in StrictSubsetOrdering(0..N))
    BY <1>1, <1>2, WFMin
  <1>4. PICK n \in Q : S = 0..n
    BY <1>3
  <1>5. ASSUME NEW m \in Q, m < n PROVE FALSE
    <2>1. 0..m \in A /\ 0..m \in SUBSET (0..N) /\ 0..n \in SUBSET (0..N)
      BY <1>5
    <2>2. 0..m \subseteq 0..n /\ n \in 0..n /\ n \notin 0..m
      BY <1>5
    <2>3. <<0..m, 0..n>> \in StrictSubsetOrdering(0..N)
      BY <2>1, <2>2 DEF StrictSubsetOrdering
    <2> QED BY <1>3, <1>4, <2>1, <2>3
  <1> QED BY <1>4, <1>5

\* The passes of a walk: f[n] is what n passes F make of X.
Passes(X, F, f, N) == f = [n \in 0..N |-> IF n = 0 THEN X ELSE F[f[n - 1]]]

\* Recursion over the passes defines a function.
LEMMA PassesExist ==
    ASSUME NEW N \in Nat, NEW X, NEW F
    PROVE  \E f : Passes(X, F, f, N)
  <1> DEFINE Q == {n \in 0..N : ~ \E f : Passes(X, F, f, n)}
  <1> SUFFICES ASSUME Q # {} PROVE FALSE
    OBVIOUS
  <1>1. PICK q \in Q : \A m \in Q : q <= m
    BY LeastOf
  <1>2. q # 0
    <2>1. Passes(X, F, [n \in 0..0 |-> X], 0)
      BY DEF Passes
    <2> QED BY <2>1
  <1>3. PICK f : Passes(X, F, f, q - 1)
    BY <1>1, <1>2
  <1> DEFINE g == [n \in 0..q |-> IF n = q THEN F[f[q - 1]] ELSE f[n]]
  <1>4. \A n \in 0..(q - 1) : g[n] = f[n] /\ f[n] = IF n = 0 THEN X ELSE F[f[n - 1]]
    BY <1>3 DEF Passes
  <1>5. ASSUME NEW n \in 0..q
        PROVE  g[n] = IF n = 0 THEN X ELSE F[g[n - 1]]
    <2>1. CASE n = q
      BY <1>2, <1>4, <2>1
    <2>2. CASE n \in 0..(q - 1)
      <3>1. n # 0 => n - 1 \in 0..(q - 1)
        BY <2>2
      <3> QED BY <1>4, <2>2, <3>1
    <2> QED BY <2>1, <2>2
  <1>6. Passes(X, F, g, q)
    BY <1>5 DEF Passes
  <1> QED BY <1>6

\* A walk stays in what its passes do not leave.
LEMMA WalkStays ==
    ASSUME NEW N \in Nat, NEW F, NEW X, NEW f, Passes(X, F, f, N), NEW G,
           X \subseteq G, \A V \in SUBSET G : F[V] \subseteq G, NEW n \in 0..N
    PROVE  f[n] \subseteq G
  <1> DEFINE Q == {m \in 0..N : ~ f[m] \subseteq G}
  <1> SUFFICES ASSUME Q # {} PROVE FALSE
    OBVIOUS
  <1>1. PICK q \in Q : \A m \in Q : q <= m
    BY LeastOf
  <1>2. \A m \in 0..N : f[m] = IF m = 0 THEN X ELSE F[f[m - 1]]
    BY DEF Passes
  <1>3. q \in 1..N
    BY <1>1, <1>2
  <1>4. q - 1 \in 0..N /\ q - 1 \notin Q
    BY <1>1, <1>3
  <1> QED BY <1>1, <1>2, <1>3, <1>4

\* A walk that only adds ends where a pass adds nothing.
LEMMA WalkEnds ==
    ASSUME NEW U, IsFiniteSet(U), NEW F, NEW X \in SUBSET U, NEW f,
           \A V \in SUBSET U : V \subseteq F[V] /\ F[V] \subseteq U,
           Passes(X, F, f, Cardinality(U)), X = {} => U = {}
    PROVE  /\ f[Cardinality(U)] \in SUBSET U
           /\ X \subseteq f[Cardinality(U)]
           /\ F[f[Cardinality(U)]] = f[Cardinality(U)]
  <1> DEFINE N == Cardinality(U)
  <1>1. N \in Nat /\ f[0] = X /\ \A n \in 1..N : f[n] = F[f[n - 1]]
    BY FS_CardinalityType DEF Passes
  <1>2. \A n \in 0..N : f[n] \in SUBSET U
    BY <1>1, WalkStays
  <1> HIDE DEF N
  <1>3. \A n \in 0..N : f[n] \in SUBSET U /\ X \subseteq f[n]
    <2> DEFINE Q == {n \in 0..N : ~ X \subseteq f[n]}
    <2>2. ASSUME Q # {} PROVE FALSE
      <3>1. PICK q \in Q : \A n \in Q : q <= n
        BY <1>1, <2>2, LeastOf
      <3>2. q \in 1..N /\ q - 1 \in 0..N /\ q - 1 \notin Q
        BY <1>1, <3>1
      <3>3. f[q - 1] \subseteq f[q]
        BY <1>1, <1>2, <3>2
      <3> QED BY <3>1, <3>2, <3>3
    <2> QED BY <1>2, <2>2
  <1>4. \A n \in 0..N : F[f[n]] = f[n] \/ Cardinality(f[n]) > n
    <2> DEFINE Q == {n \in 0..N : ~ (F[f[n]] = f[n] \/ Cardinality(f[n]) > n)}
    <2> SUFFICES ASSUME Q # {} PROVE FALSE
      OBVIOUS
    <2>1. PICK q \in Q : \A n \in Q : q <= n
      BY <1>1, LeastOf
    <2>2. q # 0
      <3>1. X = {} => F[X] = X
        OBVIOUS
      <3>2. X # {} => Cardinality(X) > 0
        BY FS_Subset, FS_CardinalityType, FS_EmptySet
      <3> QED BY <1>1, <2>1, <3>1, <3>2
    <2>3. q - 1 \in 0..N /\ q - 1 \notin Q /\ q \in 1..N
      BY <1>1, <2>1, <2>2
    <2> DEFINE A == f[q - 1]
               B == f[q]
    <2>4. /\ A \in SUBSET U /\ B \in SUBSET U /\ B = F[A] /\ A \subseteq B
          /\ F[A] = A \/ Cardinality(A) > q - 1
      BY <1>1, <1>3, <2>3
    <2>5. F[B] # B /\ ~ Cardinality(B) > q
      BY <2>1
    <2>6. A # B
      BY <2>4, <2>5
    <2>7. Cardinality(A) \in Nat /\ Cardinality(B) \in Nat /\ Cardinality(A) < Cardinality(B)
      <3> HIDE DEF A, B
      <3>1. IsFiniteSet(B)
        BY <2>4, FS_Subset
      <3>2. IsFiniteSet(A) /\ Cardinality(A) <= Cardinality(B) /\ Cardinality(A) # Cardinality(B)
        BY <2>4, <2>6, <3>1, FS_Subset
      <3> QED BY <3>1, <3>2, FS_CardinalityType
    <2> QED BY <2>3, <2>4, <2>5, <2>6, <2>7
  <1>5. F[f[N]] = f[N]
    <2>1. f[N] \in SUBSET U
      BY <1>1, <1>3
    <2>2. CASE Cardinality(f[N]) > N
      <3>1. Cardinality(f[N]) <= N /\ Cardinality(f[N]) \in Nat
        BY <2>1, FS_Subset, FS_CardinalityType DEF N
      <3> QED BY <1>1, <2>2, <3>1
    <2> QED BY <1>1, <1>4, <2>2
  <1>6. f[N] \in SUBSET U /\ X \subseteq f[N]
    BY <1>1, <1>3
  <1> QED BY <1>5, <1>6 DEF N

\* One pass of the descent, and what it leaves when it ends.
Descend(x, c, view, V) ==
    V \cup UNION {states[d].parents \cap view : d \in {e \in V : ~ Trusted(x, c, e)}}

Highest(x, c, V) ==
    {d \in {e \in V : Trusted(x, c, e)} :
        ~ \E e \in {h \in V : Trusted(x, c, h)} \ {d} : d \in Past(states, e)}

\* The descent of trustedHeads is such a walk.
LEMMA DescentWalks ==
    ASSUME NEW x, NEW c, NEW view, IsFiniteSet(view)
    PROVE  LET F == [V \in SUBSET view |-> Descend(x, c, view, V)]
               N == Cardinality(view)
           IN  \E f : /\ Passes(Heads(states, view), F, f, N)
                      /\ WalkTrustedHeads(x, c, view) = Highest(x, c, f[N])
  <1> DEFINE N == Cardinality(view)
             Pass(V) == Descend(x, c, view, V)
             F == [V \in SUBSET view |-> Pass(V)]
             Is(f) == f = [n \in 0..N |-> IF n = 0 THEN Heads(states, view) ELSE Pass(f[n - 1])]
  <1>1. N \in Nat
    BY FS_CardinalityType
  <1>2. PICK f : Passes(Heads(states, view), F, f, N)
    BY <1>1, PassesExist
  <1>3. \A V \in SUBSET view : F[V] = Pass(V) /\ V \subseteq F[V] /\ F[V] \subseteq view
    BY DEF Descend
  <1>4. \A n \in 0..N : f[n] \in SUBSET view
    <2> DEFINE X == Heads(states, view)
    <2>1. X \in SUBSET view
      BY DEF Heads
    <2>2. \A V \in SUBSET view : F[V] \subseteq view
      BY <1>3
    <2>3. Passes(X, F, f, N)
      BY <1>2
    <2> HIDE DEF F, X, N
    <2>4. \A n \in 0..N : f[n] \subseteq view
      BY <1>1, <2>1, <2>2, <2>3, WalkStays
    <2> QED BY <2>4
  <1>5. Is(f)
    <2>1. \A n \in 0..N : f[n] = IF n = 0 THEN Heads(states, view) ELSE Pass(f[n - 1])
      <3> TAKE n \in 0..N
      <3>1. n # 0 => n - 1 \in 0..N
        BY <1>1
      <3>2. f[n] = IF n = 0 THEN Heads(states, view) ELSE F[f[n - 1]]
        BY <1>2 DEF Passes
      <3> QED BY <1>3, <1>4, <3>1, <3>2
    <2>2. f = [n \in 0..N |-> f[n]]
      BY <1>2 DEF Passes
    <2> HIDE DEF Pass
    <2> QED BY <2>1, <2>2
  <1> DEFINE g == CHOOSE h : Is(h)
  <1>6. Is(g)
    <2> HIDE DEF Is
    <2> QED BY <1>5
  <1>7. WalkTrustedHeads(x, c, view) = Highest(x, c, g[N])
    BY DEF WalkTrustedHeads, Descend, Highest
  <1> HIDE DEF g
  <1>8. \A n \in 0..N : g[n] \in SUBSET view
    <2> DEFINE Q == {n \in 0..N : g[n] \notin SUBSET view}
    <2> SUFFICES ASSUME Q # {} PROVE FALSE
      OBVIOUS
    <2>1. PICK q \in Q : \A n \in Q : q <= n
      BY <1>1, LeastOf
    <2>2. \A n \in 0..N : g[n] = IF n = 0 THEN Heads(states, view) ELSE Pass(g[n - 1])
      BY <1>6
    <2>3. Heads(states, view) \in SUBSET view /\ \A V \in SUBSET view : Pass(V) \in SUBSET view
      BY DEF Heads, Descend
    <2>4. q \in 0..N /\ g[q] \notin SUBSET view
      BY <2>1
    <2> HIDE DEF Pass, N
    <2>5. q # 0
      BY <1>1, <2>2, <2>3, <2>4
    <2>6. q - 1 \in 0..N /\ ~ (q <= q - 1)
      BY <1>1, <2>4, <2>5
    <2>7. g[q - 1] \in SUBSET view
      BY <2>1, <2>6
    <2>8. g[q] = Pass(g[q - 1])
      BY <2>2, <2>4, <2>5
    <2> QED BY <2>3, <2>4, <2>7, <2>8
  <1>9. Passes(Heads(states, view), F, g, N)
    <2>1. \A n \in 0..N : g[n] = IF n = 0 THEN Heads(states, view) ELSE F[g[n - 1]]
      <3> TAKE n \in 0..N
      <3>1. n # 0 => n - 1 \in 0..N
        BY <1>1
      <3>2. g[n] = IF n = 0 THEN Heads(states, view) ELSE Pass(g[n - 1])
        BY <1>6
      <3> QED BY <1>3, <1>8, <3>1, <3>2
    <2>2. g = [n \in 0..N |-> g[n]]
      BY <1>6
    <2> HIDE DEF F, Pass
    <2> QED BY <2>1, <2>2 DEF Passes
  <1> QED BY <1>7, <1>9

\* Every revision of a closed view lies below one of its heads.
LEMMA ViewHeadsCover ==
    ASSUME Core, NEW view \in SUBSET Stored, NEW d \in view
    PROVE  d \in PastOf(states, Heads(states, view))
  <1>1. d \in PastOf(states, Uncovered(states, view))
    BY UncoveredCovers
  <1>2. Uncovered(states, view) \subseteq Heads(states, view)
    BY DEF Uncovered, Heads, Core, HistoryOK, PastOf, Past
  <1> QED BY <1>1, <1>2 DEF PastOf

\* Where the descent ends it has reached every trusted revision that nothing
\* trusted covers: the lowest revision reached above it is trusted or leads on
\* to a lower one.
LEMMA DescentReaches ==
    ASSUME Core, NEW x, NEW c, NEW view \in SUBSET Stored,
           \A e \in view : Past(states, e) \subseteq view,
           NEW V \in SUBSET view, Heads(states, view) \subseteq V, Descend(x, c, view, V) = V,
           NEW d \in TrustedHeads(x, c, view)
    PROVE  d \in V
  <1>h. \A e \in Stored : /\ e \notin states[e].anc
                          /\ states[e].anc = PastOf(states, states[e].parents)
                          /\ \A g \in states[e].anc : Past(states, g) \subseteq states[e].anc
                          /\ Past(states, e) \subseteq Stored
    BY DEF Core, HistoryOK, Past
  <1>d. d \in view /\ Trusted(x, c, d) /\ \A e \in view : Trusted(x, c, e) => d \notin states[e].anc
    BY DEF TrustedHeads, Uncovered
  <1> DEFINE Reached == {e \in V : d \in Past(states, e)}
             T == {Past(states, e) : e \in Reached}
  <1>1. Reached # {}
    <2>1. PICK h \in Heads(states, view) : d \in Past(states, h)
      BY <1>d, ViewHeadsCover DEF PastOf
    <2> QED BY <2>1
  <1>2. T \subseteq FiniteSubsetsOf(Stored) /\ T # {}
    <2>1. IsFiniteSet(Stored)
      BY DEF Core, HistoryOK
    <2>2. \A e \in V : Past(states, e) \in FiniteSubsetsOf(Stored)
      BY <1>h, <2>1, FS_Subset DEF FiniteSubsetsOf
    <2> QED BY <1>1, <2>2
  <1>3. IsWellFoundedOn(StrictSubsetOrdering(Stored), FiniteSubsetsOf(Stored))
    BY FS_StrictSubsetOrderingWellFounded
  <1>4. PICK S \in T : \A U \in T : ~ (<<U, S>> \in StrictSubsetOrdering(Stored))
    BY <1>2, <1>3, WFMin
  <1>5. PICK e \in Reached : S = Past(states, e)
    BY <1>4
  <1>6. CASE e = d
    BY <1>5, <1>6
  <1>7. CASE e # d
    <2>1. e \in view /\ d \in states[e].anc /\ ~ Trusted(x, c, e)
      BY <1>5, <1>7, <1>d DEF Past
    <2>2. PICK h \in states[e].parents : d \in Past(states, h)
      BY <1>h, <2>1 DEF PastOf
    <2>3. /\ h \in states[e].anc /\ Past(states, h) \subseteq states[e].anc
          /\ e \notin states[e].anc
      BY <1>h, <2>1, <2>2 DEF PastOf, Past
    <2>4. h \in view
      BY <2>1, <2>3 DEF Past
    <2>5. h \in V
      BY <1>5, <2>1, <2>2, <2>4 DEF Descend
    <2>6. <<Past(states, h), Past(states, e)>> \in StrictSubsetOrdering(Stored)
      BY <1>h, <2>1, <2>3, <2>4 DEF StrictSubsetOrdering, Past
    <2> QED BY <1>4, <1>5, <2>2, <2>5, <2>6
  <1> QED BY <1>6, <1>7

\* Looking for the trusted heads from the top finds the highest trusted
\* revisions, whatever part of the history storage shows and whoever was
\* removed since: trustedHeads sets aside what is not trusted and no more.
THEOREM WalkAlwaysFindsTrusted == Spec => []WalkFindsTrusted
<1>1. ASSUME Core PROVE WalkFindsTrusted
  <2> SUFFICES ASSUME NEW x \in Device, NEW c \in Control, NEW S \in SUBSET Stored
               PROVE  WalkTrustedHeads(x, c, PastOf(states, S)) =
                         TrustedHeads(x, c, PastOf(states, S))
    BY DEF WalkFindsTrusted
  <2> DEFINE view == PastOf(states, S)
             F == [V \in SUBSET view |-> Descend(x, c, view, V)]
             N == Cardinality(view)
             T == {d \in view : Trusted(x, c, d)}
  <2>1. view \in SUBSET Stored /\ \A e \in view : Past(states, e) \subseteq view
    BY <1>1, PastStored
  <2>2. IsFiniteSet(view) /\ N \in Nat
    BY <1>1, <2>1, FS_Subset, FS_CardinalityType DEF Core, HistoryOK
  <2> HIDE DEF view
  <2>3. PICK f : /\ Passes(Heads(states, view), F, f, N)
                 /\ WalkTrustedHeads(x, c, view) = Highest(x, c, f[N])
    BY <2>2, DescentWalks
  <2>4. \A V \in SUBSET view : F[V] = Descend(x, c, view, V)
    OBVIOUS
  <2>5. \A V \in SUBSET view : V \subseteq F[V] /\ F[V] \subseteq view
    BY DEF Descend
  <2> HIDE DEF F
  <2>6. f[N] \in SUBSET view /\ Heads(states, view) \subseteq f[N] /\ F[f[N]] = f[N]
    <3> DEFINE X == Heads(states, view)
    <3>1. X \in SUBSET view
      BY DEF Heads
    <3>2. X = {} => view = {}
      BY <1>1, <2>1, ViewHeadsCover DEF PastOf
    <3>3. Passes(X, F, f, Cardinality(view))
      BY <2>3
    <3> HIDE DEF X
    <3>4. f[Cardinality(view)] \in SUBSET view /\ X \subseteq f[Cardinality(view)]
          /\ F[f[Cardinality(view)]] = f[Cardinality(view)]
      BY <2>2, <2>5, <3>1, <3>2, <3>3, WalkEnds
    <3> QED BY <3>4 DEF X
  <2>7. TrustedHeads(x, c, view) \subseteq f[N]
    BY <1>1, <2>1, <2>4, <2>6, DescentReaches
  <2>8. \A d \in T : \E e \in TrustedHeads(x, c, view) : d \in Past(states, e)
    <3>1. T \in SUBSET Stored /\ TrustedHeads(x, c, view) = Uncovered(states, T)
      BY <2>1 DEF TrustedHeads
    <3> QED BY <1>1, <3>1, UncoveredCovers DEF PastOf
  <2>9. Highest(x, c, f[N]) = TrustedHeads(x, c, view)
    <3>1. ASSUME NEW d \in Highest(x, c, f[N])
          PROVE  d \in TrustedHeads(x, c, view)
      <4>1. d \in T /\ d \in f[N]
        BY <2>6 DEF Highest
      <4>2. PICK e \in TrustedHeads(x, c, view) : d \in Past(states, e)
        BY <2>8, <4>1
      <4>3. e \in f[N] /\ Trusted(x, c, e)
        BY <2>7, <4>2 DEF TrustedHeads, Uncovered
      <4> QED BY <4>2, <4>3 DEF Highest
    <3>2. ASSUME NEW d \in TrustedHeads(x, c, view)
          PROVE  d \in Highest(x, c, f[N])
      <4>1. d \in f[N] /\ Trusted(x, c, d)
        BY <2>7 DEF TrustedHeads, Uncovered
      <4>2. ASSUME NEW e \in f[N], Trusted(x, c, e), e # d, d \in Past(states, e)
            PROVE  FALSE
        BY <2>6, <4>2 DEF TrustedHeads, Uncovered, Past
      <4> QED BY <4>1, <4>2 DEF Highest
    <3> QED BY <3>1, <3>2
  <2> QED BY <2>3, <2>9 DEF view
<1>2. Init => Core
  BY CoreInit
<1>3. Core /\ [Next]_vars => Core'
  BY CoreStep
<1>4. QED BY <1>1, <1>2, <1>3, PTL DEF Spec

-----------------------------------------------------------------------------
(***************************************************************************)
(* The loops of merge.go, for heads and bases of any number.               *)
(***************************************************************************)
Comparand == [counts : BOOLEAN, ok : BOOLEAN, value : OneValue]

\* One round of the loop.
Round(s, m, acc) == IF s[m].counts THEN Agree(acc, s[m].ok, s[m].value) ELSE acc

Rounds(s, f, n) == f = [m \in 0..n |-> IF m = 0 THEN Nothing ELSE Round(s, m, f[m - 1])]

LEMMA RoundsExist ==
    ASSUME NEW N \in Nat, NEW s
    PROVE  \E f : Rounds(s, f, N)
  <1> DEFINE Q == {n \in 0..N : ~ \E f : Rounds(s, f, n)}
  <1> SUFFICES ASSUME Q # {} PROVE FALSE
    OBVIOUS
  <1>1. PICK q \in Q : \A m \in Q : q <= m
    BY LeastOf
  <1>2. q # 0
    <2>1. Rounds(s, [n \in 0..0 |-> Nothing], 0)
      BY DEF Rounds
    <2> QED BY <2>1
  <1>3. PICK f : Rounds(s, f, q - 1)
    BY <1>1, <1>2
  <1> DEFINE g == [n \in 0..q |-> IF n = q THEN Round(s, q, f[q - 1]) ELSE f[n]]
  <1>4. \A n \in 0..(q - 1) :
           g[n] = f[n] /\ f[n] = IF n = 0 THEN Nothing ELSE Round(s, n, f[n - 1])
    BY <1>3 DEF Rounds
  <1>5. ASSUME NEW n \in 0..q
        PROVE  g[n] = IF n = 0 THEN Nothing ELSE Round(s, n, g[n - 1])
    <2>1. CASE n = q
      BY <1>2, <1>4, <2>1
    <2>2. CASE n \in 0..(q - 1)
      <3>1. n # 0 => n - 1 \in 0..(q - 1)
        BY <2>2
      <3> QED BY <1>4, <2>2, <3>1
    <2> QED BY <2>1, <2>2
  <1>6. Rounds(s, g, q)
    BY <1>5 DEF Rounds
  <1> QED BY <1>6

\* What the first n elements of s that count make of the comparison.
Counting(s, n) == {s[i] : i \in {j \in 1..n : s[j].counts}}

Compared(acc, C) ==
    /\ acc \in [ok : BOOLEAN, have : BOOLEAN, value : OneValue]
    /\ acc.have <=> C # {}
    /\ acc.ok <=> (\A c \in C : c.ok) /\ (\A c, d \in C : c.value = d.value)
    /\ acc.have => \E c \in C : c.value = acc.value

\* A comparison is right when all that counts is right and the same.
LEMMA CompareFinds ==
    ASSUME NEW s \in Seq(Comparand)
    PROVE  Compared(Compare(s), Counting(s, Len(s)))
  <1> DEFINE N == Len(s)
             Is(f) == Rounds(s, f, N)
             f == CHOOSE h : Is(h)
  <1>1. N \in Nat /\ \A n \in 1..N : s[n] \in Comparand
    OBVIOUS
  <1>2. Compare(s) = f[N]
    BY DEF Compare, Rounds, Round
  <1>3. Is(f)
    BY <1>1, RoundsExist
  <1> HIDE DEF N, f
  <1>4. f[0] = Nothing /\ \A n \in 1..N : f[n] = Round(s, n, f[n - 1])
    BY <1>1, <1>3 DEF Rounds
  <1> DEFINE Q == {n \in 0..N : ~ Compared(f[n], Counting(s, n))}
  <1>5. ASSUME Q # {} PROVE FALSE
    <2>1. PICK q \in Q : \A n \in Q : q <= n
      BY <1>1, <1>5, LeastOf
    <2>2. Compared(f[0], Counting(s, 0))
      BY <1>4 DEF Compared, Counting, Nothing, OneValue
    <2>3. q \in 1..N /\ q - 1 \in 0..N /\ q - 1 \notin Q
      BY <1>1, <2>1, <2>2
    <2> DEFINE acc == f[q - 1]
               C == Counting(s, q - 1)
    <2>4. Compared(acc, C) /\ f[q] = Round(s, q, acc) /\ s[q] \in Comparand
      BY <1>1, <1>4, <2>3
    <2>5. \A i \in 1..q : i = q \/ i \in 1..(q - 1)
      BY <1>1, <2>3
    <2>6. 1..(q - 1) \subseteq 1..q /\ q \in 1..q
      BY <1>1, <2>3
    <2>7. CASE s[q].counts
      <3>1. Counting(s, q) = C \cup {s[q]}
        BY <2>5, <2>6, <2>7 DEF Counting
      <3>2. f[q] = Agree(acc, s[q].ok, s[q].value)
        BY <2>4, <2>7 DEF Round
      <3> HIDE DEF acc, C
      <3>3. Compared(Agree(acc, s[q].ok, s[q].value), C \cup {s[q]})
        BY <2>4 DEF Compared, Agree, Comparand
      <3> QED BY <2>1, <3>1, <3>2, <3>3
    <2>8. CASE ~ s[q].counts
      <3>1. Counting(s, q) = C
        BY <2>5, <2>6, <2>8 DEF Counting
      <3>2. f[q] = acc
        BY <2>4, <2>8 DEF Round
      <3> QED BY <2>1, <2>4, <3>1, <3>2
    <2> QED BY <2>7, <2>8
  <1>6. N \in 0..N
    BY <1>1
  <1> QED BY <1>2, <1>5, <1>6 DEF N

\* What a base makes of the heads is what Outcomes says.
LEMMA AgainstFinds ==
    ASSUME NEW base \in OneValue, NEW hs \in Seq(OneValue)
    PROVE  LET r == ResolveAgainst(base, hs)
               all == Outcomes(base, ValuesOf(hs))
           IN  /\ r.ok \in BOOLEAN /\ r.value \in OneValue
               /\ r.ok => all = {r.value}
               /\ ~ r.ok => \E u, v \in all : u # v
  <1> DEFINE s == [i \in 1..Len(hs) |-> [counts |-> hs[i] # base, ok |-> TRUE, value |-> hs[i]]]
             acc == Compare(s)
             C == Counting(s, Len(s))
             Vs == ValuesOf(hs)
  <1>1. Len(hs) \in Nat /\ \A i \in 1..Len(hs) : hs[i] \in OneValue
    OBVIOUS
  <1>2. s \in Seq(Comparand) /\ Len(s) = Len(hs)
    BY <1>1 DEF Comparand
  <1>3. Compared(acc, C)
    BY <1>2, CompareFinds
  <1>4. /\ \A c \in C : c.ok /\ c.value \in Vs \ {base}
        /\ \A v \in Vs \ {base} : \E c \in C : c.value = v
    <2>1. \A i \in 1..Len(hs) : /\ s[i].counts = (hs[i] # base) /\ s[i].ok
                                 /\ s[i].value = hs[i]
      OBVIOUS
    <2> HIDE DEF s
    <2>2. C = {s[i] : i \in {j \in 1..Len(hs) : s[j].counts}}
      BY <1>2 DEF Counting
    <2> HIDE DEF C
    <2>3. ASSUME NEW c \in C PROVE c.ok /\ c.value \in Vs \ {base}
      <3>1. PICK i \in 1..Len(hs) : s[i].counts /\ c = s[i]
        BY <2>2
      <3> QED BY <2>1, <3>1 DEF ValuesOf
    <2>4. ASSUME NEW v \in Vs \ {base} PROVE \E c \in C : c.value = v
      <3>1. PICK i \in 1..Len(hs) : v = hs[i]
        BY DEF ValuesOf
      <3>2. s[i] \in C /\ s[i].value = v
        BY <2>1, <2>2, <3>1
      <3> QED BY <3>2
    <2> QED BY <2>3, <2>4
  <1>5. ResolveAgainst(base, hs) = IF acc.have THEN acc ELSE [acc EXCEPT !.value = base]
    BY DEF ResolveAgainst
  <1> HIDE DEF acc, C, s, Vs
  <1>6. CASE acc.have
    <2>1. ResolveAgainst(base, hs) = acc
      BY <1>5, <1>6
    <2>2. ~ Vs \subseteq {base}
      BY <1>3, <1>4, <1>6 DEF Compared
    <2>3. Outcomes(base, Vs) = Vs \ {base}
      BY <2>2 DEF Outcomes
    <2>4. acc.ok => Vs \ {base} = {acc.value}
      BY <1>3, <1>4, <1>6 DEF Compared
    <2>5. ~ acc.ok => \E u, v \in Vs \ {base} : u # v
      BY <1>3, <1>4, <1>6 DEF Compared
    <2> QED BY <1>3, <2>1, <2>3, <2>4, <2>5 DEF Compared, Vs
  <1>7. CASE ~ acc.have
    <2>1. Vs \subseteq {base} /\ acc.ok
      BY <1>3, <1>4, <1>7 DEF Compared
    <2>2. /\ ResolveAgainst(base, hs).ok = acc.ok
          /\ ResolveAgainst(base, hs).value = base
      BY <1>3, <1>5, <1>7 DEF Compared
    <2>3. Outcomes(base, Vs) = {base}
      BY <2>1 DEF Outcomes
    <2> QED BY <2>1, <2>2, <2>3 DEF Vs
  <1> QED BY <1>3, <1>6, <1>7 DEF Compared

\* What all bases make of the heads: a single outcome, or two that differ.
LEMMA KeyFinds ==
    ASSUME NEW bs \in Seq(OneValue), NEW hs \in Seq(OneValue)
    PROVE  LET r == ResolveKey(bs, hs)
               all == UNION {Outcomes(b, ValuesOf(hs)) : b \in ValuesOf(Bases(bs))}
           IN  IF r.ok THEN all = {r.value} ELSE \E u, v \in all : u # v
  <1> DEFINE each == Bases(bs)
             Against(b) == ResolveAgainst(b, hs)
             All(b) == Outcomes(b, ValuesOf(hs))
             s == [i \in 1..Len(each) |-> [counts |-> TRUE, ok |-> Against(each[i]).ok,
                                           value |-> Against(each[i]).value]]
             acc == Compare(s)
             C == Counting(s, Len(s))
             B == ValuesOf(each)
  <1>1. each \in Seq(OneValue) /\ each # <<>>
    <2>1. <<Deleted>> \in Seq(OneValue) /\ <<Deleted>> # <<>>
      BY DEF OneValue
    <2> QED BY <2>1 DEF Bases
  <1>2. Len(each) \in Nat /\ 1 \in 1..Len(each) /\ \A i \in 1..Len(each) : each[i] \in OneValue
    BY <1>1
  <1>3. ResolveKey(bs, hs) = acc
    BY DEF ResolveKey
  <1>4. B # {} /\ B \subseteq OneValue
    BY <1>2 DEF ValuesOf
  <1>5. \A b \in B : /\ Against(b).ok \in BOOLEAN /\ Against(b).value \in OneValue
                     /\ Against(b).ok => All(b) = {Against(b).value}
                     /\ ~ Against(b).ok => \E u, v \in All(b) : u # v
    BY <1>4, AgainstFinds
  <1>6. \A i \in 1..Len(each) : each[i] \in B
    BY DEF ValuesOf
  <1> HIDE DEF Against, All
  <1>7. s \in Seq(Comparand) /\ Len(s) = Len(each)
    BY <1>2, <1>5, <1>6 DEF Comparand
  <1>8. Compared(acc, C)
    BY <1>7, CompareFinds
  <1>9. /\ \A c \in C : \E b \in B : c.ok = Against(b).ok /\ c.value = Against(b).value
        /\ \A b \in B : \E c \in C : c.ok = Against(b).ok /\ c.value = Against(b).value
    <2>1. \A i \in 1..Len(each) : /\ s[i].counts /\ s[i].ok = Against(each[i]).ok
                                   /\ s[i].value = Against(each[i]).value
      OBVIOUS
    <2> HIDE DEF s
    <2>2. C = {s[i] : i \in {j \in 1..Len(each) : s[j].counts}}
      BY <1>7 DEF Counting
    <2> HIDE DEF C, each
    <2>3. ASSUME NEW c \in C
          PROVE  \E b \in B : c.ok = Against(b).ok /\ c.value = Against(b).value
      <3>1. PICK i \in 1..Len(each) : c = s[i]
        BY <2>2
      <3> QED BY <1>6, <2>1, <3>1
    <2>4. ASSUME NEW b \in B
          PROVE  \E c \in C : c.ok = Against(b).ok /\ c.value = Against(b).value
      <3>1. PICK i \in 1..Len(each) : b = each[i]
        BY DEF ValuesOf
      <3>2. s[i] \in C
        BY <2>1, <2>2
      <3> QED BY <2>1, <3>1, <3>2
    <2> QED BY <2>3, <2>4
  <1> HIDE DEF acc, C, s, each, B
  <1>10. CASE acc.ok
    <2>1. \A b \in B : Against(b).ok /\ Against(b).value = acc.value
      BY <1>4, <1>8, <1>9, <1>10 DEF Compared
    <2>2. \A b \in B : All(b) = {acc.value}
      BY <1>5, <2>1
    <2>3. UNION {All(b) : b \in B} = {acc.value}
      BY <1>4, <2>2
    <2> QED BY <1>3, <1>10, <2>3 DEF All, B, each
  <1>11. CASE ~ acc.ok
    <2>1. \/ \E b \in B : ~ Against(b).ok
          \/ \E b, c \in B : /\ Against(b).ok /\ Against(c).ok
                             /\ Against(b).value # Against(c).value
      <3>1. (\E c \in C : ~ c.ok) \/ \E c, d \in C : c.value # d.value
        BY <1>8, <1>11 DEF Compared
      <3>2. CASE \E c \in C : ~ c.ok
        BY <1>9, <3>2
      <3>3. CASE \E c, d \in C : c.value # d.value
        <4>1. PICK c \in C, d \in C : c.value # d.value
          BY <3>3
        <4>2. PICK b \in B : c.value = Against(b).value
          BY <1>9
        <4>3. PICK e \in B : d.value = Against(e).value
          BY <1>9
        <4> QED BY <4>1, <4>2, <4>3
      <3> QED BY <3>1, <3>2, <3>3
    <2>2. \E u, v \in UNION {All(b) : b \in B} : u # v
      <3>1. CASE \E b \in B : ~ Against(b).ok
        BY <1>5, <3>1
      <3>2. CASE \E b, c \in B : /\ Against(b).ok /\ Against(c).ok
                                 /\ Against(b).value # Against(c).value
        <4>1. PICK b \in B, c \in B : /\ Against(b).ok /\ Against(c).ok
                                      /\ Against(b).value # Against(c).value
          BY <3>2
        <4>2. Against(b).value \in All(b) /\ Against(c).value \in All(c)
          BY <1>5, <4>1
        <4> QED BY <4>1, <4>2
      <3> QED BY <2>1, <3>1, <3>2
    <2> QED BY <1>3, <1>11, <2>2 DEF All, B, each
  <1> QED BY <1>8, <1>10, <1>11 DEF Compared

LoopTyped == baseValues \in Seq(OneValue) /\ headValues \in Seq(OneValue)

LEMMA LoopInvariance == LoopSpec => []LoopTyped
  <1>1. LoopInit => LoopTyped
    <2> SUFFICES ASSUME LoopInit PROVE LoopTyped
      OBVIOUS
    <2>1. headValues \in Seq(OneValue)
      BY SeqDef DEF LoopInit
    <2> QED BY <2>1 DEF LoopInit, LoopTyped
  <1>2. LoopTyped /\ [LoopNext]_loopVars => LoopTyped'
    BY DEF LoopTyped, LoopNext, AddHead, AddBase, loopVars
  <1> QED BY <1>1, <1>2, PTL DEF LoopSpec

\* However many heads and bases there are and in whatever order they come, the
\* loops find what the sets of Merge say: one outcome, or a conflict.
THEOREM LoopsFindTheOutcome == LoopSpec => []LoopFindsOutcome
<1>1. LoopTyped => LoopFindsOutcome
  <2> SUFFICES ASSUME LoopTyped, NEW k \in Key
               PROVE  LET r == ResolveKey(baseValues, headValues)
                          all == Resolved(MapsOf(baseValues), MapsOf(headValues), k)
                      IN  IF r.ok THEN all = {r.value} ELSE \E u, v \in all : u # v
    BY DEF LoopFindsOutcome
  <2> DEFINE Vs == ValuesOf(headValues)
             Bs == ValuesOf(Bases(baseValues))
             Maps == BaseMaps(MapsOf(baseValues))
  <2>1. \A s : {m[k] : m \in MapsOf(s)} = ValuesOf(s)
    <3> TAKE s
    <3>1. \A v : [j \in Key |-> v][k] = v
      OBVIOUS
    <3> DEFINE F(v) == [j \in Key |-> v]
               W == ValuesOf(s)
    <3>2. MapsOf(s) = {F(v) : v \in W}
      BY DEF MapsOf
    <3>3. \A v : F(v)[k] = v
      BY <3>1
    <3> HIDE DEF F, W
    <3>4. {m[k] : m \in {F(v) : v \in W}} = W
      BY <3>3
    <3> QED BY <3>2, <3>4 DEF W
  <2>2. {m[k] : m \in Maps} = Bs
    <3>1. CASE baseValues = <<>>
      <4>1. MapsOf(baseValues) = {}
        BY <3>1 DEF MapsOf, ValuesOf
      <4>2. Maps = {EmptyMap} /\ Bs = {Deleted}
        BY <3>1, <4>1 DEF BaseMaps, Bases, ValuesOf
      <4> QED BY <4>2 DEF EmptyMap
    <3>2. CASE baseValues # <<>>
      <4>1. Len(baseValues) \in Nat /\ 1 \in 1..Len(baseValues)
        BY <3>2 DEF LoopTyped
      <4>2. MapsOf(baseValues) # {}
        <5>1. baseValues[1] \in ValuesOf(baseValues)
          BY <4>1 DEF ValuesOf
        <5> HIDE DEF Vs, Bs
        <5>2. [j \in Key |-> baseValues[1]] \in MapsOf(baseValues)
          BY <5>1 DEF MapsOf
        <5> QED BY <5>2
      <4>3. Maps = MapsOf(baseValues) /\ Bs = ValuesOf(baseValues)
        BY <3>2, <4>2 DEF BaseMaps, Bases
      <4> QED BY <2>1, <4>3
    <3> QED BY <3>1, <3>2
  <2>3. Resolved(MapsOf(baseValues), MapsOf(headValues), k)
          = UNION {Outcomes(m[k], Vs) : m \in Maps}
    BY <2>1 DEF Resolved, Side
  <2>4. {Outcomes(m[k], Vs) : m \in Maps} = {Outcomes(b, Vs) : b \in Bs}
    <3> HIDE DEF Vs, Maps, Bs
    <3> QED BY <2>2
  <2>5. LET r == ResolveKey(baseValues, headValues)
            all == UNION {Outcomes(b, Vs) : b \in Bs}
        IN  IF r.ok THEN all = {r.value} ELSE \E u, v \in all : u # v
    BY KeyFinds DEF LoopTyped
  <2> QED BY <2>3, <2>4, <2>5
<1>2. QED BY <1>1, LoopInvariance, PTL

\* Nor is a side ever taken silently, or a conflict reported that is none.
THEOREM OutcomeIsAlwaysRight == LoopSpec => []OutcomeIsRight
<1>1. LoopTyped => OutcomeIsRight
  <2> DEFINE r == ResolveKey(baseValues, headValues)
             Vs == ValuesOf(headValues)
             Bs == ValuesOf(Bases(baseValues))
             all == UNION {Outcomes(b, Vs) : b \in Bs}
  <2> SUFFICES ASSUME LoopTyped PROVE NothingLost /\ ConflictIsReal
    BY DEF OutcomeIsRight
  <2>1. IF r.ok THEN all = {r.value} ELSE \E u, v \in all : u # v
    BY KeyFinds DEF LoopTyped
  <2> HIDE DEF r
  <2>2. NothingLost
    <3> SUFFICES ASSUME r.ok, NEW v \in Vs, NEW b \in Bs, v # b PROVE r.value = v
      BY DEF NothingLost, r
    <3>1. v \in Outcomes(b, Vs)
      BY DEF Outcomes
    <3>2. v \in all
      BY <3>1
    <3> QED BY <2>1, <3>2
  <2>3. ConflictIsReal
    <3> SUFFICES ASSUME ~ r.ok, NEW v \in OneValue
                 PROVE  \/ \E h \in Vs, b \in Bs : h # b /\ h # v
                        \/ \E b \in Bs : Vs \subseteq {b} /\ v # b
      BY DEF ConflictIsReal, r
    <3>1. PICK w \in all : w # v
      BY <2>1
    <3>2. PICK b \in Bs : w \in Outcomes(b, Vs)
      BY <3>1
    <3> QED BY <3>1, <3>2 DEF Outcomes
  <2> QED BY <2>2, <2>3
<1>2. QED BY <1>1, LoopInvariance, PTL

=============================================================================
