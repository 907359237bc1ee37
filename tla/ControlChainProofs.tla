-------------------------- MODULE ControlChainProofs --------------------------
(***************************************************************************)
(* Theorems about ControlChain, for any number of devices, processes and   *)
(* stored Controls.                                                        *)
(***************************************************************************)
EXTENDS ControlChain, FiniteSetTheorems, WellFoundedInduction, TLAPS

\* What the stored DAG looks like: finite, rooted at the genesis, and every
\* Control carries exactly the ancestors its parents give it.
DagOK ==
    /\ IsFiniteSet(Stored)
    /\ \A d \in Stored :
          /\ dag[d].parents \subseteq Stored
          /\ dag[d].anc = PastOf(dag, dag[d].parents)
          /\ dag[d].anc \subseteq Stored
          /\ d \notin dag[d].anc
          /\ \A e \in dag[d].anc : Past(dag, e) \subseteq dag[d].anc
          /\ dag[d].parents = {} <=> d = Genesis

-----------------------------------------------------------------------------
\* A successor of stored Controls is a Control.
LEMMA SuccessorType ==
    ASSUME TypeOK, DagOK,
           NEW ps \in SUBSET Stored, NEW x \in Device,
           NEW k \in [Device -> Recipient \cup {NoKey}], NEW as \in SUBSET Device
    PROVE  Successor(dag, ps, x, k, as) \in Control
  <1>1. PastOf(dag, ps) \subseteq Digest
    BY DEF PastOf, Past, DagOK, TypeOK
  <1>2. ps \subseteq Digest
    BY DEF TypeOK
  <1> QED BY <1>1, <1>2 DEF Successor, Control

\* Storing a new Control, or the same one again, keeps what is stored.
LEMMA PutKeeps ==
    ASSUME TypeOK, NEW d, NEW c \in Control, Put(d, c)
    PROVE  /\ Stored' = Stored \cup {d}
           /\ Genesis \in Stored' /\ Stored' \subseteq Digest
           /\ dag' \in [Stored' -> Control]
           /\ \A e \in Stored : dag'[e] = dag[e]
           /\ dag'[d] = c
  BY DEF Put, TypeOK, Stored

-----------------------------------------------------------------------------
\* The edits an admin can ask for, and the join of competing heads, are
\* principal lists.
LEMMA EditsType ==
    ASSUME NEW c \in Control, NEW e \in Edits(c)
    PROVE  e \in Control
  <1> DEFINE Typed(k, as) == [c EXCEPT !.key = k, !.admins = as] \in Control
  <1>1. \A k \in [Device -> Recipient \cup {NoKey}], as \in SUBSET Device : Typed(k, as)
    BY DEF Control
  <1>2. c.key \in [Device -> Recipient \cup {NoKey}] /\ c.admins \in SUBSET Device
    BY DEF Control
  <1>3. CASE e \in Approved(c)
    <2>1. PICK m \in Device, r \in Recipient : e = [c EXCEPT !.key[m] = r]
      BY <1>3 DEF Approved
    <2>2. e = [c EXCEPT !.key = [c.key EXCEPT ![m] = r], !.admins = c.admins]
      BY <2>1 DEF Control
    <2> QED BY <1>1, <1>2, <2>2
  <1>4. CASE e \in Removed(c)
    <2>1. PICK m \in Device : e = [c EXCEPT !.key[m] = NoKey, !.admins = @ \ {m}]
      BY <1>4 DEF Removed, Members
    <2>2. e = [c EXCEPT !.key = [c.key EXCEPT ![m] = NoKey], !.admins = c.admins \ {m}]
      BY <2>1
    <2> QED BY <1>1, <1>2, <2>2
  <1>5. CASE e \in Promoted(c) \cup Demoted(c)
    <2>1. PICK as \in SUBSET Device : e = [c EXCEPT !.admins = as]
      BY <1>2, <1>5 DEF Promoted, Demoted, Members
    <2> QED BY <2>1 DEF Control
  <1>6. Changes \subseteq {"approve", "remove", "promote", "demote"}
    BY ProcOK
  <1>7. PICK k \in Changes : e \in CASE k = "approve" -> Approved(c)
                                      [] k = "remove" -> Removed(c)
                                      [] k = "promote" -> Promoted(c)
                                      [] k = "demote" -> Demoted(c)
    BY DEF Edits
  <1>8. e \in Approved(c) \/ e \in Removed(c) \/ e \in Promoted(c) \/ e \in Demoted(c)
    BY <1>6, <1>7
  <1> QED BY <1>3, <1>4, <1>5, <1>8

LEMMA JoinType ==
    ASSUME TypeOK, NEW H \in SUBSET Stored, NEW last \in H
    PROVE  /\ JoinedKey(H, last) \in [Device -> Recipient \cup {NoKey}]
           /\ JoinedAdmins(H) \in SUBSET Device
  BY DEF JoinedKey, JoinedAdmins, TypeOK, Control

\* Every step leaves storage alone or adds one successor of stored Controls.
PutsSuccessor ==
    \E d \in Digest, ps \in (SUBSET Stored) \ {{}}, x \in Device,
       k \in [Device -> Recipient \cup {NoKey}], as \in SUBSET Device :
          Put(d, Successor(dag, ps, x, k, as))

LEMMA StorageSteps ==
    ASSUME TypeOK, [Next]_vars
    PROVE  dag' = dag \/ PutsSuccessor
  <1>1. ASSUME NEW p \in Proc, ChangeMembers(p)
        PROVE  PutsSuccessor
    <2>0. PICK h \in Heads(dag, proc[p].view), d \in Digest :
             \E e \in Edits(dag[h]) :
                Put(d, Successor(dag, {h}, DeviceOf[p], e.key, e.admins))
      BY <1>1 DEF ChangeMembers
    <2>1. PICK e \in Edits(dag[h]) :
             Put(d, Successor(dag, {h}, DeviceOf[p], e.key, e.admins))
      BY <2>0
    <2>2. h \in Stored /\ DeviceOf[p] \in Device
      BY ProcOK DEF Heads, TypeOK
    <2>3. e \in Control
      BY <2>2, EditsType DEF TypeOK
    <2>4. {h} \in (SUBSET Stored) \ {{}}
      BY <2>2
    <2> QED BY <2>1, <2>2, <2>3, <2>4 DEF PutsSuccessor, Control
  <1>2. ASSUME NEW p \in Proc, ResolveControlFork(p)
        PROVE  PutsSuccessor
    <2> DEFINE H == Heads(dag, proc[p].view)
    <2>1. PICK last \in H, d \in Digest : Put(d, Resolution(H, last, DeviceOf[p]))
      BY <1>2 DEF ResolveControlFork
    <2>2. H \in (SUBSET Stored) \ {{}} /\ DeviceOf[p] \in Device
      BY <2>1, ProcOK DEF Heads, TypeOK
    <2>3. JoinedKey(H, last) \in [Device -> Recipient \cup {NoKey}]
          /\ JoinedAdmins(H) \in SUBSET Device
      BY <2>1, <2>2, JoinType
    <2> QED BY <2>1, <2>2, <2>3 DEF PutsSuccessor, Resolution
  <1>3. ASSUME NEW x \in Device, NEW m \in Device,
               NEW ps \in (SUBSET Stored) \ {{}}, NEW r \in Recipient,
               Store(x, ps, m, r)
        PROVE  PutsSuccessor
    <2> DEFINE L(i) == {p \in ps : i \in Members(dag[p])}
               k == [i \in Device |-> IF i = m THEN r ELSE
                       IF L(i) = {} THEN NoKey ELSE dag[CHOOSE p \in L(i) : TRUE].key[i]]
               as == {m} \cup UNION {dag[p].admins : p \in ps}
    <2>1. PICK d \in Digest : Put(d, Successor(dag, ps, x, k, as))
      BY <1>3 DEF Store
    <2>2. as \in SUBSET Device
      BY DEF TypeOK, Control
    <2>3. ASSUME NEW i \in Device, L(i) # {}
          PROVE  dag[CHOOSE p \in L(i) : TRUE].key[i] \in Recipient \cup {NoKey}
      <3>1. (CHOOSE p \in L(i) : TRUE) \in ps
        BY <2>3
      <3> QED BY <3>1 DEF TypeOK, Control
    <2>4. k \in [Device -> Recipient \cup {NoKey}]
      BY <2>3
    <2> QED BY <2>1, <2>2, <2>4 DEF PutsSuccessor
  <1>4. CASE UNCHANGED vars
    BY <1>4 DEF vars
  <1>5. ASSUME NEW p \in Proc,
               ReadCheckpoint(p) \/ LoadControl(p) \/ AcceptControl(p) \/ Reload(p) \/ Return(p)
        PROVE  dag' = dag
    BY <1>5 DEF ReadCheckpoint, LoadControl, AcceptControl, Reload, Return
  <1> QED BY <1>1, <1>2, <1>3, <1>4, <1>5 DEF Next

-----------------------------------------------------------------------------
\* A step never touches a stored Control, so its past stays what it was.
LEMMA StoredKept ==
    ASSUME TypeOK, DagOK, [Next]_vars
    PROVE  /\ Stored \subseteq Stored'
           /\ \A e \in Stored : dag'[e] = dag[e] /\ Past(dag', e) = Past(dag, e)
           /\ \A S \in SUBSET Stored : PastOf(dag', S) = PastOf(dag, S)
  <1>1. Stored \subseteq Stored' /\ \A e \in Stored : dag'[e] = dag[e]
    <2>1. CASE dag' = dag
      BY <2>1 DEF Stored
    <2>2. CASE PutsSuccessor
      BY <2>2 DEF PutsSuccessor, Put, Stored
    <2> QED BY <2>1, <2>2, StorageSteps
  <1>2. \A e \in Stored : Past(dag', e) = Past(dag, e)
    BY <1>1 DEF Past
  <1>3. \A S \in SUBSET Stored : PastOf(dag', S) = PastOf(dag, S)
    BY <1>2 DEF PastOf
  <1> QED BY <1>1, <1>2, <1>3

LEMMA DagStep ==
    ASSUME TypeOK, DagOK, [Next]_vars
    PROVE  /\ Stored' \subseteq Digest /\ dag' \in [Stored' -> Control]
           /\ DagOK'
  <1>1. CASE dag' = dag
    BY <1>1 DEF TypeOK, DagOK, Stored, PastOf, Past
  <1>2. CASE PutsSuccessor
    <2>1. PICK d \in Digest, ps \in (SUBSET Stored) \ {{}}, x \in Device,
               k \in [Device -> Recipient \cup {NoKey}], as \in SUBSET Device :
                  Put(d, Successor(dag, ps, x, k, as))
      BY <1>2 DEF PutsSuccessor
    <2> DEFINE c == Successor(dag, ps, x, k, as)
    <2>2. c \in Control
      BY SuccessorType
    <2>3. /\ Stored' = Stored \cup {d} /\ Stored' \subseteq Digest
          /\ dag' \in [Stored' -> Control] /\ dag'[d] = c
      BY <2>1, <2>2, PutKeeps
    <2>4. IsFiniteSet(Stored')
      BY <2>3, FS_AddElement DEF DagOK
    <2>5. ASSUME NEW e \in Stored
          PROVE  /\ dag'[e].parents \subseteq Stored'
                 /\ dag'[e].anc = PastOf(dag', dag'[e].parents)
                 /\ dag'[e].anc \subseteq Stored'
                 /\ e \notin dag'[e].anc
                 /\ \A f \in dag'[e].anc : Past(dag', f) \subseteq dag'[e].anc
                 /\ dag'[e].parents = {} <=> e = Genesis
      <3>1. dag'[e] = dag[e] /\ dag[e].parents \subseteq Stored /\ dag[e].anc \subseteq Stored
        BY StoredKept DEF DagOK
      <3>2. PastOf(dag', dag[e].parents) = PastOf(dag, dag[e].parents)
        BY <3>1, StoredKept
      <3>3. \A f \in dag[e].anc : Past(dag', f) = Past(dag, f)
        BY <3>1, StoredKept
      <3> QED BY <2>3, <3>1, <3>2, <3>3 DEF DagOK
    <2>6. CASE d \in Stored
      BY <2>3, <2>4, <2>5, <2>6 DEF DagOK
    <2>7. CASE d \notin Stored
      <3>1. dag'[d].parents = ps /\ dag'[d].anc = PastOf(dag, ps)
        BY <2>3 DEF Successor
      <3>2. PastOf(dag', ps) = PastOf(dag, ps) /\ PastOf(dag, ps) \subseteq Stored
        BY StoredKept DEF PastOf, Past, DagOK
      <3>3. \A f \in PastOf(dag, ps) : Past(dag', f) \subseteq PastOf(dag, ps)
        <4> TAKE f \in PastOf(dag, ps)
        <4>1. PICK p \in ps : f \in Past(dag, p)
          BY DEF PastOf
        <4>2. Past(dag, f) \subseteq Past(dag, p)
          BY <4>1 DEF DagOK, Past
        <4>3. Past(dag', f) = Past(dag, f)
          BY <3>2, StoredKept
        <4> QED BY <4>1, <4>2, <4>3 DEF PastOf
      <3>4. d # Genesis
        BY <2>7 DEF TypeOK
      <3>5. /\ dag'[d].parents \subseteq Stored'
            /\ dag'[d].anc = PastOf(dag', dag'[d].parents)
            /\ dag'[d].anc \subseteq Stored'
            /\ d \notin dag'[d].anc
            /\ \A f \in dag'[d].anc : Past(dag', f) \subseteq dag'[d].anc
            /\ dag'[d].parents = {} <=> d = Genesis
        BY <2>3, <2>7, <3>1, <3>2, <3>3, <3>4
      <3> QED BY <2>3, <2>4, <2>5, <3>5 DEF DagOK
    <2> QED BY <2>3, <2>6, <2>7
  <1> QED BY <1>1, <1>2, StorageSteps

-----------------------------------------------------------------------------
\* A view holds the past of everything in it.
Closed(G, V) == \A d \in V : Past(G, d) \subseteq V

ViewsClosed == \A p \in Proc : Closed(dag, proc[p].view)

\* What LoadControl accepts is such a view, and the genesis is part of it.
LEMMA AcceptedView ==
    ASSUME TypeOK, DagOK, NEW seen \in SUBSET Stored, Genesis \in seen
    PROVE  /\ Accepted(dag, seen) \in SUBSET Stored
           /\ Genesis \in Accepted(dag, seen)
           /\ Closed(dag, Accepted(dag, seen))
  <1>1. Past(dag, Genesis) = {Genesis}
    BY DEF TypeOK, DagOK, Past, PastOf
  <1>2. Genesis \in Accepted(dag, seen)
    BY <1>1 DEF Accepted
  <1>3. ASSUME NEW d \in Accepted(dag, seen), NEW e \in Past(dag, d)
        PROVE  e \in Accepted(dag, seen)
    <2>1. d \in Stored /\ Past(dag, d) \subseteq seen
      BY <1>3 DEF Accepted
    <2>2. Past(dag, e) \subseteq Past(dag, d)
      BY <1>3, <2>1 DEF DagOK, Past
    <2> QED BY <1>3, <2>1, <2>2 DEF Accepted
  <1> QED BY <1>2, <1>3 DEF Accepted, Closed

LEMMA ShownHasGenesis ==
    ASSUME TypeOK, NEW seen \in Shown
    PROVE  seen \in SUBSET Stored /\ Genesis \in seen
  BY DEF Shown, TypeOK

-----------------------------------------------------------------------------
\* A well formed process record, over storage G.
ProcTyped(G, r) ==
    /\ r \in [phase : Phase, snap : SUBSET DOMAIN G, view : SUBSET DOMAIN G,
              own : SUBSET DOMAIN G]
    /\ r.phase = "idle" => r = Idle
    /\ r.phase \in {"loaded", "open"} => Genesis \in r.view
    /\ r.phase \in {"published", "resolved"} => r.own # {}
    /\ Closed(G, r.view)

ProcsTyped == proc = [p \in Proc |-> proc[p]] /\ \A p \in Proc : ProcTyped(dag, proc[p])

LEMMA ProcsTypedFromTypeOK ==
    ASSUME TypeOK, ViewsClosed
    PROVE  ProcsTyped
  BY DEF ProcsTyped, ProcTyped, TypeOK, ViewsClosed, Stored

\* Records of processes that do not move stay well formed, so a step that
\* moves p to a well formed record keeps them all.
LEMMA MovesTyped ==
    ASSUME TypeOK, DagOK, ViewsClosed, [Next]_vars,
           NEW p \in Proc, NEW r, Moves(p, r), ProcTyped(dag', r)
    PROVE  ProcsTyped'
  <1>1. ASSUME NEW q \in Proc
        PROVE  ProcTyped(dag', proc[q])
    <2>1. ProcTyped(dag, proc[q]) /\ proc[q].view \subseteq Stored
      BY ProcsTypedFromTypeOK DEF ProcsTyped, ProcTyped, Stored
    <2>2. Closed(dag', proc[q].view)
      BY <2>1, StoredKept DEF ProcTyped, Closed
    <2> QED BY <2>1, <2>2, StoredKept DEF ProcTyped, Stored
  <1>2. proc' = [q \in Proc |-> IF q = p THEN r ELSE proc[q]]
    BY DEF Moves, TypeOK
  <1> QED BY <1>1, <1>2 DEF ProcsTyped

LEMMA IdleTyped == ASSUME NEW G PROVE ProcTyped(G, Idle)
  BY DEF ProcTyped, Idle, Phase, Closed

LEMMA ProcStep ==
    ASSUME TypeOK, DagOK, ViewsClosed, [Next]_vars
    PROVE  ProcsTyped'
  <1> USE ProcsTypedFromTypeOK DEF ProcsTyped
  <1>1. ASSUME NEW p \in Proc, ReadCheckpoint(p)
        PROVE  ProcsTyped'
    <2> DEFINE r == [Idle EXCEPT !.phase = "snap", !.snap = cp[DeviceOf[p]]]
    <2>1. Moves(p, r) /\ dag' = dag
      BY <1>1 DEF ReadCheckpoint
    <2>2. ProcTyped(dag, r)
      BY ProcOK DEF ProcTyped, Idle, Phase, Closed, TypeOK, Stored
    <2> QED BY <2>1, <2>2, MovesTyped
  <1>2. ASSUME NEW p \in Proc, LoadControl(p)
        PROVE  ProcsTyped'
    <2>1. PICK seen \in Shown :
             Moves(p, [proc[p] EXCEPT !.phase = "loaded", !.snap = {},
                                      !.view = Accepted(dag, seen)])
      BY <1>2 DEF LoadControl
    <2>2. dag' = dag
      BY <1>2 DEF LoadControl
    <2>3. ProcTyped(dag, [proc[p] EXCEPT !.phase = "loaded", !.snap = {},
                                         !.view = Accepted(dag, seen)])
      BY ShownHasGenesis, AcceptedView DEF ProcTyped, Phase, Stored
    <2> QED BY <2>1, <2>2, <2>3, MovesTyped
  <1>3. ASSUME NEW p \in Proc, AcceptControl(p)
        PROVE  ProcsTyped'
    <2>1. dag' = dag
          /\ Moves(p, IF proc[p].own = {} THEN [proc[p] EXCEPT !.phase = "open"] ELSE Idle)
          /\ proc[p].phase = "loaded"
      BY <1>3 DEF AcceptControl
    <2>2. ProcTyped(dag, [proc[p] EXCEPT !.phase = "open"])
      BY <2>1 DEF ProcTyped, Phase
    <2> QED BY <2>1, <2>2, IdleTyped, MovesTyped
  <1>4. ASSUME NEW p \in Proc, Return(p)
        PROVE  ProcsTyped'
    BY <1>4, IdleTyped, MovesTyped DEF Return
  <1>5. ASSUME NEW p \in Proc, Reload(p)
        PROVE  ProcsTyped'
    <2> DEFINE own == IF proc[p].phase = "published" THEN proc[p].own ELSE {}
               r == [Idle EXCEPT !.phase = "snap", !.snap = cp[DeviceOf[p]], !.own = own]
    <2>1. Moves(p, r) /\ dag' = dag
      BY <1>5 DEF Reload
    <2>2. cp[DeviceOf[p]] \subseteq Stored /\ own \subseteq Stored
      BY ProcOK DEF TypeOK
    <2>3. ProcTyped(dag, r)
      BY <2>2 DEF ProcTyped, Idle, Phase, Closed, Stored
    <2> QED BY <2>1, <2>3, MovesTyped
  <1>6. ASSUME NEW p \in Proc, NEW ph \in {"published", "resolved"}, NEW d \in Stored',
               Moves(p, [proc[p] EXCEPT !.phase = ph, !.view = {}, !.own = {d}])
        PROVE  ProcsTyped'
    <2> DEFINE r == [proc[p] EXCEPT !.phase = ph, !.view = {}, !.own = {d}]
    <2>1. ProcTyped(dag', r)
      BY <1>6, StoredKept DEF ProcTyped, Phase, Closed, Stored
    <2> QED BY <1>6, <2>1, MovesTyped
  <1>7. ASSUME NEW p \in Proc, ChangeMembers(p)
        PROVE  ProcsTyped'
    <2>1. PICK d \in Digest :
             /\ Moves(p, [proc[p] EXCEPT !.phase = "published", !.view = {}, !.own = {d}])
             /\ \E c : Put(d, c)
      BY <1>7 DEF ChangeMembers
    <2>2. d \in Stored'
      BY <2>1 DEF Put, Stored
    <2> QED BY <1>6, <2>1, <2>2
  <1>8. ASSUME NEW p \in Proc, ResolveControlFork(p)
        PROVE  ProcsTyped'
    <2>1. PICK d \in Digest :
             /\ Moves(p, [proc[p] EXCEPT !.phase = "resolved", !.view = {}, !.own = {d}])
             /\ \E c : Put(d, c)
      BY <1>8 DEF ResolveControlFork
    <2>2. d \in Stored'
      BY <2>1 DEF Put, Stored
    <2> QED BY <1>6, <2>1, <2>2
  <1>9. CASE UNCHANGED proc
    <2>1. \A q \in Proc : ProcTyped(dag', proc[q])
      <3> TAKE q \in Proc
      <3>1. ProcTyped(dag, proc[q]) /\ proc[q].view \subseteq Stored
        BY DEF ProcTyped, Stored
      <3>2. Closed(dag', proc[q].view)
        BY <3>1, StoredKept DEF ProcTyped, Closed
      <3> QED BY <3>1, <3>2, StoredKept DEF ProcTyped, Stored
    <2> QED BY <1>9, <2>1
  <1> QED
    BY <1>1, <1>2, <1>3, <1>4, <1>5, <1>7, <1>8, <1>9 DEF Next, Store, vars

-----------------------------------------------------------------------------
\* The inductive core: types, the shape of the DAG, and closed views.
Core == TypeOK /\ DagOK /\ ViewsClosed

LEMMA InitCore == Init => Core
  <1> SUFFICES ASSUME Init PROVE Core
    OBVIOUS
  <1>1. PICK r \in Recipient : dag = [d \in {Genesis} |-> GenesisControl(r)]
    BY DEF Init
  <1>2. GenesisControl(r) \in Control
    BY ConstantsOK DEF GenesisControl, Control
  <1>3. Stored = {Genesis}
    BY <1>1 DEF Stored
  <1>4. TypeOK
    BY <1>1, <1>2, <1>3, ConstantsOK DEF Init, TypeOK, Idle, Phase
  <1>5. DagOK
    BY <1>1, <1>3, FS_Singleton DEF DagOK, GenesisControl, PastOf, Past
  <1>6. ViewsClosed
    BY DEF Init, ViewsClosed, Closed, Idle
  <1> QED BY <1>4, <1>5, <1>6 DEF Core

\* How a step may change the checkpoints: not at all, or one process records
\* the heads of a view that misses none of the heads recorded before.
LEMMA CheckpointSteps ==
    ASSUME TypeOK, [Next]_vars
    PROVE  \/ cp' = cp
           \/ \E p \in Proc :
                 /\ dag' = dag
                 /\ cp[DeviceOf[p]] \subseteq proc[p].view
                 /\ cp' = [cp EXCEPT ![DeviceOf[p]] = Heads(dag, proc[p].view)]
  BY DEF Next, vars, ReadCheckpoint, LoadControl, AcceptControl, NothingMissing,
         ChangeMembers, ResolveControlFork, Reload, Return, Store

LEMMA CoreStep ==
    ASSUME Core, [Next]_vars
    PROVE  Core'
  <1> USE DEF Core
  <1>1. ProcsTyped'
    BY ProcStep
  <1>2. DagOK' /\ Stored' \subseteq Digest /\ dag' \in [Stored' -> Control]
    BY DagStep
  <1>3. Genesis \in Stored'
    BY StoredKept DEF TypeOK
  <1>4. cp' \in [Device -> SUBSET Stored']
    <2>1. CASE cp' = cp
      BY <2>1, StoredKept DEF TypeOK
    <2>2. ASSUME NEW p \in Proc, dag' = dag,
                 cp' = [cp EXCEPT ![DeviceOf[p]] = Heads(dag, proc[p].view)]
          PROVE  cp' \in [Device -> SUBSET Stored']
      <3>1. Heads(dag, proc[p].view) \subseteq Stored
        BY DEF Heads, TypeOK
      <3> QED BY <2>2, <3>1 DEF TypeOK, Stored
    <2> QED BY <2>1, <2>2, CheckpointSteps
  <1>5. foreign' \subseteq Stored'
    <2>1. ASSUME NEW x \in Device, NEW m \in Device, NEW ps, NEW r, Store(x, ps, m, r)
          PROVE  foreign' \subseteq Stored'
      <3>1. PICK d \in Digest : foreign' = foreign \cup {d} /\ \E c : Put(d, c)
        BY <2>1 DEF Store
      <3>2. d \in Stored'
        BY <3>1 DEF Put, Stored
      <3> QED BY <3>1, <3>2, StoredKept DEF TypeOK
    <2>2. CASE foreign' = foreign
      BY <2>2, StoredKept DEF TypeOK
    <2> QED
      BY <2>1, <2>2 DEF Next, vars, ReadCheckpoint, LoadControl, AcceptControl,
                        ChangeMembers, ResolveControlFork, Reload, Return
  <1>6. settled' \in [Device -> SUBSET Stored']
    <2>1. ASSUME NEW p \in Proc, AcceptControl(p)
          PROVE  settled' \in [Device -> SUBSET Stored']
      <3>1. proc[p].own \subseteq Stored /\ Stored' = Stored
        BY <2>1 DEF TypeOK, AcceptControl, Stored
      <3>2. settled' = [settled EXCEPT ![DeviceOf[p]] = @ \cup
                           IF OwnInView(proc[p]) THEN proc[p].own ELSE {}]
        BY <2>1 DEF AcceptControl
      <3> QED BY <3>1, <3>2 DEF TypeOK
    <2>2. CASE settled' = settled
      BY <2>2, StoredKept DEF TypeOK
    <2> QED
      BY <2>1, <2>2 DEF Next, vars, ReadCheckpoint, LoadControl, ChangeMembers,
                        ResolveControlFork, Reload, Return, Store
  <1>7. TypeOK' /\ ViewsClosed'
    <2>1. proc' \in [Proc -> [phase : Phase, snap : SUBSET Stored', view : SUBSET Stored',
                              own : SUBSET Stored']]
      BY <1>1 DEF ProcsTyped, ProcTyped, Stored
    <2> QED BY <1>1, <1>2, <1>3, <1>4, <1>5, <1>6, <2>1
            DEF TypeOK, ViewsClosed, ProcsTyped, ProcTyped
  <1> QED BY <1>2, <1>7

LEMMA CoreInvariant == Spec => []Core
  BY InitCore, CoreStep, PTL DEF Spec

\* The type invariant holds with any number of devices, processes, Controls.
THEOREM TypeCorrect == Spec => []TypeOK
  <1>1. Core => TypeOK
    BY DEF Core
  <1> QED BY <1>1, CoreInvariant, PTL

-----------------------------------------------------------------------------
\* Every Control of a finite view is a head or lies below one: take, among the
\* Controls above it, one with the fewest above itself.
LEMMA HeadsCover ==
    ASSUME TypeOK, DagOK, NEW V \in SUBSET Stored
    PROVE  V \subseteq PastOf(dag, Heads(dag, V))
  <1> SUFFICES ASSUME NEW x \in V
               PROVE  \E h \in Heads(dag, V) : x \in Past(dag, h)
    BY DEF PastOf
  <1> DEFINE Above(z) == {w \in V : z \in Past(dag, w)}
             T == {Above(y) : y \in Above(x)}
  <1>1. IsFiniteSet(V)
    BY FS_Subset DEF DagOK
  <1>2. T \subseteq FiniteSubsetsOf(V) /\ T # {}
    <2>1. x \in Above(x)
      BY DEF Past
    <2>2. \A z \in V : Above(z) \in FiniteSubsetsOf(V)
      BY <1>1, FS_Subset DEF FiniteSubsetsOf
    <2>3. Above(x) \subseteq V
      OBVIOUS
    <2> HIDE DEF Above
    <2> QED BY <2>1, <2>2, <2>3
  <1>3. IsWellFoundedOn(StrictSubsetOrdering(V), FiniteSubsetsOf(V))
    BY FS_StrictSubsetOrderingWellFounded
  <1>4. PICK S \in T : \A U \in T : ~ (<<U, S>> \in StrictSubsetOrdering(V))
    BY <1>2, <1>3, WFMin
  <1>5. PICK y \in Above(x) : S = Above(y)
    BY <1>4
  <1>6. ASSUME NEW e \in V, y \in dag[e].parents
        PROVE  FALSE
    <2>1. y \in dag[e].anc /\ Past(dag, y) \subseteq dag[e].anc
      BY <1>6 DEF DagOK, PastOf, Past
    <2>2. e \in Above(x)
      BY <1>5, <2>1 DEF Past
    <2>3. e \notin Past(dag, y)
      BY <2>1 DEF DagOK
    <2>4. Above(e) \subseteq Above(y)
      BY <2>1 DEF DagOK, Past
    <2>5. y \in Above(y) /\ y \notin Above(e)
      BY <2>1 DEF Past, DagOK
    <2>6. <<Above(e), Above(y)>> \in StrictSubsetOrdering(V)
      BY <2>4, <2>5 DEF StrictSubsetOrdering
    <2> QED BY <1>4, <1>5, <2>2, <2>6
  <1>7. y \in Heads(dag, V) /\ x \in Past(dag, y)
    BY <1>5, <1>6 DEF Heads
  <1> QED BY <1>7

\* No step makes any device's accepted heads cover less.
LEMMA CoverStep ==
    ASSUME Core, [Next]_vars
    PROVE  \A x \in Device : PastOf(dag, cp[x]) \subseteq PastOf(dag', cp'[x])
  <1> USE DEF Core
  <1> TAKE x \in Device
  <1>0. cp[x] \in SUBSET Stored
    BY DEF TypeOK
  <1>1. CASE cp' = cp
    BY <1>0, <1>1, StoredKept
  <1>2. ASSUME NEW p \in Proc, dag' = dag,
               cp[DeviceOf[p]] \subseteq proc[p].view,
               cp' = [cp EXCEPT ![DeviceOf[p]] = Heads(dag, proc[p].view)]
        PROVE  PastOf(dag, cp[x]) \subseteq PastOf(dag', cp'[x])
    <2>1. CASE x = DeviceOf[p]
      <3>1. proc[p].view \in SUBSET Stored /\ Closed(dag, proc[p].view)
        BY DEF TypeOK, ViewsClosed
      <3>2. PastOf(dag, cp[x]) \subseteq proc[p].view
        BY <1>2, <2>1, <3>1 DEF PastOf, Closed
      <3>3. proc[p].view \subseteq PastOf(dag, Heads(dag, proc[p].view))
        BY <3>1, HeadsCover
      <3>4. cp'[x] = Heads(dag, proc[p].view)
        BY <1>2, <2>1 DEF TypeOK
      <3> QED BY <1>2, <3>2, <3>3, <3>4
    <2>2. CASE x # DeviceOf[p]
      BY <1>2, <2>2 DEF TypeOK
    <2> QED BY <2>1, <2>2
  <1> QED BY <1>1, <1>2, CheckpointSteps

\* Storage cannot make a device go back, however its processes interleave.
THEOREM CheckpointMonotone == Spec => CheckpointNeverShrinks
  <1>1. Core /\ [Next]_vars =>
          [\A x \in Device : PastOf(dag, cp[x]) \subseteq PastOf(dag', cp'[x])]_vars
    BY CoverStep
  <1> QED BY <1>1, CoreInvariant, PTL DEF Spec, CheckpointNeverShrinks

-----------------------------------------------------------------------------
\* A settled change stays below the accepted heads of its author's device.
LEMMA SettledStep ==
    ASSUME Core, SettledIsRecorded, [Next]_vars
    PROVE  SettledIsRecorded'
  <1> USE DEF Core
  <1> SUFFICES ASSUME NEW x \in Device
               PROVE  settled'[x] \subseteq PastOf(dag', cp'[x])
    BY DEF SettledIsRecorded
  <1>1. settled[x] \subseteq PastOf(dag', cp'[x])
    BY CoverStep DEF SettledIsRecorded
  <1>2. ASSUME NEW p \in Proc, AcceptControl(p)
        PROVE  settled'[x] \subseteq PastOf(dag', cp'[x])
    <2>1. CASE DeviceOf[p] = x /\ OwnInView(proc[p])
      <3>1. proc[p].view \in SUBSET Stored
        BY DEF TypeOK
      <3>2. proc[p].own \subseteq PastOf(dag, Heads(dag, proc[p].view))
        BY <2>1, <3>1, HeadsCover DEF OwnInView
      <3>3. dag' = dag /\ cp'[x] = Heads(dag, proc[p].view)
        BY <1>2, <2>1 DEF AcceptControl, TypeOK
      <3>4. settled'[x] = settled[x] \cup proc[p].own
        BY <1>2, <2>1 DEF AcceptControl, TypeOK
      <3> QED BY <1>1, <3>2, <3>3, <3>4
    <2>2. CASE ~ (DeviceOf[p] = x /\ OwnInView(proc[p]))
      <3>1. settled'[x] = settled[x]
        BY <1>2, <2>2 DEF AcceptControl, TypeOK
      <3> QED BY <1>1, <3>1
    <2> QED BY <2>1, <2>2
  <1>3. CASE settled' = settled
    BY <1>1, <1>3
  <1> QED
    BY <1>2, <1>3 DEF Next, vars, ReadCheckpoint, LoadControl, ChangeMembers,
                      ResolveControlFork, Reload, Return, Store

\* What an admin was told took effect cannot be hidden from that device later.
THEOREM SettledRecorded == Spec => []SettledIsRecorded
  <1>1. Init => SettledIsRecorded
    BY DEF Init, SettledIsRecorded
  <1> QED BY <1>1, SettledStep, CoreInvariant, PTL DEF Spec

-----------------------------------------------------------------------------
\* Admissions and promotions are facts about stored Controls and their
\* parents, and stay true.
LEMMA GrantsKept ==
    ASSUME TypeOK, DagOK, [Next]_vars, NEW a \in Stored, NEW m \in Device
    PROVE  /\ Admits(a, m) => Admits(a, m)'
           /\ Promotes(a, m) => Promotes(a, m)'
  <1>1. dag'[a] = dag[a] /\ \A p \in dag[a].parents : dag'[p] = dag[p]
    BY StoredKept DEF DagOK
  <1> QED BY <1>1 DEF Admits, Promotes

\* RevocationsStand for one Control, whether a client would accept it or not.
Stands(d) ==
    Past(dag, d) \cap foreign = {} =>
        \A r \in Past(dag, d), m \in Device :
            /\ m \in Members(dag[d]) \ Members(dag[r]) =>
                  \E a \in Past(dag, d) : r \in dag[a].anc /\ Admits(a, m)
            /\ m \in dag[d].admins \ dag[r].admins =>
                  \E a \in Past(dag, d) : r \in dag[a].anc /\ Promotes(a, m)

AllStand == \A d \in Stored : Stands(d)

LEMMA OldStand ==
    ASSUME Core, AllStand, [Next]_vars, foreign \subseteq foreign', NEW d \in Stored
    PROVE  Stands(d)'
  <1> USE DEF Core
  <1>1. /\ Past(dag', d) = Past(dag, d) /\ Past(dag, d) \subseteq Stored
        /\ \A e \in Stored : dag'[e] = dag[e]
    BY StoredKept DEF DagOK, Past
  <1>2. Stands(d)
    BY DEF AllStand
  <1> QED BY <1>1, <1>2, GrantsKept DEF Stands

\* A new Control, published by this program: what it lists and some parent
\* does not, it admits itself.
LEMMA NewStands ==
    ASSUME Core, AllStand, [Next]_vars, foreign' = foreign,
           NEW d, d \notin Stored, NEW ps \in SUBSET Stored,
           NEW x, NEW k, NEW as, Put(d, Successor(dag, ps, x, k, as)),
           \A h \in ps, m \in Device :
              /\ k[m] # NoKey => m \in Members(dag[h]) \/ Admits(d, m)'
              /\ m \in as => m \in dag[h].admins \/ Promotes(d, m)'
    PROVE  Stands(d)'
  <1> USE DEF Core
  <1>1. /\ dag'[d] = Successor(dag, ps, x, k, as)
        /\ \A e \in Stored : dag'[e] = dag[e]
    BY DEF Put, Stored
  <1>2. /\ dag'[d].anc = PastOf(dag, ps) /\ PastOf(dag, ps) \subseteq Stored
        /\ Past(dag', d) = PastOf(dag, ps) \cup {d}
    BY <1>1 DEF Successor, Past, PastOf, DagOK
  <1>3. /\ Members(dag'[d]) = {m \in Device : k[m] # NoKey}
        /\ dag'[d].admins = as
    BY <1>1 DEF Members, Successor
  <1> SUFFICES ASSUME Past(dag', d) \cap foreign = {},
                      NEW r \in Past(dag', d), NEW m \in Device
               PROVE  /\ m \in Members(dag'[d]) \ Members(dag'[r]) =>
                            \E a \in Past(dag', d) : r \in dag'[a].anc /\ Admits(a, m)'
                      /\ m \in dag'[d].admins \ dag'[r].admins =>
                            \E a \in Past(dag', d) : r \in dag'[a].anc /\ Promotes(a, m)'
    BY DEF Stands
  <1>4. CASE r = d
    BY <1>4
  <1>5. CASE r # d
    <2>1. PICK h \in ps : r \in Past(dag, h)
      BY <1>2, <1>5 DEF PastOf
    <2>2. /\ Past(dag, h) \subseteq PastOf(dag, ps) /\ r \in Stored
          /\ dag'[r] = dag[r]
      BY <1>1, <1>2, <2>1 DEF PastOf
    <2>3. Stands(h) /\ Past(dag, h) \cap foreign = {}
      BY <1>2, <2>2 DEF AllStand
    <2>4. ASSUME m \in Members(dag'[d]) \ Members(dag'[r])
          PROVE  \E a \in Past(dag', d) : r \in dag'[a].anc /\ Admits(a, m)'
      <3>1. CASE Admits(d, m)'
        BY <1>2, <2>1, <2>2, <3>1
      <3>2. CASE m \in Members(dag[h])
        <4>1. PICK a \in Past(dag, h) : r \in dag[a].anc /\ Admits(a, m)
          BY <2>1, <2>2, <2>3, <2>4, <3>2 DEF Stands
        <4>2. a \in Stored /\ a \in Past(dag', d)
          BY <1>2, <2>2
        <4> QED BY <1>1, <4>1, <4>2, GrantsKept
      <3> QED BY <1>3, <2>4, <3>1, <3>2
    <2>5. ASSUME m \in dag'[d].admins \ dag'[r].admins
          PROVE  \E a \in Past(dag', d) : r \in dag'[a].anc /\ Promotes(a, m)'
      <3>1. CASE Promotes(d, m)'
        BY <1>2, <2>1, <2>2, <3>1
      <3>2. CASE m \in dag[h].admins
        <4>1. PICK a \in Past(dag, h) : r \in dag[a].anc /\ Promotes(a, m)
          BY <2>1, <2>2, <2>3, <2>5, <3>2 DEF Stands
        <4>2. a \in Stored /\ a \in Past(dag', d)
          BY <1>2, <2>2
        <4> QED BY <1>1, <4>1, <4>2, GrantsKept
      <3> QED BY <1>3, <2>5, <3>1, <3>2
    <2> QED BY <2>4, <2>5
  <1> QED BY <1>4, <1>5

\* A change of the only head h by one of its admins admits and promotes
\* whatever it lists and h does not.
LEMMA ChangeStands ==
    ASSUME Core, AllStand, NEW p \in Proc, ChangeMembers(p)
    PROVE  AllStand'
  <1> USE DEF Core
  <1>0. [Next]_vars /\ foreign' = foreign
    BY DEF ChangeMembers, Next
  <1>1. PICK h \in Heads(dag, proc[p].view), d \in Digest :
           /\ DeviceOf[p] \in dag[h].admins
           /\ \E e \in Edits(dag[h]) :
                Put(d, Successor(dag, {h}, DeviceOf[p], e.key, e.admins))
    BY DEF ChangeMembers
  <1>2. PICK e \in Edits(dag[h]) :
           Put(d, Successor(dag, {h}, DeviceOf[p], e.key, e.admins))
    BY <1>1
  <1> DEFINE c == Successor(dag, {h}, DeviceOf[p], e.key, e.admins)
  <1>3. h \in Stored /\ {h} \in SUBSET Stored
    BY DEF Heads, TypeOK
  <1>4. Stored' = Stored \cup {d} /\ dag'[d] = c /\ dag'[h] = dag[h]
    BY <1>2, <1>3 DEF Put, Stored
  <1>5. CASE d \in Stored
    BY <1>0, <1>4, <1>5, OldStand DEF AllStand
  <1>6. CASE d \notin Stored
    <2>1. dag'[d].parents = {h} /\ dag'[d].author = DeviceOf[p]
          /\ dag'[d].key = e.key /\ dag'[d].admins = e.admins
      BY <1>4 DEF Successor
    <2>2. ASSUME NEW m \in Device
          PROVE  /\ e.key[m] # NoKey => m \in Members(dag[h]) \/ Admits(d, m)'
                 /\ m \in e.admins => m \in dag[h].admins \/ Promotes(d, m)'
      BY <1>1, <1>4, <2>1 DEF Admits, Promotes, Members
    <2>3. \A g \in {h}, m \in Device :
              /\ e.key[m] # NoKey => m \in Members(dag[g]) \/ Admits(d, m)'
              /\ m \in e.admins => m \in dag[g].admins \/ Promotes(d, m)'
      BY <2>2
    <2>4. Stands(d)'
      BY <1>0, <1>2, <1>3, <1>6, <2>3, NewStands
    <2> QED BY <1>0, <1>4, <2>4, OldStand DEF AllStand
  <1> QED BY <1>5, <1>6

\* The join of competing heads lists what every head lists: nothing is new.
LEMMA JoinStands ==
    ASSUME Core, AllStand, NEW p \in Proc, ResolveControlFork(p)
    PROVE  AllStand'
  <1> USE DEF Core
  <1> DEFINE H == Heads(dag, proc[p].view)
  <1>0. [Next]_vars /\ foreign' = foreign
    BY DEF ResolveControlFork, Next
  <1>1. PICK last \in H, d \in Digest : Put(d, Resolution(H, last, DeviceOf[p]))
    BY DEF ResolveControlFork
  <1>2. H \in SUBSET Stored
    BY DEF Heads, TypeOK
  <1>3. Put(d, Successor(dag, H, DeviceOf[p], JoinedKey(H, last), JoinedAdmins(H)))
    BY <1>1 DEF Resolution
  <1>4. \A g \in H, m \in Device :
           /\ JoinedKey(H, last)[m] # NoKey => m \in Members(dag[g])
           /\ m \in JoinedAdmins(H) => m \in dag[g].admins
    BY DEF JoinedKey, JoinedAdmins, ListedByAll
  <1>5. Stored' = Stored \cup {d}
    BY <1>3 DEF Put, Stored
  <1>6. CASE d \in Stored
    BY <1>0, <1>5, <1>6, OldStand DEF AllStand
  <1>7. CASE d \notin Stored
    <2> HIDE DEF H
    <2>1. Stands(d)'
      BY <1>0, <1>2, <1>3, <1>4, <1>7, NewStands
    <2> QED BY <1>0, <1>5, <2>1, OldStand DEF AllStand
  <1> QED BY <1>6, <1>7

\* A Control of other software is not judged, nor is anything above it.
LEMMA ForeignStands ==
    ASSUME Core, AllStand, NEW x \in Device, NEW m \in Device,
           NEW ps \in (SUBSET Stored) \ {{}}, NEW r \in Recipient, Store(x, ps, m, r)
    PROVE  AllStand'
  <1>0. [Next]_vars
    BY DEF Next
  <1>1. PICK d \in Digest : foreign' = foreign \cup {d} /\ Stored' = Stored \cup {d}
    BY DEF Store, Put, Stored
  <1>2. Stands(d)'
    BY <1>1 DEF Stands, Past
  <1> QED BY <1>0, <1>1, <1>2, OldStand DEF AllStand

LEMMA StandStep ==
    ASSUME Core, AllStand, [Next]_vars
    PROVE  AllStand'
  <1>1. CASE dag' = dag /\ foreign' = foreign
    BY <1>1, OldStand DEF AllStand, Stored
  <1> QED BY <1>1, ChangeStands, JoinStands, ForeignStands
          DEF Next, vars, ReadCheckpoint, LoadControl, AcceptControl, Reload, Return

\* What one admin took away, no resolution of a fork gives back: in every
\* Control a client accepts (LoadControl), a device that lost its membership
\* or its rights has them again only by a later approval or promotion.
THEOREM RevocationsStandAlways == Spec => []RevocationsStand
  <1>1. Init => AllStand
    <2> SUFFICES ASSUME Init, NEW d \in Stored
                 PROVE  Stands(d)
      BY DEF AllStand
    <2>1. d = Genesis /\ Past(dag, d) = {Genesis}
      BY DEF Init, Stored, Past, GenesisControl
    <2> QED BY <2>1 DEF Stands
  <1>2. AllStand => RevocationsStand
    BY DEF AllStand, Stands, RevocationsStand, View, Accepted
  <1> QED BY <1>1, <1>2, StandStep, CoreInvariant, PTL DEF Spec

-----------------------------------------------------------------------------
\* A Control with a sound history: everything in it but the genesis verifies.
Sound(d) == \A x \in Past(dag, d) \ {Genesis} : VerifyChild(dag, dag[x])

Admitted(d) ==
    Sound(d) => \A m \in Device \ {Founder} :
        /\ m \in Members(dag[d]) => \E a \in Past(dag, d) : Admits(a, m)
        /\ m \in dag[d].admins => \E a \in Past(dag, d) : Promotes(a, m)

AllAdmitted == \A d \in Stored : Admitted(d)

\* Whether a stored Control verifies depends on it and its parents alone.
LEMMA VerifyKept ==
    ASSUME Core, [Next]_vars, NEW e \in Stored
    PROVE  VerifyChild(dag', dag'[e]) <=> VerifyChild(dag, dag[e])
  <1>1. dag'[e] = dag[e] /\ \A p \in dag[e].parents : dag'[p] = dag[p]
    BY StoredKept DEF Core, DagOK
  <1> QED BY <1>1 DEF VerifyChild, CheckResolution, Listed, Members

LEMMA OldAdmitted ==
    ASSUME Core, AllAdmitted, [Next]_vars, NEW d \in Stored
    PROVE  Admitted(d)'
  <1> USE DEF Core
  <1>1. /\ Past(dag', d) = Past(dag, d) /\ Past(dag, d) \subseteq Stored
        /\ \A e \in Stored : dag'[e] = dag[e]
    BY StoredKept DEF DagOK, Past
  <1>2. Admitted(d)
    BY DEF AllAdmitted
  <1>3. Sound(d)' => Sound(d)
    BY <1>1, VerifyKept DEF Sound
  <1> QED BY <1>1, <1>2, <1>3, GrantsKept DEF Admitted

\* A new Control that verifies lists somebody its parents do not list only as
\* the change of one parent by an admin of it.
LEMMA NewAdmitted ==
    ASSUME Core, AllAdmitted, [Next]_vars, NEW d, d \notin Stored,
           NEW ps \in SUBSET Stored, NEW x, NEW k, NEW as,
           Put(d, Successor(dag, ps, x, k, as))
    PROVE  Admitted(d)'
  <1> USE DEF Core
  <1> DEFINE c == dag'[d]
  <1>1. /\ c = Successor(dag, ps, x, k, as)
        /\ \A e \in Stored : dag'[e] = dag[e]
    BY DEF Put, Stored
  <1>2. /\ c.parents = ps /\ PastOf(dag, ps) \subseteq Stored
        /\ Past(dag', d) = PastOf(dag, ps) \cup {d}
    BY <1>1 DEF Successor, Past, PastOf, DagOK
  <1>3. d # Genesis /\ \A p \in ps : dag'[p] = dag[p]
    BY <1>1 DEF TypeOK
  <1> HIDE DEF c
  <1> SUFFICES ASSUME Sound(d)', NEW m \in Device \ {Founder}
               PROVE  /\ m \in Members(c) => \E a \in Past(dag', d) : Admits(a, m)'
                      /\ m \in c.admins => \E a \in Past(dag', d) : Promotes(a, m)'
    BY DEF Admitted, c
  <1>4. VerifyChild(dag', c)
    BY <1>2, <1>3 DEF Sound, c
  <1>5. \A p \in ps : Sound(p) /\ Admitted(p) /\ Past(dag, p) \subseteq Past(dag', d)
    <2> TAKE p \in ps
    <2>1. Past(dag, p) \subseteq Past(dag', d) /\ Past(dag, p) \subseteq Stored
      BY <1>2 DEF PastOf
    <2>2. \A e \in Past(dag, p) \ {Genesis} : VerifyChild(dag, dag[e])
      BY <2>1, VerifyKept DEF Sound
    <2> QED BY <2>1, <2>2 DEF AllAdmitted, Sound
  <1>6. ASSUME NEW p \in ps, m \in Members(dag[p])
        PROVE  \E a \in Past(dag', d) : Admits(a, m)'
    <2>1. PICK a \in Past(dag, p) : Admits(a, m)
      BY <1>5, <1>6 DEF Admitted
    <2>2. a \in Stored
      BY <1>2 DEF PastOf
    <2> QED BY <1>5, <2>1, <2>2, GrantsKept
  <1>7. ASSUME NEW p \in ps, m \in dag[p].admins
        PROVE  \E a \in Past(dag', d) : Promotes(a, m)'
    <2>1. PICK a \in Past(dag, p) : Promotes(a, m)
      BY <1>5, <1>7 DEF Admitted
    <2>2. a \in Stored
      BY <1>2 DEF PastOf
    <2> QED BY <1>5, <2>1, <2>2, GrantsKept
  <1>8. CASE Joins(c)
    <2>1. CheckResolution(dag', c) /\ c.admins \subseteq Members(c)
      BY <1>4, <1>8 DEF VerifyChild, Validate
    <2>2. m \in Members(c) => \E p \in ps : m \in Members(dag[p])
      BY <1>2, <1>3, <2>1 DEF CheckResolution, Listed
    <2>3. m \in c.admins => \E p \in ps : m \in dag[p].admins
      BY <1>2, <1>3, <2>1 DEF CheckResolution
    <2> QED BY <1>6, <1>7, <2>2, <2>3
  <1>9. CASE ~ Joins(c)
    <2>1. PICK p : ps = {p}
      BY <1>2, <1>4, <1>9 DEF VerifyChild, Joins
    <2>2. c.author \in dag[p].admins
      BY <1>2, <1>3, <1>4, <2>1 DEF VerifyChild
    <2>3. m \in Members(c) => m \in Members(dag[p]) \/ Admits(d, m)'
      BY <1>2, <1>3, <2>1, <2>2 DEF Admits, c
    <2>4. m \in c.admins => m \in dag[p].admins \/ Promotes(d, m)'
      BY <1>2, <1>3, <2>1, <2>2 DEF Promotes, c
    <2>5. d \in Past(dag', d)
      BY DEF Past
    <2> QED BY <1>6, <1>7, <2>1, <2>3, <2>4, <2>5
  <1> QED BY <1>8, <1>9

LEMMA AdmittedStep ==
    ASSUME Core, AllAdmitted, [Next]_vars
    PROVE  AllAdmitted'
  <1>1. CASE dag' = dag
    BY <1>1, OldAdmitted DEF AllAdmitted, Stored
  <1>2. CASE PutsSuccessor
    <2>1. PICK d \in Digest, ps \in (SUBSET Stored) \ {{}}, x \in Device,
               k \in [Device -> Recipient \cup {NoKey}], as \in SUBSET Device :
                  Put(d, Successor(dag, ps, x, k, as))
      BY <1>2 DEF PutsSuccessor
    <2>2. Stored' = Stored \cup {d}
      BY <2>1 DEF Put, Stored
    <2>3. CASE d \in Stored
      BY <2>2, <2>3, OldAdmitted DEF AllAdmitted
    <2>4. CASE d \notin Stored
      <3>1. Admitted(d)'
        BY <2>1, <2>4, NewAdmitted
      <3> QED BY <2>2, <3>1, OldAdmitted DEF AllAdmitted
    <2> QED BY <2>3, <2>4
  <1> QED BY <1>1, <1>2, StorageSteps DEF Core

\* Whatever other software puts into storage, LoadControl accepts no member
\* and no admin that an admin did not approve or promote: VerifyChild and
\* checkResolution leave no other way in.
THEOREM MembersAlwaysAdmitted == Spec => []MembersWereAdmitted
  <1>1. Init => AllAdmitted
    <2> SUFFICES ASSUME Init, NEW d \in Stored
                 PROVE  Admitted(d)
      BY DEF AllAdmitted
    <2>1. PICK r \in Recipient : dag = [e \in {Genesis} |-> GenesisControl(r)]
      BY DEF Init
    <2>2. dag[d] = GenesisControl(r)
      BY <2>1 DEF Stored
    <2> QED BY <2>2 DEF Admitted, GenesisControl, Members
  <1>2. AllAdmitted => MembersWereAdmitted
    BY DEF AllAdmitted, Admitted, Sound, MembersWereAdmitted, View, Accepted
  <1> QED BY <1>1, <1>2, AdmittedStep, CoreInvariant, PTL DEF Spec

-----------------------------------------------------------------------------
(***************************************************************************)
(* The walks over the DAG: LoadControl's loop and MembershipUnbroken.      *)
(***************************************************************************)
\* A bounded set of numbers has a least one.
LEMMA LeastOf ==
    ASSUME NEW N \in Nat, NEW Q \in SUBSET (0..N), Q # {}
    PROVE  \E n \in Q : \A m \in Q : n <= m
  <1> DEFINE A == {0..n : n \in Q}
  <1>1. IsWellFoundedOn(StrictSubsetOrdering(0..N), FiniteSubsetsOf(0..N))
    BY FS_StrictSubsetOrderingWellFounded
  <1>2. A \subseteq FiniteSubsetsOf(0..N) /\ A # {}
    <2>1. \A n \in 0..N : 0..n \subseteq 0..N
      OBVIOUS
    <2>2. IsFiniteSet(0..N)
      BY FS_Interval
    <2>3. \A n \in Q : 0..n \in FiniteSubsetsOf(0..N)
      BY <2>1, <2>2, FS_Subset DEF FiniteSubsetsOf
    <2> QED BY <2>3
  <1>3. PICK S \in A : \A U \in A : ~ (<<U, S>> \in StrictSubsetOrdering(0..N))
    BY <1>1, <1>2, WFMin
  <1>4. PICK n \in Q : S = 0..n
    BY <1>3
  <1>5. ASSUME NEW m \in Q, m < n PROVE FALSE
    <2>1. 0..m \in A /\ 0..m \in SUBSET (0..N) /\ 0..n \in SUBSET (0..N)
      BY <1>5
    <2>2. 0..m \subseteq 0..n /\ n \in 0..n /\ n \notin 0..m
      BY <1>5
    <2>3. <<0..m, 0..n>> \in StrictSubsetOrdering(0..N)
      BY <2>1, <2>2 DEF StrictSubsetOrdering
    <2> QED BY <1>3, <1>4, <2>1, <2>3
  <1> QED BY <1>4, <1>5

\* The passes of a walk: f[n] is what n passes F make of X.
Passes(X, F, f, N) == f = [n \in 0..N |-> IF n = 0 THEN X ELSE F[f[n - 1]]]

\* Recursion over the passes defines a function.
LEMMA PassesExist ==
    ASSUME NEW N \in Nat, NEW X, NEW F
    PROVE  \E f : Passes(X, F, f, N)
  <1> DEFINE Q == {n \in 0..N : ~ \E f : Passes(X, F, f, n)}
  <1> SUFFICES ASSUME Q # {} PROVE FALSE
    OBVIOUS
  <1>1. PICK q \in Q : \A m \in Q : q <= m
    BY LeastOf
  <1>2. q # 0
    <2>1. Passes(X, F, [n \in 0..0 |-> X], 0)
      BY DEF Passes
    <2> QED BY <2>1
  <1>3. PICK f : Passes(X, F, f, q - 1)
    BY <1>1, <1>2
  <1> DEFINE g == [n \in 0..q |-> IF n = q THEN F[f[q - 1]] ELSE f[n]]
  <1>4. \A n \in 0..(q - 1) : g[n] = f[n] /\ f[n] = IF n = 0 THEN X ELSE F[f[n - 1]]
    BY <1>3 DEF Passes
  <1>5. ASSUME NEW n \in 0..q
        PROVE  g[n] = IF n = 0 THEN X ELSE F[g[n - 1]]
    <2>1. CASE n = q
      BY <1>2, <1>4, <2>1
    <2>2. CASE n \in 0..(q - 1)
      <3>1. n # 0 => n - 1 \in 0..(q - 1)
        BY <2>2
      <3> QED BY <1>4, <2>2, <3>1
    <2> QED BY <2>1, <2>2
  <1>6. Passes(X, F, g, q)
    BY <1>5 DEF Passes
  <1> QED BY <1>6

\* A walk stays in what its passes do not leave.
LEMMA WalkStays ==
    ASSUME NEW N \in Nat, NEW F, NEW X, NEW f, Passes(X, F, f, N), NEW G,
           X \subseteq G, \A V \in SUBSET G : F[V] \subseteq G, NEW n \in 0..N
    PROVE  f[n] \subseteq G
  <1> DEFINE Q == {m \in 0..N : ~ f[m] \subseteq G}
  <1> SUFFICES ASSUME Q # {} PROVE FALSE
    OBVIOUS
  <1>1. PICK q \in Q : \A m \in Q : q <= m
    BY LeastOf
  <1>2. \A m \in 0..N : f[m] = IF m = 0 THEN X ELSE F[f[m - 1]]
    BY DEF Passes
  <1>3. q \in 1..N
    BY <1>1, <1>2
  <1>4. q - 1 \in 0..N /\ q - 1 \notin Q
    BY <1>1, <1>3
  <1> QED BY <1>1, <1>2, <1>3, <1>4

\* A walk that only adds ends where a pass adds nothing.
LEMMA WalkEnds ==
    ASSUME NEW U, IsFiniteSet(U), NEW F, NEW X \in SUBSET U, NEW f,
           \A V \in SUBSET U : V \subseteq F[V] /\ F[V] \subseteq U,
           Passes(X, F, f, Cardinality(U)), X = {} => U = {}
    PROVE  /\ f[Cardinality(U)] \in SUBSET U
           /\ X \subseteq f[Cardinality(U)]
           /\ F[f[Cardinality(U)]] = f[Cardinality(U)]
  <1> DEFINE N == Cardinality(U)
  <1>1. N \in Nat /\ f[0] = X /\ \A n \in 1..N : f[n] = F[f[n - 1]]
    BY FS_CardinalityType DEF Passes
  <1>2. \A n \in 0..N : f[n] \in SUBSET U
    BY <1>1, WalkStays
  <1> HIDE DEF N
  <1>3. \A n \in 0..N : f[n] \in SUBSET U /\ X \subseteq f[n]
    <2> DEFINE Q == {n \in 0..N : ~ X \subseteq f[n]}
    <2>2. ASSUME Q # {} PROVE FALSE
      <3>1. PICK q \in Q : \A n \in Q : q <= n
        BY <1>1, <2>2, LeastOf
      <3>2. q \in 1..N /\ q - 1 \in 0..N /\ q - 1 \notin Q
        BY <1>1, <3>1
      <3>3. f[q - 1] \subseteq f[q]
        BY <1>1, <1>2, <3>2
      <3> QED BY <3>1, <3>2, <3>3
    <2> QED BY <1>2, <2>2
  <1>4. \A n \in 0..N : F[f[n]] = f[n] \/ Cardinality(f[n]) > n
    <2> DEFINE Q == {n \in 0..N : ~ (F[f[n]] = f[n] \/ Cardinality(f[n]) > n)}
    <2> SUFFICES ASSUME Q # {} PROVE FALSE
      OBVIOUS
    <2>1. PICK q \in Q : \A n \in Q : q <= n
      BY <1>1, LeastOf
    <2>2. q # 0
      <3>1. X = {} => F[X] = X
        OBVIOUS
      <3>2. X # {} => Cardinality(X) > 0
        BY FS_Subset, FS_CardinalityType, FS_EmptySet
      <3> QED BY <1>1, <2>1, <3>1, <3>2
    <2>3. q - 1 \in 0..N /\ q - 1 \notin Q /\ q \in 1..N
      BY <1>1, <2>1, <2>2
    <2> DEFINE A == f[q - 1]
               B == f[q]
    <2>4. /\ A \in SUBSET U /\ B \in SUBSET U /\ B = F[A] /\ A \subseteq B
          /\ F[A] = A \/ Cardinality(A) > q - 1
      BY <1>1, <1>3, <2>3
    <2>5. F[B] # B /\ ~ Cardinality(B) > q
      BY <2>1
    <2>6. A # B
      BY <2>4, <2>5
    <2>7. Cardinality(A) \in Nat /\ Cardinality(B) \in Nat /\ Cardinality(A) < Cardinality(B)
      <3> HIDE DEF A, B
      <3>1. IsFiniteSet(B)
        BY <2>4, FS_Subset
      <3>2. IsFiniteSet(A) /\ Cardinality(A) <= Cardinality(B) /\ Cardinality(A) # Cardinality(B)
        BY <2>4, <2>6, <3>1, FS_Subset
      <3> QED BY <3>1, <3>2, FS_CardinalityType
    <2> QED BY <2>3, <2>4, <2>5, <2>6, <2>7
  <1>5. F[f[N]] = f[N]
    <2>1. f[N] \in SUBSET U
      BY <1>1, <1>3
    <2>2. CASE Cardinality(f[N]) > N
      <3>1. Cardinality(f[N]) <= N /\ Cardinality(f[N]) \in Nat
        BY <2>1, FS_Subset, FS_CardinalityType DEF N
      <3> QED BY <1>1, <2>2, <3>1
    <2> QED BY <1>1, <1>4, <2>2
  <1>6. f[N] \in SUBSET U /\ X \subseteq f[N]
    BY <1>1, <1>3
  <1> QED BY <1>5, <1>6 DEF N

\* One pass of the loop of LoadControl.
AcceptPass(seen, V) ==
    V \cup {d \in seen \ V : Ready(dag, d, V) /\ VerifyChild(dag, dag[d])}

\* The loop is such a walk.
LEMMA AcceptLoopWalks ==
    ASSUME NEW seen, IsFiniteSet(seen), Genesis \in seen
    PROVE  LET F == [V \in SUBSET seen |-> AcceptPass(seen, V)]
               N == Cardinality(seen)
           IN  \E f : Passes({Genesis}, F, f, N) /\ AcceptLoop(dag, seen) = f[N]
  <1> DEFINE N == Cardinality(seen)
             Pass(V) == AcceptPass(seen, V)
             F == [V \in SUBSET seen |-> Pass(V)]
             Is(f) == f = [n \in 0..N |-> IF n = 0 THEN {Genesis} ELSE Pass(f[n - 1])]
  <1>1. N \in Nat
    BY FS_CardinalityType
  <1>2. PICK f : Passes({Genesis}, F, f, N)
    BY <1>1, PassesExist
  <1>3. \A V \in SUBSET seen : F[V] = Pass(V) /\ V \subseteq F[V] /\ F[V] \subseteq seen
    BY DEF AcceptPass
  <1>4. \A n \in 0..N : f[n] \in SUBSET seen
    <2>1. {Genesis} \subseteq seen /\ \A V \in SUBSET seen : F[V] \subseteq seen
      BY <1>3
    <2> HIDE DEF F
    <2> QED BY <1>1, <1>2, <2>1, WalkStays
  <1>5. Is(f)
    <2>1. \A n \in 0..N : f[n] = IF n = 0 THEN {Genesis} ELSE Pass(f[n - 1])
      <3> TAKE n \in 0..N
      <3>1. n # 0 => n - 1 \in 0..N
        BY <1>1
      <3>2. f[n] = IF n = 0 THEN {Genesis} ELSE F[f[n - 1]]
        BY <1>2 DEF Passes
      <3> QED BY <1>3, <1>4, <3>1, <3>2
    <2>2. f = [n \in 0..N |-> f[n]]
      BY <1>2 DEF Passes
    <2> HIDE DEF Pass
    <2> QED BY <2>1, <2>2
  <1> DEFINE g == CHOOSE h : Is(h)
  <1>6. Is(g)
    <2> HIDE DEF Is
    <2> QED BY <1>5
  <1>7. AcceptLoop(dag, seen) = g[N]
    BY DEF AcceptLoop, AcceptPass
  <1> HIDE DEF g
  <1>8. \A n \in 0..N : g[n] \in SUBSET seen
    <2> DEFINE Q == {n \in 0..N : g[n] \notin SUBSET seen}
    <2> SUFFICES ASSUME Q # {} PROVE FALSE
      OBVIOUS
    <2>1. PICK q \in Q : \A n \in Q : q <= n
      BY <1>1, LeastOf
    <2>2. \A n \in 0..N : g[n] = IF n = 0 THEN {Genesis} ELSE Pass(g[n - 1])
      BY <1>6
    <2>3. {Genesis} \in SUBSET seen /\ \A V \in SUBSET seen : Pass(V) \in SUBSET seen
      BY <1>3
    <2>4. q \in 0..N /\ g[q] \notin SUBSET seen
      BY <2>1
    <2> HIDE DEF Pass, N
    <2>5. q # 0
      BY <1>1, <2>2, <2>3, <2>4
    <2>6. q - 1 \in 0..N /\ ~ (q <= q - 1)
      BY <1>1, <2>4, <2>5
    <2>7. g[q - 1] \in SUBSET seen
      BY <2>1, <2>6
    <2>8. g[q] = Pass(g[q - 1])
      BY <2>2, <2>4, <2>5
    <2> QED BY <2>3, <2>4, <2>7, <2>8
  <1>9. Passes({Genesis}, F, g, N)
    <2>1. \A n \in 0..N : g[n] = IF n = 0 THEN {Genesis} ELSE F[g[n - 1]]
      <3> TAKE n \in 0..N
      <3>1. n # 0 => n - 1 \in 0..N
        BY <1>1
      <3>2. g[n] = IF n = 0 THEN {Genesis} ELSE Pass(g[n - 1])
        BY <1>6
      <3> QED BY <1>3, <1>8, <3>1, <3>2
    <2>2. g = [n \in 0..N |-> g[n]]
      BY <1>6
    <2> HIDE DEF F, Pass
    <2> QED BY <2>1, <2>2 DEF Passes
  <1> QED BY <1>7, <1>9

LEMMA PastFinite ==
    ASSUME Core, NEW d \in Stored
    PROVE  Past(dag, d) \in FiniteSubsetsOf(Stored)
  <1>1. Past(dag, d) \in SUBSET Stored /\ IsFiniteSet(Stored)
    BY DEF Core, DagOK, Past
  <1>2. IsFiniteSet(Past(dag, d))
    BY <1>1, FS_Subset
  <1> QED BY <1>1, <1>2 DEF FiniteSubsetsOf

\* A pass accepts nothing that is not to be accepted, and where it finds
\* nothing more, nothing is left: take a Control left out with the fewest below
\* it, then its parents are in and it verifies.
LEMMA LoopAccepts ==
    ASSUME Core, NEW seen \in SUBSET Stored, Genesis \in seen
    PROVE  AcceptLoop(dag, seen) = Accepted(dag, seen)
  <1> USE DEF Core
  <1> DEFINE F == [V \in SUBSET seen |-> AcceptPass(seen, V)]
             N == Cardinality(seen)
             A == Accepted(dag, seen)
  <1>1. IsFiniteSet(seen) /\ N \in Nat
    BY FS_Subset, FS_CardinalityType DEF DagOK
  <1>2. PICK f : Passes({Genesis}, F, f, N) /\ AcceptLoop(dag, seen) = f[N]
    BY <1>1, AcceptLoopWalks
  <1>3. \A V \in SUBSET seen : F[V] = AcceptPass(seen, V)
    OBVIOUS
  <1>4. \A V \in SUBSET seen : V \subseteq F[V] /\ F[V] \subseteq seen
    BY DEF AcceptPass
  <1> HIDE DEF F
  <1>5. f[N] \subseteq A
    <2>1. {Genesis} \subseteq A
      BY AcceptedView
    <2>2. ASSUME NEW V \in SUBSET A PROVE F[V] \subseteq A
      <3>1. A \subseteq seen
        BY DEF Accepted
      <3>2. ASSUME NEW d \in seen, Ready(dag, d, V), VerifyChild(dag, dag[d])
            PROVE  d \in A
        <4>1. Past(dag, d) = PastOf(dag, dag[d].parents) \cup {d}
          BY DEF DagOK, Past
        <4>2. dag[d].parents \subseteq A
          BY <3>2 DEF Ready
        <4>3. PastOf(dag, dag[d].parents) \subseteq seen
          BY <4>2 DEF Accepted, PastOf
        <4>4. \A x \in PastOf(dag, dag[d].parents) \ {Genesis} : VerifyChild(dag, dag[x])
          BY <4>2 DEF Accepted, PastOf
        <4> QED BY <3>2, <4>1, <4>3, <4>4 DEF Accepted
      <3> QED BY <1>3, <3>1, <3>2 DEF AcceptPass
    <2> HIDE DEF A, N
    <2> QED BY <1>1, <1>2, <2>1, <2>2, WalkStays
  <1>6. /\ f[N] \in SUBSET seen /\ Genesis \in f[N] /\ F[f[N]] = f[N]
    <2>1. {Genesis} \in SUBSET seen /\ ({Genesis} = {} => seen = {})
      OBVIOUS
    <2> QED BY <1>1, <1>2, <1>4, <2>1, WalkEnds
  <1>7. ASSUME A \ f[N] # {}
        PROVE  FALSE
    <2> DEFINE T == {Past(dag, d) : d \in A \ f[N]}
    <2>1. T \subseteq FiniteSubsetsOf(Stored) /\ T # {}
      BY <1>7, PastFinite DEF Accepted
    <2>2. IsWellFoundedOn(StrictSubsetOrdering(Stored), FiniteSubsetsOf(Stored))
      BY FS_StrictSubsetOrderingWellFounded
    <2>3. PICK S \in T : \A U \in T : ~ (<<U, S>> \in StrictSubsetOrdering(Stored))
      BY <2>1, <2>2, WFMin
    <2>4. PICK d \in A \ f[N] : S = Past(dag, d)
      BY <2>3
    <2>5. /\ d \in seen /\ d # Genesis /\ Past(dag, d) \subseteq seen
          /\ VerifyChild(dag, dag[d]) /\ d \notin dag[d].anc
      BY <1>6, <2>4 DEF Accepted, Past, DagOK
    <2>6. \E h \in dag[d].parents : h \notin f[N]
      BY <1>3, <1>6, <2>4, <2>5 DEF AcceptPass, Ready
    <2>7. PICK h \in dag[d].parents : h \notin f[N]
      BY <2>6
    <2>8. h \in dag[d].anc /\ Past(dag, h) \subseteq dag[d].anc
      BY <2>4, <2>5, <2>7 DEF DagOK, PastOf, Past
    <2>9. h \in A
      BY <2>4, <2>8, AcceptedView DEF Closed, Past
    <2>10. <<Past(dag, h), Past(dag, d)>> \in StrictSubsetOrdering(Stored)
      BY <2>5, <2>8 DEF StrictSubsetOrdering, Past
    <2> QED BY <2>3, <2>4, <2>7, <2>9, <2>10
  <1> QED BY <1>2, <1>5, <1>7

\* A membership that the walk finds unbroken was continuous: where it is first
\* missing above from, the parents have it and the walk saw it lost.
LEMMA UnbrokenLists ==
    ASSUME Core, NEW head, NEW from \in Stored, NEW m \in Members(dag[from]),
           MembershipUnbroken(dag, View, head, from, m),
           NEW d0 \in Past(dag, head), from \in Past(dag, d0), m \notin Members(dag[d0])
    PROVE  FALSE
  <1> USE DEF Core
  <1> DEFINE B == {d \in Past(dag, head) : from \in Past(dag, d) /\ m \notin Members(dag[d])}
             T == {Past(dag, d) : d \in B}
  <1>1. /\ head \in Stored /\ Past(dag, head) \subseteq Stored
        /\ \A d \in Past(dag, head) \ Past(dag, from) : ~ LostAt(dag, d, m)
    BY DEF MembershipUnbroken, View, Accepted, DagOK, Past
  <1>2. T \subseteq FiniteSubsetsOf(Stored) /\ T # {}
    BY <1>1, PastFinite
  <1>3. IsWellFoundedOn(StrictSubsetOrdering(Stored), FiniteSubsetsOf(Stored))
    BY FS_StrictSubsetOrderingWellFounded
  <1>4. PICK S \in T : \A U \in T : ~ (<<U, S>> \in StrictSubsetOrdering(Stored))
    BY <1>2, <1>3, WFMin
  <1>5. PICK d \in B : S = Past(dag, d)
    BY <1>4
  <1>6. d \in Stored /\ d # from /\ from \in dag[d].anc
    BY <1>1, <1>5 DEF Past
  <1>7. PICK h \in dag[d].parents : from \in Past(dag, h)
    BY <1>6 DEF DagOK, PastOf
  <1>8. h \in dag[d].anc /\ Past(dag, h) \subseteq dag[d].anc /\ d \notin dag[d].anc
    BY <1>6, <1>7 DEF DagOK, PastOf, Past
  <1>9. h \in Past(dag, head)
    BY <1>1, <1>5, <1>8 DEF DagOK, Past
  <1>10. <<Past(dag, h), Past(dag, d)>> \in StrictSubsetOrdering(Stored)
    BY <1>6, <1>8 DEF StrictSubsetOrdering, Past, DagOK
  <1>11. m \in Members(dag[h])
    BY <1>4, <1>5, <1>7, <1>9, <1>10
  <1>12. d \notin Past(dag, from)
    BY <1>6, <1>8 DEF DagOK, Past
  <1> QED BY <1>1, <1>5, <1>7, <1>11, <1>12 DEF LostAt

\* Whatever storage shows, LoadControl's loop accepts exactly the Controls all
\* of whose ancestors are shown and verify, and MembershipUnbroken vouches only
\* for memberships without a gap.
THEOREM WalksAreAlwaysRight == Spec => []WalksAreRight
  <1>1. Core => LoadFindsAccepted
    BY LoopAccepts DEF LoadFindsAccepted
  <1>2. Core => UnbrokenIsContinuous
    BY UnbrokenLists DEF UnbrokenIsContinuous, View, Accepted
  <1> QED BY <1>1, <1>2, CoreInvariant, PTL DEF WalksAreRight

-----------------------------------------------------------------------------
(***************************************************************************)
(* Forks: what may be settled on both sides, and that an admin can join.   *)
(***************************************************************************)
GenesisOK == dag[Genesis].admins \subseteq Members(dag[Genesis])

\* Whoever manages an accepted Control is a member of it.
LEMMA AdminsAreMembers ==
    ASSUME Core, GenesisOK, NEW d \in View
    PROVE  dag[d].admins \subseteq Members(dag[d])
  BY DEF GenesisOK, View, Accepted, VerifyChild, Validate, Past

LEMMA JoinPasses ==
    ASSUME Core, GenesisOK, HeadsAgree, NEW x \in Device, NEW last \in Heads(dag, View),
           \A h \in Heads(dag, View) : x \in dag[h].admins
    PROVE  VerifyChild(dag, Resolution(Heads(dag, View), last, x))
  <1> DEFINE H == Heads(dag, View)
             c == Resolution(H, last, x)
  <1>1. \A h \in H : h \in View /\ dag[h].admins \subseteq Members(dag[h])
    BY AdminsAreMembers DEF Heads
  <1>2. /\ c.parents = H /\ c.author = x
        /\ c.key = JoinedKey(H, last) /\ c.admins = JoinedAdmins(H)
    BY DEF Resolution, Successor
  <1>3. \A m \in Device : m \in Members(c) =>
           (\A h \in H : m \in Members(dag[h])) /\ c.key[m] = dag[last].key[m]
    BY <1>2 DEF Members, JoinedKey, ListedByAll
  <1>4. \A m \in Device : (\A h \in H : m \in Members(dag[h])) => m \in Members(c)
    BY <1>2 DEF Members, JoinedKey, ListedByAll
  <1>5. Members(c) \subseteq Device
    BY DEF Members
  <1> HIDE DEF c
  <1>6. Validate(c)
    <2>1. x \in c.admins
      BY <1>2 DEF JoinedAdmins
    <2>2. \A m \in c.admins : m \in Device /\ \A h \in H : m \in Members(dag[h])
      BY <1>1, <1>2 DEF JoinedAdmins
    <2> QED BY <1>4, <2>1, <2>2 DEF Validate
  <1>7. CheckResolution(dag, c)
    <2>1. \A h \in H, m \in Members(c) : dag[h].key[m] = c.key[m]
      BY <1>3, <1>5 DEF HeadsAgree
    <2>2. \A m \in Members(c) : m \in c.admins => m \in dag[last].admins
      BY <1>2 DEF JoinedAdmins
    <2>3. \A m \in Members(c) : Listed(dag, c, m)
      BY <1>2, <1>3, <1>5 DEF Listed
    <2>4. last \in H
      OBVIOUS
    <2> HIDE DEF H
    <2> QED BY <1>2, <2>1, <2>2, <2>3, <2>4 DEF CheckResolution
  <1> QED BY <1>2, <1>6, <1>7 DEF VerifyChild, c

\* An admin of every head can end a fork that changed no recipient: what
\* ResolveFork makes of the heads passes checkResolution.
THEOREM AgreedForksCanBeJoined == Spec => []AgreedForkCanBeJoined
  <1>1. Init => GenesisOK
    <2> SUFFICES ASSUME Init PROVE GenesisOK
      OBVIOUS
    <2>1. PICK r \in Recipient : dag = [d \in {Genesis} |-> GenesisControl(r)]
      BY DEF Init
    <2> QED BY <2>1, ConstantsOK DEF GenesisOK, GenesisControl, Members
  <1>2. Core /\ GenesisOK /\ [Next]_vars => GenesisOK'
    <2> SUFFICES ASSUME Core, GenesisOK, [Next]_vars PROVE GenesisOK'
      OBVIOUS
    <2>1. dag'[Genesis] = dag[Genesis]
      BY StoredKept DEF Core, TypeOK
    <2> QED BY <2>1 DEF GenesisOK, Members
  <1>3. Core /\ GenesisOK => AgreedForkCanBeJoined
    BY JoinPasses DEF AgreedForkCanBeJoined
  <1> QED BY <1>1, <1>2, <1>3, CoreInvariant, PTL DEF Spec

\* The changes whose author found no fork, and was or is about to be told.
Told(d) ==
    \/ \E x \in Device : d \in settled[x]
    \/ \E p \in Proc : proc[p].phase \in {"snap", "loaded"} /\ d \in proc[p].own

Joined(d, e) ==
    \/ d \in Past(dag, e)
    \/ e \in Past(dag, d)
    \/ \E j \in View : {d, e} \subseteq dag[j].anc

ToldAreJoined ==
    ~ Lagging => /\ \A d : Told(d) => d \in View
                 /\ \A d, e : Told(d) /\ Told(e) => Joined(d, e)

\* What a client accepts of all that is stored it goes on to accept.
LEMMA ViewGrows ==
    ASSUME Core, [Next]_vars
    PROVE  View \subseteq View' /\ \A d, e \in Stored : Joined(d, e) => Joined(d, e)'
  <1> USE DEF Core
  <1>1. \A d \in Stored : /\ Past(dag', d) = Past(dag, d) /\ Past(dag, d) \subseteq Stored
                          /\ dag'[d] = dag[d] /\ d \in Stored'
    BY StoredKept DEF DagOK, Past
  <1>2. View \subseteq View'
    <2> SUFFICES ASSUME NEW d \in View PROVE d \in View'
      OBVIOUS
    <2>1. d \in Stored /\ Past(dag, d) \subseteq Stored
          /\ \A x \in Past(dag, d) \ {Genesis} : VerifyChild(dag, dag[x])
      BY DEF View, Accepted
    <2>2. \A x \in Past(dag, d) \ {Genesis} : VerifyChild(dag', dag'[x])
      BY <2>1, VerifyKept
    <2> QED BY <1>1, <2>1, <2>2 DEF View, Accepted
  <1>3. View \subseteq Stored
    BY DEF View, Accepted
  <1> QED BY <1>1, <1>2, <1>3 DEF Joined

\* Where nothing is forked, everything lies below the one head.
LEMMA UnforkedJoins ==
    ASSUME Core, ~ Forked(dag, View), NEW d \in View, NEW e \in View
    PROVE  Joined(d, e)
  <1> USE DEF Core
  <1>1. View \in SUBSET Stored
    BY DEF View, Accepted
  <1>2. PICK g \in Heads(dag, View) : d \in Past(dag, g)
    BY <1>1, HeadsCover DEF PastOf
  <1>3. PICK h \in Heads(dag, View) : e \in Past(dag, h)
    BY <1>1, HeadsCover DEF PastOf
  <1>4. g = h /\ g \in View
    BY DEF Forked, Heads
  <1> QED BY <1>2, <1>3, <1>4 DEF Joined, Past

\* Only a reload that finds no fork brings a change nearer to being settled.
LEMMA ToldMoves ==
    ASSUME Core, ~ Lagging, [Next]_vars
    PROVE  \/ \A d : Told(d)' => Told(d)
           \/ \E p \in Proc : /\ dag' = dag
                              /\ \A d : Told(d)' => Told(d) \/ d \in proc[p].own
                              /\ proc[p].own \subseteq View /\ ~ Forked(dag, View)
  <1> USE DEF Core
  <1>t. proc \in [Proc -> [phase : Phase, snap : SUBSET Stored,
                           view : SUBSET Stored, own : SUBSET Stored]]
    BY DEF TypeOK
  <1>m. ASSUME NEW p \in Proc, NEW r, Moves(p, r), settled' = settled,
               r.phase \in {"snap", "loaded"} =>
                  r.own = {} \/ (proc[p].phase \in {"snap", "loaded"} /\ r.own = proc[p].own)
        PROVE  \A d : Told(d)' => Told(d)
    <2>1. proc'[p] = r /\ \A q \in Proc \ {p} : proc'[q] = proc[q]
      BY <1>t, <1>m DEF Moves
    <2>2. \A q \in Proc : proc'[q].phase \in {"snap", "loaded"} =>
             \/ proc'[q].own = {}
             \/ proc[q].phase \in {"snap", "loaded"} /\ proc'[q].own = proc[q].own
      BY <1>m, <2>1
    <2> QED BY <1>m, <2>2 DEF Told
  <1>1. ASSUME NEW p \in Proc, ReadCheckpoint(p)
        PROVE  \A d : Told(d)' => Told(d)
    BY <1>1, <1>m DEF ReadCheckpoint, Idle
  <1>2. ASSUME NEW p \in Proc, LoadControl(p)
        PROVE  \A d : Told(d)' => Told(d)
    <2>1. PICK seen : Moves(p, [proc[p] EXCEPT !.phase = "loaded", !.snap = {},
                                               !.view = Accepted(dag, seen)])
      BY <1>2 DEF LoadControl
    <2> QED BY <1>2, <1>t, <1>m, <2>1 DEF LoadControl
  <1>3. ASSUME NEW p \in Proc, AcceptControl(p)
        PROVE  \A d : Told(d)' => Told(d)
    <2>1. /\ proc[p].phase = "loaded" /\ DeviceOf[p] \in Device
          /\ settled' = [settled EXCEPT ![DeviceOf[p]] = @ \cup
                            IF OwnInView(proc[p]) THEN proc[p].own ELSE {}]
          /\ Moves(p, IF proc[p].own = {} THEN [proc[p] EXCEPT !.phase = "open"] ELSE Idle)
      BY <1>3, ProcOK DEF AcceptControl
    <2>2. \A x \in Device : settled'[x] \subseteq settled[x] \cup proc[p].own
      BY <2>1 DEF TypeOK
    <2>3. proc'[p].phase \in {"open", "idle"} /\ \A q \in Proc \ {p} : proc'[q] = proc[q]
      BY <1>t, <2>1 DEF Moves, Idle
    <2> QED BY <2>1, <2>2, <2>3 DEF Told
  <1>4. ASSUME NEW p \in Proc, ChangeMembers(p)
        PROVE  \A d : Told(d)' => Told(d)
    <2>1. PICK d : Moves(p, [proc[p] EXCEPT !.phase = "published", !.view = {}, !.own = {d}])
      BY <1>4 DEF ChangeMembers
    <2> QED BY <1>4, <1>t, <1>m, <2>1 DEF ChangeMembers
  <1>5. ASSUME NEW p \in Proc, ResolveControlFork(p)
        PROVE  \A d : Told(d)' => Told(d)
    <2>1. PICK d : Moves(p, [proc[p] EXCEPT !.phase = "resolved", !.view = {}, !.own = {d}])
      BY <1>5 DEF ResolveControlFork
    <2> QED BY <1>5, <1>t, <1>m, <2>1 DEF ResolveControlFork
  <1>6. ASSUME NEW p \in Proc, Return(p)
        PROVE  \A d : Told(d)' => Told(d)
    BY <1>6, <1>m DEF Return, Idle
  <1>7. ASSUME NEW p \in Proc, Reload(p)
        PROVE  /\ dag' = dag
               /\ \A d : Told(d)' => Told(d) \/ d \in proc[p].own
               /\ proc[p].own \subseteq View /\ ~ Forked(dag, View)
    <2>1. HoldsOwnUnforked(proc[p].own, View) /\ dag' = dag /\ settled' = settled
      BY <1>7 DEF Reload, Shown, View
    <2>2. /\ proc'[p].own \in {proc[p].own, {}}
          /\ \A q \in Proc \ {p} : proc'[q] = proc[q]
      BY <1>7, <1>t DEF Reload, Moves, Idle
    <2> QED BY <2>1, <2>2 DEF Told, HoldsOwnUnforked
  <1>8. CASE UNCHANGED <<proc, settled>>
    BY <1>8 DEF Told
  <1> QED BY <1>1, <1>2, <1>3, <1>4, <1>5, <1>6, <1>7, <1>8 DEF Next, Store, vars

LEMMA ToldStep ==
    ASSUME Core, ToldAreJoined, [Next]_vars
    PROVE  ToldAreJoined'
  <1> SUFFICES ASSUME ~ Lagging
               PROVE  /\ \A d : Told(d)' => d \in View'
                      /\ \A d, e : Told(d)' /\ Told(e)' => Joined(d, e)'
    BY DEF ToldAreJoined
  <1>1. /\ View \subseteq Stored /\ \A d : Told(d) => d \in View
        /\ \A d, e : Told(d) /\ Told(e) => Joined(d, e)
    BY DEF View, Accepted, ToldAreJoined
  <1>2. CASE \A d : Told(d)' => Told(d)
    BY <1>1, <1>2, ViewGrows
  <1>3. CASE \E p \in Proc : /\ dag' = dag
                             /\ \A d : Told(d)' => Told(d) \/ d \in proc[p].own
                             /\ proc[p].own \subseteq View /\ ~ Forked(dag, View)
    <2>1. (\A d : Told(d)' => d \in View) /\ ~ Forked(dag, View)
      BY <1>1, <1>3
    <2>2. \A d, e \in View : Joined(d, e)
      BY <2>1, UnforkedJoins
    <2> QED BY <1>1, <2>1, <2>2, ViewGrows
  <1> QED BY <1>2, <1>3, ToldMoves

\* When loads see everything, two admins who changed the members at the same
\* time are not both told that it worked: the one who reloads second finds the
\* fork, unless somebody joined the two changes before (publishChild).
THEOREM SettledForksAreAlwaysJoined == Spec => []SettledForksAreJoined
  <1>1. Init => ToldAreJoined
    BY DEF Init, ToldAreJoined, Told, Idle
  <1>2. ToldAreJoined => SettledForksAreJoined
    <2> SUFFICES ASSUME ToldAreJoined, ~ Lagging, NEW x \in Device, NEW y \in Device,
                        NEW d \in settled[x], NEW e \in settled[y]
                 PROVE  \/ d \in Past(dag, e)
                        \/ e \in Past(dag, d)
                        \/ \E j \in View : {d, e} \subseteq dag[j].anc
      BY DEF SettledForksAreJoined
    <2>1. Told(d) /\ Told(e)
      BY DEF Told
    <2> QED BY <2>1 DEF ToldAreJoined, Joined
  <1> QED BY <1>1, <1>2, ToldStep, CoreInvariant, PTL DEF Spec
=============================================================================
