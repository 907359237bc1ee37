-------------------------- MODULE CompactionProofs --------------------------
(***************************************************************************)
(* Proofs about Compaction.                                                *)
(***************************************************************************)
EXTENDS Compaction, FiniteSetTheorems, WellFoundedInduction, TLAPS

\* A bounded set of numbers has a least one.
LEMMA LeastOf ==
    ASSUME NEW N \in Nat, NEW Q \in SUBSET (0..N), Q # {}
    PROVE  \E n \in Q : \A m \in Q : n <= m
  <1> DEFINE A == {0..n : n \in Q}
  <1>1. IsWellFoundedOn(StrictSubsetOrdering(0..N), FiniteSubsetsOf(0..N))
    BY FS_StrictSubsetOrderingWellFounded
  <1>2. A \subseteq FiniteSubsetsOf(0..N) /\ A # {}
    <2>1. \A n \in 0..N : 0..n \subseteq 0..N
      OBVIOUS
    <2>2. IsFiniteSet(0..N)
      BY FS_Interval
    <2>3. \A n \in Q : 0..n \in FiniteSubsetsOf(0..N)
      BY <2>1, <2>2, FS_Subset DEF FiniteSubsetsOf
    <2> QED BY <2>3
  <1>3. PICK S \in A : \A U \in A : ~ (<<U, S>> \in StrictSubsetOrdering(0..N))
    BY <1>1, <1>2, WFMin
  <1>4. PICK n \in Q : S = 0..n
    BY <1>3
  <1>5. ASSUME NEW m \in Q, m < n PROVE FALSE
    <2>1. 0..m \in A /\ 0..m \in SUBSET (0..N) /\ 0..n \in SUBSET (0..N)
      BY <1>5
    <2>2. 0..m \subseteq 0..n /\ n \in 0..n /\ n \notin 0..m
      BY <1>5
    <2>3. <<0..m, 0..n>> \in StrictSubsetOrdering(0..N)
      BY <2>1, <2>2 DEF StrictSubsetOrdering
    <2> QED BY <1>3, <1>4, <2>1, <2>3
  <1> QED BY <1>4, <1>5

-----------------------------------------------------------------------------
(***************************************************************************)
(* Passes.                                                                 *)
(***************************************************************************)
IsWalk(F, X, f, n) == f = [m \in 0..n |-> IF m = 0 THEN X ELSE F[f[m - 1]]]

\* Recursion over the passes defines a function.
LEMMA WalkExists ==
    ASSUME NEW N \in Nat, NEW X, NEW F
    PROVE  \E f : IsWalk(F, X, f, N)
  <1> DEFINE Q == {n \in 0..N : ~ \E f : IsWalk(F, X, f, n)}
  <1> SUFFICES ASSUME Q # {} PROVE FALSE
    OBVIOUS
  <1>1. PICK q \in Q : \A m \in Q : q <= m
    BY LeastOf
  <1>2. q # 0
    <2>1. IsWalk(F, X, [n \in 0..0 |-> X], 0)
      BY DEF IsWalk
    <2> QED BY <2>1
  <1>3. PICK f : IsWalk(F, X, f, q - 1)
    BY <1>1, <1>2
  <1> DEFINE g == [n \in 0..q |-> IF n = q THEN F[f[q - 1]] ELSE f[n]]
  <1>4. \A n \in 0..(q - 1) : g[n] = f[n] /\ f[n] = IF n = 0 THEN X ELSE F[f[n - 1]]
    BY <1>3 DEF IsWalk
  <1>5. ASSUME NEW n \in 0..q
        PROVE  g[n] = IF n = 0 THEN X ELSE F[g[n - 1]]
    <2>1. CASE n = q
      BY <1>2, <1>4, <2>1
    <2>2. CASE n \in 0..(q - 1)
      <3>1. n # 0 => n - 1 \in 0..(q - 1)
        BY <2>2
      <3> QED BY <1>4, <2>2, <3>1
    <2> QED BY <2>1, <2>2
  <1>6. IsWalk(F, X, g, q)
    BY <1>5 DEF IsWalk
  <1> QED BY <1>6

\* Walks of different lengths agree where both are defined.
LEMMA WalksAgree ==
    ASSUME NEW N \in Nat, NEW X, NEW F, NEW f, IsWalk(F, X, f, N), NEW n \in 0..N,
           NEW g, IsWalk(F, X, g, n)
    PROVE  \A m \in 0..n : f[m] = g[m]
  <1> DEFINE Q == {m \in 0..n : f[m] # g[m]}
  <1> SUFFICES ASSUME Q # {} PROVE FALSE
    OBVIOUS
  <1>0. n \in Nat
    OBVIOUS
  <1>1. PICK q \in Q : \A m \in Q : q <= m
    BY <1>0, LeastOf
  <1>2. \A m \in 0..n : m \in 0..N
    OBVIOUS
  <1>3. f[q] = (IF q = 0 THEN X ELSE F[f[q - 1]]) /\ g[q] = (IF q = 0 THEN X ELSE F[g[q - 1]])
    BY <1>1, <1>2 DEF IsWalk
  <1>4. q # 0 => q - 1 \in 0..n /\ q - 1 \notin Q
    BY <1>1
  <1> QED BY <1>1, <1>3, <1>4

\* What n passes make, pass by pass.
LEMMA PassesStep ==
    ASSUME NEW n \in Nat, NEW X, NEW F
    PROVE  Passes(F, X, 0) = X /\ Passes(F, X, n + 1) = F[Passes(F, X, n)]
  <1>1. \A m \in Nat : \E f : IsWalk(F, X, f, m)
    BY WalkExists
  <1> DEFINE g(m) == CHOOSE f : IsWalk(F, X, f, m)
  <1>2. \A m \in Nat : IsWalk(F, X, g(m), m)
    BY <1>1
  <1>3. \A m \in Nat : Passes(F, X, m) = g(m)[m]
    BY DEF Passes, IsWalk
  <1>4. g(0)[0] = X
    <2> HIDE DEF g
    <2> QED BY <1>2 DEF IsWalk
  <1>5. g(n + 1)[n] = g(n)[n]
    <2> DEFINE h == g(n + 1)
               k == g(n)
    <2>1. IsWalk(F, X, h, n + 1) /\ IsWalk(F, X, k, n)
      BY <1>2
    <2> HIDE DEF h, k, g
    <2>2. n \in 0..(n + 1) /\ n + 1 \in Nat /\ n \in 0..n
      OBVIOUS
    <2>3. \A m \in 0..n : h[m] = k[m]
      BY <2>1, <2>2, WalksAgree
    <2>4. h[n] = k[n]
      BY <2>2, <2>3
    <2> QED BY <2>4 DEF h, k
  <1>6. g(n + 1)[n + 1] = F[g(n + 1)[n]]
    <2>1. IsWalk(F, X, g(n + 1), n + 1) /\ n + 1 \in 0..(n + 1) /\ n + 1 # 0 /\ (n + 1) - 1 = n
      BY <1>2
    <2> HIDE DEF g
    <2> QED BY <2>1 DEF IsWalk
  <1> HIDE DEF g
  <1> QED BY <1>3, <1>4, <1>5, <1>6

\* Passes stay among what one pass does not leave.
LEMMA PassesStayIn ==
    ASSUME NEW N \in Nat, NEW F, NEW T, NEW X \in T, \A S \in T : F[S] \in T
    PROVE  Passes(F, X, N) \in T
  <1> DEFINE Q == {m \in 0..N : Passes(F, X, m) \notin T}
  <1> SUFFICES ASSUME Q # {} PROVE FALSE
    OBVIOUS
  <1>1. PICK q \in Q : \A m \in Q : q <= m
    BY LeastOf
  <1>2. q # 0
    BY <1>1, PassesStep
  <1>3. q - 1 \in 0..N /\ q - 1 \notin Q /\ q - 1 \in Nat /\ (q - 1) + 1 = q
    BY <1>1, <1>2
  <1>4. Passes(F, X, q) = F[Passes(F, X, q - 1)]
    BY <1>3, PassesStep
  <1> QED BY <1>1, <1>3, <1>4

\* So they stay below what one pass does not leave.
LEMMA PassesStay ==
    ASSUME NEW N \in Nat, NEW F, NEW G, NEW X, X \subseteq G,
           \A S \in SUBSET G : F[S] \subseteq G
    PROVE  Passes(F, X, N) \subseteq G
  <1>1. X \in SUBSET G /\ \A S \in SUBSET G : F[S] \in SUBSET G
    OBVIOUS
  <1>2. Passes(F, X, N) \in SUBSET G
    BY <1>1, PassesStayIn
  <1> QED BY <1>2

\* Passes that only add end, after as many of them as there are elements, where
\* one more adds nothing.
LEMMA PassesEnd ==
    ASSUME NEW U, IsFiniteSet(U), NEW F, NEW X \in SUBSET U,
           \A S \in SUBSET U : S \subseteq F[S] /\ F[S] \subseteq U
    PROVE  /\ Passes(F, X, Cardinality(U)) \in SUBSET U
           /\ X \subseteq Passes(F, X, Cardinality(U))
           /\ F[Passes(F, X, Cardinality(U))] = Passes(F, X, Cardinality(U))
  <1> DEFINE N == Cardinality(U)
             f(n) == Passes(F, X, n)
  <1>1. N \in Nat
    BY FS_CardinalityType
  <1>2. f(0) = X /\ \A n \in Nat : f(n + 1) = F[f(n)]
    BY PassesStep
  <1>3. \A n \in Nat : f(n) \in SUBSET U
    BY PassesStay
  <1> HIDE DEF N, f
  <1>4. \A n \in 1..N : n - 1 \in 0..N /\ n - 1 \in Nat /\ f(n) = F[f(n - 1)]
    <2> TAKE n \in 1..N
    <2>1. n - 1 \in 0..N /\ n - 1 \in Nat /\ (n - 1) + 1 = n
      BY <1>1
    <2> QED BY <1>2, <2>1
  <1>5. \A n \in 0..N : X \subseteq f(n)
    <2> DEFINE Q == {n \in 0..N : ~ X \subseteq f(n)}
    <2> SUFFICES ASSUME Q # {} PROVE FALSE
      OBVIOUS
    <2>1. PICK q \in Q : \A n \in Q : q <= n
      BY <1>1, LeastOf
    <2>2. q \in 1..N
      BY <1>1, <1>2, <2>1
    <2>3. q - 1 \notin Q /\ q - 1 \in 0..N
      BY <1>1, <2>1, <2>2
    <2>4. f(q - 1) \subseteq f(q)
      BY <1>3, <1>4, <2>2
    <2> QED BY <2>1, <2>3, <2>4
  <1>6. \A n \in 0..N : F[f(n)] = f(n) \/ Cardinality(f(n)) >= n
    <2> DEFINE Q == {n \in 0..N : ~ (F[f(n)] = f(n) \/ Cardinality(f(n)) >= n)}
    <2> SUFFICES ASSUME Q # {} PROVE FALSE
      OBVIOUS
    <2>1. PICK q \in Q : \A n \in Q : q <= n
      BY <1>1, LeastOf
    <2>2. IsFiniteSet(f(q)) /\ Cardinality(f(q)) \in Nat
      BY <1>1, <1>3, <2>1, FS_Subset, FS_CardinalityType
    <2>3. q \in 1..N
      BY <1>1, <2>1, <2>2
    <2>4. q - 1 \in 0..N /\ q - 1 \notin Q
      BY <1>1, <2>1, <2>3
    <2> DEFINE A == f(q - 1)
               B == f(q)
    <2>5. /\ A \in SUBSET U /\ B \in SUBSET U /\ B = F[A] /\ A \subseteq B
          /\ F[A] = A \/ Cardinality(A) >= q - 1
      BY <1>3, <1>4, <2>3, <2>4
    <2>6. F[B] # B /\ ~ Cardinality(B) >= q
      BY <2>1
    <2>7. A # B
      BY <2>5, <2>6
    <2>8. Cardinality(A) \in Nat /\ Cardinality(B) \in Nat /\ Cardinality(A) < Cardinality(B)
      <3> HIDE DEF A, B
      <3>1. IsFiniteSet(B)
        BY <2>5, FS_Subset
      <3>2. IsFiniteSet(A) /\ Cardinality(A) <= Cardinality(B) /\ Cardinality(A) # Cardinality(B)
        BY <2>5, <2>7, <3>1, FS_Subset
      <3> QED BY <3>1, <3>2, FS_CardinalityType
    <2> QED BY <2>3, <2>5, <2>6, <2>7, <2>8
  <1>7. F[f(N)] = f(N)
    <2>1. f(N) \in SUBSET U /\ N \in 0..N
      BY <1>1, <1>3
    <2>2. CASE Cardinality(f(N)) >= N
      <3>1. /\ Cardinality(f(N)) <= N /\ Cardinality(f(N)) \in Nat
            /\ f(N) = U \/ Cardinality(f(N)) # N
        BY <2>1, FS_Subset, FS_CardinalityType DEF N
      <3>2. f(N) = U
        BY <1>1, <2>2, <3>1
      <3> QED BY <2>1, <3>2
    <2> QED BY <1>1, <1>6, <2>1, <2>2
  <1>8. f(N) \in SUBSET U /\ X \subseteq f(N)
    BY <1>1, <1>3, <1>5
  <1> QED BY <1>7, <1>8 DEF N, f

-----------------------------------------------------------------------------
(***************************************************************************)
(* The records that count.                                                 *)
(***************************************************************************)
\* Applying records ends where no other record counts.
LEMMA AppliedIsClosed ==
    ASSUME NEW recs, IsFiniteSet(recs), NEW view
    PROVE  /\ Applied(recs, view) \in SUBSET recs
           /\ \A r \in recs : r.floor \in view \cup Excused(recs, view) => r \in Applied(recs, view)
  <1> DEFINE Pass(S) == S \cup {r \in recs : r.floor \in view \cup Listed(S)}
             F == [S \in SUBSET recs |-> Pass(S)]
             A == Passes(F, {}, Cardinality(recs))
  <1>1. \A S \in SUBSET recs : F[S] = Pass(S) /\ S \subseteq F[S] /\ F[S] \subseteq recs
    OBVIOUS
  <1>2. A \in SUBSET recs /\ F[A] = A
    <2>1. {} \in SUBSET recs
      OBVIOUS
    <2> HIDE DEF F
    <2> QED BY <1>1, <2>1, PassesEnd
  <1>3. Applied(recs, view) = A
    BY DEF Applied
  <1> HIDE DEF A, F
  <1> QED BY <1>1, <1>2, <1>3 DEF Excused

-----------------------------------------------------------------------------
(***************************************************************************)
(* Types.                                                                  *)
(***************************************************************************)
Graph ==
    /\ DOMAIN graph \subseteq Rev /\ IsFiniteSet(DOMAIN graph)
    /\ graph \in [DOMAIN graph -> [parents : SUBSET DOMAIN graph, anc : SUBSET DOMAIN graph]]
    /\ \A d \in DOMAIN graph :
          d \notin graph[d].anc /\ graph[d].anc = PastOf(graph, graph[d].parents)

\* What a process may hold of the revisions D.
Doings(D) ==
    {r \in [phase : Phase, op : {"none", "edit", "compact"}, stage : {"first", "again", "reload"},
            view : SUBSET D, excused : SUBSET D, floors : SUBSET D, heads : SUBSET D,
            own : SUBSET D, floor : SUBSET D, left : SUBSET D, gone : SUBSET D] :
        /\ r.phase \in {"idle", "load"} => r.view = {}
        /\ r.floors \subseteq r.view /\ r.left \subseteq r.gone
        /\ r.gone # {} => r.phase \in {"record", "delete"}
        /\ r.phase = "delete" => r.left = {}
        /\ r.phase = "checked" /\ r.stage # "again" => r.heads \subseteq r.view
        /\ r.phase = "record" => \E h \in r.view : r.heads = {h}}

Typed ==
    /\ Graph
    /\ shown \subseteq DOMAIN graph
    /\ IsFiniteSet(records)
    /\ \A r \in records : ValidRecord(r) /\ r.removed \cup {r.floor} \subseteq DOMAIN graph
    /\ cp \in [Device -> SUBSET DOMAIN graph]
    /\ proc \in [Proc -> Doings(DOMAIN graph)]
    /\ settled \subseteq DOMAIN graph
    /\ started \in 0..MaxCompactions

\* A revision gone from storage, or about to go, is listed by a record.
Kept ==
    /\ DOMAIN graph \ shown \subseteq Listed(LoadCompactions)
    /\ \A p \in Proc :
          /\ proc[p].phase = "record" =>
                proc[p].gone \ proc[p].left \subseteq Listed(LoadCompactions)
          /\ proc[p].phase = "delete" => proc[p].gone \subseteq Listed(LoadCompactions)

LEMMA TypedImpliesTypeOK == Typed => TypeOK
  BY DEF Typed, TypeOK, Graph, Doings

LEMMA InitTyped == Init => Typed /\ Kept
  <1> SUFFICES ASSUME Init PROVE Typed /\ Kept
    OBVIOUS
  <1>1. Graph
    BY CompactionOK DEF Init, Graph
  <1>2. PICK d \in DOMAIN First \ {Behind} :
           records = {[floor |-> Behind, removed |-> {d}, byAdmin |-> FALSE]}
    BY DEF Init
  <1>3. IsFiniteSet(records)
    BY <1>2, FS_Singleton
  <1>4. \A r \in records : ValidRecord(r) /\ r.removed \cup {r.floor} \subseteq DOMAIN graph
    <2>1. RecordSize \in Nat \ {0} /\ Behind \in DOMAIN First /\ graph = First
      BY CompactionOK DEF Init
    <2>2. Cardinality({d}) = 1
      BY FS_Singleton
    <2>3. Cardinality({d}) <= RecordSize
      BY <2>1, <2>2
    <2> QED BY <1>2, <2>1, <2>3 DEF ValidRecord
  <1>5. cp \in [Device -> SUBSET DOMAIN graph] /\ started \in 0..MaxCompactions
    BY CompactionOK DEF Init
  <1>6. proc \in [Proc -> Doings(DOMAIN graph)]
    BY DEF Init, Idle, Doings, Phase
  <1>7. Kept
    BY DEF Init, Kept, Idle
  <1> QED BY <1>1, <1>3, <1>4, <1>5, <1>6, <1>7 DEF Init, Typed

\* A step that only moves a process on.
LEMMA MovesKeepsTypes ==
    ASSUME Typed, NEW p \in Proc, NEW r \in Doings(DOMAIN graph), Moves(p, r),
           UNCHANGED <<graph, shown, records>>, cp' \in [Device -> SUBSET DOMAIN graph],
           settled' \subseteq DOMAIN graph, started' \in 0..MaxCompactions
    PROVE  Typed'
  <1>1. proc' \in [Proc -> Doings(DOMAIN graph)]
    BY DEF Typed, Moves
  <1> QED BY <1>1 DEF Typed, Graph, PastOf, Past, ValidRecord

\* ... and does not come near deleting, or not further.
LEMMA MovesKeepsKept ==
    ASSUME Typed, Kept, NEW p \in Proc, NEW r, Moves(p, r),
           UNCHANGED <<graph, shown, records>>,
           r.phase = "record" => r.gone \ r.left \subseteq Listed(LoadCompactions),
           r.phase = "delete" => r.gone \subseteq Listed(LoadCompactions)
    PROVE  Kept'
  BY DEF Typed, Kept, Moves, LoadCompactions, VerifyCompaction, ValidRecord

\* The heads of a view, and what passes make of it, are of that view.
LEMMA AncestorsOfView ==
    ASSUME NEW view, IsFiniteSet(view), NEW d
    PROVE  Ancestors(view, d) \in SUBSET view
  <1> DEFINE All(S) == UNION {graph[e].parents : e \in S}
             Up(S) == S \cup (All(S) \cap view)
             F == [S \in SUBSET view |-> Up(S)]
  <1>1. Cardinality(view) \in Nat
    BY FS_CardinalityType
  <1>2. \A S \in SUBSET view : F[S] \subseteq view
    <2> TAKE S \in SUBSET view
    <2>1. Up(S) \subseteq view
      <3> HIDE DEF All
      <3> QED OBVIOUS
    <2> HIDE DEF Up
    <2> QED BY <2>1
  <1>3. {d} \cap view \subseteq view
    OBVIOUS
  <1>5. Ancestors(view, d) = Passes(F, {d} \cap view, Cardinality(view))
    BY DEF Ancestors
  <1> HIDE DEF F
  <1>4. Passes(F, {d} \cap view, Cardinality(view)) \subseteq view
    BY <1>1, <1>2, <1>3, PassesStay
  <1> QED BY <1>4, <1>5

LEMMA FirstIsOne ==
    ASSUME NEW S \in SUBSET Rev, S # {}
    PROVE  FirstOf(S) \in S
  <1>1. PICK d \in S : TRUE
    OBVIOUS
  <1> DEFINE Q == {n \in 0..Order[d] : \E e \in S : Order[e] = n}
  <1>2. \A e \in S : Order[e] \in Nat
    BY CompactionOK
  <1>3. Order[d] \in Q /\ Q \in SUBSET (0..Order[d])
    BY <1>2
  <1> HIDE DEF Q
  <1>4. PICK q \in Q : \A m \in Q : q <= m
    BY <1>2, <1>3, LeastOf
  <1>5. PICK f \in S : Order[f] = q
    BY <1>4 DEF Q
  <1>6. \A e \in S : Order[f] <= Order[e]
    <2> TAKE e \in S
    <2>1. Order[e] <= Order[d] => Order[e] \in Q
      BY <1>2 DEF Q
    <2>2. q <= Order[d]
      BY <1>3, <1>4
    <2> QED BY <1>2, <1>4, <1>5, <2>1, <2>2
  <1> QED BY <1>5, <1>6 DEF FirstOf

LEMMA FloorOfView ==
    ASSUME NEW view \in SUBSET Rev, NEW head \in view, NEW keep \in Nat \ {0}
    PROVE  Floor(view, head, keep) \in view
  <1> DEFINE Shown(d) == graph[d].parents \cap view
             F == [d \in view |-> IF Shown(d) = {} THEN d ELSE FirstOf(Shown(d))]
  <1>1. keep - 1 \in Nat
    OBVIOUS
  <1>2. \A d \in view : F[d] \in view
    <2> TAKE d \in view
    <2>1. Shown(d) \in SUBSET Rev /\ Shown(d) \subseteq view
      OBVIOUS
    <2>2. Shown(d) # {} => FirstOf(Shown(d)) \in view
      <3> HIDE DEF Shown
      <3> QED BY <2>1, FirstIsOne
    <2> QED BY <2>2
  <1> HIDE DEF F
  <1>3. Passes(F, head, keep - 1) \in view
    BY <1>1, <1>2, PassesStayIn
  <1> QED BY <1>3 DEF Floor, F

LEMMA ExcusedAreListed ==
    ASSUME Typed, NEW recs \in SUBSET records, NEW view
    PROVE  Excused(recs, view) \in SUBSET DOMAIN graph
  <1>1. IsFiniteSet(recs)
    BY FS_Subset DEF Typed
  <1>2. Applied(recs, view) \in SUBSET recs
    BY <1>1, AppliedIsClosed
  <1> QED BY <1>2 DEF Excused, Listed, Typed

\* The part of the graph that a load of p may get.
Loads(p, view) ==
    \E listed \in IF Lagging THEN (SUBSET shown) \ {{}} ELSE {shown} :
        view = UNION {Ancestors(shown, d) :
                      d \in listed \cup (shown \cap (proc[p].own \cup cp[DeviceOf[p]]))}

LEMMA LoadStatesMoves ==
    ASSUME Typed, NEW p \in Proc, LoadStates(p)
    PROVE  \E view \in SUBSET shown :
              Loads(p, view) /\ Moves(p, [proc[p] EXCEPT !.phase = "loaded", !.view = view])
  <1>1. IsFiniteSet(shown)
    BY FS_Subset DEF Typed, Graph
  <1>2. \A d : Ancestors(shown, d) \in SUBSET shown
    BY <1>1, AncestorsOfView
  <1>3. \A V : Loads(p, V) => V \in SUBSET shown
    BY <1>2 DEF Loads
  <1>4. PICK listed \in IF Lagging THEN (SUBSET shown) \ {{}} ELSE {shown} :
           LET known == listed \cup (shown \cap (proc[p].own \cup cp[DeviceOf[p]]))
               view == UNION {Ancestors(shown, d) : d \in known}
           IN  Moves(p, [proc[p] EXCEPT !.phase = "loaded", !.view = view])
    BY DEF LoadStates
  <1> DEFINE view == UNION {Ancestors(shown, d) :
                            d \in listed \cup (shown \cap (proc[p].own \cup cp[DeviceOf[p]]))}
  <1>5. Loads(p, view)
    BY DEF Loads
  <1>6. Moves(p, [proc[p] EXCEPT !.phase = "loaded", !.view = view])
    BY <1>4
  <1> HIDE DEF view
  <1> QED BY <1>3, <1>5, <1>6

\* Each step that does not touch storage moves one process on.
LEMMA ReadersAreTyped ==
    ASSUME Typed, NEW p \in Proc,
           \/ Edit(p) \/ CompactHistory(p) \/ LoadStates(p) \/ ReadRecords(p)
           \/ AcceptStates(p) \/ LookAgain(p) \/ Choose(p) \/ Return(p)
    PROVE  Typed'
  <1> DEFINE D == DOMAIN graph
             r == proc[p]
  <1>1. /\ r \in Doings(D) /\ shown \subseteq D /\ cp \in [Device -> SUBSET D]
        /\ settled \subseteq D /\ started \in 0..MaxCompactions
    BY DEF Typed
  <1>2. Idle \in Doings(D)
    BY DEF Idle, Doings, Phase
  <1>3. ASSUME NEW s \in Doings(D), Moves(p, s), UNCHANGED <<graph, shown, records>>,
               cp' \in [Device -> SUBSET D], settled' \subseteq D, started' \in 0..MaxCompactions
        PROVE  Typed'
    BY <1>3, MovesKeepsTypes
  <1>4. CASE Edit(p)
    <2>1. [Idle EXCEPT !.phase = "load", !.op = "edit"] \in Doings(D)
      BY DEF Idle, Doings, Phase
    <2> QED BY <1>1, <1>3, <1>4, <2>1 DEF Edit
  <1>5. CASE CompactHistory(p)
    <2>1. [Idle EXCEPT !.phase = "load", !.op = "compact"] \in Doings(D)
      BY DEF Idle, Doings, Phase
    <2>2. MaxCompactions \in Nat /\ started' \in 0..MaxCompactions
      BY <1>1, <1>5, CompactionOK DEF CompactHistory
    <2> QED BY <1>1, <1>3, <1>5, <2>1, <2>2 DEF CompactHistory
  <1>6. CASE LoadStates(p)
    <2>1. PICK view \in SUBSET shown : Moves(p, [r EXCEPT !.phase = "loaded", !.view = view])
      BY <1>6, LoadStatesMoves
    <2>2. r.phase = "load"
      BY <1>6 DEF LoadStates
    <2>3. [r EXCEPT !.phase = "loaded", !.view = view] \in Doings(D)
      BY <1>1, <2>2 DEF Doings, Phase
    <2> QED BY <1>1, <1>3, <1>6, <2>1, <2>3 DEF LoadStates
  <1>7. CASE ReadRecords(p)
    <2> DEFINE lacks == Missing(r.view) # {} \/ ~ cp[DeviceOf[p]] \subseteq r.view
               recs == IF lacks THEN LoadCompactions ELSE {}
               excused == Excused(recs, r.view)
               floors == Floors(recs, r.view)
               heads == IF r.stage = "again" THEN r.heads ELSE TrustedHeads(r.view, floors)
    <2>1. recs \in SUBSET records
      BY DEF LoadCompactions
    <2> HIDE DEF recs
    <2>2. excused \in SUBSET D
      BY <2>1, ExcusedAreListed
    <2>3. floors \in SUBSET r.view /\ TrustedHeads(r.view, floors) \in SUBSET r.view
      BY DEF Floors, TrustedHeads, Heads
    <2>4. /\ r.view \in SUBSET D /\ heads \in SUBSET D
          /\ r.stage # "again" => heads \subseteq r.view
      BY <1>1, <2>3 DEF Doings
    <2>5. r.phase = "loaded" /\ Moves(p, [r EXCEPT !.phase = "checked", !.excused = excused,
                                                   !.floors = floors, !.heads = heads])
      BY <1>7 DEF ReadRecords, recs
    <2> HIDE DEF excused, floors, heads
    <2>6. [r EXCEPT !.phase = "checked", !.excused = excused, !.floors = floors, !.heads = heads]
             \in Doings(D)
      BY <1>1, <2>2, <2>3, <2>4, <2>5 DEF Doings, Phase
    <2> QED BY <1>1, <1>3, <1>7, <2>5, <2>6 DEF ReadRecords
  <1>8. CASE AcceptStates(p)
    <2>1. r.phase = "checked" /\ r.heads \in SUBSET D /\ r.own \in SUBSET D
      BY <1>1, <1>8 DEF AcceptStates, Doings
    <2>2. cp' \in [Device -> SUBSET D] /\ settled' \subseteq D
      BY <1>1, <1>8, <2>1 DEF AcceptStates
    <2>3. [r EXCEPT !.phase = "load", !.stage = "again", !.view = {}, !.excused = {},
                    !.floors = {}] \in Doings(D)
      BY <1>1, <2>1 DEF Doings, Phase
    <2>4. Cardinality(r.heads) = 1 => [r EXCEPT !.phase = "record"] \in Doings(D)
      <3> SUFFICES ASSUME Cardinality(r.heads) = 1
                   PROVE  [r EXCEPT !.phase = "record"] \in Doings(D)
        OBVIOUS
      <3>1. IsFiniteSet(r.heads)
        BY <2>1, FS_Subset DEF Typed, Graph
      <3>2. PICK h : r.heads = {h}
        BY <3>1, FS_Singleton
      <3>3. r.heads \subseteq r.view
        BY <1>1, <1>8, <2>1 DEF AcceptStates, Doings
      <3> QED BY <1>1, <2>1, <3>2, <3>3 DEF Doings, Phase
    <2> QED BY <1>1, <1>2, <1>3, <1>8, <2>2, <2>3, <2>4 DEF AcceptStates
  <1>9. CASE LookAgain(p)
    <2>1. r.phase = "checked"
      BY <1>9 DEF LookAgain
    <2>2. /\ [r EXCEPT !.phase = "write", !.view = {}, !.excused = {}, !.floors = {}] \in Doings(D)
          /\ [Idle EXCEPT !.phase = "load", !.op = "edit"] \in Doings(D)
      BY <1>1, <2>1 DEF Idle, Doings, Phase
    <2> QED BY <1>1, <1>3, <1>9, <2>2 DEF LookAgain
  <1>10. CASE Choose(p)
    <2> DEFINE head == CHOOSE h \in r.heads : TRUE
               Goes(floor) == r.view \ KeptRevisions(r.view, head, floor)
               Then(floor) ==
                 [r EXCEPT !.floor = {floor}, !.left = Goes(floor), !.gone = Goes(floor)]
    <2>1. r.phase = "record" /\ head \in r.heads /\ r.heads \subseteq r.view /\ r.view \subseteq D
      BY <1>1, <1>10 DEF Choose, Doings
    <2>2. PICK keep \in Keep :
             LET floor == Floor(r.view, head, keep)
             IN  Moves(p, IF Goes(floor) = {} THEN Idle ELSE Then(floor))
      BY <1>10 DEF Choose
    <2> DEFINE floor == Floor(r.view, head, keep)
    <2>3. Moves(p, IF Goes(floor) = {} THEN Idle ELSE Then(floor))
      BY <2>2
    <2> HIDE DEF head
    <2>4. floor \in r.view
      <3>1. keep \in Nat \ {0} /\ head \in r.view /\ r.view \in SUBSET Rev
        BY <2>1, CompactionOK DEF Typed, Graph
      <3> QED BY <3>1, FloorOfView
    <2> HIDE DEF floor
    <2>5. Goes(floor) \subseteq r.view
      OBVIOUS
    <2> HIDE DEF Goes
    <2>6. Then(floor) \in Doings(D)
      BY <1>1, <2>1, <2>4, <2>5 DEF Doings, Phase
    <2> HIDE DEF Then
    <2> QED BY <1>1, <1>2, <1>3, <1>10, <2>3, <2>6 DEF Choose
  <1>11. CASE Return(p)
    BY <1>1, <1>2, <1>3, <1>11 DEF Return
  <1> QED BY <1>4, <1>5, <1>6, <1>7, <1>8, <1>9, <1>10, <1>11

\* A new revision leaves what is below the others as it was.
LEMMA PublishKeepsGraph ==
    ASSUME Graph, NEW d \in Rev \ DOMAIN graph, NEW heads \in SUBSET DOMAIN graph,
           graph' = [e \in DOMAIN graph \cup {d} |->
                       IF e = d THEN [parents |-> heads, anc |-> PastOf(graph, heads)]
                       ELSE graph[e]]
    PROVE  Graph' /\ DOMAIN graph' = DOMAIN graph \cup {d}
  <1> DEFINE D == DOMAIN graph
  <1>1. DOMAIN graph' = D \cup {d} /\ D \cup {d} \subseteq Rev /\ IsFiniteSet(D \cup {d})
    <2>1. IsFiniteSet(D \cup {d})
      BY FS_AddElement DEF Graph
    <2> QED BY <2>1 DEF Graph
  <1>2. \A e \in D :
           graph'[e] = graph[e] /\ graph[e].parents \subseteq D /\ graph[e].anc \subseteq D
    BY DEF Graph
  <1>3. graph'[d] = [parents |-> heads, anc |-> PastOf(graph, heads)]
    OBVIOUS
  <1>4. \A S \in SUBSET D : PastOf(graph', S) = PastOf(graph, S) /\ PastOf(graph, S) \subseteq D
    BY <1>2 DEF PastOf, Past
  <1>5. graph' \in [D \cup {d} -> [parents : SUBSET (D \cup {d}), anc : SUBSET (D \cup {d})]]
    <2>1. \A e \in D \cup {d} :
             graph'[e] \in [parents : SUBSET (D \cup {d}), anc : SUBSET (D \cup {d})]
      <3> TAKE e \in D \cup {d}
      <3>1. CASE e = d
        BY <1>3, <1>4, <3>1
      <3>2. CASE e \in D
        BY <1>2, <3>2 DEF Graph
      <3> QED BY <3>1, <3>2
    <2> QED BY <2>1
  <1>6. ASSUME NEW e \in D \cup {d}
        PROVE  e \notin graph'[e].anc /\ graph'[e].anc = PastOf(graph', graph'[e].parents)
    <2>1. CASE e = d
      BY <1>3, <1>4, <2>1
    <2>2. CASE e \in D
      BY <1>2, <1>4, <2>2 DEF Graph
    <2> QED BY <2>1, <2>2
  <1> QED BY <1>1, <1>5, <1>6 DEF Graph

LEMMA DoingsGrow ==
    ASSUME NEW D, NEW E, D \subseteq E, NEW r \in Doings(D)
    PROVE  r \in Doings(E)
  BY DEF Doings

LEMMA PublishIsTyped ==
    ASSUME Typed, NEW p \in Proc, Publish(p)
    PROVE  Typed'
  <1> DEFINE D == DOMAIN graph
             r == proc[p]
  <1>1. PICK d \in Rev \ D :
           /\ graph' = [e \in D \cup {d} |->
                          IF e = d THEN [parents |-> r.heads, anc |-> PastOf(graph, r.heads)]
                          ELSE graph[e]]
           /\ shown' = shown \cup {d}
           /\ Moves(p, [Idle EXCEPT !.phase = "load", !.op = "edit", !.stage = "reload",
                                    !.own = {d}])
    BY DEF Publish
  <1>2. r.heads \in SUBSET D
    BY DEF Typed, Doings
  <1>3. Graph' /\ DOMAIN graph' = D \cup {d}
    BY <1>1, <1>2, PublishKeepsGraph DEF Typed
  <1>4. [Idle EXCEPT !.phase = "load", !.op = "edit", !.stage = "reload", !.own = {d}]
           \in Doings(D \cup {d})
    BY DEF Idle, Doings, Phase
  <1>5. proc' \in [Proc -> Doings(D \cup {d})]
    <2>1. \A q \in Proc : proc[q] \in Doings(D \cup {d})
      BY DoingsGrow DEF Typed
    <2> QED BY <1>1, <1>4, <2>1 DEF Moves, Typed
  <1>6. UNCHANGED <<records, cp, settled, started>>
    BY DEF Publish
  <1>7. shown' \subseteq D \cup {d} /\ cp' \in [Device -> SUBSET (D \cup {d})]
        /\ settled' \subseteq D \cup {d} /\ started' \in 0..MaxCompactions
    BY <1>1, <1>6 DEF Typed
  <1>8. /\ IsFiniteSet(records')
        /\ \A c \in records' : ValidRecord(c) /\ c.removed \cup {c.floor} \subseteq D \cup {d}
    BY <1>6 DEF Typed
  <1> QED BY <1>3, <1>5, <1>7, <1>8 DEF Typed, ValidRecord

LEMMA PublishRecordIsTyped ==
    ASSUME Typed, NEW p \in Proc, PublishRecord(p)
    PROVE  Typed'
  <1> DEFINE D == DOMAIN graph
             r == proc[p]
  <1>1. PICK part \in SUBSET r.left, floor \in r.floor :
           /\ VerifyCompaction(SignCompaction(floor, part))
           /\ records' = records \cup {SignCompaction(floor, part)}
           /\ Moves(p, [r EXCEPT !.left = @ \ part,
                                 !.phase = IF part = r.left THEN "delete" ELSE "record"])
    BY DEF PublishRecord
  <1>2. r \in Doings(D) /\ r.phase = "record"
    BY DEF Typed, PublishRecord
  <1>3. [r EXCEPT !.left = @ \ part, !.phase = IF part = r.left THEN "delete" ELSE "record"]
           \in Doings(D)
    <2>1. CASE part = r.left
      <3>1. [r EXCEPT !.left = {}, !.phase = "delete"] \in Doings(D)
        BY <1>2 DEF Doings, Phase
      <3>2. r.left \ part = {}
        BY <2>1
      <3> QED BY <2>1, <3>1, <3>2
    <2>2. CASE part # r.left
      <3>1. r.left \ part \subseteq r.left
        OBVIOUS
      <3>2. [r EXCEPT !.left = r.left \ part, !.phase = "record"] \in Doings(D)
        BY <1>2, <3>1 DEF Doings, Phase
      <3> QED BY <2>2, <3>2
    <2> QED BY <2>1, <2>2
  <1>4. proc' \in [Proc -> Doings(D)]
    BY <1>1, <1>3 DEF Typed, Moves
  <1>5. part \subseteq D /\ floor \in D
    BY <1>2 DEF Doings
  <1>6. IsFiniteSet(records')
    BY <1>1, FS_AddElement DEF Typed
  <1>7. \A c \in records' : ValidRecord(c) /\ c.removed \cup {c.floor} \subseteq D
    <2> DEFINE new == SignCompaction(floor, part)
    <2>1. ValidRecord(new) /\ new.removed \cup {new.floor} \subseteq D
      BY <1>1, <1>5 DEF VerifyCompaction, SignCompaction
    <2> HIDE DEF new
    <2>2. records' = records \cup {new}
      BY <1>1 DEF new
    <2> QED BY <2>1, <2>2 DEF Typed
  <1> QED BY <1>4, <1>6, <1>7 DEF Typed, PublishRecord, Graph, PastOf, Past, ValidRecord

LEMMA DeleteIsTyped ==
    ASSUME Typed, NEW p \in Proc, Delete(p)
    PROVE  Typed'
  <1> DEFINE D == DOMAIN graph
             r == proc[p]
  <1>1. PICK d \in r.gone :
           /\ shown' = shown \ {d}
           /\ Moves(p, IF r.gone = {d} THEN Idle
                       ELSE [r EXCEPT !.gone = @ \ {d}, !.phase = "delete"])
    BY DEF Delete
  <1>2. r \in Doings(D) /\ r.phase = "delete"
    BY DEF Typed, Delete, MayDelete
  <1>3. Idle \in Doings(D)
    BY DEF Idle, Doings, Phase
  <1>4. [r EXCEPT !.gone = @ \ {d}, !.phase = "delete"] \in Doings(D)
    BY <1>2 DEF Doings, Phase
  <1>5. proc' \in [Proc -> Doings(D)]
    BY <1>1, <1>3, <1>4 DEF Typed, Moves
  <1> QED BY <1>1, <1>5 DEF Typed, Delete, Graph, PastOf, Past, ValidRecord

LEMMA TypedStep == Typed /\ [Next]_vars => Typed'
  <1> SUFFICES ASSUME Typed, [Next]_vars PROVE Typed'
    OBVIOUS
  <1>1. CASE UNCHANGED vars
    BY <1>1 DEF Typed, vars, Graph, PastOf, Past, ValidRecord
  <1>2. CASE Next
    <2>1. PICK p \in Proc :
             \/ Edit(p) \/ CompactHistory(p)
             \/ LoadStates(p) \/ ReadRecords(p) \/ AcceptStates(p) \/ LookAgain(p) \/ Publish(p)
             \/ Choose(p) \/ PublishRecord(p) \/ Delete(p) \/ Return(p)
      BY <1>2 DEF Next
    <2> QED BY <2>1, ReadersAreTyped, PublishIsTyped, PublishRecordIsTyped, DeleteIsTyped
  <1> QED BY <1>1, <1>2

\* Whatever the interleaving, the views, heads and records are of revisions
\* that were published, and a process deletes only in the phase for it.
THEOREM TypeCorrect == Spec => []TypeOK
  <1>1. Typed /\ [Next]_vars => Typed'
    BY TypedStep
  <1>2. Init => Typed
    BY InitTyped
  <1>3. Typed => TypeOK
    BY TypedImpliesTypeOK
  <1> QED BY <1>1, <1>2, <1>3, PTL DEF Spec

-----------------------------------------------------------------------------
(***************************************************************************)
(* What storage lacks is excused.                                          *)
(***************************************************************************)
LEMMA KeptStep == Typed /\ Kept /\ [Next]_vars => Kept'
  <1> SUFFICES ASSUME Typed, Kept, [Next]_vars PROVE Kept'
    OBVIOUS
  <1>1. ASSUME UNCHANGED records PROVE LoadCompactions' = LoadCompactions
    BY <1>1 DEF LoadCompactions, VerifyCompaction, ValidRecord
  <1>2. CASE UNCHANGED vars
    BY <1>1, <1>2 DEF Kept, vars
  <1>3. ASSUME NEW p \in Proc, NEW r, Moves(p, r), UNCHANGED <<graph, shown, records>>,
               r.phase \notin {"record", "delete"} \/ r.gone = {}
        PROVE  Kept'
    BY <1>3, MovesKeepsKept
  <1>4. Idle.phase = "idle" /\ Idle.gone = {}
    BY DEF Idle
  <1>5. ASSUME NEW p \in Proc,
               \/ Edit(p) \/ CompactHistory(p) \/ LoadStates(p) \/ ReadRecords(p)
               \/ AcceptStates(p) \/ LookAgain(p) \/ Return(p)
        PROVE  Kept'
    <2> DEFINE r == proc[p]
    <2>1. r \in Doings(DOMAIN graph)
      BY DEF Typed
    <2>2. r.phase \in {"load", "checked", "loaded"} => r.gone = {}
      BY <2>1 DEF Doings
    <2>3. CASE Edit(p)
      <3>1. [Idle EXCEPT !.phase = "load", !.op = "edit"].phase = "load"
        BY DEF Idle
      <3> QED BY <1>3, <2>3, <3>1 DEF Edit
    <2>4. CASE CompactHistory(p)
      <3>1. [Idle EXCEPT !.phase = "load", !.op = "compact"].phase = "load"
        BY DEF Idle
      <3> QED BY <1>3, <2>4, <3>1 DEF CompactHistory
    <2>5. CASE LoadStates(p)
      <3>1. PICK view \in SUBSET shown : Moves(p, [r EXCEPT !.phase = "loaded", !.view = view])
        BY <2>5, LoadStatesMoves
      <3>2. [r EXCEPT !.phase = "loaded", !.view = view].phase = "loaded"
        BY <2>1 DEF Doings
      <3> QED BY <1>3, <2>5, <3>1, <3>2 DEF LoadStates
    <2>6. CASE ReadRecords(p)
      <3>1. PICK e, f, h : Moves(p, [r EXCEPT !.phase = "checked", !.excused = e, !.floors = f,
                                              !.heads = h])
        BY <2>6 DEF ReadRecords
      <3>2. [r EXCEPT !.phase = "checked", !.excused = e, !.floors = f, !.heads = h].phase
               = "checked"
        BY <2>1 DEF Doings
      <3> QED BY <1>3, <2>6, <3>1, <3>2 DEF ReadRecords
    <2>7. CASE AcceptStates(p)
      <3>1. r.gone = {}
        BY <2>2, <2>7 DEF AcceptStates
      <3>2. /\ [r EXCEPT !.phase = "load", !.stage = "again", !.view = {}, !.excused = {},
                         !.floors = {}].phase = "load"
            /\ [r EXCEPT !.phase = "record"].gone = {}
        BY <2>1, <3>1 DEF Doings
      <3> QED BY <1>3, <1>4, <2>7, <3>2 DEF AcceptStates
    <2>8. CASE LookAgain(p)
      <3>1. /\ [r EXCEPT !.phase = "write", !.view = {}, !.excused = {}, !.floors = {}].phase
                  = "write"
            /\ [Idle EXCEPT !.phase = "load", !.op = "edit"].phase = "load"
        BY <2>1 DEF Doings, Idle
      <3> QED BY <1>3, <2>8, <3>1 DEF LookAgain
    <2>9. CASE Return(p)
      BY <1>3, <1>4, <2>9 DEF Return
    <2> QED BY <1>5, <2>3, <2>4, <2>5, <2>6, <2>7, <2>8, <2>9
  <1>6. ASSUME NEW p \in Proc, Publish(p)
        PROVE  Kept'
    <2>1. PICK d \in Rev \ DOMAIN graph :
             /\ DOMAIN graph' = DOMAIN graph \cup {d} /\ shown' = shown \cup {d}
             /\ Moves(p, [Idle EXCEPT !.phase = "load", !.op = "edit", !.stage = "reload",
                                      !.own = {d}])
      BY <1>6 DEF Publish
    <2>2. [Idle EXCEPT !.phase = "load", !.op = "edit", !.stage = "reload", !.own = {d}].phase
             = "load"
      BY DEF Idle
    <2>3. LoadCompactions' = LoadCompactions
      BY <1>1, <1>6 DEF Publish
    <2> QED BY <2>1, <2>2, <2>3 DEF Kept, Moves, Typed
  <1>7. ASSUME NEW p \in Proc, Choose(p)
        PROVE  Kept'
    <2> DEFINE r == proc[p]
    <2>1. PICK f, gone : Moves(p, IF gone = {} THEN Idle
                                  ELSE [r EXCEPT !.floor = {f}, !.left = gone, !.gone = gone])
      BY <1>7 DEF Choose
    <2>2. r.phase = "record" /\ r \in Doings(DOMAIN graph)
      BY <1>7 DEF Choose, Typed
    <2>3. LET s == [r EXCEPT !.floor = {f}, !.left = gone, !.gone = gone]
          IN  s.phase = "record" /\ s.gone \ s.left = {}
      BY <2>2 DEF Doings
    <2> QED BY <1>3, <1>4, <1>7, <2>1, <2>3, MovesKeepsKept DEF Choose
  <1>8. ASSUME NEW p \in Proc, PublishRecord(p)
        PROVE  Kept'
    <2> DEFINE r == proc[p]
    <2>1. PICK part \in SUBSET r.left, floor \in r.floor :
             /\ VerifyCompaction(SignCompaction(floor, part))
             /\ records' = records \cup {SignCompaction(floor, part)}
             /\ Moves(p, [r EXCEPT !.left = @ \ part,
                                   !.phase = IF part = r.left THEN "delete" ELSE "record"])
      BY <1>8 DEF PublishRecord
    <2>2. r.phase = "record" /\ r \in Doings(DOMAIN graph)
      BY <1>8 DEF PublishRecord, Typed
    <2>3. Listed(LoadCompactions') = Listed(LoadCompactions) \cup part
      <3> DEFINE new == SignCompaction(floor, part)
      <3>1. LoadCompactions' = LoadCompactions \cup {new}
        BY <2>1 DEF LoadCompactions, VerifyCompaction, ValidRecord
      <3>2. new.removed = part
        BY DEF SignCompaction
      <3> HIDE DEF new
      <3> QED BY <3>1, <3>2 DEF Listed
    <2> DEFINE s == [r EXCEPT !.left = @ \ part,
                              !.phase = IF part = r.left THEN "delete" ELSE "record"]
    <2>4. /\ s.gone = r.gone /\ s.left = r.left \ part /\ s.phase \in {"delete", "record"}
          /\ s.phase = "delete" => part = r.left
      BY <2>2 DEF Doings
    <2>5. proc' = [proc EXCEPT ![p] = s] /\ UNCHANGED <<graph, shown>>
      BY <1>8, <2>1 DEF PublishRecord, Moves
    <2> HIDE DEF s
    <2>6. r.gone \ r.left \subseteq Listed(LoadCompactions)
      BY <2>2 DEF Kept
    <2>7. \A q \in Proc : proc'[q] = IF q = p THEN s ELSE proc[q]
      BY <2>5 DEF Typed
    <2> QED BY <2>3, <2>4, <2>5, <2>6, <2>7 DEF Kept
  <1>9. ASSUME NEW p \in Proc, Delete(p)
        PROVE  Kept'
    <2> DEFINE r == proc[p]
    <2>1. PICK d \in r.gone :
             /\ shown' = shown \ {d}
             /\ Moves(p, IF r.gone = {d} THEN Idle
                         ELSE [r EXCEPT !.gone = @ \ {d}, !.phase = "delete"])
      BY <1>9 DEF Delete
    <2>2. r.phase = "delete" /\ r \in Doings(DOMAIN graph) /\ UNCHANGED <<graph, records>>
      BY <1>9 DEF Delete, MayDelete, Typed
    <2>3. r.gone \subseteq Listed(LoadCompactions)
      BY <2>2 DEF Kept
    <2> DEFINE s == IF r.gone = {d} THEN Idle ELSE [r EXCEPT !.gone = @ \ {d}, !.phase = "delete"]
    <2>4. s.gone \subseteq r.gone /\ s.phase # "record"
      BY <1>4, <2>2 DEF Doings
    <2> HIDE DEF s
    <2>5. \A q \in Proc : proc'[q] = IF q = p THEN s ELSE proc[q]
      BY <2>1 DEF Moves, Typed, s
    <2>6. LoadCompactions' = LoadCompactions
      BY <1>1, <2>2
    <2> QED BY <2>1, <2>2, <2>3, <2>4, <2>5, <2>6 DEF Kept
  <1> QED BY <1>2, <1>5, <1>6, <1>7, <1>8, <1>9 DEF Next

\* Among the records that do not count, the floor of each is listed by another.
LEMMA UnexcusedMeansCrossed ==
    ASSUME Typed, Kept
    PROVE  DeletionsAreExcused
  <1> SUFFICES ASSUME NEW x \in Device, NEW c \in cp[x],
                      c \notin shown \cup Excused(RecordsFor(x), shown)
               PROVE  Crossed
    BY DEF DeletionsAreExcused, DeletionsStayExcused
  <1> DEFINE R == LoadCompactions
             E == Excused(R, shown)
             circle == {r \in R : r.floor \notin shown \cup E}
  <1>1. RecordsFor(x) = R
    BY DEF RecordsFor, MissesSomething
  <1>2. IsFiniteSet(R) /\ R \subseteq records
    BY FS_Subset DEF Typed, LoadCompactions
  <1>3. \A r \in R : r.floor \in shown \cup E => r \in Applied(R, shown)
    BY <1>2, AppliedIsClosed
  <1>4. ASSUME NEW d \in DOMAIN graph, d \notin shown \cup E
        PROVE  \E r \in circle : d \in r.removed
    <2>1. PICK r \in R : d \in r.removed
      BY <1>4 DEF Kept, Listed
    <2>2. r \notin Applied(R, shown)
      BY <1>4, <2>1 DEF Excused, Listed
    <2> QED BY <1>3, <2>1, <2>2
  <1>5. c \in DOMAIN graph /\ c \notin shown \cup E
    BY <1>1 DEF Typed
  <1>6. circle # {}
    BY <1>4, <1>5
  <1>7. \A r \in circle : \E q \in circle : r.floor \in q.removed
    <2> TAKE r \in circle
    <2>1. r.floor \in DOMAIN graph /\ r.floor \notin shown \cup E
      BY <1>2 DEF Typed
    <2> QED BY <1>4, <2>1
  <1> HIDE DEF E
  <1>8. circle \in (SUBSET R) \ {{}}
    BY <1>6
  <1> HIDE DEF circle
  <1> QED BY <1>7, <1>8 DEF Crossed

\* However compactions, edits and stops interleave and whatever a listing
\* misses, a device is told of a rollback over a deletion only when compactions
\* removed each other's floors.
THEOREM DeletionsAreAlwaysExcused == Spec => []DeletionsAreExcused
  <1>1. Init => Typed /\ Kept
    BY InitTyped
  <1>2. Typed /\ Kept /\ [Next]_vars => (Typed /\ Kept)'
    BY TypedStep, KeptStep
  <1>3. Typed /\ Kept => DeletionsAreExcused
    BY UnexcusedMeansCrossed
  <1> QED BY <1>1, <1>2, <1>3, PTL DEF Spec

-----------------------------------------------------------------------------
(***************************************************************************)
(* Ancestors.                                                              *)
(***************************************************************************)
\* What lies below a revision's past lies in its past.
LEMMA PastIsTransitive ==
    ASSUME Graph, NEW d \in DOMAIN graph, NEW e \in graph[d].anc
    PROVE  e \in DOMAIN graph /\ graph[e].anc \subseteq graph[d].anc
  <1> DEFINE D == DOMAIN graph
             Bad == {b \in D : e \in graph[b].anc /\ ~ graph[e].anc \subseteq graph[b].anc}
             A == {graph[b].anc : b \in Bad}
  <1>1. e \in D
    BY DEF Graph
  <1>2. ASSUME Bad # {} PROVE FALSE
    <2>1. IsWellFoundedOn(StrictSubsetOrdering(D), FiniteSubsetsOf(D))
      BY FS_StrictSubsetOrderingWellFounded
    <2>2. A \subseteq FiniteSubsetsOf(D) /\ A # {}
      <3>1. \A b \in Bad : graph[b].anc \in SUBSET D /\ IsFiniteSet(graph[b].anc)
        BY FS_Subset DEF Graph
      <3> QED BY <1>2, <3>1 DEF FiniteSubsetsOf
    <2>3. PICK S \in A : \A T \in A : ~ (<<T, S>> \in StrictSubsetOrdering(D))
      BY <2>1, <2>2, WFMin
    <2>4. PICK b \in Bad : S = graph[b].anc
      BY <2>3
    <2>5. PICK p \in graph[b].parents : e \in Past(graph, p)
      BY <2>4 DEF Graph, PastOf
    <2>6. /\ p \in D /\ graph[p].anc \subseteq graph[b].anc
          /\ p \in graph[b].anc /\ p \notin graph[p].anc
      BY <2>4, <2>5 DEF Graph, PastOf, Past
    <2>7. p \in Bad
      BY <2>4, <2>5, <2>6 DEF Past
    <2>8. <<graph[p].anc, graph[b].anc>> \in StrictSubsetOrdering(D)
      BY <2>4, <2>6 DEF StrictSubsetOrdering, Graph
    <2> QED BY <2>3, <2>4, <2>7, <2>8
  <1> QED BY <1>1, <1>2

\* The ancestors of d in a view are the least set that holds d and, with a
\* revision, its parents in the view.
LEMMA AncestorsAreLeast ==
    ASSUME NEW view, IsFiniteSet(view), NEW d \in view
    PROVE  /\ Ancestors(view, d) \in SUBSET view
           /\ d \in Ancestors(view, d)
           /\ \A e \in Ancestors(view, d) : graph[e].parents \cap view \subseteq Ancestors(view, d)
           /\ \A S \in SUBSET view :
                 d \in S /\ (\A e \in S : graph[e].parents \cap view \subseteq S)
                    => Ancestors(view, d) \subseteq S
  <1> DEFINE All(S) == UNION {graph[e].parents : e \in S}
             Up(S) == S \cup (All(S) \cap view)
             F == [S \in SUBSET view |-> Up(S)]
             X == {d} \cap view
             A == Passes(F, X, Cardinality(view))
  <1>1. Ancestors(view, d) = A
    BY DEF Ancestors
  <1>2. \A S \in SUBSET view : F[S] = Up(S) /\ S \subseteq F[S] /\ F[S] \subseteq view
    <2> TAKE S \in SUBSET view
    <2>1. Up(S) \subseteq view /\ S \subseteq Up(S)
      <3> HIDE DEF All
      <3> QED OBVIOUS
    <2> HIDE DEF Up
    <2> QED BY <2>1
  <1>3. X \in SUBSET view /\ d \in X
    OBVIOUS
  <1>4. Cardinality(view) \in Nat
    BY FS_CardinalityType
  <1> HIDE DEF F, X
  <1>5. A \in SUBSET view /\ X \subseteq A /\ F[A] = A
    <2> HIDE DEF Up
    <2> QED BY <1>2, <1>3, PassesEnd
  <1> HIDE DEF A
  <1>6. \A e \in A : graph[e].parents \cap view \subseteq A
    <2>1. All(A) \cap view \subseteq A
      <3> HIDE DEF All
      <3> QED BY <1>2, <1>5
    <2> QED BY <2>1
  <1>7. ASSUME NEW S \in SUBSET view, d \in S, \A e \in S : graph[e].parents \cap view \subseteq S
        PROVE  A \subseteq S
    <2>1. \A T \in SUBSET S : F[T] \subseteq S
      <3> TAKE T \in SUBSET S
      <3>1. All(T) \cap view \subseteq S
        BY <1>7
      <3>2. F[T] = Up(T)
        BY <1>2
      <3> HIDE DEF All
      <3> QED BY <3>1, <3>2
    <2>2. X \subseteq S
      BY <1>7 DEF X
    <2> HIDE DEF Up
    <2> QED BY <1>4, <2>1, <2>2, PassesStay DEF A
  <1> QED BY <1>1, <1>3, <1>5, <1>6, <1>7

\* A path through a view stays in the past, and can be continued.
LEMMA AncestorsArePast ==
    ASSUME Graph, NEW view \in SUBSET DOMAIN graph, NEW d \in view
    PROVE  /\ Ancestors(view, d) \subseteq Past(graph, d)
           /\ \A e \in Ancestors(view, d) : Ancestors(view, e) \subseteq Ancestors(view, d)
  <1>1. IsFiniteSet(view)
    BY FS_Subset DEF Graph
  <1> DEFINE S == Past(graph, d) \cap view
  <1>2. \A e \in S : graph[e].parents \cap view \subseteq S
    <2> TAKE e \in S
    <2>1. e \in DOMAIN graph /\ graph[e].parents \subseteq graph[e].anc
      BY DEF Graph, PastOf, Past
    <2>2. graph[e].anc \subseteq Past(graph, d)
      BY PastIsTransitive DEF Past
    <2> QED BY <2>1, <2>2
  <1>3. d \in S /\ S \in SUBSET view
    BY DEF Past
  <1> HIDE DEF S
  <1>4. Ancestors(view, d) \subseteq S
    BY <1>1, <1>2, <1>3, AncestorsAreLeast
  <1>5. ASSUME NEW e \in Ancestors(view, d)
        PROVE  Ancestors(view, e) \subseteq Ancestors(view, d)
    <2> DEFINE T == Ancestors(view, d)
    <2>1. T \in SUBSET view /\ \A c \in T : graph[c].parents \cap view \subseteq T
      BY <1>1, AncestorsAreLeast
    <2>2. e \in T /\ e \in view
      BY <1>5, <2>1
    <2> HIDE DEF T
    <2>3. Ancestors(view, e) \subseteq T
      BY <1>1, <2>1, <2>2, AncestorsAreLeast
    <2> QED BY <2>3 DEF T
  <1> QED BY <1>4, <1>5 DEF S

\* Above every revision of a view there is a head of it.
LEMMA HeadAbove ==
    ASSUME Graph, NEW view \in SUBSET DOMAIN graph, NEW f \in view
    PROVE  \E h \in Heads(graph, view) : f \in Ancestors(view, h)
  <1> DEFINE D == DOMAIN graph
             T == {d \in view : f \in Ancestors(view, d)}
             A == {D \ Past(graph, d) : d \in T}
  <1>1. IsFiniteSet(view) /\ IsFiniteSet(D)
    BY FS_Subset DEF Graph
  <1>2. f \in T
    BY <1>1, AncestorsAreLeast
  <1>3. IsWellFoundedOn(StrictSubsetOrdering(D), FiniteSubsetsOf(D))
    BY FS_StrictSubsetOrderingWellFounded
  <1>4. A \subseteq FiniteSubsetsOf(D) /\ A # {}
    <2>1. \A d \in T : D \ Past(graph, d) \in SUBSET D /\ IsFiniteSet(D \ Past(graph, d))
      BY <1>1, FS_Subset
    <2> QED BY <1>2, <2>1 DEF FiniteSubsetsOf
  <1>5. PICK S \in A : \A U \in A : ~ (<<U, S>> \in StrictSubsetOrdering(D))
    BY <1>3, <1>4, WFMin
  <1>6. PICK h \in T : S = D \ Past(graph, h)
    BY <1>5
  <1>7. ASSUME NEW e \in view, h \in graph[e].parents PROVE FALSE
    <2>1. e \in Ancestors(view, e) /\ h \in Ancestors(view, e)
      BY <1>1, <1>6, <1>7, AncestorsAreLeast
    <2>2. f \in Ancestors(view, e)
      BY <1>6, <2>1, AncestorsArePast
    <2>3. e \in T
      BY <2>2
    <2>4. h \in graph[e].anc /\ e \notin graph[e].anc /\ e \in D
      BY <1>7 DEF Graph, PastOf, Past
    <2>5. Past(graph, h) \subseteq Past(graph, e) /\ e \in Past(graph, e) /\ e \notin Past(graph, h)
      BY <2>4, PastIsTransitive DEF Past
    <2>6. <<D \ Past(graph, e), D \ Past(graph, h)>> \in StrictSubsetOrdering(D)
      BY <2>4, <2>5 DEF StrictSubsetOrdering
    <2> QED BY <1>5, <1>6, <2>3, <2>6
  <1>8. h \in Heads(graph, view)
    BY <1>6, <1>7 DEF Heads
  <1> QED BY <1>6, <1>8

-----------------------------------------------------------------------------
(***************************************************************************)
(* Readable afterwards: with listings that miss nothing, and compactions   *)
(* that fit one record, the floors of two records are never both shown     *)
(* once the listed revisions are gone.                                     *)
(***************************************************************************)
OneRecord == IsFiniteSet(Rev) /\ Cardinality(Rev) <= RecordSize

Gone == Listed(LoadCompactions)

Sees(p) == proc[p].phase \in {"loaded", "checked", "record"}

\* V was loaded before W: a path from W to V's revisions does not leave V.
Before(V, W) == V \subseteq W \cup Gone /\ \A d \in V : Past(graph, d) \cap W \subseteq V

\* A view, long after it was loaded: what it lacks of its own past is gone, and
\* a record about a revision it does not hold has put an end to it.
Snapshot(V) ==
    /\ \A d \in V : Past(graph, d) \subseteq V \cup Gone
    /\ \A d \in V : Past(graph, d) \cap shown \subseteq V
    /\ \A r \in LoadCompactions : r.floor \in V \cup Gone \/ V \subseteq Gone

Snapshots ==
    \A p \in Proc : Sees(p) =>
        /\ Snapshot(proc[p].view)
        /\ \A q \in Proc : Sees(q) =>
              Before(proc[p].view, proc[q].view) \/ Before(proc[q].view, proc[p].view)

\* What a process chose: it removes what is not above its floor.
Choice(r) ==
    r.phase = "record" /\ r.gone # {} =>
        /\ r.left = r.gone
        /\ \E f \in r.view : r.floor = {f} /\ \A d \in r.view : d \in r.gone \/ f \in Past(graph, d)

FloorsDiffer ==
    /\ \A r \in LoadCompactions : graph[r.floor].anc \subseteq Gone
    /\ \A r, s \in LoadCompactions : r.floor = s.floor \/ r.floor \in Gone \/ s.floor \in Gone

Ordered == Snapshots /\ (\A p \in Proc : Choice(proc[p])) /\ FloorsDiffer /\ DOMAIN graph # {}

LEMMA InitOrdered == Init => Ordered
  <1> SUFFICES ASSUME Init PROVE Ordered
    OBVIOUS
  <1>1. LoadCompactions = {}
    BY DEF Init, LoadCompactions, VerifyCompaction
  <1>2. \A p \in Proc : proc[p].phase = "idle" /\ proc[p].gone = {}
    BY DEF Init, Idle
  <1>3. DOMAIN graph # {}
    BY CompactionOK DEF Init
  <1> QED BY <1>1, <1>2, <1>3 DEF Ordered, Snapshots, Sees, Choice, FloorsDiffer

\* A step that moves a process on with the view it has.
LEMMA MovesKeepsOrdered ==
    ASSUME Typed, Ordered, NEW p \in Proc, NEW r, Moves(p, r), UNCHANGED <<graph, shown, records>>,
           r.phase \in {"loaded", "checked", "record"} => Sees(p) /\ r.view = proc[p].view,
           Choice(r)
    PROVE  Ordered'
  <1>1. LoadCompactions' = LoadCompactions /\ Gone' = Gone
    BY DEF LoadCompactions, VerifyCompaction, ValidRecord, Gone, Listed
  <1>2. \A q \in Proc : proc'[q] = IF q = p THEN r ELSE proc[q]
    BY DEF Moves, Typed
  <1>3. \A q \in Proc : Sees(q)' => Sees(q) /\ proc'[q].view = proc[q].view
    BY <1>2 DEF Sees
  <1>4. \A V : Snapshot(V)' = Snapshot(V)
    BY <1>1 DEF Snapshot, Past
  <1>5. \A V, W : Before(V, W)' = Before(V, W)
    BY <1>1 DEF Before, Past
  <1>6. Snapshots'
    BY <1>3, <1>4, <1>5 DEF Ordered, Snapshots
  <1>7. \A q \in Proc : Choice(proc[q])'
    <2> TAKE q \in Proc
    <2>1. CASE q = p
      BY <1>2, <2>1 DEF Choice, Past
    <2>2. CASE q # p
      BY <1>2, <2>2 DEF Ordered, Choice, Past
    <2> QED BY <2>1, <2>2
  <1> QED BY <1>1, <1>6, <1>7 DEF Ordered, FloorsDiffer

\* A load that misses nothing takes a snapshot.
LEMMA LoadSeesShown ==
    ASSUME Typed, ~ Lagging, NEW p \in Proc, NEW view, Loads(p, view)
    PROVE  view = shown
  <1>1. view = UNION {Ancestors(shown, d) :
                      d \in shown \cup (shown \cap (proc[p].own \cup cp[DeviceOf[p]]))}
    BY DEF Loads
  <1>2. IsFiniteSet(shown)
    BY FS_Subset DEF Typed, Graph
  <1>3. \A d \in shown : d \in Ancestors(shown, d) /\ Ancestors(shown, d) \subseteq shown
    BY <1>2, AncestorsAreLeast
  <1> QED BY <1>1, <1>3

LEMMA LoadKeepsOrdered ==
    ASSUME Typed, Kept, Ordered, ~ Lagging, NEW p \in Proc, LoadStates(p)
    PROVE  Ordered'
  <1> DEFINE r == [proc[p] EXCEPT !.phase = "loaded", !.view = shown]
             D == DOMAIN graph
  <1>1. Moves(p, r)
    <2>1. PICK view \in SUBSET shown :
             Loads(p, view) /\ Moves(p, [proc[p] EXCEPT !.phase = "loaded", !.view = view])
      BY LoadStatesMoves
    <2>2. view = shown
      BY <2>1, LoadSeesShown
    <2> QED BY <2>1, <2>2
  <1>2. UNCHANGED <<graph, shown, records>>
    BY DEF LoadStates
  <1>3. LoadCompactions' = LoadCompactions /\ Gone' = Gone
    BY <1>2 DEF LoadCompactions, VerifyCompaction, ValidRecord, Gone, Listed
  <1>4. r.phase = "loaded" /\ r.view = shown
    BY DEF Typed, Doings
  <1> HIDE DEF r
  <1>5. \A q \in Proc : proc'[q] = IF q = p THEN r ELSE proc[q]
    BY <1>1 DEF Moves, Typed
  <1>6. \A V : Snapshot(V)' = Snapshot(V)
    BY <1>2, <1>3 DEF Snapshot, Past
  <1>7. \A V, W : Before(V, W)' = Before(V, W)
    BY <1>2, <1>3 DEF Before, Past
  <1>8. D \subseteq shown \cup Gone /\ shown \subseteq D
    BY DEF Kept, Gone, Typed
  <1>9. \A d \in D : Past(graph, d) \subseteq D
    BY DEF Typed, Graph, Past
  <1>10. Snapshot(shown)
    <2>1. \A c \in LoadCompactions : c.floor \in D
      BY DEF Typed, LoadCompactions
    <2> QED BY <1>8, <1>9, <2>1 DEF Snapshot
  <1>11. \A q \in Proc : q # p /\ Sees(q) => Before(proc[q].view, shown)
    <2> TAKE q \in Proc
    <2>1. proc[q].view \subseteq D
      BY DEF Typed, Doings
    <2> QED BY <1>8, <2>1 DEF Ordered, Snapshots, Snapshot, Before
  <1>12. Before(shown, shown)
    BY DEF Before
  <1>13. \A q \in Proc : q # p => (Sees(q)' = Sees(q) /\ proc'[q].view = proc[q].view)
    BY <1>5 DEF Sees
  <1>14. proc'[p].view = shown
    BY <1>4, <1>5
  <1>15. Snapshots'
    <2> SUFFICES ASSUME NEW a \in Proc, Sees(a)', NEW b \in Proc, Sees(b)'
                 PROVE  /\ Snapshot(proc'[a].view)
                        /\ \/ Before(proc'[a].view, proc'[b].view)
                           \/ Before(proc'[b].view, proc'[a].view)
      BY <1>6, <1>7 DEF Snapshots
    <2>1. CASE a = p /\ b = p
      BY <1>10, <1>12, <1>14, <2>1
    <2>2. CASE a = p /\ b # p
      BY <1>10, <1>11, <1>13, <1>14, <2>2
    <2>3. CASE a # p /\ b = p
      BY <1>11, <1>13, <1>14, <2>3 DEF Ordered, Snapshots
    <2>4. CASE a # p /\ b # p
      BY <1>13, <2>4 DEF Ordered, Snapshots
    <2> QED BY <2>1, <2>2, <2>3, <2>4
  <1>16. \A q \in Proc : Choice(proc[q])'
    BY <1>2, <1>4, <1>5 DEF Ordered, Choice, Past
  <1> QED BY <1>2, <1>3, <1>15, <1>16 DEF Ordered, FloorsDiffer

\* What is chosen is all that is not above the floor.
LEMMA ChooseKeepsOrdered ==
    ASSUME Typed, Ordered, NEW p \in Proc, Choose(p)
    PROVE  Ordered'
  <1> DEFINE r == proc[p]
             head == CHOOSE h \in r.heads : TRUE
             Goes(floor) == r.view \ KeptRevisions(r.view, head, floor)
             Then(floor) ==
               [r EXCEPT !.floor = {floor}, !.left = Goes(floor), !.gone = Goes(floor)]
  <1>1. /\ r.phase = "record" /\ r \in Doings(DOMAIN graph)
        /\ head \in r.heads /\ r.heads \subseteq r.view /\ r.view \subseteq DOMAIN graph
    BY DEF Typed, Choose, Doings
  <1>2. PICK keep \in Keep :
           LET floor == Floor(r.view, head, keep)
           IN  Moves(p, IF Goes(floor) = {} THEN Idle ELSE Then(floor))
    BY DEF Choose
  <1> DEFINE floor == Floor(r.view, head, keep)
  <1>3. Moves(p, IF Goes(floor) = {} THEN Idle ELSE Then(floor))
    BY <1>2
  <1> HIDE DEF head
  <1>4. floor \in r.view
    <2>1. keep \in Nat \ {0} /\ head \in r.view /\ r.view \in SUBSET Rev
      BY <1>1, CompactionOK DEF Typed, Graph
    <2> QED BY <2>1, FloorOfView
  <1> HIDE DEF floor
  <1>5. \A d \in r.view : d \in Goes(floor) \/ floor \in Past(graph, d)
    <2> TAKE d \in r.view
    <2>1. d \in KeptRevisions(r.view, head, floor) => floor \in Ancestors(r.view, d)
      BY DEF KeptRevisions
    <2>2. Ancestors(r.view, d) \subseteq Past(graph, d)
      BY <1>1, AncestorsArePast DEF Typed
    <2> QED BY <2>1, <2>2
  <1> HIDE DEF Goes
  <1>6. LET s == Then(floor)
        IN  /\ s.phase = "record" /\ s.view = r.view /\ s.left = Goes(floor) /\ s.gone = Goes(floor)
            /\ s.floor = {floor}
    BY <1>1 DEF Doings
  <1>7. Choice(Then(floor))
    BY <1>4, <1>5, <1>6 DEF Choice
  <1>8. Choice(Idle) /\ Idle.phase = "idle"
    BY DEF Choice, Idle
  <1>9. UNCHANGED <<graph, shown, records>> /\ Sees(p)
    BY <1>1 DEF Choose, Sees
  <1> HIDE DEF Then
  <1>10. CASE Goes(floor) = {}
    BY <1>3, <1>8, <1>9, <1>10, MovesKeepsOrdered
  <1>11. CASE Goes(floor) # {}
    BY <1>3, <1>6, <1>7, <1>9, <1>11, MovesKeepsOrdered
  <1> QED BY <1>10, <1>11

LEMMA ReadersKeepOrdered ==
    ASSUME Typed, Ordered, NEW p \in Proc,
           \/ Edit(p) \/ CompactHistory(p) \/ ReadRecords(p)
           \/ AcceptStates(p) \/ LookAgain(p) \/ Return(p)
    PROVE  Ordered'
  <1> DEFINE r == proc[p]
  <1>1. r \in Doings(DOMAIN graph)
    BY DEF Typed
  <1>2. r.phase \in {"load", "checked", "loaded"} => r.gone = {}
    BY <1>1 DEF Doings
  <1>3. ASSUME NEW s, Moves(p, s), UNCHANGED <<graph, shown, records>>,
               s.phase \in {"loaded", "checked", "record"} => Sees(p) /\ s.view = r.view,
               s.phase = "record" => s.gone = {}
        PROVE  Ordered'
    <2>1. Choice(s)
      BY <1>3 DEF Choice
    <2> QED BY <1>3, <2>1, MovesKeepsOrdered
  <1>4. Idle.phase = "idle"
    BY DEF Idle
  <1>5. CASE Edit(p)
    <2>1. [Idle EXCEPT !.phase = "load", !.op = "edit"].phase = "load"
      BY DEF Idle
    <2> QED BY <1>3, <1>5, <2>1 DEF Edit
  <1>6. CASE CompactHistory(p)
    <2>1. [Idle EXCEPT !.phase = "load", !.op = "compact"].phase = "load"
      BY DEF Idle
    <2> QED BY <1>3, <1>6, <2>1 DEF CompactHistory
  <1>7. CASE ReadRecords(p)
    <2>1. PICK e, f, h : Moves(p, [r EXCEPT !.phase = "checked", !.excused = e, !.floors = f,
                                            !.heads = h])
      BY <1>7 DEF ReadRecords
    <2>2. LET s == [r EXCEPT !.phase = "checked", !.excused = e, !.floors = f, !.heads = h]
          IN  s.phase = "checked" /\ s.view = r.view
      BY <1>1 DEF Doings
    <2> QED BY <1>3, <1>7, <2>1, <2>2 DEF ReadRecords, Sees
  <1>8. CASE AcceptStates(p)
    <2>1. r.gone = {} /\ Sees(p)
      BY <1>2, <1>8 DEF AcceptStates, Sees
    <2>2. /\ [r EXCEPT !.phase = "load", !.stage = "again", !.view = {}, !.excused = {},
                       !.floors = {}].phase = "load"
          /\ [r EXCEPT !.phase = "record"].gone = {}
          /\ [r EXCEPT !.phase = "record"].view = r.view
      BY <1>1, <2>1 DEF Doings
    <2> QED BY <1>3, <1>4, <1>8, <2>1, <2>2 DEF AcceptStates
  <1>9. CASE LookAgain(p)
    <2>1. /\ [r EXCEPT !.phase = "write", !.view = {}, !.excused = {}, !.floors = {}].phase
                = "write"
          /\ [Idle EXCEPT !.phase = "load", !.op = "edit"].phase = "load"
      BY <1>1 DEF Doings, Idle
    <2> QED BY <1>3, <1>9, <2>1 DEF LookAgain
  <1>10. CASE Return(p)
    BY <1>3, <1>4, <1>10 DEF Return
  <1> QED BY <1>5, <1>6, <1>7, <1>8, <1>9, <1>10

\* A new revision is above what it was built on and in nobody's view yet.
LEMMA PublishKeepsOrdered ==
    ASSUME Typed, Ordered, NEW p \in Proc, Publish(p)
    PROVE  Ordered'
  <1> DEFINE D == DOMAIN graph
             s == [Idle EXCEPT !.phase = "load", !.op = "edit", !.stage = "reload"]
  <1>1. PICK d \in Rev \ D :
           /\ DOMAIN graph' = D \cup {d} /\ \A e \in D : graph'[e] = graph[e]
           /\ shown' = shown \cup {d}
           /\ Moves(p, [s EXCEPT !.own = {d}])
    BY DEF Publish, Idle
  <1>2. LoadCompactions' = LoadCompactions /\ Gone' = Gone
    BY DEF Publish, LoadCompactions, VerifyCompaction, ValidRecord, Gone, Listed
  <1>3. [s EXCEPT !.own = {d}].phase = "load"
    BY DEF Idle
  <1> HIDE DEF s
  <1>4. \A q \in Proc : Sees(q)' => q # p /\ Sees(q) /\ proc'[q] = proc[q]
    BY <1>1, <1>3 DEF Sees, Moves, Typed
  <1>5. \A e \in D : Past(graph', e) = Past(graph, e) /\ Past(graph, e) \subseteq D
    BY <1>1 DEF Past, Typed, Graph
  <1>6. \A q \in Proc : proc[q].view \in SUBSET D
    BY DEF Typed, Doings
  <1>7. Snapshots'
    <2> SUFFICES ASSUME NEW a \in Proc, Sees(a)', NEW b \in Proc, Sees(b)'
                 PROVE  /\ Snapshot(proc[a].view)'
                        /\ \/ Before(proc[a].view, proc[b].view)'
                           \/ Before(proc[b].view, proc[a].view)'
      BY DEF Snapshots
    <2>1. Sees(a) /\ Sees(b) /\ proc'[a] = proc[a] /\ proc'[b] = proc[b]
      BY <1>4
    <2>2. /\ Snapshot(proc[a].view)
          /\ Before(proc[a].view, proc[b].view) \/ Before(proc[b].view, proc[a].view)
      BY <2>1 DEF Ordered, Snapshots
    <2>3. Snapshot(proc[a].view)'
      BY <1>1, <1>2, <1>5, <1>6, <2>1, <2>2 DEF Snapshot
    <2>4. Before(proc[a].view, proc[b].view) => Before(proc[a].view, proc[b].view)'
      BY <1>2, <1>5, <1>6, <2>1 DEF Before
    <2>5. Before(proc[b].view, proc[a].view) => Before(proc[b].view, proc[a].view)'
      BY <1>2, <1>5, <1>6, <2>1 DEF Before
    <2> QED BY <2>2, <2>3, <2>4, <2>5
  <1>8. \A q \in Proc : Choice(proc[q])'
    <2> TAKE q \in Proc
    <2>1. CASE q = p
      BY <1>1, <1>3, <2>1 DEF Choice, Moves, Typed
    <2>2. CASE q # p
      <3>1. proc'[q] = proc[q]
        BY <1>1, <2>2 DEF Moves, Typed
      <3>2. Choice(proc[q])
        BY DEF Ordered
      <3> QED BY <1>5, <1>6, <3>1, <3>2 DEF Choice
    <2> QED BY <2>1, <2>2
  <1>9. FloorsDiffer'
    <2>1. \A r \in LoadCompactions : r.floor \in D
      BY DEF Typed, LoadCompactions
    <2> QED BY <1>1, <1>2, <2>1 DEF Ordered, FloorsDiffer
  <1> QED BY <1>1, <1>7, <1>8, <1>9 DEF Ordered

LEMMA DeleteKeepsOrdered ==
    ASSUME Typed, Ordered, NEW p \in Proc, Delete(p)
    PROVE  Ordered'
  <1> DEFINE r == proc[p]
  <1>1. PICK d \in r.gone :
           /\ shown' = shown \ {d}
           /\ Moves(p, IF r.gone = {d} THEN Idle
                       ELSE [r EXCEPT !.gone = @ \ {d}, !.phase = "delete"])
    BY DEF Delete
  <1> DEFINE s == IF r.gone = {d} THEN Idle ELSE [r EXCEPT !.gone = @ \ {d}, !.phase = "delete"]
  <1>2. s.phase \in {"idle", "delete"}
    BY DEF Idle, Typed, Doings
  <1> HIDE DEF s
  <1>3. \A q \in Proc : proc'[q] = IF q = p THEN s ELSE proc[q]
    BY <1>1 DEF Moves, Typed, s
  <1>4. LoadCompactions' = LoadCompactions /\ Gone' = Gone /\ UNCHANGED graph
    BY DEF Delete, LoadCompactions, VerifyCompaction, ValidRecord, Gone, Listed
  <1>5. \A q \in Proc : Sees(q)' => Sees(q) /\ proc'[q] = proc[q]
    BY <1>2, <1>3 DEF Sees
  <1>6. \A V : Snapshot(V) => Snapshot(V)'
    BY <1>1, <1>4 DEF Snapshot, Past
  <1>7. \A V, W : Before(V, W)' = Before(V, W)
    BY <1>4 DEF Before, Past
  <1>8. Snapshots'
    BY <1>5, <1>6, <1>7 DEF Ordered, Snapshots
  <1>9. \A q \in Proc : Choice(proc[q])'
    BY <1>2, <1>3, <1>4 DEF Ordered, Choice, Past
  <1> QED BY <1>4, <1>8, <1>9 DEF Ordered, FloorsDiffer

\* One record lists everything a compaction removes.
LEMMA OneRecordIsAll ==
    ASSUME Typed, OneRecord, NEW p \in Proc, NEW part \in SUBSET proc[p].left,
           part = proc[p].left \/ Cardinality(part) = RecordSize
    PROVE  part = proc[p].left
  <1> SUFFICES ASSUME Cardinality(part) = RecordSize PROVE part = proc[p].left
    OBVIOUS
  <1>1. proc[p].left \subseteq Rev /\ part \subseteq Rev
    BY DEF Typed, Doings, Graph
  <1>2. /\ Cardinality(part) <= Cardinality(Rev)
        /\ part = Rev \/ Cardinality(part) # Cardinality(Rev)
    BY <1>1, FS_Subset DEF OneRecord
  <1>3. Cardinality(Rev) \in Nat /\ RecordSize \in Nat
    BY FS_CardinalityType, CompactionOK DEF OneRecord
  <1>4. Cardinality(part) = Cardinality(Rev)
    BY <1>2, <1>3 DEF OneRecord
  <1> QED BY <1>1, <1>2, <1>4

\* A record leaves the views of the others snapshots, and its floor apart from
\* the earlier ones.
LEMMA PublishRecordKeepsOrdered ==
    ASSUME Typed, Ordered, OneRecord, NEW p \in Proc, PublishRecord(p)
    PROVE  Ordered'
  <1> DEFINE r == proc[p]
             D == DOMAIN graph
  <1>1. PICK part \in SUBSET r.left, floor \in r.floor :
           /\ part = r.left \/ Cardinality(part) = RecordSize
           /\ VerifyCompaction(SignCompaction(floor, part))
           /\ records' = records \cup {SignCompaction(floor, part)}
           /\ Moves(p, [r EXCEPT !.left = @ \ part,
                                 !.phase = IF part = r.left THEN "delete" ELSE "record"])
    BY DEF PublishRecord
  <1>2. r.phase = "record" /\ r.left # {} /\ r \in Doings(D) /\ UNCHANGED <<graph, shown>>
    BY DEF PublishRecord, Typed
  <1>3. part = r.left
    BY <1>1, OneRecordIsAll
  <1>4. /\ part = r.gone /\ floor \in r.view /\ r.floor = {floor}
        /\ \A d \in r.view : d \in part \/ floor \in Past(graph, d)
    <2>1. r.gone # {}
      BY <1>2 DEF Doings
    <2> QED BY <1>1, <1>2, <1>3, <2>1 DEF Ordered, Choice
  <1> DEFINE new == SignCompaction(floor, part)
  <1>5. LoadCompactions' = LoadCompactions \cup {new}
    BY <1>1 DEF LoadCompactions, VerifyCompaction, ValidRecord
  <1>6. new.floor = floor /\ new.removed = part
    BY DEF SignCompaction
  <1> HIDE DEF new
  <1>7. Gone' = Gone \cup part
    BY <1>5, <1>6 DEF Gone, Listed
  <1>8. /\ Sees(p) /\ r.view \subseteq D /\ floor \in D
        /\ \A c \in LoadCompactions : c.floor \in D
    BY <1>2, <1>4 DEF Sees, Doings, Typed, LoadCompactions
  <1>9. Snapshot(r.view)
    BY <1>8 DEF Ordered, Snapshots
  <1>10. \A a \in graph[floor].anc : a \in Gone'
    <2> TAKE a \in graph[floor].anc
    <2>1. a \in r.view \cup Gone
      BY <1>4, <1>9 DEF Snapshot, Past
    <2>2. floor \notin Past(graph, a)
      <3>1. a # floor /\ floor \notin graph[floor].anc
        BY <1>8 DEF Typed, Graph
      <3>2. graph[a].anc \subseteq graph[floor].anc
        BY <1>8, PastIsTransitive DEF Typed
      <3> QED BY <3>1, <3>2 DEF Past
    <2> QED BY <1>4, <1>7, <2>1, <2>2
  <1>11. \A c \in LoadCompactions : c.floor = floor \/ c.floor \in Gone' \/ floor \in Gone'
    <2> TAKE c \in LoadCompactions
    <2>1. CASE c.floor \in r.view
      <3>1. c.floor \in part \/ floor \in Past(graph, c.floor)
        BY <1>4, <2>1
      <3>2. graph[c.floor].anc \subseteq Gone
        BY DEF Ordered, FloorsDiffer
      <3> QED BY <1>7, <3>1, <3>2 DEF Past
    <2>2. CASE c.floor \in Gone
      BY <1>7, <2>2
    <2>3. CASE r.view \subseteq Gone
      BY <1>4, <1>7, <2>3
    <2> QED BY <1>9, <2>1, <2>2, <2>3 DEF Snapshot
  <1>12. FloorsDiffer'
    <2>1. \A c \in LoadCompactions' : c = new \/ c \in LoadCompactions
      BY <1>5
    <2>2. Gone \subseteq Gone'
      BY <1>7
    <2>3. \A c \in LoadCompactions' : graph'[c.floor].anc \subseteq Gone'
      BY <1>2, <1>6, <1>10, <2>1, <2>2 DEF Ordered, FloorsDiffer
    <2>4. \A b, c \in LoadCompactions' : b.floor = c.floor \/ b.floor \in Gone' \/ c.floor \in Gone'
      BY <1>6, <1>11, <2>1, <2>2 DEF Ordered, FloorsDiffer
    <2> QED BY <2>3, <2>4 DEF FloorsDiffer
  <1> DEFINE s == [r EXCEPT !.left = @ \ part,
                            !.phase = IF part = r.left THEN "delete" ELSE "record"]
  <1>13. s.phase = "delete"
    BY <1>2, <1>3 DEF Doings
  <1> HIDE DEF s
  <1>14. \A q \in Proc : proc'[q] = IF q = p THEN s ELSE proc[q]
    BY <1>1 DEF Moves, Typed, s
  <1>15. \A q \in Proc : Sees(q)' => q # p /\ Sees(q) /\ proc'[q] = proc[q]
    BY <1>13, <1>14 DEF Sees
  <1>16. \A V, W : Before(V, W) => Before(V, W)'
    BY <1>2, <1>7 DEF Before, Past
  <1>17. ASSUME NEW q \in Proc, Sees(q)
         PROVE  floor \in proc[q].view \cup Gone' \/ proc[q].view \subseteq Gone'
    <2> DEFINE V == proc[q].view
    <2>1. CASE Before(r.view, V)
      BY <1>4, <1>7, <2>1 DEF Before
    <2>2. CASE Before(V, r.view)
      <3>1. SUFFICES ASSUME floor \notin V, NEW d \in V PROVE d \in Gone'
        OBVIOUS
      <3>2. d \in r.view \/ d \in Gone
        BY <2>2 DEF Before
      <3>3. floor \notin Past(graph, d)
        BY <1>4, <2>2, <3>1 DEF Before
      <3> QED BY <1>4, <1>7, <3>2, <3>3
    <2> QED BY <1>8, <1>17, <2>1, <2>2 DEF Ordered, Snapshots
  <1>18. ASSUME NEW q \in Proc, Sees(q), q # p
         PROVE  Snapshot(proc[q].view)'
    <2>1. Snapshot(proc[q].view) /\ proc'[q] = proc[q]
      BY <1>14, <1>18 DEF Ordered, Snapshots
    <2>2. \A c \in LoadCompactions' :
             c.floor \in proc[q].view \cup Gone' \/ proc[q].view \subseteq Gone'
      <3> TAKE c \in LoadCompactions'
      <3>1. CASE c = new
        BY <1>6, <1>17, <1>18, <3>1
      <3>2. CASE c \in LoadCompactions
        BY <1>7, <2>1, <3>2 DEF Snapshot
      <3> QED BY <1>5, <3>1, <3>2
    <2> QED BY <1>2, <1>7, <2>1, <2>2 DEF Snapshot, Past
  <1>19. Snapshots'
    <2> SUFFICES ASSUME NEW a \in Proc, Sees(a)', NEW b \in Proc, Sees(b)'
                 PROVE  /\ Snapshot(proc[a].view)'
                        /\ \/ Before(proc[a].view, proc[b].view)'
                           \/ Before(proc[b].view, proc[a].view)'
      BY DEF Snapshots
    <2>1. /\ a # p /\ Sees(a) /\ proc'[a] = proc[a]
          /\ b # p /\ Sees(b) /\ proc'[b] = proc[b]
      BY <1>15
    <2>2. Before(proc[a].view, proc[b].view) \/ Before(proc[b].view, proc[a].view)
      BY <2>1 DEF Ordered, Snapshots
    <2>3. /\ Before(proc[a].view, proc[b].view) => Before(proc[a].view, proc[b].view)'
          /\ Before(proc[b].view, proc[a].view) => Before(proc[b].view, proc[a].view)'
      BY <1>2, <1>7, <2>1 DEF Before, Past
    <2> QED BY <1>18, <2>1, <2>2, <2>3
  <1>20. \A q \in Proc : Choice(proc[q])'
    BY <1>2, <1>13, <1>14 DEF Ordered, Choice, Past
  <1> QED BY <1>2, <1>12, <1>19, <1>20 DEF Ordered

LEMMA OrderedStep ==
    ASSUME ~ Lagging, OneRecord
    PROVE  Typed /\ Kept /\ Ordered /\ [Next]_vars => Ordered'
  <1> SUFFICES ASSUME Typed, Kept, Ordered, [Next]_vars PROVE Ordered'
    OBVIOUS
  <1>1. CASE UNCHANGED vars
    <2>1. UNCHANGED <<graph, shown, records, proc>>
      BY <1>1 DEF vars
    <2>2. LoadCompactions' = LoadCompactions /\ Gone' = Gone
      BY <2>1 DEF LoadCompactions, VerifyCompaction, ValidRecord, Gone, Listed
    <2> QED BY <2>1, <2>2
            DEF Ordered, Snapshots, Snapshot, Before, Sees, Choice, FloorsDiffer, Past
  <1>2. CASE Next
    <2>1. PICK p \in Proc :
             \/ Edit(p) \/ CompactHistory(p)
             \/ LoadStates(p) \/ ReadRecords(p) \/ AcceptStates(p) \/ LookAgain(p) \/ Publish(p)
             \/ Choose(p) \/ PublishRecord(p) \/ Delete(p) \/ Return(p)
      BY <1>2 DEF Next
    <2> QED BY <2>1, ReadersKeepOrdered, LoadKeepsOrdered, PublishKeepsOrdered,
               ChooseKeepsOrdered, PublishRecordKeepsOrdered, DeleteKeepsOrdered
  <1> QED BY <1>1, <1>2

\* The head above the one floor that is shown is trusted.
LEMMA OrderedIsReadable ==
    ASSUME Typed, Kept, Ordered, Carried, ~ Crossed
    PROVE  SomeHeadIsTrusted
  <1> DEFINE R == LoadCompactions
             D == DOMAIN graph
  <1>1. shown \in SUBSET D /\ Graph /\ D \subseteq shown \cup Gone
    BY DEF Typed, Kept, Gone
  <1>2. shown \cap Gone = {}
    BY DEF Carried, Gone, Listed
  <1>3. PICK f \in shown : R # {} => \E r \in R : r.floor = f
    <2>1. CASE R = {}
      <3>1. shown # {}
        BY <1>1, <2>1 DEF Ordered, Gone, Listed
      <3> QED BY <2>1, <3>1
    <2>2. CASE R # {} /\ \E r \in R : r.floor \in shown
      BY <2>2
    <2>3. CASE R # {} /\ \A r \in R : r.floor \notin shown
      <3>1. \A r \in R : \E q \in R : r.floor \in q.removed
        <4> TAKE r \in R
        <4>1. r.floor \in D
          BY DEF Typed, LoadCompactions
        <4>2. r.floor \in Gone
          BY <1>1, <2>3, <4>1
        <4> QED BY <4>2 DEF Gone, Listed
      <3>2. R \in (SUBSET R) \ {{}}
        BY <2>3
      <3> QED BY <3>1, <3>2 DEF Crossed
    <2> QED BY <2>1, <2>2, <2>3
  <1>4. \A r \in R : r.floor \in shown => r.floor = f
    BY <1>2, <1>3 DEF Ordered, FloorsDiffer
  <1>5. PICK h \in Heads(graph, shown) : f \in Ancestors(shown, h)
    BY <1>1, <1>3, HeadAbove
  <1>6. ASSUME NEW x \in Device PROVE h \in HeadsFor(x)
    <2>1. Floors(RecordsFor(x), shown) \subseteq {f}
      BY <1>4 DEF Floors, RecordsFor
    <2> QED BY <1>5, <2>1 DEF HeadsFor, TrustedHeads, AboveFloors
  <1> QED BY <1>6 DEF SomeHeadIsTrusted

\* Compactions that each fit one record, read through listings that miss
\* nothing, leave a readable environment once the revisions they list are gone:
\* whatever was written meanwhile, some head is above every floor, unless they
\* removed each other's floors.
THEOREM StaysReadable ==
    ASSUME ~ Lagging, OneRecord
    PROVE  Spec => [](ReadableAfterwards \/ Crossed)
<1>1. Init => Typed /\ Kept /\ Ordered
  BY InitTyped, InitOrdered
<1>2. Typed /\ Kept /\ Ordered /\ [Next]_vars => (Typed /\ Kept /\ Ordered)'
  BY TypedStep, KeptStep, OrderedStep
<1>3. Typed /\ Kept /\ Ordered => ReadableAfterwards \/ Crossed
  BY OrderedIsReadable DEF ReadableAfterwards
<1>4. QED BY <1>1, <1>2, <1>3, PTL DEF Spec

=============================================================================
