---------------------------- MODULE RevisionDag ----------------------------
(***************************************************************************)
(* Graphs of objects named by their digest (pkg/wsp/dag.go).  A graph is a *)
(* function from digests to objects.  Since the digest of an object        *)
(* commits to its parents, and theirs to their own, an object carries the  *)
(* set `anc' of its proper ancestors instead of leaving it to be walked.   *)
(***************************************************************************)
Past(dag, d) == dag[d].anc \cup {d}

PastOf(dag, S) == UNION {Past(dag, d) : d \in S}

\* The objects of view that no object of view names as a parent.
Heads(dag, view) == {d \in view : \A e \in view : d \notin dag[e].parents}

\* The elements of S below no other element of S.
Uncovered(dag, S) == {d \in S : \A e \in S : d \notin dag[e].anc}

\* The lowest common ancestors of heads: several after a criss-cross merge,
\* none when the heads share no history.
CommonAncestors(dag, heads) == {d \in PastOf(dag, heads) : \A h \in heads : d \in Past(dag, h)}

MergeBases(dag, heads) == Uncovered(dag, CommonAncestors(dag, heads))
=============================================================================
