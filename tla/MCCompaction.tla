---------------------------- MODULE MCCompaction ----------------------------
(***************************************************************************)
(* Compaction on small instances.                                          *)
(***************************************************************************)
EXTENDS Compaction, TLC

CONSTANTS a, b, p1, p2, r1, r2, d1, d2, f1, f2, m1, x2, m2

OneEach == p1 :> a @@ p2 :> b

\* Two processes of one admin, beside a device that only reads.
BothOfOne == p1 :> a @@ p2 :> a

Node(parents, anc) == [parents |-> parents, anc |-> anc]

Chain == r1 :> Node({}, {}) @@ r2 :> Node({r1}, {r1})

\* Two revisions and their merge, and beside it a late edit of one of them,
\* merged in turn.
TwoMerges ==
    f1 :> Node({}, {}) @@ f2 :> Node({}, {}) @@ m1 :> Node({f1, f2}, {f1, f2})
    @@ x2 :> Node({f2}, {f2}) @@ m2 :> Node({m1, x2}, {m1, x2, f1, f2})

\* The first parents of m1 and of m2 lie on different branches.
InOrder == r1 :> 1 @@ r2 :> 2 @@ d1 :> 3 @@ d2 :> 4
FirstX == f1 :> 1 @@ f2 :> 2 @@ x2 :> 3 @@ m1 :> 4 @@ m2 :> 5

\* Four revisions leave none for a merge, and only a merge has two parents for
\* Order to tell apart.
Fresh == Permutations(Rev \ {r1, r2})
=============================================================================
