----------------------------- MODULE MergeLoop -----------------------------
(***************************************************************************)
(* resolveAgainst and resolveKey (pkg/merge/merge.go) as the loops they    *)
(* are, for the values the bases and the heads give a key, and their       *)
(* inputs grown one by one so that TLC sees every short sequence of them.  *)
(*                                                                         *)
(* Bounds: MaxHeads and MaxBases, the longest inputs.                      *)
(***************************************************************************)
EXTENDS Naturals, Sequences, Merge

CONSTANTS MaxHeads, MaxBases

OneValue == Value \cup {Deleted}

VARIABLES baseValues, headValues      \* the values of the key, in the order of the digests

loopVars == <<baseValues, headValues>>

\* The values compared so far agree on `value' (have: there was one).
Nothing == [ok |-> TRUE, have |-> FALSE, value |-> Deleted]

\* (Variant of Agree, for mutation: a later value replaces an earlier one.)
LastWins(acc, ok, v) == [ok |-> acc.ok /\ ok, have |-> TRUE, value |-> v]

Agree(acc, ok, v) ==
    [ok |-> acc.ok /\ ok /\ (acc.have => acc.value = v), have |-> TRUE, value |-> v]

\* Comparing, one after the other, the elements of s that count.
Compare(s) ==
    LET after[n \in 0..Len(s)] ==
            IF n = 0 THEN Nothing
            ELSE IF s[n].counts THEN Agree(after[n - 1], s[n].ok, s[n].value)
            ELSE after[n - 1]
    IN  after[Len(s)]

ResolveAgainst(base, hs) ==
    LET changed == Compare([i \in 1..Len(hs) |->
                              [counts |-> hs[i] # base, ok |-> TRUE, value |-> hs[i]]])
    IN  IF changed.have THEN changed ELSE [changed EXCEPT !.value = base]

\* Without a base the heads are merged against the empty map.
Bases(bs) == IF bs = <<>> THEN <<Deleted>> ELSE bs

ResolveKey(bs, hs) ==
    LET against(b) == ResolveAgainst(b, hs)
    IN  Compare([i \in 1..Len(Bases(bs)) |->
                   [counts |-> TRUE, ok |-> against(Bases(bs)[i]).ok,
                    value |-> against(Bases(bs)[i]).value]])

-----------------------------------------------------------------------------
\* Only two or more heads are ever merged.
LoopInit == baseValues = <<>> /\ headValues \in [1..2 -> OneValue]

AddHead ==
    /\ Len(headValues) < MaxHeads
    /\ \E v \in OneValue : headValues' = Append(headValues, v)
    /\ UNCHANGED baseValues

AddBase ==
    /\ Len(baseValues) < MaxBases
    /\ \E v \in OneValue : baseValues' = Append(baseValues, v)
    /\ UNCHANGED headValues

LoopNext == AddHead \/ AddBase

LoopSpec == LoopInit /\ [][LoopNext]_loopVars

-----------------------------------------------------------------------------
ValuesOf(s) == {s[i] : i \in 1..Len(s)}

\* Maps that give every key the same of the values.
MapsOf(s) == {[k \in Key |-> v] : v \in ValuesOf(s)}

\* The loops compute what the sets of Merge say: a key merges exactly when
\* every base leaves the same single outcome, whatever the order.
LoopFindsOutcome ==
    LET r == ResolveKey(baseValues, headValues)
    IN  \A k \in Key :
            LET all == Resolved(MapsOf(baseValues), MapsOf(headValues), k)
            IN  IF r.ok THEN all = {r.value} ELSE \E u, v \in all : u # v

\* Nothing is chosen silently: a key that merges has the value of every head
\* that changed it since any of the bases.
NothingLost ==
    LET r == ResolveKey(baseValues, headValues)
    IN  r.ok => \A v \in ValuesOf(headValues), b \in ValuesOf(Bases(baseValues)) :
                    v # b => r.value = v

\* A conflict is real: no value could be taken without undoing what some head
\* did to some base, or two bases disagree although no head touched the key.
ConflictIsReal ==
    LET r == ResolveKey(baseValues, headValues)
        bs == ValuesOf(Bases(baseValues))
    IN  ~ r.ok => \A v \in OneValue :
            \/ \E h \in ValuesOf(headValues), b \in bs : h # b /\ h # v
            \/ \E b \in bs : ValuesOf(headValues) \subseteq {b} /\ v # b

\* Whatever the order of heads and bases, no side is taken silently and nobody
\* is asked to resolve what does not conflict.
OutcomeIsRight == NothingLost /\ ConflictIsReal

=============================================================================
