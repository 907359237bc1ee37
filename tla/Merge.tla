------------------------------- MODULE Merge -------------------------------
(***************************************************************************)
(* Combining concurrent versions of a secret map against their merge bases *)
(* (pkg/merge/merge.go), as sets: the heads and the bases have no order    *)
(* that matters.  A map gives every key a value or Deleted.  MergeLoop has *)
(* the loops of the code.                                                  *)
(***************************************************************************)
CONSTANTS
    Key,
    Value,
    Deleted      \* the key is not in the map

ASSUME DeletedOK == Deleted \notin Value

Map == [Key -> Value \cup {Deleted}]

EmptyMap == [k \in Key |-> Deleted]

\* What one base leaves of the heads' values vs: the values the heads changed
\* it to, or the base itself when none did.
Outcomes(base, vs) == IF vs \subseteq {base} THEN {base} ELSE vs \ {base}

Side(maps, k) == {m[k] : m \in maps}

\* Without a common history the heads are merged against the empty map.
BaseMaps(bases) == IF bases = {} THEN {EmptyMap} ELSE bases

\* (Variant of Resolved, for mutation: any one base decides.)
ResolvedBySome(bases, heads, k) ==
    LET base == CHOOSE m \in BaseMaps(bases) : TRUE
    IN  {CHOOSE v \in Outcomes(base[k], Side(heads, k)) : TRUE}

\* All the outcomes there are for a key: it merges when every base yields the
\* same single one, and is a conflict otherwise.
Resolved(bases, heads, k) ==
    UNION {Outcomes(b[k], Side(heads, k)) : b \in BaseMaps(bases)}

InConflict(bases, heads, k) ==
    \E u, v \in Resolved(bases, heads, k) : u # v

Conflicts(bases, heads) == {k \in Key : InConflict(bases, heads, k)}

\* The merged map; choice settles the conflicted keys.
Merged(bases, heads, choice) ==
    [k \in Key |-> IF InConflict(bases, heads, k) THEN choice[k]
                   ELSE CHOOSE v \in Resolved(bases, heads, k) : TRUE]
=============================================================================
