--------------------------- MODULE MCControlChain ---------------------------
(***************************************************************************)
(* ControlChain on small instances.  A workspace starts with one principal *)
(* and needs two changes before a second device is an admin, so most runs  *)
(* start from the state those changes leave: the founder approved b (G1)   *)
(* and made it an admin (G2), which every device that is a member accepted.*)
(***************************************************************************)
EXTENDS ControlChain, TLC

CONSTANTS a, b, c, k1, k2, G0, G1, G2, p1, p2

OneEach == p1 :> a @@ p2 :> b
TwoOfA == p1 :> a @@ p2 :> a

EstablishedDag ==
    LET zero == GenesisControl(k1)
        one == [parents |-> {G0}, anc |-> {G0}, author |-> a,
                key |-> [zero.key EXCEPT ![b] = k1], admins |-> {a}]
        two == [parents |-> {G1}, anc |-> {G0, G1}, author |-> a,
                key |-> one.key, admins |-> {a, b}]
    IN  dag = (G0 :> zero @@ G1 :> one @@ G2 :> two)

EstablishedInit ==
    /\ EstablishedDag
    /\ cp = [x \in Device |-> IF x \in {a, b} THEN {G2} ELSE {}]
    /\ proc = [p \in Proc |-> Idle]
    /\ foreign = {}
    /\ settled = [x \in Device |-> IF x = a THEN {G1, G2} ELSE {}]

EstablishedSpec == EstablishedInit /\ [][Next]_vars

Fresh == Permutations(Digest \ {G0, G1, G2})
=============================================================================
