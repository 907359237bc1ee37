----------------------------- MODULE ControlDag -----------------------------
(***************************************************************************)
(* The member list of a workspace.  A Control names the trusted devices,   *)
(* their age recipients and who may manage them; Controls form a DAG in    *)
(* storage, rooted at the genesis every device trusts.  This module holds  *)
(* the pure part of pkg/wsp/control.go and pkg/wsp/chain.go: what makes a  *)
(* Control legitimate, which Controls a client accepts out of what storage *)
(* shows it, and whether a membership was ever interrupted.                *)
(*                                                                         *)
(* Abstractions.  A digest is an element of Digest.  Signatures are ideal: *)
(* `author' is the device whose key signed.  A principal is a device with  *)
(* a recipient (NoKey: not listed).  Height is left out: it is a function  *)
(* of the parents, and a Control with another one is never accepted.  Byte *)
(* limits and encodings are left out.                                      *)
(***************************************************************************)
EXTENDS Naturals, FiniteSets, RevisionDag

CONSTANTS
    Device,      \* devices, each with the one signing key its id is made of
    Recipient,   \* age recipients a device may ask to be encrypted for
    NoKey,       \* stands for "not a principal"
    Digest,      \* digests of Controls; bounds how many can be published
    Genesis,     \* the trusted digest from enbu.toml
    Founder      \* the only principal of the genesis

ASSUME ConstantsOK ==
    /\ NoKey \notin Recipient
    /\ Genesis \in Digest
    /\ Founder \in Device
    /\ Recipient # {}

Control ==
    [parents : SUBSET Digest, anc : SUBSET Digest, author : Device,
     key : [Device -> Recipient \cup {NoKey}], admins : SUBSET Device]

\* Every function below takes the DAG as a function from stored digests to
\* Controls.
Members(c) == {m \in Device : c.key[m] # NoKey}

Successor(dag, ps, a, k, as) ==
    [parents |-> ps, anc |-> PastOf(dag, ps), author |-> a, key |-> k, admins |-> as]

GenesisControl(r) ==
    [parents |-> {}, anc |-> {}, author |-> Founder,
     key |-> [m \in Device |-> IF m = Founder THEN r ELSE NoKey],
     admins |-> {Founder}]

(***************************************************************************)
(* control.go: Validate, VerifyChild, checkResolution.                     *)
(***************************************************************************)
Validate(c) ==
    /\ c.admins # {}
    /\ c.admins \subseteq Members(c)

Joins(c) == \E p, q \in c.parents : p # q

Listed(dag, c, m) == \E p \in c.parents : m \in Members(dag[p])

\* (Variant of CheckResolution, for mutation: only recipients are compared.)
RecipientsAgree(dag, c) ==
    \A m \in Members(c), p \in c.parents :
        m \in Members(dag[p]) => dag[p].key[m] = c.key[m]

\* (Variant of CheckResolution, for mutation: "wasAdmin" starts false and is
\* and-ed, so no join has an admin.)
AdminsAreRefused(dag, c) ==
    RecipientsAgree(dag, c) /\ \A m \in Members(c) : Listed(dag, c, m) /\ m \notin c.admins

CheckResolution(dag, c) ==
    \A m \in Members(c) :
        /\ Listed(dag, c, m)
        /\ \A p \in c.parents : m \in Members(dag[p]) => dag[p].key[m] = c.key[m]
        /\ m \in c.admins => \E p \in c.parents : m \in dag[p].admins

VerifyChild(dag, c) ==
    /\ c.parents # {}
    /\ Validate(c)
    /\ \A p \in c.parents : c.author \in dag[p].admins
    /\ Joins(c) => CheckResolution(dag, c)

(***************************************************************************)
(* chain.go: LoadControl.  Out of the objects storage shows, a Control is  *)
(* accepted only when all its ancestors are shown and verify.              *)
(***************************************************************************)
Accepted(dag, seen) ==
    {d \in seen : /\ Past(dag, d) \subseteq seen
                  /\ \A x \in Past(dag, d) \ {Genesis} : VerifyChild(dag, dag[x])}

\* (Variant of Ready, for mutation: one accepted parent is enough.)
SomeParentIn(dag, d, V) == dag[d].parents \cap V # {}

\* The loop LoadControl runs to get there: starting from the genesis, take
\* every pending Control whose parents are all accepted, until none is left.
Ready(dag, d, V) == dag[d].parents \subseteq V

AcceptLoop(dag, seen) ==
    LET Pass(V) == V \cup {d \in seen \ V : Ready(dag, d, V) /\ VerifyChild(dag, dag[d])}
        after[n \in 0..Cardinality(seen)] ==
            IF n = 0 THEN {Genesis} ELSE Pass(after[n - 1])
    IN  after[Cardinality(seen)]

Forked(dag, view) == \E d, e \in Heads(dag, view) : d # e

(***************************************************************************)
(* chain.go: MembershipUnbroken.  The walk from head stops at the          *)
(* ancestors of from, so it visits exactly the difference of the two       *)
(* pasts; it fails on a Control that lost m, and when it never meets from. *)
(***************************************************************************)
LostAt(dag, d, m) ==
    /\ m \notin Members(dag[d])
    /\ \E p \in dag[d].parents : m \in Members(dag[p])

MembershipUnbroken(dag, view, head, from, m) ==
    /\ {head, from} \subseteq view
    /\ from \in Past(dag, head)
    /\ \A d \in Past(dag, head) \ Past(dag, from) : ~ LostAt(dag, d, m)
=============================================================================
