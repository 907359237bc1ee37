--------------------------- MODULE FoundingProofs ---------------------------
(***************************************************************************)
(* Theorems about Founding, for any workspaces, any number of processes    *)
(* and foundings and any number of edits, crashes and uses of              *)
(* --accept-new-genesis.                                                   *)
(***************************************************************************)
EXTENDS Founding, TLAPS

Process == [phase : Phase, init : BOOLEAN, cfg : Toml \cup {NoRoot}, accept : BOOLEAN,
            founded : BOOLEAN, expected : Root \cup {NoRoot}, recovery : BOOLEAN]

Typed ==
    /\ toml \in Toml \cup {NoRoot}
    /\ wsPin \in [Workspace -> Genesis \cup {NoGenesis}]
    /\ repoPin \in Root \cup {NoRoot}
    /\ stored \subseteq Root /\ verified \subseteq Root
    /\ proc \in [Proc -> Process]
    /\ edits \in 0..MaxEdits /\ accepts \in 0..MaxAccepts /\ crashes \in 0..MaxCrashes

\* A founding file keeps the pin that stood when this device founded the root.
FilesOK ==
    /\ DOMAIN authorized \subseteq Root
    /\ \A r \in DOMAIN authorized : authorized[r] \in Root \cup {NoRoot}
    /\ DOMAIN pending \subseteq DOMAIN authorized
    /\ \A r \in DOMAIN pending : pending[r] = authorized[r]

Naming == {"bind", "genesis", "keep", "name"}

\* The root a process works with, and the pin it expects to replace: none, or
\* the one that stood when its root was founded here.
Knows(p) ==
    /\ proc[p].phase # "idle" => proc[p].cfg \in Toml
    /\ proc[p].phase \notin {"idle", "bind", "genesis"} => proc[p].cfg \in Root
    /\ proc[p].phase \in {"keep", "name"} => proc[p].cfg \in DOMAIN authorized
    /\ proc[p].phase \in Naming => proc[p].expected = NoRoot
    /\ proc[p].phase \in {"pinWorkspace", "pinCheckout", "clean"} => proc[p].cfg \in verified
    /\ proc[p].recovery => proc[p].cfg \in Root
    /\ \/ proc[p].expected = NoRoot
       \/ proc[p].cfg \in DOMAIN authorized /\ authorized[proc[p].cfg] = proc[p].expected

Inv == Typed /\ FilesOK /\ \A p \in Proc : Knows(p)

-----------------------------------------------------------------------------
LEMMA Roots == NoRoot \notin Root /\ Root \subseteq Toml /\ \A r \in Root : r.gen # NoGenesis
  BY FoundingOK DEF Root, NoRoot, Toml

LEMMA NamedRoot ==
    ASSUME NEW t \in Toml, t.gen # NoGenesis
    PROVE  t \in Root
  BY DEF Toml, Root

LEMMA IdleOK == Idle \in Process /\ Idle.phase = "idle" /\ Idle.expected = NoRoot /\ ~ Idle.recovery
  BY DEF Idle, Process, Phase

LEMMA MovesTyped ==
    ASSUME Typed, NEW p \in Proc, NEW phase \in Phase, Moves(p, phase)
    PROVE  /\ proc' \in [Proc -> Process] /\ proc'[p].phase = phase
           /\ proc'[p].cfg = proc[p].cfg /\ proc'[p].expected = proc[p].expected
           /\ proc'[p].accept = proc[p].accept /\ proc'[p].founded = proc[p].founded
           /\ proc'[p].recovery = proc[p].recovery
           /\ \A q \in Proc \ {p} : proc'[q] = proc[q]
  BY DEF Typed, Moves, Process

Founds(p, root) == proc' = [proc EXCEPT ![p].phase = "keep", ![p].cfg = root]

LEMMA FoundsTyped ==
    ASSUME Typed, NEW p \in Proc, NEW root \in Toml, Founds(p, root)
    PROVE  /\ proc' \in [Proc -> Process] /\ proc'[p].phase = "keep" /\ proc'[p].cfg = root
           /\ proc'[p].expected = proc[p].expected /\ proc'[p].recovery = proc[p].recovery
           /\ \A q \in Proc \ {p} : proc'[q] = proc[q]
  <1>1. [proc[p] EXCEPT !.phase = "keep", !.cfg = root] \in Process
    BY DEF Typed, Process, Phase
  <1>2. proc' = [proc EXCEPT ![p] = [proc[p] EXCEPT !.phase = "keep", !.cfg = root]]
    BY DEF Typed, Founds
  <1> QED BY <1>1, <1>2 DEF Typed, Process

Names(p) == proc' = [proc EXCEPT ![p].phase = "recover", ![p].founded = TRUE]

LEMMA NamesTyped ==
    ASSUME Typed, NEW p \in Proc, Names(p)
    PROVE  /\ proc' \in [Proc -> Process] /\ proc'[p].phase = "recover"
           /\ proc'[p].cfg = proc[p].cfg /\ proc'[p].expected = proc[p].expected
           /\ proc'[p].recovery = proc[p].recovery
           /\ \A q \in Proc \ {p} : proc'[q] = proc[q]
  <1>1. [proc[p] EXCEPT !.phase = "recover", !.founded = TRUE] \in Process
    BY DEF Typed, Process, Phase
  <1>2. proc' = [proc EXCEPT ![p] = [proc[p] EXCEPT !.phase = "recover", !.founded = TRUE]]
    BY DEF Typed, Names
  <1> QED BY <1>1, <1>2 DEF Typed, Process

Resumes(p, phase, founded, expected) ==
    proc' = [proc EXCEPT ![p] = [proc[p] EXCEPT !.phase = phase, !.recovery = TRUE,
                                                !.founded = founded, !.expected = expected]]

LEMMA ResumesTyped ==
    ASSUME Typed, NEW p \in Proc, NEW phase \in {"publish", "check"}, NEW founded \in BOOLEAN,
           NEW expected \in Root \cup {NoRoot}, Resumes(p, phase, founded, expected)
    PROVE  /\ proc' \in [Proc -> Process] /\ proc'[p].phase = phase
           /\ proc'[p].cfg = proc[p].cfg /\ proc'[p].expected = expected
           /\ \A q \in Proc \ {p} : proc'[q] = proc[q]
  <1>1. [proc[p] EXCEPT !.phase = phase, !.recovery = TRUE, !.founded = founded,
                        !.expected = expected] \in Process
    <2>1. proc[p] \in Process /\ phase \in Phase
      BY DEF Typed, Phase
    <2> QED BY <2>1 DEF Process
  <1> QED BY <1>1 DEF Typed, Resumes, Process

LEMMA FailsTyped ==
    ASSUME Typed, NEW p \in Proc, Fails(p)
    PROVE  /\ proc' \in [Proc -> Process] /\ proc'[p] = Idle
           /\ \A q \in Proc \ {p} : proc'[q] = proc[q]
  BY IdleOK DEF Typed, Fails

LEMMA InvInit == Init => Inv
  BY FoundingOK, IdleOK DEF Init, Inv, Typed, FilesOK, Knows, Naming

\* Nothing that was authorized or verified is forgotten.
Keeps ==
    /\ DOMAIN authorized \subseteq DOMAIN authorized' /\ verified \subseteq verified'
    /\ \A r \in DOMAIN authorized : authorized'[r] = authorized[r]

LEMMA KnowledgeStays ==
    ASSUME Inv, Keeps, NEW q \in Proc, proc'[q] = proc[q]
    PROVE  Knows(q)'
  BY DEF Inv, Knows, Keeps

LEMMA FailureKnown ==
    ASSUME NEW p \in Proc, proc'[p] = Idle
    PROVE  Knows(p)'
  BY IdleOK DEF Knows, Naming

\* It is enough to look at the process that takes the step.
LEMMA OthersKeep ==
    ASSUME Inv, Keeps, NEW p \in Proc, \A q \in Proc \ {p} : proc'[q] = proc[q],
           Typed', FilesOK', Knows(p)'
    PROVE  Inv'
  BY KnowledgeStays DEF Inv

\* A process goes on with its root; the files of the founding stay.
LEMMA MovesStep ==
    ASSUME Inv, NEW p \in Proc, NEW phase \in Phase, Moves(p, phase),
           toml' \in Toml \cup {NoRoot}, stored' \subseteq Root, verified \subseteq verified',
           verified' \subseteq Root, wsPin' \in [Workspace -> Genesis \cup {NoGenesis}],
           repoPin' \in Root \cup {NoRoot}, UNCHANGED <<authorized, edits, accepts, crashes>>,
           FilesOK', phase # "idle", proc[p].phase # "idle",
           phase \notin {"bind", "genesis"} => proc[p].cfg \in Root,
           phase \in {"keep", "name"} => proc[p].cfg \in DOMAIN authorized,
           phase \in Naming => proc[p].phase \in Naming,
           phase \in {"pinWorkspace", "pinCheckout", "clean"} => proc[p].cfg \in verified'
    PROVE  Inv'
  <1>1. Typed'
    BY MovesTyped DEF Inv, Typed
  <1>2. Keeps
    BY DEF Keeps
  <1>3. Knows(p)'
    BY MovesTyped DEF Inv, Knows
  <1>4. \A q \in Proc \ {p} : proc'[q] = proc[q]
    BY MovesTyped DEF Inv
  <1> QED BY <1>1, <1>2, <1>3, <1>4, OthersKeep

\* A call returns.
LEMMA FailsStep ==
    ASSUME Inv, NEW p \in Proc, Fails(p), FilesOK',
           UNCHANGED <<toml, stored, verified, wsPin, repoPin, authorized, edits, accepts>>,
           crashes' \in 0..MaxCrashes
    PROVE  Inv'
  <1>1. Typed'
    BY FailsTyped DEF Inv, Typed
  <1>2. Keeps
    BY DEF Keeps
  <1>3. Knows(p)' /\ \A q \in Proc \ {p} : proc'[q] = proc[q]
    BY FailsTyped, FailureKnown DEF Inv
  <1> QED BY <1>1, <1>2, <1>3, OthersKeep

\* A call begins.
LEMMA BeginsStep ==
    ASSUME Inv, NEW p \in Proc, NEW r \in Process, proc' = [proc EXCEPT ![p] = r],
           r.phase = "bind" \/ (r.phase = "check" /\ r.cfg \in Root), r.cfg \in Toml,
           r.expected = NoRoot, ~ r.recovery, accepts' \in 0..MaxAccepts,
           UNCHANGED <<toml, stored, verified, wsPin, repoPin, authorized, pending, edits, crashes>>
    PROVE  Inv'
  <1>1. proc' \in [Proc -> Process] /\ proc'[p] = r /\ \A q \in Proc \ {p} : proc'[q] = proc[q]
    BY DEF Inv, Typed
  <1>2. Typed'
    BY <1>1 DEF Inv, Typed
  <1>3. Keeps /\ FilesOK'
    BY DEF Keeps, Inv, FilesOK
  <1>4. Knows(p)'
    BY <1>1 DEF Knows, Naming
  <1> QED BY <1>1, <1>2, <1>3, <1>4, OthersKeep

Started(accept, cfg) ==
    [Idle EXCEPT !.phase = "bind", !.init = TRUE, !.accept = accept, !.cfg = cfg]

LEMMA StartedTyped ==
    ASSUME NEW accept \in BOOLEAN, NEW cfg \in Toml
    PROVE  /\ Started(accept, cfg) \in Process /\ Started(accept, cfg).phase = "bind"
           /\ Started(accept, cfg).cfg = cfg /\ Started(accept, cfg).expected = NoRoot
           /\ ~ Started(accept, cfg).recovery
  BY DEF Started, Idle, Process, Phase

Opened(cfg) == [Idle EXCEPT !.phase = "check", !.cfg = cfg]

LEMMA OpenedTyped ==
    ASSUME NEW cfg \in Toml
    PROVE  /\ Opened(cfg) \in Process /\ Opened(cfg).phase = "check"
           /\ Opened(cfg).cfg = cfg /\ Opened(cfg).expected = NoRoot /\ ~ Opened(cfg).recovery
  BY DEF Opened, Idle, Process, Phase

-----------------------------------------------------------------------------
\* init and any other command begin.
LEMMA StartStep ==
    ASSUME Inv, NEW p \in Proc, StartInit(p) \/ Open(p)
    PROVE  Inv'
  <1> USE DEF Pins, Counts
  <1>1. CASE StartInit(p)
    <2>1. PICK accept \in BOOLEAN, w \in Workspace :
             /\ accept => accepts < MaxAccepts
             /\ accepts' = IF accept THEN accepts + 1 ELSE accepts
             /\ proc' = [proc EXCEPT ![p] = Started(accept,
                           IF toml = NoRoot THEN [ws |-> w, gen |-> NoGenesis] ELSE toml)]
      BY <1>1 DEF StartInit, Started
    <2> DEFINE cfg == IF toml = NoRoot THEN [ws |-> w, gen |-> NoGenesis] ELSE toml
    <2>2. cfg \in Toml
      BY DEF Inv, Typed, Toml
    <2> HIDE DEF cfg
    <2> DEFINE r == Started(accept, cfg)
    <2>3. proc' = [proc EXCEPT ![p] = r]
      BY <2>1 DEF cfg
    <2>4. r \in Process /\ r.phase = "bind" /\ r.cfg = cfg /\ r.expected = NoRoot /\ ~ r.recovery
      BY <2>2, StartedTyped
    <2>5. accepts' \in 0..MaxAccepts
      BY <2>1, FoundingOK DEF Inv, Typed
    <2> HIDE DEF r
    <2> QED BY <1>1, <2>2, <2>3, <2>4, <2>5, BeginsStep DEF StartInit
  <1>2. CASE Open(p)
    <2> DEFINE r == Opened(toml)
    <2>1. r \in Process /\ r.phase = "check" /\ r.cfg = toml /\ r.expected = NoRoot /\ ~ r.recovery
      BY <1>2, OpenedTyped, Roots DEF Open
    <2>2. proc' = [proc EXCEPT ![p] = r]
      BY <1>2 DEF Open, Opened
    <2> HIDE DEF r
    <2> QED BY <1>2, <2>1, <2>2, BeginsStep, Roots DEF Open, Inv, Typed
  <1> QED BY <1>1, <1>2

\* A new root, its file, and enbu.toml.
LEMMA FoundStep ==
    ASSUME Inv, NEW p \in Proc,
           SaveBinding(p) \/ NewGenesis(p) \/ KeepPending(p) \/ NameGenesis(p)
    PROVE  Inv'
  <1> USE DEF Pins, Counts
  <1>1. CASE SaveBinding(p)
    <2>1. proc[p].phase = "bind" /\ proc[p].cfg \in Toml
      BY <1>1 DEF SaveBinding, Inv, Knows
    <2>2. FilesOK'
      BY <1>1 DEF SaveBinding, Inv, FilesOK
    <2>3. CASE proc[p].cfg.gen = NoGenesis
      BY <1>1, <2>1, <2>2, <2>3, MovesStep DEF SaveBinding, Inv, Typed, Naming, Phase
    <2>4. CASE proc[p].cfg.gen # NoGenesis
      BY <1>1, <2>1, <2>2, <2>4, MovesStep, NamedRoot DEF SaveBinding, Inv, Typed, Naming, Phase
    <2> QED BY <2>3, <2>4
  <1>2. CASE NewGenesis(p)
    <2>1. CASE Fails(p) /\ UNCHANGED authorized
      <3>1. FilesOK'
        BY <1>2, <2>1 DEF NewGenesis, Inv, FilesOK
      <3> QED BY <1>2, <2>1, <3>1, FailsStep DEF NewGenesis, Inv, Typed
    <2>2. CASE ~ (Fails(p) /\ UNCHANGED authorized)
      <3>1. PICK g \in Unused :
               /\ authorized' = With(authorized, [ws |-> proc[p].cfg.ws, gen |-> g], repoPin)
               /\ proc' = [proc EXCEPT ![p].phase = "keep",
                                       ![p].cfg = [ws |-> proc[p].cfg.ws, gen |-> g]]
        BY <1>2, <2>2 DEF NewGenesis
      <3> DEFINE root == [ws |-> proc[p].cfg.ws, gen |-> g]
      <3>2. root \in Root /\ root \notin DOMAIN authorized /\ root.gen = g
        <4>1. proc[p].cfg \in Toml /\ proc[p].phase = "genesis"
          BY <1>2 DEF NewGenesis, Inv, Knows
        <4> QED BY <4>1 DEF Unused, Toml, Root
      <3> HIDE DEF root
      <3>3. authorized' = With(authorized, root, repoPin)
        BY <3>1 DEF root
      <3>4. /\ proc' \in [Proc -> Process] /\ \A q \in Proc \ {p} : proc'[q] = proc[q]
            /\ proc'[p].phase = "keep" /\ proc'[p].cfg = root
            /\ proc'[p].expected = proc[p].expected /\ proc'[p].recovery = proc[p].recovery
        <4>1. proc' = [proc EXCEPT ![p].phase = "keep", ![p].cfg = root]
          BY <3>1 DEF root
        <4>2. root \in Toml
          BY <3>2, Roots
        <4> QED BY <4>1, <4>2, FoundsTyped DEF Inv, Founds
      <3>5. Keeps /\ FilesOK'
        <4>1. /\ DOMAIN authorized' = DOMAIN authorized \cup {root} /\ authorized'[root] = repoPin
              /\ \A x \in DOMAIN authorized \ {root} : authorized'[x] = authorized[x]
          BY <3>3 DEF With
        <4>2. UNCHANGED <<pending, verified>>
          BY <1>2 DEF NewGenesis
        <4> QED BY <3>2, <4>1, <4>2 DEF Keeps, Inv, Typed, FilesOK
      <3>6. Typed'
        BY <1>2, <3>4 DEF NewGenesis, Inv, Typed
      <3>7. root \in DOMAIN authorized' /\ proc[p].phase = "genesis"
        <4>1. DOMAIN authorized' = DOMAIN authorized \cup {root}
          BY <3>3 DEF With
        <4> QED BY <1>2, <4>1 DEF NewGenesis
      <3>8. Knows(p)'
        BY <3>2, <3>4, <3>7, Roots DEF Inv, Knows, Naming
      <3> QED BY <3>4, <3>5, <3>6, <3>8, OthersKeep
    <2> QED BY <2>1, <2>2
  <1>3. CASE KeepPending(p)
    <2>1. proc[p].phase = "keep" /\ proc[p].cfg \in DOMAIN authorized /\ proc[p].cfg \in Root
      BY <1>3 DEF KeepPending, Inv, Knows
    <2>2. FilesOK'
      <3> DEFINE root == proc[p].cfg
      <3>1. pending' = With(pending, root, authorized[root]) /\ authorized' = authorized
        BY <1>3 DEF KeepPending
      <3>2. /\ DOMAIN pending' = DOMAIN pending \cup {root} /\ pending'[root] = authorized[root]
            /\ \A x \in DOMAIN pending \ {root} : pending'[x] = pending[x]
        BY <3>1 DEF With
      <3> QED BY <2>1, <3>1, <3>2 DEF Inv, FilesOK
    <2> QED BY <1>3, <2>1, <2>2, MovesStep DEF KeepPending, Inv, Typed, Naming, Phase
  <1>4. CASE NameGenesis(p)
    <2>1. proc[p].phase = "name" /\ proc[p].cfg \in DOMAIN authorized /\ proc[p].cfg \in Root
      BY <1>4 DEF NameGenesis, Inv, Knows
    <2>2. FilesOK' /\ Keeps
      BY <1>4 DEF NameGenesis, Inv, FilesOK, Keeps
    <2>3. /\ proc' \in [Proc -> Process] /\ \A q \in Proc \ {p} : proc'[q] = proc[q]
          /\ proc'[p].phase = "recover" /\ proc'[p].cfg = proc[p].cfg
          /\ proc'[p].expected = proc[p].expected /\ proc'[p].recovery = proc[p].recovery
      BY <1>4, NamesTyped DEF NameGenesis, Names, Inv
    <2>4. Typed'
      BY <1>4, <2>1, <2>3, Roots DEF NameGenesis, Inv, Typed
    <2>5. Knows(p)'
      BY <1>4, <2>1, <2>3, Roots DEF NameGenesis, Inv, Knows, Naming
    <2> QED BY <2>2, <2>3, <2>4, <2>5, OthersKeep
  <1> QED BY <1>1, <1>2, <1>3, <1>4

\* A founding file is taken up again and the genesis published; the pins are
\* checked and the genesis is read.
LEMMA ResumeStep ==
    ASSUME Inv, NEW p \in Proc,
           Recover(p) \/ PublishGenesis(p) \/ CheckPins(p) \/ LoadControl(p)
    PROVE  Inv'
  <1> USE DEF Pins, Counts
  <1>1. CASE Recover(p)
    <2> DEFINE root == proc[p].cfg
    <2>1. proc[p].phase = "recover" /\ root \in Root /\ FilesOK' /\ Keeps
      BY <1>1 DEF Recover, Inv, Knows, FilesOK, Keeps
    <2>2. CASE Moves(p, "check")
      BY <1>1, <2>1, <2>2, MovesStep DEF Recover, Inv, Typed, Naming, Phase
    <2>3. CASE Fails(p)
      BY <1>1, <2>1, <2>3, FailsStep DEF Recover, Inv, Typed
    <2>4. CASE ~ Moves(p, "check") /\ ~ Fails(p)
      <3>1. /\ root \in DOMAIN pending
            /\ proc' = [proc EXCEPT ![p] =
                  [proc[p] EXCEPT !.phase = IF WsRoot(root.ws) # root THEN "publish" ELSE "check",
                                  !.recovery = TRUE,
                                  !.founded = ~ proc[p].accept
                                                 /\ (WsRoot(root.ws) # root \/ repoPin # root),
                                  !.expected = pending[root]]]
        BY <1>1, <2>4 DEF Recover
      <3> DEFINE phase == IF WsRoot(root.ws) # root THEN "publish" ELSE "check"
                 founded == ~ proc[p].accept /\ (WsRoot(root.ws) # root \/ repoPin # root)
                 expected == pending[root]
      <3>2. /\ phase \in {"publish", "check"} /\ founded \in BOOLEAN
            /\ root \in DOMAIN authorized /\ expected = authorized[root]
            /\ expected \in Root \cup {NoRoot}
        BY <3>1 DEF Inv, FilesOK
      <3>3. Resumes(p, phase, founded, expected)
        BY <3>1 DEF Resumes
      <3> HIDE DEF phase, founded, expected
      <3>4. /\ proc' \in [Proc -> Process] /\ \A q \in Proc \ {p} : proc'[q] = proc[q]
            /\ proc'[p].phase = phase /\ proc'[p].cfg = root
            /\ proc'[p].expected = expected
        BY <3>2, <3>3, ResumesTyped DEF Inv
      <3>5. Typed'
        BY <1>1, <3>4 DEF Recover, Inv, Typed
      <3>6. authorized' = authorized
        BY <1>1 DEF Recover
      <3>7. Knows(p)'
        BY <2>1, <3>2, <3>4, <3>6, Roots DEF Inv, Knows, Naming
      <3> QED BY <2>1, <3>4, <3>5, <3>7, OthersKeep
    <2> QED BY <2>2, <2>3, <2>4
  <1>2. CASE PublishGenesis(p)
    <2>1. proc[p].phase = "publish" /\ proc[p].cfg \in Root /\ FilesOK'
      BY <1>2 DEF PublishGenesis, Inv, Knows, FilesOK
    <2> QED BY <1>2, <2>1, MovesStep DEF PublishGenesis, Inv, Typed, Naming, Phase
  <1>3. CASE CheckPins(p)
    <2>1. proc[p].phase = "check" /\ proc[p].cfg \in Root /\ FilesOK'
      BY <1>3 DEF CheckPins, Inv, Knows, FilesOK
    <2>2. CASE Moves(p, "load")
      BY <1>3, <2>1, <2>2, MovesStep DEF CheckPins, Inv, Typed, Naming, Phase
    <2>3. CASE Fails(p)
      BY <1>3, <2>1, <2>3, FailsStep DEF CheckPins, Inv, Typed
    <2> QED BY <1>3, <2>2, <2>3 DEF CheckPins
  <1>4. CASE LoadControl(p)
    <2>1. proc[p].phase = "load" /\ proc[p].cfg \in Root /\ FilesOK'
      BY <1>4 DEF LoadControl, Inv, Knows, FilesOK
    <2>2. CASE proc[p].cfg \in stored
      BY <1>4, <2>1, <2>2, MovesStep DEF LoadControl, Inv, Typed, Naming, Phase
    <2>3. CASE proc[p].cfg \notin stored
      BY <1>4, <2>1, <2>3, FailsStep DEF LoadControl, Inv, Typed
    <2> QED BY <2>2, <2>3
  <1> QED BY <1>1, <1>2, <1>3, <1>4

\* The pins are written, the founding file is removed, and a process stops.
LEMMA PinStep ==
    ASSUME Inv, NEW p \in Proc,
           PinWorkspace(p) \/ PinCheckout(p) \/ RemovePending(p) \/ Crash(p)
    PROVE  Inv'
  <1> USE DEF Pins, Counts
  <1>1. CASE PinWorkspace(p)
    <2>1. /\ proc[p].phase = "pinWorkspace" /\ proc[p].cfg \in Root /\ proc[p].cfg \in verified
          /\ FilesOK'
      BY <1>1 DEF PinWorkspace, Inv, Knows, FilesOK
    <2>2. proc[p].cfg.gen \in Genesis
      BY <2>1 DEF Root
    <2>3. CASE /\ Moves(p, "pinCheckout")
               /\ wsPin' = [wsPin EXCEPT ![proc[p].cfg.ws] = proc[p].cfg.gen]
      BY <1>1, <2>1, <2>2, <2>3, MovesStep DEF PinWorkspace, Inv, Typed, Naming, Phase
    <2>4. CASE Fails(p) /\ UNCHANGED wsPin
      BY <1>1, <2>1, <2>4, FailsStep DEF PinWorkspace, Inv, Typed
    <2> QED BY <1>1, <2>3, <2>4 DEF PinWorkspace
  <1>2. CASE PinCheckout(p)
    <2>1. /\ proc[p].phase = "pinCheckout" /\ proc[p].cfg \in Root /\ proc[p].cfg \in verified
          /\ FilesOK'
      BY <1>2 DEF PinCheckout, Inv, Knows, FilesOK
    <2>2. CASE Moves(p, "clean") /\ repoPin' = proc[p].cfg
      BY <1>2, <2>1, <2>2, MovesStep DEF PinCheckout, Inv, Typed, Naming, Phase
    <2>3. CASE Fails(p) /\ UNCHANGED repoPin
      BY <1>2, <2>1, <2>3, FailsStep DEF PinCheckout, Inv, Typed
    <2> QED BY <1>2, <2>2, <2>3 DEF PinCheckout
  <1>3. CASE RemovePending(p)
    <2>1. FilesOK'
      <3>1. CASE pending' = pending
        BY <1>3, <3>1 DEF RemovePending, Inv, FilesOK
      <3>2. CASE pending' = Without(pending, proc[p].cfg)
        <4>1. /\ DOMAIN pending' = DOMAIN pending \ {proc[p].cfg}
              /\ \A x \in DOMAIN pending' : pending'[x] = pending[x]
          BY <3>2 DEF Without
        <4>2. authorized' = authorized
          BY <1>3 DEF RemovePending
        <4> QED BY <4>1, <4>2 DEF Inv, FilesOK
      <3> QED BY <1>3, <3>1, <3>2 DEF RemovePending
    <2> QED BY <1>3, <2>1, FailsStep DEF RemovePending, Inv, Typed
  <1>4. CASE Crash(p)
    <2>1. FilesOK' /\ crashes' \in 0..MaxCrashes
      BY <1>4, FoundingOK DEF Crash, Inv, Typed, FilesOK
    <2> QED BY <1>4, <2>1, FailsStep DEF Crash
  <1> QED BY <1>1, <1>2, <1>3, <1>4

\* enbu.toml and storage change under the program.
LEMMA OutsideStep ==
    ASSUME Inv, EditToml \/ EmptyStorage
    PROVE  Inv'
  <1> USE DEF Pins
  <1>1. CASE EditToml
    <2>1. toml' \in Toml \cup {NoRoot} /\ edits' \in 0..MaxEdits
      BY <1>1, Roots, FoundingOK DEF EditToml, Inv, Typed, Toml
    <2> QED BY <1>1, <2>1 DEF EditToml, Inv, Typed, FilesOK, Knows
  <1>2. CASE EmptyStorage
    <2>1. stored' \subseteq Root /\ edits' \in 0..MaxEdits
      BY <1>2, FoundingOK DEF EmptyStorage, Inv, Typed
    <2> QED BY <1>2, <2>1 DEF EmptyStorage, Inv, Typed, FilesOK, Knows
  <1> QED BY <1>1, <1>2

LEMMA InvStep ==
    ASSUME Inv, [Next]_vars
    PROVE  Inv'
  <1>1. CASE UNCHANGED vars
    BY <1>1 DEF vars, Inv, Typed, FilesOK, Knows
  <1>2. CASE Next
    BY <1>2, StartStep, FoundStep, ResumeStep, PinStep, OutsideStep DEF Next, Step
  <1> QED BY <1>1, <1>2

LEMMA Invariance == Spec => []Inv
  BY InvInit, InvStep, PTL DEF Spec

-----------------------------------------------------------------------------
\* The types, and that a process pins only what was verified, hold at all times.
THEOREM TypeCorrect == Spec => []TypeOK
  <1>1. ASSUME Inv
        PROVE  TypeOK
    <2>1. \A p \in Proc : /\ proc[p].phase \in Phase /\ proc[p].cfg \in Toml \cup {NoRoot}
                          /\ proc[p].phase \in {"pinWorkspace", "pinCheckout", "clean"} =>
                                proc[p].cfg \in verified
                          /\ proc[p].recovery => proc[p].cfg \in Root
      BY <1>1 DEF Inv, Typed, Knows, Process
    <2> QED BY <1>1, <2>1 DEF Inv, Typed, FilesOK, TypeOK
  <1> QED BY <1>1, Invariance, PTL

\* Only the two steps that pin write a pin.
LEMMA WhoPins ==
    ASSUME [Next]_vars
    PROVE  /\ wsPin' = wsPin \/ \E p \in Proc : PinWorkspace(p)
           /\ repoPin' = repoPin \/ \E p \in Proc : PinCheckout(p)
  BY DEF Next, Step, vars, Pins, StartInit, Open, SaveBinding, NewGenesis, KeepPending,
        NameGenesis, Recover, PublishGenesis, CheckPins, LoadControl, PinWorkspace,
        PinCheckout, RemovePending, Crash, EditToml, EmptyStorage

\* "trust is never re-rooted silently" (ensureControl): no process replaces the
\* genesis pinned for a workspace without being told to accept a new one.
LEMMA WorkspacePin ==
    ASSUME Inv, [Next]_vars, NEW w \in Workspace, wsPin[w] \notin {NoGenesis, wsPin'[w]}
    PROVE  \E p \in Proc : proc[p].phase = "pinWorkspace" /\ proc[p].accept
  <1>1. PICK p \in Proc : PinWorkspace(p)
    BY WhoPins
  <1> DEFINE root == proc[p].cfg
  <1>2. proc[p].phase = "pinWorkspace" /\ root \in Root
    BY <1>1 DEF PinWorkspace, Inv, Knows
  <1>3. /\ MayPin(WsRoot(root.ws), root, proc[p].accept, {})
        /\ wsPin' = [wsPin EXCEPT ![root.ws] = root.gen]
    BY <1>1 DEF PinWorkspace
  <1>4. root.ws = w /\ root.gen # wsPin[w]
    BY <1>2, <1>3 DEF Inv, Typed, Root
  <1>5. WsRoot(w) # root /\ WsRoot(w) # NoRoot
    <2>1. WsRoot(w) = [ws |-> w, gen |-> wsPin[w]]
      BY DEF WsRoot
    <2>2. [ws |-> w, gen |-> wsPin[w]] \in Root
      BY FoundingOK DEF Inv, Typed, Root
    <2>3. [ws |-> w, gen |-> wsPin[w]].gen = wsPin[w]
      OBVIOUS
    <2> QED BY <1>4, <2>1, <2>2, <2>3, Roots
  <1>6. proc[p].accept
    BY <1>3, <1>4, <1>5 DEF MayPin
  <1> QED BY <1>2, <1>6

\* "A matching workspace pin alone is not permission to overwrite a checkout"
\* (ensureControl): a founding replaces the pin that stood when its root was
\* founded, and no other.
LEMMA CheckoutPin ==
    ASSUME Inv, [Next]_vars, repoPin \notin {NoRoot, repoPin'}
    PROVE  \/ \E p \in Proc : proc[p].phase = "pinCheckout" /\ proc[p].accept
           \/ repoPin' \in DOMAIN authorized /\ authorized[repoPin'] = repoPin
  <1>1. PICK p \in Proc : PinCheckout(p)
    BY WhoPins
  <1> DEFINE r == proc[p]
             expected == IF r.founded /\ ~ r.accept THEN {r.expected} ELSE {}
  <1>2. /\ r.phase = "pinCheckout" /\ repoPin' = r.cfg
        /\ MayPin(repoPin, r.cfg, r.accept \/ r.founded, expected)
    BY <1>1 DEF PinCheckout
  <1>3. CASE r.accept
    BY <1>2, <1>3
  <1>4. CASE ~ r.accept
    <2>1. repoPin = r.expected
      BY <1>2, <1>4 DEF MayPin
    <2> QED BY <1>2, <2>1 DEF Inv, Knows
  <1> QED BY <1>3, <1>4

\* No interleaving of commands, crashes and checkouts re-roots a device or a
\* checkout that was not told to (ensureControl, TrustRoot.pin).
THEOREM PinsAlwaysStay == Spec => PinsStay
  <1>1. Spec => WorkspacePinStays
    <2>1. ASSUME Inv, [Next]_vars
          PROVE  \A w \in Workspace : wsPin[w] \notin {NoGenesis, wsPin'[w]} =>
                    \E p \in Proc : proc[p].phase = "pinWorkspace" /\ proc[p].accept
      BY <2>1, WorkspacePin
    <2> QED BY <2>1, Invariance, PTL DEF Spec, WorkspacePinStays
  <1>2. Spec => CheckoutPinStays
    <2>1. ASSUME Inv, [Next]_vars
          PROVE  repoPin \notin {NoRoot, repoPin'} =>
                    \/ \E p \in Proc : proc[p].phase = "pinCheckout" /\ proc[p].accept
                    \/ repoPin' \in DOMAIN authorized /\ authorized[repoPin'] = repoPin
      BY <2>1, CheckoutPin
    <2> QED BY <2>1, Invariance, PTL DEF Spec, CheckoutPinStays
  <1> QED BY <1>1, <1>2 DEF PinsStay

-----------------------------------------------------------------------------
(***************************************************************************)
(* While nobody edits enbu.toml or storage, and one init runs at a time in *)
(* the checkout: two lose each other's enbu.toml.                          *)
(***************************************************************************)
OneInit == \A p, q \in Initializer : p = q

\* Until enbu.toml names a genesis there is nothing to pin or to open.
Unnamed ==
    /\ \A w \in Workspace : wsPin[w] = NoGenesis
    /\ repoPin = NoRoot
    /\ \A p \in Proc :
          /\ proc[p].phase \in Naming \cup {"idle"}
          /\ proc[p].phase = "bind" => proc[p].cfg.gen = NoGenesis
          /\ proc[p].phase = "name" => proc[p].cfg \in DOMAIN pending

\* What a process has yet to do to complete the founding of that genesis.
Follows(p) ==
    /\ proc[p].phase # "idle" =>
          proc[p].cfg = toml /\ proc[p].phase \notin {"genesis", "keep", "name"}
    /\ proc[p].phase \in {"pinWorkspace", "pinCheckout", "clean"} => toml \in stored
    /\ proc[p].phase \in {"pinCheckout", "clean"} => wsPin[toml.ws] = toml.gen
    /\ proc[p].phase = "clean" => repoPin = toml

\* Afterwards there is no other root, and its file stays until both pins hold it.
Named ==
    /\ toml \in DOMAIN authorized
    /\ wsPin[toml.ws] \in {NoGenesis, toml.gen} /\ repoPin \in {NoRoot, toml}
    /\ \A p \in Proc : Follows(p)
    /\ \/ toml \in DOMAIN pending
       \/ toml \in stored /\ wsPin[toml.ws] = toml.gen /\ repoPin = toml

Undisturbed ==
    /\ \A r \in DOMAIN authorized : authorized[r] = NoRoot
    /\ \A p \in Proc : proc[p].phase \in Naming => p \in Initializer
    /\ toml \in Root => Named
    /\ toml \notin Root => Unnamed

UndisturbedOK == edits = 0 => Undisturbed

\* A step of another process, or one that only fails.
LEMMA FailsUndisturbed ==
    ASSUME Inv, Undisturbed, NEW p \in Proc, Fails(p),
           UNCHANGED <<toml, wsPin, repoPin, stored, authorized>>,
           \/ pending' = pending
           \/ proc[p].phase = "clean" /\ pending' = Without(pending, proc[p].cfg)
    PROVE  Undisturbed'
  <1>1. proc'[p].phase = "idle" /\ \A q \in Proc \ {p} : proc'[q] = proc[q]
    BY FailsTyped, IdleOK DEF Inv
  <1>2. CASE toml \in Root
    <2>1. \A q \in Proc : Follows(q)'
      BY <1>1, <1>2 DEF Undisturbed, Named, Follows
    <2>2. \/ toml \in DOMAIN pending'
          \/ toml \in stored /\ wsPin[toml.ws] = toml.gen /\ repoPin = toml
      <3>1. CASE pending' = pending
        BY <1>2, <3>1 DEF Undisturbed, Named
      <3>2. CASE proc[p].phase = "clean"
        BY <1>2, <3>2 DEF Undisturbed, Named, Follows
      <3> QED BY <3>1, <3>2
    <2> QED BY <1>1, <1>2, <2>1, <2>2 DEF Undisturbed, Named, Naming
  <1>3. CASE toml \notin Root
    <2>1. pending' = pending
      BY <1>3 DEF Undisturbed, Unnamed, Naming
    <2> QED BY <1>1, <1>3, <2>1 DEF Undisturbed, Unnamed, Naming
  <1> QED BY <1>2, <1>3

\* A process goes on with the root that enbu.toml names.
LEMMA MovesUndisturbed ==
    ASSUME Inv, Undisturbed, NEW p \in Proc, proc[p].phase \notin Naming \cup {"idle"},
           proc'[p].phase \notin {"idle", "bind", "genesis", "keep", "name"},
           proc'[p].cfg = proc[p].cfg, \A q \in Proc \ {p} : proc'[q] = proc[q],
           UNCHANGED <<toml, authorized, pending>>, stored \subseteq stored',
           wsPin' = wsPin \/ wsPin' = [wsPin EXCEPT ![proc[p].cfg.ws] = proc[p].cfg.gen],
           repoPin' \in {repoPin, proc[p].cfg},
           proc'[p].phase = "pinWorkspace" => proc[p].cfg \in stored,
           proc'[p].phase = "pinCheckout" =>
              proc[p].phase = "pinWorkspace" /\ wsPin'[proc[p].cfg.ws] = proc[p].cfg.gen,
           proc'[p].phase = "clean" => proc[p].phase = "pinCheckout" /\ repoPin' = proc[p].cfg
    PROVE  Undisturbed'
  <1>1. toml \in Root /\ Named /\ proc[p].cfg = toml
    BY DEF Undisturbed, Unnamed, Named, Follows
  <1>2. toml.ws \in Workspace /\ toml.gen \in Genesis
    BY <1>1 DEF Root
  <1>3. /\ wsPin'[toml.ws] \in {wsPin[toml.ws], toml.gen}
        /\ wsPin[toml.ws] = toml.gen => wsPin'[toml.ws] = toml.gen
        /\ repoPin = toml => repoPin' = toml
    BY <1>1, <1>2 DEF Inv, Typed
  <1>4. \A q \in Proc \ {p} : Follows(q)'
    BY <1>1, <1>3 DEF Named, Follows
  <1>5. Follows(p)'
    BY <1>1, <1>3 DEF Named, Follows
  <1> QED BY <1>1, <1>3, <1>4, <1>5 DEF Undisturbed, Named, Naming

LEMMA UndisturbedInit == Init => UndisturbedOK
  BY Roots, IdleOK DEF Init, UndisturbedOK, Undisturbed, Unnamed, Naming

\* A command begins with the root that enbu.toml names, if it names one.
LEMMA StartUndisturbed ==
    ASSUME Inv, Undisturbed, NEW p \in Proc, StartInit(p) \/ Open(p)
    PROVE  Undisturbed'
  <1> USE DEF Pins, Counts
  <1> DEFINE r == proc'[p]
  <1>1. /\ UNCHANGED <<toml, wsPin, repoPin, authorized, pending, stored>>
        /\ \A q \in Proc \ {p} : proc'[q] = proc[q]
    BY DEF StartInit, Open, Inv, Typed
  <1>2. \/ /\ r.phase = "bind" /\ p \in Initializer
           /\ r.cfg = toml \/ (toml = NoRoot /\ r.cfg.gen = NoGenesis)
        \/ r.phase = "check" /\ r.cfg = toml /\ toml \in Root
    <2>1. CASE StartInit(p)
      <3>1. PICK accept \in BOOLEAN, w \in Workspace :
               proc' = [proc EXCEPT ![p] = Started(accept,
                           IF toml = NoRoot THEN [ws |-> w, gen |-> NoGenesis] ELSE toml)]
        BY <2>1 DEF StartInit, Started
      <3> DEFINE cfg == IF toml = NoRoot THEN [ws |-> w, gen |-> NoGenesis] ELSE toml
      <3>2. cfg \in Toml /\ (cfg = toml \/ (toml = NoRoot /\ cfg.gen = NoGenesis))
        BY DEF Inv, Typed, Toml
      <3>3. r = Started(accept, cfg)
        BY <3>1 DEF Inv, Typed
      <3> HIDE DEF cfg, r
      <3>4. r.phase = "bind" /\ r.cfg = cfg
        BY <3>2, <3>3, StartedTyped
      <3> QED BY <2>1, <3>2, <3>4 DEF StartInit
    <2>2. CASE Open(p)
      <3>1. r = Opened(toml) /\ toml \in Root
        BY <2>2 DEF Open, Opened, Inv, Typed
      <3> HIDE DEF r
      <3> QED BY <3>1, OpenedTyped, Roots
    <2> QED BY <2>1, <2>2
  <1> HIDE DEF r
  <1>3. CASE toml \in Root
    <2>1. r.phase \in {"bind", "check"} /\ r.cfg = toml
      BY <1>2, <1>3, Roots
    <2>2. \A q \in Proc : Follows(q)'
      BY <1>1, <1>3, <2>1 DEF Undisturbed, Named, Follows, r
    <2> QED BY <1>1, <1>2, <1>3, <2>2 DEF Undisturbed, Named, Naming, r
  <1>4. CASE toml \notin Root
    <2>1. r.phase = "bind" /\ r.cfg.gen = NoGenesis /\ p \in Initializer
      BY <1>2, <1>4, NamedRoot DEF Inv, Typed, NoRoot
    <2>2. Unnamed'
      BY <1>1, <1>4, <2>1 DEF Undisturbed, Unnamed, Naming, r
    <2> QED BY <1>1, <1>4, <2>1, <2>2 DEF Undisturbed, Naming, r
  <1> QED BY <1>3, <1>4

\* Naming a genesis: nobody else is about, and its file is in place.
LEMMA FoundUndisturbed ==
    ASSUME OneInit, Inv, Undisturbed, NEW p \in Proc,
           SaveBinding(p) \/ NewGenesis(p) \/ KeepPending(p) \/ NameGenesis(p)
    PROVE  Undisturbed'
  <1> USE DEF Pins, Counts
  <1>0. proc[p].phase \in Naming /\ p \in Initializer /\ proc[p].cfg \in Toml
    BY DEF SaveBinding, NewGenesis, KeepPending, NameGenesis, Naming, Undisturbed, Inv, Knows
  <1>1. CASE SaveBinding(p)
    <2>1. /\ proc[p].phase = "bind" /\ toml' = proc[p].cfg
          /\ UNCHANGED <<wsPin, repoPin, authorized, pending, stored>>
          /\ Moves(p, IF proc[p].cfg.gen = NoGenesis THEN "genesis" ELSE "recover")
      BY <1>1 DEF SaveBinding
    <2> DEFINE phase == IF proc[p].cfg.gen = NoGenesis THEN "genesis" ELSE "recover"
    <2>2. /\ proc'[p].phase = phase /\ proc'[p].cfg = proc[p].cfg
          /\ \A q \in Proc \ {p} : proc'[q] = proc[q]
      <3>1. phase \in Phase
        BY DEF Phase
      <3> QED BY <2>1, <3>1, MovesTyped DEF Inv
    <2>3. CASE toml \in Root
      <3>1. toml' = toml /\ phase = "recover"
        BY <2>1, <2>3, Roots DEF Undisturbed, Named, Follows
      <3>2. \A q \in Proc : Follows(q)'
        BY <2>1, <2>2, <2>3, <3>1 DEF Undisturbed, Named, Follows
      <3> QED BY <2>1, <2>2, <2>3, <3>1, <3>2 DEF Undisturbed, Named, Naming
    <2>4. CASE toml \notin Root
      <3>1. proc[p].cfg.gen = NoGenesis /\ phase = "genesis" /\ toml' \notin Root
        BY <2>1, <2>4, Roots DEF Undisturbed, Unnamed
      <3>2. Unnamed'
        BY <2>1, <2>2, <2>4, <3>1 DEF Undisturbed, Unnamed, Naming
      <3> QED BY <1>0, <2>1, <2>2, <2>4, <3>1, <3>2 DEF Undisturbed, Naming
    <2> QED BY <2>3, <2>4
  <1>2. CASE NewGenesis(p)
    <2>1. proc[p].phase = "genesis" /\ UNCHANGED <<toml, wsPin, repoPin, pending, stored>>
      BY <1>2 DEF NewGenesis
    <2>2. toml \notin Root /\ Unnamed
      BY <2>1 DEF Undisturbed, Named, Follows
    <2>3. CASE Fails(p) /\ UNCHANGED authorized
      BY <2>1, <2>3, FailsUndisturbed
    <2>4. CASE ~ (Fails(p) /\ UNCHANGED authorized)
      <3>1. PICK g \in Unused :
               /\ authorized' = With(authorized, [ws |-> proc[p].cfg.ws, gen |-> g], repoPin)
               /\ proc' = [proc EXCEPT ![p].phase = "keep",
                                       ![p].cfg = [ws |-> proc[p].cfg.ws, gen |-> g]]
        BY <1>2, <2>4 DEF NewGenesis
      <3> DEFINE root == [ws |-> proc[p].cfg.ws, gen |-> g]
      <3>2. root \in Toml
        BY <1>0 DEF Unused, Toml
      <3>3. authorized' = With(authorized, root, repoPin) /\ Founds(p, root)
        BY <3>1 DEF Founds
      <3> HIDE DEF root
      <3>4. proc'[p].phase = "keep" /\ \A q \in Proc \ {p} : proc'[q] = proc[q]
        BY <3>2, <3>3, FoundsTyped DEF Inv
      <3>5. \A r \in DOMAIN authorized' : authorized'[r] = NoRoot
        BY <2>2, <3>3 DEF With, Undisturbed, Unnamed
      <3>6. Unnamed'
        BY <2>1, <2>2, <3>4 DEF Unnamed, Naming
      <3> QED BY <1>0, <2>1, <2>2, <3>4, <3>5, <3>6 DEF Undisturbed, Naming
    <2> QED BY <2>3, <2>4
  <1>3. CASE KeepPending(p)
    <2>1. /\ proc[p].phase = "keep" /\ UNCHANGED <<toml, wsPin, repoPin, stored, authorized>>
          /\ Moves(p, "name") /\ pending' = With(pending, proc[p].cfg, authorized[proc[p].cfg])
      BY <1>3 DEF KeepPending
    <2>2. toml \notin Root /\ Unnamed
      BY <2>1 DEF Undisturbed, Named, Follows
    <2>3. /\ proc'[p].phase = "name" /\ proc'[p].cfg = proc[p].cfg
          /\ \A q \in Proc \ {p} : proc'[q] = proc[q]
      <3>1. "name" \in Phase
        BY DEF Phase
      <3> QED BY <2>1, <3>1, MovesTyped DEF Inv
    <2>4. DOMAIN pending' = DOMAIN pending \cup {proc[p].cfg}
      BY <2>1 DEF With
    <2>5. Unnamed'
      BY <2>1, <2>2, <2>3, <2>4 DEF Unnamed, Naming
    <2> QED BY <1>0, <2>1, <2>2, <2>3, <2>5 DEF Undisturbed, Naming
  <1>4. CASE NameGenesis(p)
    <2>1. /\ proc[p].phase = "name" /\ toml' = proc[p].cfg /\ Names(p)
          /\ UNCHANGED <<wsPin, repoPin, pending, stored, authorized>>
      BY <1>4 DEF NameGenesis, Names
    <2>2. toml \notin Root /\ Unnamed
      BY <2>1 DEF Undisturbed, Named, Follows
    <2>3. /\ proc'[p].phase = "recover" /\ proc'[p].cfg = proc[p].cfg
          /\ \A q \in Proc \ {p} : proc'[q] = proc[q]
      BY <2>1, NamesTyped DEF Inv
    <2>4. \A q \in Proc \ {p} : proc'[q].phase = "idle"
      BY <1>0, <2>2, <2>3 DEF OneInit, Undisturbed, Unnamed
    <2>5. \A q \in Proc : Follows(q)'
      BY <2>1, <2>3, <2>4 DEF Follows
    <2>6. /\ toml' \in Root /\ toml' \in DOMAIN authorized /\ toml' \in DOMAIN pending
          /\ toml'.ws \in Workspace
      BY <2>1, <2>2 DEF Unnamed, Inv, Knows, Root
    <2>7. Named'
      BY <2>1, <2>2, <2>5, <2>6 DEF Named, Unnamed
    <2>8. (\A q \in Proc : proc[q].phase \in Naming => q \in Initializer)'
      BY <2>3, <2>4 DEF Naming
    <2> QED BY <2>1, <2>6, <2>7, <2>8 DEF Undisturbed
  <1> QED BY <1>1, <1>2, <1>3, <1>4

LEMMA ResumeUndisturbed ==
    ASSUME Inv, Undisturbed, NEW p \in Proc,
           Recover(p) \/ PublishGenesis(p) \/ CheckPins(p) \/ LoadControl(p)
    PROVE  Undisturbed'
  <1> USE DEF Pins, Counts
  <1>0. {"publish", "check", "load", "pinWorkspace"} \subseteq Phase
    BY DEF Phase
  <1>1. CASE Recover(p)
    <2>1. /\ proc[p].phase = "recover"
          /\ UNCHANGED <<toml, wsPin, repoPin, pending, stored, authorized>>
      BY <1>1 DEF Recover
    <2>2. CASE Fails(p)
      BY <2>1, <2>2, FailsUndisturbed
    <2>3. CASE ~ Fails(p)
      <3>1. /\ proc'[p].phase \in {"publish", "check"} /\ proc'[p].cfg = proc[p].cfg
            /\ \A q \in Proc \ {p} : proc'[q] = proc[q]
        <4>1. CASE Moves(p, "check")
          BY <1>0, <4>1, MovesTyped DEF Inv
        <4>2. CASE ~ Moves(p, "check")
          <5> DEFINE root == proc[p].cfg
                     phase == IF WsRoot(root.ws) # root THEN "publish" ELSE "check"
                     founded == ~ proc[p].accept /\ (WsRoot(root.ws) # root \/ repoPin # root)
          <5>1. root \in DOMAIN pending /\ Resumes(p, phase, founded, pending[root])
            BY <1>1, <2>3, <4>2 DEF Recover, Resumes
          <5>2. /\ phase \in {"publish", "check"} /\ founded \in BOOLEAN
                /\ pending[root] \in Root \cup {NoRoot}
            BY <5>1 DEF Inv, FilesOK
          <5> HIDE DEF phase, founded
          <5> QED BY <5>1, <5>2, ResumesTyped DEF Inv
        <4> QED BY <4>1, <4>2
      <3> QED BY <2>1, <3>1, MovesUndisturbed DEF Naming
    <2> QED BY <2>2, <2>3
  <1>2. CASE PublishGenesis(p)
    <2>1. /\ proc[p].phase = "publish" /\ Moves(p, "check") /\ stored \subseteq stored'
          /\ UNCHANGED <<toml, wsPin, repoPin, pending, authorized>>
      BY <1>2 DEF PublishGenesis
    <2>2. /\ proc'[p].phase = "check" /\ proc'[p].cfg = proc[p].cfg
          /\ \A q \in Proc \ {p} : proc'[q] = proc[q]
      BY <1>0, <2>1, MovesTyped DEF Inv
    <2> QED BY <2>1, <2>2, MovesUndisturbed DEF Naming
  <1>3. CASE CheckPins(p)
    <2>1. proc[p].phase = "check" /\ UNCHANGED <<toml, wsPin, repoPin, pending, stored, authorized>>
      BY <1>3 DEF CheckPins
    <2>2. CASE Fails(p)
      BY <2>1, <2>2, FailsUndisturbed
    <2>3. CASE Moves(p, "load")
      <3>1. /\ proc'[p].phase = "load" /\ proc'[p].cfg = proc[p].cfg
            /\ \A q \in Proc \ {p} : proc'[q] = proc[q]
        BY <1>0, <2>3, MovesTyped DEF Inv
      <3> QED BY <2>1, <3>1, MovesUndisturbed DEF Naming
    <2> QED BY <1>3, <2>2, <2>3 DEF CheckPins
  <1>4. CASE LoadControl(p)
    <2>1. proc[p].phase = "load" /\ UNCHANGED <<toml, wsPin, repoPin, pending, stored, authorized>>
      BY <1>4 DEF LoadControl
    <2>2. CASE Fails(p)
      BY <2>1, <2>2, FailsUndisturbed
    <2>3. CASE Moves(p, "pinWorkspace") /\ proc[p].cfg \in stored
      <3>1. /\ proc'[p].phase = "pinWorkspace" /\ proc'[p].cfg = proc[p].cfg
            /\ \A q \in Proc \ {p} : proc'[q] = proc[q]
        BY <1>0, <2>3, MovesTyped DEF Inv
      <3> QED BY <2>1, <2>3, <3>1, MovesUndisturbed DEF Naming
    <2> QED BY <1>4, <2>2, <2>3 DEF LoadControl
  <1> QED BY <1>1, <1>2, <1>3, <1>4

LEMMA PinUndisturbed ==
    ASSUME Inv, Undisturbed, NEW p \in Proc,
           PinWorkspace(p) \/ PinCheckout(p) \/ RemovePending(p) \/ Crash(p)
    PROVE  Undisturbed'
  <1> USE DEF Pins, Counts
  <1>0. {"pinCheckout", "clean"} \subseteq Phase
    BY DEF Phase
  <1>1. CASE PinWorkspace(p)
    <2>1. /\ proc[p].phase = "pinWorkspace" /\ proc[p].cfg.ws \in Workspace
          /\ UNCHANGED <<toml, repoPin, pending, stored, authorized>>
      BY <1>1 DEF PinWorkspace, Inv, Knows, Root
    <2>2. CASE Fails(p) /\ UNCHANGED wsPin
      BY <2>1, <2>2, FailsUndisturbed
    <2>3. CASE /\ Moves(p, "pinCheckout")
               /\ wsPin' = [wsPin EXCEPT ![proc[p].cfg.ws] = proc[p].cfg.gen]
      <3>1. /\ proc'[p].phase = "pinCheckout" /\ proc'[p].cfg = proc[p].cfg
            /\ \A q \in Proc \ {p} : proc'[q] = proc[q]
        BY <1>0, <2>3, MovesTyped DEF Inv
      <3>2. wsPin'[proc[p].cfg.ws] = proc[p].cfg.gen
        BY <2>1, <2>3 DEF Inv, Typed
      <3> QED BY <2>1, <2>3, <3>1, <3>2, MovesUndisturbed DEF Naming
    <2> QED BY <1>1, <2>2, <2>3 DEF PinWorkspace
  <1>2. CASE PinCheckout(p)
    <2>1. proc[p].phase = "pinCheckout" /\ UNCHANGED <<toml, wsPin, pending, stored, authorized>>
      BY <1>2 DEF PinCheckout
    <2>2. CASE Fails(p) /\ UNCHANGED repoPin
      BY <2>1, <2>2, FailsUndisturbed
    <2>3. CASE Moves(p, "clean") /\ repoPin' = proc[p].cfg
      <3>1. /\ proc'[p].phase = "clean" /\ proc'[p].cfg = proc[p].cfg
            /\ \A q \in Proc \ {p} : proc'[q] = proc[q]
        BY <1>0, <2>3, MovesTyped DEF Inv
      <3> QED BY <2>1, <2>3, <3>1, MovesUndisturbed DEF Naming
    <2> QED BY <1>2, <2>2, <2>3 DEF PinCheckout
  <1>3. CASE RemovePending(p)
    <2>1. /\ proc[p].phase = "clean" /\ Fails(p)
          /\ pending' = pending \/ pending' = Without(pending, proc[p].cfg)
          /\ UNCHANGED <<toml, wsPin, repoPin, stored, authorized>>
      BY <1>3 DEF RemovePending
    <2> QED BY <2>1, FailsUndisturbed
  <1>4. CASE Crash(p)
    BY <1>4, FailsUndisturbed DEF Crash
  <1> QED BY <1>1, <1>2, <1>3, <1>4

LEMMA UndisturbedStep ==
    ASSUME OneInit, Inv, UndisturbedOK, [Next]_vars
    PROVE  UndisturbedOK'
  <1> USE DEF Counts
  <1>1. CASE UNCHANGED vars
    BY <1>1 DEF vars, UndisturbedOK, Undisturbed, Named, Unnamed, Follows
  <1>2. CASE EditToml \/ EmptyStorage
    <2>1. edits' # 0
      BY <1>2 DEF EditToml, EmptyStorage, Inv, Typed
    <2> QED BY <2>1 DEF UndisturbedOK
  <1>3. CASE \E p \in Proc : StartInit(p) \/ Open(p) \/ Step(p) \/ Crash(p)
    <2>1. PICK p \in Proc : StartInit(p) \/ Open(p) \/ Step(p) \/ Crash(p)
      BY <1>3
    <2>2. edits' = edits
      BY <2>1 DEF StartInit, Open, Step, Crash, SaveBinding, NewGenesis, KeepPending, NameGenesis,
             Recover, PublishGenesis, CheckPins, LoadControl, PinWorkspace, PinCheckout,
             RemovePending
    <2>3. Undisturbed => Undisturbed'
      BY <2>1, StartUndisturbed, FoundUndisturbed, ResumeUndisturbed, PinUndisturbed DEF Step
    <2> QED BY <2>2, <2>3 DEF UndisturbedOK
  <1> QED BY <1>1, <1>2, <1>3 DEF Next

\* "A disconnect before this point must remain retryable" (ensureControl):
\* wherever a founding stopped, and however often, init can go on with it, as
\* long as one init at a time runs in the checkout.
THEOREM FoundingIsAlwaysRetryable == OneInit => (Spec => []FoundingIsRetryable)
  <1> SUFFICES ASSUME OneInit PROVE Spec => []FoundingIsRetryable
    OBVIOUS
  <1>1. Inv /\ UndisturbedOK => FoundingIsRetryable
    <2> SUFFICES ASSUME Inv, Undisturbed, toml \in DOMAIN authorized, edits = 0
                 PROVE  FoundingIsRetryable
      BY DEF UndisturbedOK, FoundingIsRetryable
    <2>1. toml \in Root /\ Named
      BY DEF Inv, FilesOK, Undisturbed
    <2>2. toml = [ws |-> toml.ws, gen |-> toml.gen] /\ toml.gen # NoGenesis
      BY <2>1, Roots DEF Root
    <2>3. /\ WsRoot(toml.ws) \in {NoRoot, toml}
          /\ wsPin[toml.ws] = toml.gen => WsRoot(toml.ws) = toml
      BY <2>1, <2>2 DEF Named, WsRoot
    <2>4. toml \in DOMAIN pending => pending[toml] = NoRoot
      BY DEF Inv, FilesOK, Undisturbed
    <2> QED BY <2>1, <2>3, <2>4 DEF Named, FoundingIsRetryable
  <1>2. Init => UndisturbedOK
    BY UndisturbedInit
  <1>3. Inv /\ UndisturbedOK /\ [Next]_vars => UndisturbedOK'
    BY UndisturbedStep
  <1> QED BY <1>1, <1>2, <1>3, Invariance, PTL DEF Spec
=============================================================================
