------------------------- MODULE EnvironmentsProofs -------------------------
(***************************************************************************)
(* Theorems about Environments, for any users, names and incarnations and  *)
(* any number of commands, edits, pulls and revisions.                     *)
(***************************************************************************)
EXTENDS Environments, TLAPS

Choices == [current : Name \cup {NoName}, previous : Name \cup {NoName}]

\* What a command keeps between two writes, or between two deletions.
Switching == [at : {"switch"}, name : Name, previous : Name]
Renaming == [at : {"rename"}, old : Name, new : Name, was : {Absent} \cup Lineage]
Purging == [at : {"purge"}, lineage : Lineage, todo : SUBSET Nat, after : SUBSET Toml,
            pulled : BOOLEAN]
Writing == [at : {"write"}, lineage : Lineage]
Job == {Idle} \cup Switching \cup Renaming \cup Purging \cup Writing

Typed ==
    /\ toml \in [User -> Toml]
    /\ local \in [User -> Choices]
    /\ cmd \in [User -> Job]
    /\ drawn \subseteq Id /\ changes \in 0..MaxChanges
    /\ torn \in [User -> SUBSET Lineage]

\* A revision is stored under one lineage.
StoredOK ==
    /\ stored \in [Lineage -> SUBSET (1..revisions)] /\ revisions \in 0..MaxRevisions
    /\ \A l, m \in Lineage : l # m => stored[l] \cap stored[m] = {}

Drawn(t) == \A n \in Name : t.env[n] \in Id => t.env[n] \in drawn

\* Between its two writes, a rename of the environment the user works in has
\* left it under the new name, and what the user or the team chose leads there.
Renamed(u) ==
    cmd[u].at = "rename" /\ cmd[u].was # Absent =>
        /\ toml[u].env[cmd[u].new] = cmd[u].was
        /\ \/ Choice(u) = cmd[u].old
           \/ /\ toml[u].def = cmd[u].new
              /\ Choice(u) \notin EnvironmentNames(toml[u]) \ {cmd[u].new}

\* The section a purge is to remove is there until it does, or until a pull.
Purges(u) ==
    cmd[u].at = "purge" =>
        /\ \A t \in cmd[u].after : Drawn(t)
        /\ cmd[u].after # {} /\ ~ cmd[u].pulled => cmd[u].lineage \in Shown(toml[u])

Knows(u) ==
    /\ Drawn(toml[u])
    /\ Purges(u) /\ Renamed(u)
    /\ torn[u] \subseteq Shown(toml[u])

Inv == Typed /\ StoredOK /\ \A u \in User : Knows(u)

-----------------------------------------------------------------------------
\* The operators on enbu.toml.

LEMMA Lineages ==
    ASSUME NEW t \in Toml
    PROVE  /\ \A n \in Name : Resource(t, n) \in Lineage
           /\ EnvironmentNames(t) \subseteq Name /\ EnvironmentNames(t) # {}
           /\ Shown(t) \subseteq Lineage
  BY EnvironmentsOK DEF Toml, Resource, Lineage, EnvironmentNames, HasEnvironment, Empty, Shown

LEMMA Currents ==
    ASSUME NEW t \in Toml, NEW choice \in Name \cup {NoName}
    PROVE  CurrentEnvironment(t, choice) \in Name
  BY EnvironmentsOK DEF CurrentEnvironment, Toml

\* What a file shows depends on its sections only.
LEMMA ShownSections ==
    ASSUME NEW s, NEW t, s.env = t.env
    PROVE  Shown(s) = Shown(t) /\ EnvironmentNames(s) = EnvironmentNames(t)
           /\ (Apart(s) <=> Apart(t))
  <1>1. EnvironmentNames(s) = EnvironmentNames(t)
    BY DEF EnvironmentNames, Empty, HasEnvironment
  <1>2. \A n : Resource(s, n) = Resource(t, n)
    BY DEF Resource
  <1> QED BY <1>1, <1>2 DEF Shown, Apart

LEMMA ImplicitLineage ==
    ASSUME NEW t \in Toml, Empty(t)
    PROVE  EnvironmentNames(t) = {Default} /\ Resource(t, Default) = Default
  BY EnvironmentsOK DEF Empty, HasEnvironment, EnvironmentNames, Resource, Lineage

\* AddEnvironment: a section with a fresh incarnation, and the implicit one.
LEMMA Added ==
    ASSUME NEW t \in Toml, NEW n \in Name, NEW id \in Id, ~ HasEnvironment(t, n),
           ~ (Empty(t) /\ t.def = NoName /\ n = Default)
    PROVE  LET kept == AddEnvironment(t, n, id)
           IN /\ kept \in Toml /\ kept.env[n] = id
              /\ \A m \in Name \ {n} :
                    kept.env[m] = IF Empty(t) /\ t.def = NoName /\ m = Default THEN Own
                                  ELSE t.env[m]
  BY EnvironmentsOK DEF AddEnvironment, Toml, Lineage

LEMMA Removed ==
    ASSUME NEW t \in Toml, NEW n \in Name
    PROVE  LET left == RemoveEnvironment(t, n)
           IN left \in Toml /\ \A m \in Name : left.env[m] = IF m = n THEN Absent ELSE t.env[m]
  BY DEF RemoveEnvironment, Toml

\* RenameSection: the lineage goes with the section.
LEMMA SectionRenamed ==
    ASSUME NEW t \in Toml, NEW old \in Name, NEW new \in Name,
           HasEnvironment(t, old), ~ HasEnvironment(t, new)
    PROVE  LET after == RenameSection(t, old, new)
           IN /\ after \in Toml /\ after.joined = t.joined
              /\ after.def = IF t.def = old THEN new ELSE t.def
              /\ after.env[new] = Resource(t, old) /\ after.env[old] = Absent /\ old # new
              /\ \A m \in Name \ {old, new} : after.env[m] = t.env[m]
  BY Lineages DEF RenameSection, Toml, HasEnvironment

LEMMA SavesTyped ==
    ASSUME Typed, NEW u \in User, NEW t \in Toml, Saves(u, t)
    PROVE  /\ toml' \in [User -> Toml] /\ toml'[u] = t
           /\ torn' \in [User -> SUBSET Lineage] /\ torn'[u] \subseteq Shown(t)
           /\ \A v \in User \ {u} : toml'[v] = toml[v] /\ torn'[v] = torn[v]
  BY DEF Typed, Saves

LEMMA RunsTyped ==
    ASSUME Typed, NEW u \in User, NEW c \in Job, Runs(u, c)
    PROVE  /\ cmd' \in [User -> Job] /\ cmd'[u] = c
           /\ \A v \in User \ {u} : cmd'[v] = cmd[v]
  BY DEF Typed, Runs

LEMMA Jobs ==
    ASSUME NEW c \in Job
    PROVE  /\ c.at \in {"idle", "switch", "rename", "purge", "write"}
           /\ c.at = "switch" => c \in Switching
           /\ c.at = "rename" => c \in Renaming
           /\ c.at = "purge" => c \in Purging
           /\ c.at = "write" => c \in Writing
  BY DEF Job, Idle, Switching, Renaming, Purging, Writing

LEMMA IdleJob == Idle \in Job /\ Idle.at = "idle"
  BY DEF Job, Idle

LEMMA InvInit == Init => Inv
  <1> SUFFICES ASSUME Init PROVE Inv
    OBVIOUS
  <1>1. toml \in [User -> Toml] /\ \A u \in User : Drawn(toml[u])
    BY EnvironmentsOK DEF Init, Toml, Drawn, Lineage
  <1>2. Typed
    BY <1>1, IdleJob, EnvironmentsOK DEF Init, Typed, NoChoice, Choices
  <1>3. StoredOK
    BY EnvironmentsOK DEF Init, StoredOK
  <1>4. \A u \in User : cmd[u] = Idle /\ torn[u] = {}
    BY DEF Init
  <1> QED BY <1>1, <1>2, <1>3, <1>4, IdleJob DEF Inv, Knows, Purges, Renamed

\* It is enough to look at the user who takes the step.
LEMMA OthersKeep ==
    ASSUME Inv, NEW u \in User, drawn \subseteq drawn', Typed', StoredOK', Knows(u)',
           \A v \in User \ {u} : /\ toml'[v] = toml[v] /\ local'[v] = local[v]
                                 /\ cmd'[v] = cmd[v] /\ torn'[v] = torn[v]
    PROVE  Inv'
  <1>1. ASSUME NEW v \in User \ {u}
        PROVE  Knows(v)'
    BY <1>1 DEF Inv, Knows, Purges, Renamed, Drawn, Choice
  <1> QED BY <1>1 DEF Inv

-----------------------------------------------------------------------------
\* The choice is set, in the local state or in a file without a workspace.
LEMMA SetCurrentTyped ==
    ASSUME Inv, NEW u \in User, NEW name \in Name, NEW previous \in Name,
           SetCurrent(u, name, previous)
    PROVE  /\ toml' \in [User -> Toml] /\ toml'[u].env = toml[u].env
           /\ local' \in [User -> Choices] /\ torn' \in [User -> SUBSET Lineage]
           /\ torn'[u] \subseteq Shown(toml'[u])
           /\ \A v \in User \ {u} : /\ toml'[v] = toml[v] /\ local'[v] = local[v]
                                    /\ torn'[v] = torn[v]
  <1>1. CASE toml[u].joined
    <2>1. /\ local' = [local EXCEPT ![u] = [current |-> name, previous |-> previous]]
          /\ toml' = toml /\ torn' = torn
      BY <1>1 DEF SetCurrent
    <2>2. [current |-> name, previous |-> previous] \in Choices
      BY DEF Choices
    <2> QED BY <2>1, <2>2 DEF Inv, Typed, Knows
  <1>2. CASE ~ toml[u].joined
    <2> DEFINE t == [toml[u] EXCEPT !.def = name]
    <2>1. Saves(u, t) /\ local' = local
      BY <1>2 DEF SetCurrent
    <2>2. t \in Toml /\ t.env = toml[u].env
      BY DEF Inv, Typed, Toml
    <2> HIDE DEF t
    <2> QED BY <2>1, <2>2, SavesTyped DEF Inv, Typed
  <1> QED BY <1>1, <1>2

LEMMA SwitchStep ==
    ASSUME Inv, NEW u \in User,
           SwitchEnvironment(u) \/ SwitchPrevious(u) \/ SwitchToCreated(u)
    PROVE  Inv'
  <1> USE DEF storageVars
  <1>1. /\ \E name, previous \in Name : SetCurrent(u, name, previous)
        /\ cmd' \in [User -> Job] /\ cmd'[u] = Idle /\ \A v \in User \ {u} : cmd'[v] = cmd[v]
        /\ changes' \in 0..MaxChanges /\ UNCHANGED <<drawn, stored, revisions>>
    <2>1. CASE \E n \in Name : SwitchTo(u, n)
      <3>1. PICK n \in Name : SwitchTo(u, n)
        BY <2>1
      <3>2. Current(u) \in Name
        BY Currents DEF Current, Choice, Inv, Typed, Choices
      <3>3. SetCurrent(u, n, Current(u)) /\ cmd[u] = Idle /\ cmd' = cmd
        BY <3>1 DEF SwitchTo, Switches
      <3>4. changes' \in 0..MaxChanges /\ UNCHANGED <<drawn, stored, revisions>>
        BY <3>1, EnvironmentsOK DEF SwitchTo, Switches, Changes, Inv, Typed
      <3> QED BY <3>2, <3>3, <3>4 DEF Inv, Typed
    <2>2. CASE SwitchToCreated(u)
      <3>1. cmd[u] \in Switching
        BY <2>2, Jobs DEF SwitchToCreated, Inv, Typed
      <3>2. SetCurrent(u, cmd[u].name, cmd[u].previous) /\ Runs(u, Idle)
        BY <2>2 DEF SwitchToCreated
      <3>3. cmd[u].name \in Name /\ cmd[u].previous \in Name
        BY <3>1 DEF Switching
      <3> QED BY <2>2, <3>2, <3>3, RunsTyped, IdleJob DEF SwitchToCreated, Inv, Typed
    <2>3. local[u].previous \in Name \cup {NoName}
      BY DEF Inv, Typed, Choices
    <2> QED BY <2>1, <2>2, <2>3 DEF SwitchEnvironment, SwitchPrevious
  <1>2. /\ toml' \in [User -> Toml] /\ toml'[u].env = toml[u].env
        /\ local' \in [User -> Choices] /\ torn' \in [User -> SUBSET Lineage]
        /\ torn'[u] \subseteq Shown(toml'[u])
        /\ \A v \in User \ {u} : /\ toml'[v] = toml[v] /\ local'[v] = local[v]
                                 /\ torn'[v] = torn[v]
    BY <1>1, SetCurrentTyped
  <1>3. Typed' /\ StoredOK'
    BY <1>1, <1>2 DEF Inv, Typed, StoredOK
  <1>4. Knows(u)'
    BY <1>1, <1>2, IdleJob DEF Inv, Knows, Drawn, Purges, Renamed
  <1> QED BY <1>1, <1>2, <1>3, <1>4, OthersKeep

LEMMA CreateStep ==
    ASSUME Inv, NEW u \in User, CreateEnvironment(u)
    PROVE  Inv'
  <1> USE DEF storageVars
  <1>1. PICK n \in Name, id \in Id \ drawn :
           /\ ~ HasEnvironment(toml[u], n)
           /\ ~ (Empty(toml[u]) /\ toml[u].def = NoName /\ n = Default)
           /\ Saves(u, AddEnvironment(toml[u], n, id))
           /\ drawn' = drawn \cup {id}
           /\ Runs(u, [at |-> "switch", name |-> n,
                       previous |-> CurrentEnvironment(AddEnvironment(toml[u], n, id), Choice(u))])
    BY DEF CreateEnvironment
  <1> DEFINE kept == AddEnvironment(toml[u], n, id)
             job == [at |-> "switch", name |-> n, previous |-> CurrentEnvironment(kept, Choice(u))]
  <1>2. /\ kept \in Toml /\ kept.env[n] = id
        /\ \A m \in Name \ {n} : kept.env[m] \in {Own, toml[u].env[m]}
    BY <1>1, Added DEF Inv, Typed
  <1> HIDE DEF kept
  <1>3. job \in Job /\ job.at = "switch"
    <2>1. CurrentEnvironment(kept, Choice(u)) \in Name
      BY <1>2, Currents DEF Choice, Inv, Typed, Choices
    <2> QED BY <2>1 DEF Job, Switching
  <1>4. Saves(u, kept) /\ Runs(u, job) /\ drawn' = drawn \cup {id}
    BY <1>1 DEF kept
  <1> HIDE DEF job
  <1>5. /\ toml' \in [User -> Toml] /\ toml'[u] = kept /\ torn'[u] \subseteq Shown(kept)
        /\ torn' \in [User -> SUBSET Lineage] /\ cmd' \in [User -> Job] /\ cmd'[u] = job
        /\ \A v \in User \ {u} : /\ toml'[v] = toml[v] /\ torn'[v] = torn[v] /\ cmd'[v] = cmd[v]
    BY <1>2, <1>3, <1>4, SavesTyped, RunsTyped DEF Inv
  <1>6. UNCHANGED <<local, stored, revisions>> /\ changes' \in 0..MaxChanges
    BY EnvironmentsOK DEF CreateEnvironment, Changes, Inv, Typed
  <1>7. Typed' /\ StoredOK'
    BY <1>4, <1>5, <1>6 DEF Inv, Typed, StoredOK
  <1>8. \A m \in Name : kept.env[m] \in Id => kept.env[m] \in drawn'
    BY <1>2, <1>4, EnvironmentsOK DEF Inv, Knows, Drawn
  <1>9. Knows(u)'
    <2>1. Drawn(toml[u])'
      BY <1>5, <1>8 DEF Drawn
    <2> QED BY <1>3, <1>5, <2>1 DEF Knows, Purges, Renamed
  <1> QED BY <1>4, <1>5, <1>6, <1>7, <1>9, OthersKeep

\* A command that writes only enbu.toml, with incarnations that were drawn.
LEMMA SavesStep ==
    ASSUME Inv, NEW u \in User, NEW t \in Toml, Saves(u, t), Drawn(t),
           NEW c \in Job, Runs(u, c), UNCHANGED <<local, drawn, stored, revisions>>,
           changes' \in 0..MaxChanges,
           c.at = "purge" => c = [cmd[u] EXCEPT !.pulled = TRUE] /\ cmd[u].at = "purge",
           Renamed(u)'
    PROVE  Inv'
  <1>1. /\ toml' \in [User -> Toml] /\ toml'[u] = t /\ torn'[u] \subseteq Shown(t)
        /\ torn' \in [User -> SUBSET Lineage] /\ cmd' \in [User -> Job] /\ cmd'[u] = c
        /\ \A v \in User \ {u} : /\ toml'[v] = toml[v] /\ torn'[v] = torn[v] /\ cmd'[v] = cmd[v]
    BY SavesTyped, RunsTyped DEF Inv
  <1>2. Typed' /\ StoredOK'
    BY <1>1 DEF Inv, Typed, StoredOK
  <1>3. Drawn(toml[u])'
    BY <1>1 DEF Drawn
  <1>4. Purges(u)'
    <2>1. CASE c.at = "purge"
      <3>1. cmd[u] \in Purging
        BY <2>1, Jobs DEF Inv, Typed
      <3>2. c.after = cmd[u].after /\ c.pulled
        BY <2>1, <3>1 DEF Purging
      <3> QED BY <1>1, <2>1, <3>2 DEF Inv, Knows, Purges, Drawn
    <2>2. CASE c.at # "purge"
      BY <1>1, <2>2 DEF Purges
    <2> QED BY <2>1, <2>2
  <1>5. Knows(u)'
    BY <1>1, <1>3, <1>4 DEF Knows
  <1> QED BY <1>1, <1>2, <1>5, OthersKeep

\* A file without the section: the lineages of the others were drawn.
LEMMA RemovedDrawn ==
    ASSUME NEW t \in Toml, NEW n \in Name, Drawn(t)
    PROVE  RemoveEnvironment(t, n) \in Toml /\ Drawn(RemoveEnvironment(t, n))
  <1> DEFINE left == RemoveEnvironment(t, n)
  <1>1. left \in Toml /\ \A m \in Name : left.env[m] \in {Absent, t.env[m]}
    BY Removed
  <1> HIDE DEF left
  <1>2. Drawn(left)
    BY <1>1, EnvironmentsOK DEF Drawn
  <1> QED BY <1>1, <1>2 DEF left

LEMMA IdleRenamed ==
    ASSUME NEW u \in User, cmd'[u].at # "rename"
    PROVE  Renamed(u)'
  BY DEF Renamed

\* A deletion, a save of the settings editor, and a pull.
LEMMA FileStep ==
    ASSUME Inv, NEW u \in User, DeleteEnvironment(u) \/ WriteConfig(u) \/ Pull(u)
    PROVE  Inv'
  <1> USE DEF storageVars
  <1>0. /\ toml[u] \in Toml /\ Drawn(toml[u])
        /\ cmd[u] \in Job
    BY DEF Inv, Typed, Knows
  <1>1. CASE DeleteEnvironment(u)
    <2>1. PICK n \in Name : Saves(u, RemoveEnvironment(toml[u], n))
      BY <1>1 DEF DeleteEnvironment
    <2>2. /\ RemoveEnvironment(toml[u], n) \in Toml /\ Drawn(RemoveEnvironment(toml[u], n))
      BY <1>0, RemovedDrawn
    <2>3. /\ cmd[u] = Idle /\ cmd' = cmd /\ UNCHANGED <<local, drawn, stored, revisions>>
          /\ changes' \in 0..MaxChanges
      BY <1>1, EnvironmentsOK DEF DeleteEnvironment, Changes, Inv, Typed
    <2>4. Runs(u, Idle)
      BY <2>3 DEF Runs, Inv, Typed
    <2> QED BY <2>1, <2>2, <2>3, <2>4, IdleJob, IdleRenamed, SavesStep
  <1>2. CASE WriteConfig(u)
    <2>1. PICK n \in Name, section \in {Absent, Own} :
             Saves(u, [toml[u] EXCEPT !.env[n] = section])
      BY <1>2 DEF WriteConfig
    <2> DEFINE t == [toml[u] EXCEPT !.env[n] = section]
    <2>2. t \in Toml /\ \A m \in Name : t.env[m] \in {Absent, Own, toml[u].env[m]}
      BY <1>0 DEF Toml
    <2>3. Saves(u, t)
      BY <2>1
    <2> HIDE DEF t
    <2>4. Drawn(t)
      BY <1>0, <2>2, EnvironmentsOK DEF Drawn
    <2>5. /\ cmd[u] = Idle /\ cmd' = cmd /\ UNCHANGED <<local, drawn, stored, revisions>>
          /\ changes' \in 0..MaxChanges
      BY <1>2, EnvironmentsOK DEF WriteConfig, Changes, Inv, Typed
    <2>6. Runs(u, Idle)
      BY <2>5 DEF Runs, Inv, Typed
    <2> QED BY <2>2, <2>3, <2>4, <2>5, <2>6, IdleJob, IdleRenamed, SavesStep
  <1>3. CASE Pull(u)
    <2>1. PICK v \in User : Saves(u, toml[v])
      BY <1>3 DEF Pull
    <2>2. toml[v] \in Toml /\ Drawn(toml[v])
      BY DEF Inv, Typed, Knows
    <2>3. /\ UNCHANGED <<local, drawn, stored, revisions>> /\ changes' \in 0..MaxChanges
          /\ cmd[u].at \in {"idle", "purge", "write"}
      BY <1>3, EnvironmentsOK DEF Pull, Changes, Inv, Typed
    <2>4. CASE cmd[u].at = "purge"
      <3> DEFINE c == [cmd[u] EXCEPT !.pulled = TRUE]
      <3>1. cmd[u] \in Purging
        BY <1>0, <2>4, Jobs
      <3>2. c \in Job /\ c.at = "purge"
        BY <2>4, <3>1 DEF Job, Purging
      <3>3. Runs(u, c)
        BY <1>3, <2>4 DEF Pull
      <3> HIDE DEF c
      <3>4. Renamed(u)'
        BY <3>2, <3>3, RunsTyped, IdleRenamed DEF Inv
      <3> QED BY <2>1, <2>2, <2>3, <2>4, <3>2, <3>3, <3>4, SavesStep DEF c
    <2>5. CASE cmd[u].at # "purge"
      <3>1. Runs(u, cmd[u]) /\ cmd' = cmd
        BY <1>3, <2>5 DEF Pull, Runs, Inv, Typed
      <3> QED BY <1>0, <2>1, <2>2, <2>3, <2>5, <3>1, IdleRenamed, SavesStep
    <2> QED BY <2>4, <2>5
  <1> QED BY <1>1, <1>2, <1>3

\* A rename saves the file; the user's choice follows.
LEMMA RenameStep ==
    ASSUME Inv, NEW u \in User, RenameEnvironment(u)
    PROVE  Inv'
  <1> USE DEF storageVars
  <1>0. toml[u] \in Toml /\ Drawn(toml[u]) /\ Choice(u) \in Name \cup {NoName}
    BY DEF Inv, Typed, Knows, Choice, Choices
  <1>1. PICK old \in Name, new \in Name :
           /\ HasEnvironment(toml[u], old) /\ ~ HasEnvironment(toml[u], new)
           /\ Saves(u, RenameSection(toml[u], old, new))
           /\ Runs(u, [at |-> "rename", old |-> old, new |-> new,
                       was |-> IF old = Current(u) /\ old \in {Choice(u), toml[u].def}
                               THEN Resource(toml[u], old) ELSE Absent])
    BY DEF RenameEnvironment
  <1> DEFINE was == IF old = Current(u) /\ old \in {Choice(u), toml[u].def}
                    THEN Resource(toml[u], old) ELSE Absent
             job == [at |-> "rename", old |-> old, new |-> new, was |-> was]
             t == RenameSection(toml[u], old, new)
  <1>2. /\ t \in Toml /\ t.joined = toml[u].joined
        /\ t.def = IF toml[u].def = old THEN new ELSE toml[u].def
        /\ t.env[new] = Resource(toml[u], old) /\ t.env[old] = Absent /\ old # new
        /\ \A m \in Name \ {old, new} : t.env[m] = toml[u].env[m]
    BY <1>0, <1>1, SectionRenamed
  <1>3. /\ job \in Job /\ job.at = "rename" /\ job.old = old /\ job.new = new /\ job.was = was
    <2>1. was \in {Absent} \cup Lineage
      BY <1>0, Lineages
    <2> QED BY <2>1 DEF Job, Renaming
  <1>4. Saves(u, t) /\ Runs(u, job)
    BY <1>1
  <1> HIDE DEF t, job
  <1>5. /\ UNCHANGED <<local, drawn, stored, revisions>> /\ changes' \in 0..MaxChanges
    BY EnvironmentsOK DEF RenameEnvironment, Changes, Inv, Typed
  <1>6. Drawn(t)
    <2>1. Resource(toml[u], old) \in Id => Resource(toml[u], old) \in drawn
      BY <1>0, EnvironmentsOK DEF Resource, Drawn
    <2> QED BY <1>0, <1>2, <2>1, EnvironmentsOK DEF Drawn
  <1>7. toml'[u] = t /\ cmd'[u] = job
    BY <1>2, <1>3, <1>4, SavesTyped, RunsTyped DEF Inv
  <1>8. Renamed(u)'
    <2> SUFFICES ASSUME was # Absent
                 PROVE  /\ t.env[new] = was
                        /\ \/ Choice(u) = old
                           \/ t.def = new /\ Choice(u) \notin EnvironmentNames(t) \ {new}
      <3>1. Choice(u)' = Choice(u)
        BY <1>2, <1>5, <1>7 DEF Choice
      <3>2. EnvironmentNames(toml[u])' = EnvironmentNames(t)
        BY <1>7 DEF EnvironmentNames, Empty, HasEnvironment
      <3> HIDE DEF was
      <3> QED BY <1>3, <1>7, <3>1, <3>2 DEF Renamed
    <2>1. old = Current(u) /\ old \in {Choice(u), toml[u].def} /\ was = Resource(toml[u], old)
      OBVIOUS
    <2>2. CASE Choice(u) # old
      <3>1. toml[u].def = old /\ Choice(u) \notin EnvironmentNames(toml[u])
        <4>1. EnvironmentNames(toml[u]) \subseteq Name
          BY <1>0, Lineages
        <4> QED BY <1>0, <2>1, <2>2, <4>1, EnvironmentsOK DEF Current, CurrentEnvironment
      <3>2. ~ Empty(toml[u])
        BY <1>1 DEF Empty
      <3>3. EnvironmentNames(t) \ {new} \subseteq EnvironmentNames(toml[u])
        <4>1. HasEnvironment(t, new)
          BY <1>1, <1>2, <1>0, Lineages, EnvironmentsOK DEF HasEnvironment, Lineage
        <4>2. EnvironmentNames(t) = {n \in Name : HasEnvironment(t, n)}
          BY <4>1 DEF EnvironmentNames, Empty
        <4>3. EnvironmentNames(toml[u]) = {n \in Name : HasEnvironment(toml[u], n)}
          BY <3>2 DEF EnvironmentNames
        <4> QED BY <1>2, <4>2, <4>3 DEF HasEnvironment
      <3> QED BY <1>2, <2>1, <3>1, <3>3
    <2> QED BY <1>2, <2>1, <2>2
  <1> QED BY <1>2, <1>3, <1>4, <1>5, <1>6, <1>8, SavesStep

\* A command that leaves enbu.toml and what was deleted as they are.
LEMMA RunsStep ==
    ASSUME Inv, NEW u \in User, NEW c \in Job, Runs(u, c), UNCHANGED <<toml, drawn, torn>>,
           local' \in [User -> Choices], \A v \in User \ {u} : local'[v] = local[v],
           changes' \in 0..MaxChanges, StoredOK', c.at # "rename",
           c.at = "purge" =>
              /\ \A t \in c.after : Drawn(t)
              /\ c.after # {} /\ ~ c.pulled => c.lineage \in Shown(toml[u])
    PROVE  Inv'
  <1>1. /\ cmd' \in [User -> Job] /\ cmd'[u] = c /\ \A v \in User \ {u} : cmd'[v] = cmd[v]
    BY RunsTyped DEF Inv
  <1>2. Typed'
    BY <1>1 DEF Inv, Typed
  <1>3. Knows(u)'
    BY <1>1 DEF Inv, Knows, Purges, Renamed, Drawn
  <1> QED BY <1>1, <1>2, <1>3, OthersKeep

\* The choice follows a rename; a save of the local state stops; a command stops.
LEMMA LocalStep ==
    ASSUME Inv, NEW u \in User, FollowRename(u) \/ SaveStops(u) \/ Stop(u)
    PROVE  Inv'
  <1> USE DEF storageVars
  <1>1. /\ Runs(u, Idle) /\ UNCHANGED <<toml, drawn, torn, stored, revisions>>
        /\ changes' \in 0..MaxChanges
    BY EnvironmentsOK DEF FollowRename, SaveStops, Stop, Switches, Changes, Inv, Typed
  <1>2. local' \in [User -> Choices] /\ \A v \in User \ {u} : local'[v] = local[v]
    <2>1. CASE FollowRename(u)
      <3>1. cmd[u] \in Renaming
        BY <2>1, Jobs DEF FollowRename, Inv, Typed
      <3>2. \A n \in Name \cup {NoName} : Followed(cmd[u], n) \in Name \cup {NoName}
        BY <3>1 DEF Renaming, Followed
      <3> DEFINE choice == [current |-> Followed(cmd[u], local[u].current),
                            previous |-> Followed(cmd[u], local[u].previous)]
      <3>3. choice \in Choices
        BY <3>2 DEF Choices, Inv, Typed
      <3>4. local' \in {local, [local EXCEPT ![u] = choice]}
        BY <2>1 DEF FollowRename, Inv, Typed
      <3> HIDE DEF choice
      <3> QED BY <3>3, <3>4 DEF Inv, Typed
    <2>2. CASE SaveStops(u)
      <3>1. NoChoice \in Choices
        BY DEF NoChoice, Choices
      <3> QED BY <2>2, <3>1 DEF SaveStops, Inv, Typed
    <2>3. CASE Stop(u)
      BY <2>3 DEF Stop, Inv, Typed
    <2> QED BY <2>1, <2>2, <2>3
  <1>3. StoredOK'
    BY <1>1 DEF Inv, StoredOK
  <1> QED BY <1>1, <1>2, <1>3, IdleJob, RunsStep

\* Deletions with --purge begin.
LEMMA StartPurgeStep ==
    ASSUME Inv, NEW u \in User, DeleteEnvironmentPurging(u) \/ PurgeIncarnation(u)
    PROVE  Inv'
  <1> USE DEF storageVars
  <1>0. toml[u] \in Toml /\ Drawn(toml[u])
    BY DEF Inv, Typed, Knows
  <1>1. PICK lineage, after :
           /\ StartPurge(u, lineage, after) /\ UNCHANGED <<toml, torn>>
           /\ lineage \in Lineage /\ after \subseteq Toml /\ \A t \in after : Drawn(t)
           /\ after # {} => lineage \in Shown(toml[u])
    <2>1. CASE DeleteEnvironmentPurging(u)
      <3>1. PICK n \in Name :
               /\ HasEnvironment(toml[u], n) /\ UNCHANGED <<toml, torn>>
               /\ StartPurge(u, Resource(toml[u], n), {RemoveEnvironment(toml[u], n)})
        BY <2>1 DEF DeleteEnvironmentPurging, CheckDeletable, BeforePurge
      <3>2. Resource(toml[u], n) \in Lineage /\ Resource(toml[u], n) \in Shown(toml[u])
        <4>1. n \in EnvironmentNames(toml[u])
          BY <3>1 DEF EnvironmentNames, Empty
        <4> QED BY <1>0, <4>1, Lineages DEF Shown
      <3>3. RemoveEnvironment(toml[u], n) \in Toml /\ Drawn(RemoveEnvironment(toml[u], n))
        BY <1>0, RemovedDrawn
      <3> QED BY <3>1, <3>2, <3>3
    <2>2. CASE PurgeIncarnation(u)
      BY <2>2 DEF PurgeIncarnation, Inv, Typed, Lineage
    <2> QED BY <2>1, <2>2
  <1> DEFINE c == [at |-> "purge", lineage |-> lineage, todo |-> stored[lineage], after |-> after,
                   pulled |-> FALSE]
  <1>2. c \in Job /\ c.at = "purge" /\ c.after = after /\ c.lineage = lineage
    <2>1. stored[lineage] \in SUBSET Nat
      <3>1. stored[lineage] \subseteq 1..revisions /\ revisions \in Nat
        BY <1>1, EnvironmentsOK DEF Inv, StoredOK
      <3> QED BY <3>1
    <2> QED BY <1>1, <2>1 DEF Job, Purging
  <1>3. /\ Runs(u, c) /\ UNCHANGED <<local, drawn, stored, revisions>>
        /\ changes' \in 0..MaxChanges
    BY <1>1, EnvironmentsOK DEF StartPurge, Changes, Inv, Typed
  <1> HIDE DEF c
  <1>4. StoredOK'
    BY <1>3 DEF Inv, StoredOK
  <1>5. local' \in [User -> Choices] /\ \A v \in User \ {u} : local'[v] = local[v]
    BY <1>3 DEF Inv, Typed
  <1> QED BY <1>1, <1>2, <1>3, <1>4, <1>5, RunsStep

\* A revision less: what was begun stays in enbu.toml until the last is gone.
LEMMA PurgeRevisionStep ==
    ASSUME Inv, NEW u \in User, PurgeRevision(u)
    PROVE  Inv'
  <1>1. cmd[u] \in Purging /\ cmd[u].at = "purge"
    BY Jobs DEF PurgeRevision, Inv, Typed
  <1>2. PICK r \in cmd[u].todo :
           /\ stored' = [stored EXCEPT ![cmd[u].lineage] = @ \ {r}]
           /\ Runs(u, [cmd[u] EXCEPT !.todo = @ \ {r}])
           /\ torn' = IF cmd[u].after = {} THEN torn
                      ELSE [torn EXCEPT ![u] = IF cmd[u].todo = {r} THEN @ \ {cmd[u].lineage}
                                          ELSE IF cmd[u].pulled THEN @
                                          ELSE @ \cup {cmd[u].lineage}]
    BY DEF PurgeRevision
  <1>3. UNCHANGED <<changes, toml, local, drawn, revisions>>
    BY DEF PurgeRevision
  <1> DEFINE c == [cmd[u] EXCEPT !.todo = @ \ {r}]
  <1>4. /\ c \in Job /\ c.at = "purge" /\ c.after = cmd[u].after /\ c.lineage = cmd[u].lineage
        /\ c.pulled = cmd[u].pulled
    BY <1>1 DEF Job, Purging
  <1>5. Runs(u, c)
    BY <1>2
  <1> HIDE DEF c
  <1>6. /\ cmd' \in [User -> Job] /\ cmd'[u] = c /\ \A v \in User \ {u} : cmd'[v] = cmd[v]
    BY <1>4, <1>5, RunsTyped DEF Inv
  <1>7. /\ torn' \in [User -> SUBSET Lineage] /\ \A v \in User \ {u} : torn'[v] = torn[v]
        /\ torn'[u] \subseteq Shown(toml[u])
    <2>1. cmd[u].lineage \in Lineage
      BY <1>1 DEF Purging
    <2>2. CASE cmd[u].after = {}
      BY <1>2, <2>2 DEF Inv, Typed, Knows
    <2>3. CASE cmd[u].after # {}
      <3>1. PICK s : s = IF cmd[u].todo = {r} THEN torn[u] \ {cmd[u].lineage}
                         ELSE IF cmd[u].pulled THEN torn[u]
                         ELSE torn[u] \cup {cmd[u].lineage}
        OBVIOUS
      <3>2. s \subseteq Shown(toml[u]) /\ s \subseteq Lineage
        BY <1>1, <2>1, <2>3, <3>1 DEF Inv, Typed, Knows, Purges
      <3>3. torn' = [torn EXCEPT ![u] = s]
        BY <1>2, <2>3, <3>1 DEF Inv, Typed
      <3> QED BY <3>2, <3>3 DEF Inv, Typed
    <2> QED BY <2>2, <2>3
  <1>8. StoredOK'
    BY <1>2, <1>3 DEF Inv, StoredOK
  <1>9. Typed'
    BY <1>3, <1>6, <1>7 DEF Inv, Typed
  <1>10. Knows(u)'
    BY <1>1, <1>3, <1>4, <1>6, <1>7 DEF Inv, Knows, Drawn, Purges, Renamed
  <1> QED BY <1>3, <1>6, <1>7, <1>8, <1>9, <1>10, OthersKeep

\* The last revision is gone: the section goes.
LEMMA FinishPurgeStep ==
    ASSUME Inv, NEW u \in User, FinishPurge(u)
    PROVE  Inv'
  <1> USE DEF storageVars
  <1>1. cmd[u] \in Purging /\ cmd[u].at = "purge"
    BY Jobs DEF FinishPurge, Inv, Typed
  <1>2. Runs(u, Idle) /\ UNCHANGED <<changes, local, drawn, stored, revisions>>
    BY DEF FinishPurge
  <1>3. CASE cmd[u].after = {}
    <2>1. StoredOK'
      BY <1>2 DEF Inv, StoredOK
    <2> QED BY <1>2, <1>3, <2>1, IdleJob, RunsStep DEF FinishPurge, Inv, Typed
  <1>4. CASE cmd[u].after # {}
    <2>1. PICK t \in cmd[u].after : Saves(u, t)
      BY <1>4 DEF FinishPurge
    <2>2. t \in Toml /\ Drawn(t)
      BY <1>1 DEF Purging, Inv, Knows, Purges
    <2>3. cmd'[u].at # "rename"
      BY <1>2, RunsTyped, IdleJob DEF Inv
    <2> QED BY <1>2, <2>1, <2>2, <2>3, IdleJob, IdleRenamed, SavesStep DEF Inv, Typed
  <1> QED BY <1>3, <1>4

\* A write resolves the lineage first and publishes later, under a new number.
LEMMA WriteStep ==
    ASSUME Inv, NEW u \in User, StartWrite(u) \/ PublishWrite(u)
    PROVE  Inv'
  <1> USE DEF storageVars
  <1>1. CASE StartWrite(u)
    <2>1. PICK n \in EnvironmentNames(toml[u]) :
             Runs(u, [at |-> "write", lineage |-> Resource(toml[u], n)])
      BY <1>1 DEF StartWrite
    <2> DEFINE c == [at |-> "write", lineage |-> Resource(toml[u], n)]
    <2>2. c \in Job /\ c.at = "write"
      <3>1. Resource(toml[u], n) \in Lineage
        BY Lineages DEF Inv, Typed
      <3> QED BY <3>1 DEF Job, Writing
    <2>3. Runs(u, c)
      BY <2>1
    <2> HIDE DEF c
    <2>4. StoredOK'
      BY <1>1 DEF StartWrite, Inv, StoredOK
    <2> QED BY <1>1, <2>2, <2>3, <2>4, RunsStep DEF StartWrite, Inv, Typed
  <1>2. CASE PublishWrite(u)
    <2>1. cmd[u] \in Writing
      BY <1>2, Jobs DEF PublishWrite, Inv, Typed
    <2> DEFINE lineage == cmd[u].lineage
    <2>2. /\ lineage \in Lineage /\ revisions < MaxRevisions /\ revisions' = revisions + 1
          /\ stored' = [stored EXCEPT ![lineage] = @ \cup {revisions'}]
      BY <1>2, <2>1 DEF PublishWrite, Writing
    <2>3. revisions \in Nat /\ revisions' \in 0..MaxRevisions /\ revisions' \notin 1..revisions
          /\ 1..revisions \subseteq 1..revisions' /\ revisions' \in 1..revisions'
      BY <2>2, EnvironmentsOK DEF Inv, StoredOK
    <2>4. \A l \in Lineage : /\ stored[l] \subseteq 1..revisions
                             /\ stored'[l] = IF l = lineage THEN stored[l] \cup {revisions'}
                                             ELSE stored[l]
      BY <2>2 DEF Inv, StoredOK
    <2>5. stored' \in [Lineage -> SUBSET (1..revisions')]
      BY <2>2, <2>3, <2>4 DEF Inv, StoredOK
    <2>6. \A l, m \in Lineage : l # m => stored'[l] \cap stored'[m] = {}
      <3> SUFFICES ASSUME NEW l \in Lineage, NEW m \in Lineage, l # m
                   PROVE  stored'[l] \cap stored'[m] = {}
        OBVIOUS
      <3>1. stored[l] \cap stored[m] = {}
        BY DEF Inv, StoredOK
      <3>2. revisions' \notin stored[l] /\ revisions' \notin stored[m]
        BY <2>3, <2>4
      <3> HIDE DEF lineage
      <3> QED BY <2>4, <3>1, <3>2
    <2>7. StoredOK'
      BY <2>3, <2>5, <2>6 DEF StoredOK
    <2> QED BY <1>2, <2>7, IdleJob, RunsStep DEF PublishWrite, Inv, Typed
  <1> QED BY <1>1, <1>2

LEMMA InvStep ==
    ASSUME Inv, [Next]_vars
    PROVE  Inv'
  <1>1. CASE UNCHANGED vars
    BY <1>1 DEF vars, storageVars, Inv, Typed, StoredOK, Knows, Drawn, Purges, Renamed, Choice
  <1>2. CASE Next
    <2>1. PICK u \in User :
             Command(u) \/ Deletion(u) \/ SaveStops(u) \/ Stop(u) \/ WriteConfig(u) \/ Pull(u)
      BY <1>2 DEF Next
    <2> QED BY <2>1, SwitchStep, CreateStep, RenameStep, FileStep, LocalStep, StartPurgeStep,
               PurgeRevisionStep, FinishPurgeStep, WriteStep DEF Command, Deletion
  <1> QED BY <1>1, <1>2

LEMMA Invariance == Spec => []Inv
  BY InvInit, InvStep, PTL DEF Spec

-----------------------------------------------------------------------------
\* The types hold, every incarnation in a file was drawn, and no revision is
\* stored under two lineages.
THEOREM TypeCorrect == Spec => []TypeOK
  <1>1. Inv => TypeOK
    <2> SUFFICES ASSUME Inv PROVE TypeOK
      OBVIOUS
    <2>1. \A u \in User : cmd[u].at \in {"idle", "switch", "rename", "purge", "write"}
      BY Jobs DEF Inv, Typed
    <2> QED BY <2>1 DEF Inv, Typed, StoredOK, Knows, Drawn, Choices, TypeOK
  <1> QED BY <1>1, Invariance, PTL

\* A deletion with --purge that stopped halfway, or was overtaken by other
\* commands, can be repeated: enbu.toml still shows the lineage
\* (DeleteEnvironmentPurging).
THEOREM PurgeIsAlwaysRetryable == Spec => []PurgeIsRetryable
  <1>1. Inv => PurgeIsRetryable
    BY DEF Inv, Knows, PurgeIsRetryable
  <1> QED BY <1>1, Invariance, PTL

-----------------------------------------------------------------------------
\* What one command does to enbu.toml.

\* The file is left alone but for its default.
LEMMA SectionsStay ==
    ASSUME Inv, NEW u \in User, Command(u)
    PROVE  CreateEnvironment(u) \/ RenameEnvironment(u) \/ toml'[u].env = toml[u].env
  <1>1. ASSUME NEW name, NEW previous, SetCurrent(u, name, previous)
        PROVE  toml'[u].env = toml[u].env
    BY <1>1 DEF SetCurrent, Saves, Inv, Typed, Toml
  <1>2. SwitchEnvironment(u) \/ SwitchPrevious(u) \/ SwitchToCreated(u) =>
           toml'[u].env = toml[u].env
    BY <1>1 DEF SwitchEnvironment, SwitchPrevious, SwitchTo, SwitchToCreated
  <1>3. FollowRename(u) \/ StartWrite(u) \/ PublishWrite(u) => toml' = toml
    BY DEF FollowRename, StartWrite, PublishWrite
  <1> QED BY <1>2, <1>3 DEF Command

\* A new section: the others stay, and its incarnation is nobody else's.
LEMMA CreateLineages ==
    ASSUME Inv, NEW u \in User, CreateEnvironment(u)
    PROVE  /\ (Empty(toml[u]) => toml[u].def = NoName) => Shown(toml[u]) \subseteq Shown(toml'[u])
           /\ Apart(toml[u]) => Apart(toml'[u])
  <1> DEFINE t == toml[u]
  <1>1. PICK n \in Name, id \in Id \ drawn :
           /\ ~ HasEnvironment(t, n) /\ ~ (Empty(t) /\ t.def = NoName /\ n = Default)
           /\ Saves(u, AddEnvironment(t, n, id))
    BY DEF CreateEnvironment
  <1>2. t \in Toml /\ Drawn(t)
    BY DEF Inv, Typed, Knows
  <1> DEFINE kept == toml'[u]
             implicit == Empty(t) /\ t.def = NoName
  <1>3. /\ kept \in Toml /\ kept.env[n] = id
        /\ \A m \in Name \ {n} :
              kept.env[m] = IF implicit /\ m = Default THEN Own ELSE t.env[m]
    <2>1. LET new == AddEnvironment(t, n, id)
          IN /\ new \in Toml /\ new.env[n] = id
             /\ \A m \in Name \ {n} :
                   new.env[m] = IF implicit /\ m = Default THEN Own ELSE t.env[m]
      BY <1>1, <1>2, Added
    <2>2. toml'[u] = AddEnvironment(t, n, id)
      BY <1>1 DEF Saves, Inv, Typed
    <2> QED BY <2>1, <2>2
  <1> HIDE DEF kept, t, implicit
  <1>4. EnvironmentNames(kept) = {m \in Name : HasEnvironment(kept, m)} /\ Resource(kept, n) = id
    BY <1>3, EnvironmentsOK DEF EnvironmentNames, Empty, HasEnvironment, Resource, Lineage
  <1>5. \A m \in EnvironmentNames(kept) \ {n} :
           m \in EnvironmentNames(t) /\ Resource(kept, m) = Resource(t, m)
    <2> SUFFICES ASSUME NEW m \in Name \ {n}, HasEnvironment(kept, m)
                 PROVE  m \in EnvironmentNames(t) /\ Resource(kept, m) = Resource(t, m)
      BY <1>4
    <2>1. CASE implicit /\ m = Default
      <3>1. kept.env[m] = Own /\ Resource(kept, m) = Default
        BY <1>3, <2>1, EnvironmentsOK DEF Resource, Lineage
      <3> QED BY <1>2, <2>1, <3>1, ImplicitLineage DEF implicit
    <2>2. CASE ~ (implicit /\ m = Default)
      <3>1. kept.env[m] = t.env[m]
        BY <1>3, <2>2
      <3> QED BY <3>1 DEF HasEnvironment, EnvironmentNames, Empty, Resource
    <2> QED BY <2>1, <2>2
  <1>6. (Empty(t) => t.def = NoName) =>
           \A m \in EnvironmentNames(t) : m # n /\ m \in EnvironmentNames(kept)
    <2> SUFFICES ASSUME Empty(t) => t.def = NoName, NEW m \in EnvironmentNames(t)
                 PROVE  m # n /\ m \in EnvironmentNames(kept)
      OBVIOUS
    <2>1. CASE Empty(t)
      <3>1. m = Default /\ m # n /\ implicit
        BY <1>1, <1>2, <2>1, ImplicitLineage DEF implicit
      <3>2. kept.env[Default] = Own
        BY <1>3, <3>1, EnvironmentsOK
      <3> QED BY <1>4, <3>1, <3>2, EnvironmentsOK DEF HasEnvironment
    <2>2. CASE ~ Empty(t)
      <3>1. m \in Name /\ HasEnvironment(t, m) /\ m # n
        BY <1>1, <2>2 DEF EnvironmentNames
      <3>2. kept.env[m] = t.env[m]
        BY <1>3, <2>2, <3>1 DEF implicit
      <3> QED BY <1>4, <3>1, <3>2 DEF HasEnvironment
    <2> QED BY <2>1, <2>2
  <1>7. (Empty(t) => t.def = NoName) => Shown(t) \subseteq Shown(kept)
    BY <1>5, <1>6 DEF Shown
  <1>8. \A m \in EnvironmentNames(t) : Resource(t, m) # id
    BY <1>2, EnvironmentsOK DEF Resource, EnvironmentNames, Drawn, Lineage
  <1>9. Apart(t) => Apart(kept)
    BY <1>4, <1>5, <1>8 DEF Apart
  <1> QED BY <1>7, <1>9 DEF t, kept

\* The lineage of the section goes to the new name, the others stay.
LEMMA RenameLineages ==
    ASSUME Inv, NEW u \in User, RenameEnvironment(u)
    PROVE  /\ Shown(toml[u]) \subseteq Shown(toml'[u])
           /\ Apart(toml[u]) => Apart(toml'[u])
  <1> DEFINE t == toml[u]
             after == toml'[u]
  <1>1. PICK old \in Name, new \in Name :
           /\ HasEnvironment(t, old) /\ ~ HasEnvironment(t, new)
           /\ Saves(u, RenameSection(t, old, new))
    BY DEF RenameEnvironment
  <1>2. t \in Toml
    BY DEF Inv, Typed
  <1>3. /\ after.env[new] = Resource(t, old) /\ after.env[old] = Absent /\ old # new
        /\ \A m \in Name \ {old, new} : after.env[m] = t.env[m]
    <2>1. after = RenameSection(t, old, new)
      BY <1>1 DEF Saves, Inv, Typed
    <2> QED BY <1>1, <1>2, <2>1, SectionRenamed
  <1>4. Resource(t, old) \in Lineage
    BY <1>2, Lineages
  <1> HIDE DEF t, after
  <1>5. Resource(after, new) = Resource(t, old) /\ HasEnvironment(after, new)
    BY <1>3, <1>4, EnvironmentsOK DEF Resource, HasEnvironment, Lineage
  <1>6. /\ EnvironmentNames(t) = {m \in Name : HasEnvironment(t, m)}
        /\ EnvironmentNames(after) = {m \in Name : HasEnvironment(after, m)}
    BY <1>1, <1>5 DEF EnvironmentNames, Empty
  <1>7. /\ old \in EnvironmentNames(t) /\ new \notin EnvironmentNames(t)
        /\ EnvironmentNames(after) = (EnvironmentNames(t) \ {old}) \cup {new}
    BY <1>1, <1>3, <1>5, <1>6 DEF HasEnvironment
  <1>8. \A m \in EnvironmentNames(t) \ {old} : Resource(after, m) = Resource(t, m)
    BY <1>3, <1>6, <1>7 DEF Resource
  <1>9. Shown(t) \subseteq Shown(after)
    BY <1>5, <1>7, <1>8 DEF Shown
  <1>10. Apart(t) => Apart(after)
    BY <1>5, <1>7, <1>8 DEF Apart
  <1> QED BY <1>9, <1>10 DEF t, after

\* No command loses the revisions of an environment or gives two environments
\* the same ones: a lineage that had one name before a command has one after
\* (AddEnvironmentWithID, RenameEnvironment).
THEOREM LineagesAlwaysStay == Spec => LineagesStay
  <1>1. ASSUME Inv, NEW u \in User, Command(u)
        PROVE  /\ (Empty(toml[u]) => toml[u].def = NoName) =>
                     Shown(toml[u]) \subseteq Shown(toml'[u])
               /\ Apart(toml[u]) => Apart(toml'[u])
    <2>1. CASE toml'[u].env = toml[u].env
      BY <2>1, ShownSections
    <2> QED BY <1>1, <2>1, SectionsStay, CreateLineages, RenameLineages
  <1>2. Spec => NothingIsLost
    <2>1. Inv => \A u \in User :
             Command(u) /\ (Empty(toml[u]) => toml[u].def = NoName)
                => Shown(toml[u]) \subseteq Shown(toml'[u])
      BY <1>1
    <2> QED BY <2>1, Invariance, PTL DEF Spec, NothingIsLost
  <1>3. Spec => CommandsKeepApart
    <2>1. Inv => \A u \in User : Command(u) /\ Apart(toml[u]) => Apart(toml'[u])
      BY <1>1
    <2> QED BY <2>1, Invariance, PTL DEF Spec, CommandsKeepApart
  <1> QED BY <1>2, <1>3 DEF LineagesStay

\* Whatever others do between the two writes of a rename, it leaves the user in
\* the environment it renamed (RenameEnvironment).
THEOREM RenameIsAlwaysFollowed == Spec => RenameIsFollowed
  <1>1. ASSUME Inv, NEW u \in User, FollowRename(u), cmd[u].was # Absent
        PROVE  Resource(toml'[u], CurrentEnvironment(toml'[u], Choice(u)')) = cmd[u].was
    <2> DEFINE t == toml[u]
               c == cmd[u]
    <2>1. /\ c.at = "rename" /\ c.old \in Name /\ c.new \in Name /\ c.was \in Lineage
      BY <1>1, Jobs DEF FollowRename, Inv, Typed, Renaming
    <2>2. /\ t.env[c.new] = c.was
          /\ \/ Choice(u) = c.old
             \/ t.def = c.new /\ Choice(u) \notin EnvironmentNames(t) \ {c.new}
      BY <1>1, <2>1 DEF Inv, Knows, Renamed
    <2>3. toml' = toml /\ Choice(u)' \in {Choice(u), Followed(c, Choice(u))}
          /\ (Choice(u) = c.old => Choice(u)' = c.new)
      <3>1. CASE t.joined
        <4>1. local'[u].current = Followed(c, local[u].current)
          BY <1>1, <3>1 DEF FollowRename, Inv, Typed
        <4> QED BY <1>1, <3>1, <4>1 DEF FollowRename, Choice, Followed
      <3>2. CASE ~ t.joined
        BY <1>1, <2>1, <3>2, EnvironmentsOK DEF FollowRename, Choice
      <3> QED BY <3>1, <3>2
    <2>4. Resource(t, c.new) = c.was /\ c.new \in EnvironmentNames(t)
      BY <2>1, <2>2, EnvironmentsOK DEF Resource, EnvironmentNames, Empty, HasEnvironment, Lineage
    <2>5. CASE Choice(u) = c.old
      <3>1. CurrentEnvironment(t, Choice(u)') = c.new
        BY <2>1, <2>3, <2>4, <2>5, EnvironmentsOK DEF CurrentEnvironment
      <3> QED BY <2>3, <2>4, <3>1
    <2>6. CASE Choice(u) # c.old
      <3>1. Choice(u)' = Choice(u) /\ t.def = c.new
        BY <2>2, <2>3, <2>6 DEF Followed
      <3>2. CurrentEnvironment(t, Choice(u)') = c.new
        BY <2>1, <2>2, <2>6, <3>1, EnvironmentsOK DEF CurrentEnvironment
      <3> QED BY <2>3, <2>4, <3>2
    <2> QED BY <2>5, <2>6
  <1>2. Inv => \A u \in User :
           FollowRename(u) /\ cmd[u].was # Absent
              => Resource(toml'[u], CurrentEnvironment(toml'[u], Choice(u)')) = cmd[u].was
    BY <1>1
  <1> QED BY <1>2, Invariance, PTL DEF Spec, RenameIsFollowed
=============================================================================
