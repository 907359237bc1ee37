---------------------------- MODULE Environments ----------------------------
(***************************************************************************)
(* The environments of enbu.toml (app/environments.go, pkg/config).  Each  *)
(* user has a checkout with an enbu.toml and a local state that says which *)
(* environment the user switched to; git carries whole files from one      *)
(* checkout to another, and people edit them.  An environment is stored    *)
(* under a lineage: its incarnation, or its own name when it has none.     *)
(* Purging deletes the revisions of a lineage one by one.                  *)
(*                                                                         *)
(* A command writes whole files it has loaded, and may stop between two    *)
(* writes.  A user runs one command at a time; a pull may come while a     *)
(* command waits for storage.  A hand-written section has no incarnation.  *)
(*                                                                         *)
(* Bounds: Id bounds the incarnations drawn, MaxRevisions the revisions,   *)
(* MaxChanges the commands, edits and pulls besides the writes.            *)
(***************************************************************************)
EXTENDS Naturals, FiniteSets

CONSTANTS User, Admin, Name, Default, Id, Absent, Own, NoName, MaxRevisions, MaxChanges

ASSUME EnvironmentsOK ==
    /\ Admin \in User /\ Default \in Name
    /\ Name \cap Id = {} /\ Absent \notin Name \cup Id /\ Own \notin Name \cup Id \cup {Absent}
    /\ NoName \notin Name
    /\ MaxRevisions \in Nat /\ MaxChanges \in Nat

VARIABLES
    toml,      \* enbu.toml of each checkout
    local,     \* the local state of each user
    cmd,       \* what each user's command has loaded and has yet to do
    drawn,     \* the incarnations drawn
    stored,    \* the revisions of each lineage
    revisions, \* how many were published
    changes,   \* how many commands, edits and pulls there were
    torn       \* the lineages a deletion with --purge has deleted from and not finished

storageVars == <<stored, revisions>>
vars == <<toml, local, cmd, drawn, changes, torn, storageVars>>

Lineage == Name \cup Id
Toml == [env : [Name -> {Absent, Own} \cup Lineage], def : Name \cup {NoName}, joined : BOOLEAN]
Idle == [at |-> "idle"]

TypeOK ==
    /\ toml \in [User -> Toml]
    /\ local \in [User -> [current : Name \cup {NoName}, previous : Name \cup {NoName}]]
    /\ \A u \in User : cmd[u].at \in {"idle", "switch", "rename", "purge", "write"}
    /\ drawn \subseteq Id
    /\ \A u \in User, n \in Name : toml[u].env[n] \in Id => toml[u].env[n] \in drawn
    /\ stored \in [Lineage -> SUBSET (1..revisions)] /\ revisions \in 0..MaxRevisions
    /\ \A l, m \in Lineage : l # m => stored[l] \cap stored[m] = {}
    /\ changes \in 0..MaxChanges
    /\ torn \in [User -> SUBSET Lineage]

\* What a missing local state holds, and an empty one.
NoChoice == [current |-> NoName, previous |-> NoName]

\* A workspace founded by init, or a file written before it.
Init ==
    /\ \E joined \in BOOLEAN, written \in BOOLEAN :
          toml = [u \in User |->
                    [env |-> [n \in Name |-> IF written /\ n = Default THEN Own ELSE Absent],
                     def |-> IF written THEN Default ELSE NoName, joined |-> joined]]
    /\ local = [u \in User |-> NoChoice]
    /\ cmd = [u \in User |-> Idle]
    /\ drawn = {} /\ changes = 0
    /\ stored = [l \in Lineage |-> {}] /\ revisions = 0
    /\ torn = [u \in User |-> {}]

-----------------------------------------------------------------------------
HasEnvironment(t, n) == t.env[n] # Absent
Empty(t) == \A n \in Name : ~ HasEnvironment(t, n)

\* A file without sections has the environment "default".
EnvironmentNames(t) == IF Empty(t) THEN {Default} ELSE {n \in Name : HasEnvironment(t, n)}

Resource(t, n) == IF t.env[n] \in Lineage THEN t.env[n] ELSE n

Shown(t) == {Resource(t, n) : n \in EnvironmentNames(t)}

\* loadProject: the user's choice counts where there is a workspace.
Choice(u) == IF toml[u].joined THEN local[u].current ELSE NoName

CurrentEnvironment(t, choice) ==
    IF choice # NoName /\ choice \in EnvironmentNames(t) THEN choice
    ELSE IF t.def # NoName THEN t.def ELSE Default

Current(u) == CurrentEnvironment(toml[u], Choice(u))

\* (Variant of AddEnvironment, for mutation: the new section has no incarnation.)
AddUnnamed(t, n, id) == [t EXCEPT !.env[n] = Own]

\* A first section makes the implicit default one of the sections.
AddEnvironment(t, n, id) ==
    LET kept == IF Empty(t) /\ t.def = NoName THEN [t EXCEPT !.env[Default] = Own, !.def = Default]
                ELSE t
    IN [kept EXCEPT !.env[n] = id]

RemoveEnvironment(t, n) ==
    [t EXCEPT !.env[n] = Absent, !.def = IF @ = n THEN NoName ELSE @]

\* A section stored under its name keeps the lineage.
RenameSection(t, old, new) ==
    [t EXCEPT !.env = [@ EXCEPT ![old] = Absent, ![new] = Resource(t, old)],
              !.def = IF @ = old THEN new ELSE @]

-----------------------------------------------------------------------------
Changes == changes < MaxChanges /\ changes' = changes + 1

Runs(u, c) == cmd' = [cmd EXCEPT ![u] = c]
Saves(u, t) ==
    /\ toml' = [toml EXCEPT ![u] = t]
    /\ torn' = [torn EXCEPT ![u] = @ \cap Shown(t)]

\* setCurrent: a file without a workspace takes the team default.
SetCurrent(u, name, previous) ==
    IF toml[u].joined
    THEN /\ local' = [local EXCEPT ![u] = [current |-> name, previous |-> previous]]
         /\ UNCHANGED <<toml, torn>>
    ELSE Saves(u, [toml[u] EXCEPT !.def = name]) /\ UNCHANGED local

Switches(u, n) ==
    /\ cmd[u] = Idle /\ Changes
    /\ HasEnvironment(toml[u], n) /\ n # Current(u)

SwitchTo(u, n) ==
    /\ Switches(u, n)
    /\ SetCurrent(u, n, Current(u))
    /\ UNCHANGED <<cmd, drawn>> /\ UNCHANGED storageVars

SwitchEnvironment(u) == \E n \in Name : SwitchTo(u, n)

SwitchPrevious(u) ==
    /\ toml[u].joined /\ local[u].previous # NoName
    /\ SwitchTo(u, local[u].previous)

CreateEnvironment(u) ==
    /\ cmd[u] = Idle /\ Changes
    /\ \E n \in Name, id \in Id \ drawn :
          LET kept == AddEnvironment(toml[u], n, id)
          IN /\ ~ HasEnvironment(toml[u], n)
             /\ ~ (Empty(toml[u]) /\ toml[u].def = NoName /\ n = Default)
             /\ Saves(u, kept)
             /\ drawn' = drawn \cup {id}
             /\ Runs(u, [at |-> "switch", name |-> n, previous |-> CurrentEnvironment(kept, Choice(u))])
    /\ UNCHANGED <<local>> /\ UNCHANGED storageVars

SwitchToCreated(u) ==
    /\ cmd[u].at = "switch"
    /\ SetCurrent(u, cmd[u].name, cmd[u].previous)
    /\ Runs(u, Idle)
    /\ UNCHANGED <<changes, drawn>> /\ UNCHANGED storageVars

CheckDeletable(u, n) == n # Current(u) /\ HasEnvironment(toml[u], n)

DeleteEnvironment(u) ==
    /\ cmd[u] = Idle /\ Changes
    /\ \E n \in Name :
          /\ CheckDeletable(u, n)
          /\ Saves(u, RemoveEnvironment(toml[u], n))
    /\ UNCHANGED <<local, cmd, drawn>> /\ UNCHANGED storageVars

RenameEnvironment(u) ==
    /\ cmd[u] = Idle /\ Changes
    /\ \E old, new \in Name :
          /\ HasEnvironment(toml[u], old) /\ ~ HasEnvironment(toml[u], new)
          /\ Saves(u, RenameSection(toml[u], old, new))
          /\ Runs(u, [at |-> "rename", old |-> old, new |-> new,
                      was |-> IF old = Current(u) /\ old \in {Choice(u), toml[u].def}
                              THEN Resource(toml[u], old) ELSE Absent])
    /\ UNCHANGED <<local, drawn>> /\ UNCHANGED storageVars

\* (Variant of Followed, for mutation: the choice is dropped.)
Dropped(c, n) == IF n = c.old THEN NoName ELSE n

Followed(c, n) == IF n = c.old THEN c.new ELSE n

\* The user's own choice follows the rename.
FollowRename(u) ==
    /\ cmd[u].at = "rename"
    /\ IF toml[u].joined
       THEN local' = [local EXCEPT ![u] = [current |-> Followed(cmd[u], @.current),
                                           previous |-> Followed(cmd[u], @.previous)]]
       ELSE UNCHANGED local
    /\ Runs(u, Idle)
    /\ UNCHANGED <<changes, toml, drawn, torn>> /\ UNCHANGED storageVars

-----------------------------------------------------------------------------
\* The revisions are listed once; the purge of a section keeps the file it loaded.
StartPurge(u, lineage, after) ==
    /\ Changes /\ cmd[u] = Idle /\ u = Admin /\ toml[u].joined
    /\ Runs(u, [at |-> "purge", lineage |-> lineage, todo |-> stored[lineage], after |-> after,
                pulled |-> FALSE])
    /\ UNCHANGED <<local, drawn>> /\ UNCHANGED storageVars

\* (Variant of BeforePurge, for mutation: the section goes first.)
RemovesFirst(u, n) == Saves(u, RemoveEnvironment(toml[u], n))

BeforePurge(u, n) == UNCHANGED <<toml, torn>>

DeleteEnvironmentPurging(u) ==
    \E n \in Name :
        /\ CheckDeletable(u, n)
        /\ BeforePurge(u, n)
        /\ StartPurge(u, Resource(toml[u], n), {RemoveEnvironment(toml[u], n)})

\* An incarnation that no section of this checkout has.
PurgeIncarnation(u) ==
    \E id \in drawn :
        /\ \A n \in Name : toml[u].env[n] # id
        /\ StartPurge(u, id, {})
        /\ UNCHANGED <<toml, torn>>

\* A revision another purge deleted counts as deleted.
PurgeRevision(u) ==
    /\ cmd[u].at = "purge"
    /\ \E r \in cmd[u].todo :
          /\ stored' = [stored EXCEPT ![cmd[u].lineage] = @ \ {r}]
          /\ Runs(u, [cmd[u] EXCEPT !.todo = @ \ {r}])
          /\ torn' = IF cmd[u].after = {} THEN torn
                     ELSE [torn EXCEPT ![u] = IF cmd[u].todo = {r} THEN @ \ {cmd[u].lineage}
                                         ELSE IF cmd[u].pulled THEN @
                                         ELSE @ \cup {cmd[u].lineage}]
    /\ UNCHANGED <<changes, toml, local, drawn, revisions>>

FinishPurge(u) ==
    /\ cmd[u].at = "purge" /\ cmd[u].todo = {}
    /\ IF cmd[u].after = {} THEN UNCHANGED <<toml, torn>>
       ELSE \E t \in cmd[u].after : Saves(u, t)
    /\ Runs(u, Idle)
    /\ UNCHANGED <<changes, local, drawn>> /\ UNCHANGED storageVars

\* A write resolves the environment first and publishes later.
StartWrite(u) ==
    /\ cmd[u] = Idle /\ toml[u].joined
    /\ \E n \in EnvironmentNames(toml[u]) : Runs(u, [at |-> "write", lineage |-> Resource(toml[u], n)])
    /\ UNCHANGED <<changes, toml, local, drawn, torn>> /\ UNCHANGED storageVars

PublishWrite(u) ==
    /\ cmd[u].at = "write" /\ revisions < MaxRevisions
    /\ revisions' = revisions + 1
    /\ stored' = [stored EXCEPT ![cmd[u].lineage] = @ \cup {revisions'}]
    /\ Runs(u, Idle)
    /\ UNCHANGED <<changes, toml, local, drawn, torn>>

\* Saving the local state empties the file before it writes it.
SaveStops(u) ==
    /\ toml[u].joined
    /\ \/ \E n \in Name : Switches(u, n)
       \/ cmd[u].at \in {"switch", "rename"} /\ UNCHANGED changes
    /\ local' = [local EXCEPT ![u] = NoChoice]
    /\ Runs(u, Idle)
    /\ UNCHANGED <<toml, drawn, torn>> /\ UNCHANGED storageVars

\* The process stops, or a step fails: what was written stays.
Stop(u) ==
    /\ cmd[u] # Idle
    /\ Runs(u, Idle)
    /\ UNCHANGED <<changes, toml, local, drawn, torn>> /\ UNCHANGED storageVars

-----------------------------------------------------------------------------
\* checkProtectedConfig: the sections that were there keep their lineages.
EditAllowed(t, next) ==
    \A n \in Name : HasEnvironment(next, n) /\ HasEnvironment(t, n) => Resource(next, n) = Resource(t, n)

\* The settings editor of the desktop saves a file with one section more or fewer.
WriteConfig(u) ==
    /\ cmd[u] = Idle /\ Changes
    /\ \E n \in Name, section \in {Absent, Own} :
          LET next == [toml[u] EXCEPT !.env[n] = section]
          IN /\ next # toml[u] /\ EditAllowed(toml[u], next)
             /\ Saves(u, next)
    /\ UNCHANGED <<local, cmd, drawn>> /\ UNCHANGED storageVars

\* git: the file of another checkout.
Pull(u) ==
    /\ Changes /\ cmd[u].at \in {"idle", "purge", "write"}
    /\ \E v \in User : toml[v] # toml[u] /\ Saves(u, toml[v])
    /\ IF cmd[u].at = "purge" THEN Runs(u, [cmd[u] EXCEPT !.pulled = TRUE]) ELSE UNCHANGED cmd
    /\ UNCHANGED <<local, drawn>> /\ UNCHANGED storageVars

-----------------------------------------------------------------------------
Command(u) ==
    \/ SwitchEnvironment(u) \/ SwitchPrevious(u)
    \/ CreateEnvironment(u) \/ SwitchToCreated(u)
    \/ RenameEnvironment(u) \/ FollowRename(u)
    \/ StartWrite(u) \/ PublishWrite(u)

Deletion(u) ==
    \/ DeleteEnvironment(u)
    \/ DeleteEnvironmentPurging(u) \/ PurgeIncarnation(u) \/ PurgeRevision(u) \/ FinishPurge(u)

Next == \E u \in User : Command(u) \/ Deletion(u) \/ SaveStops(u) \/ Stop(u) \/ WriteConfig(u) \/ Pull(u)

Spec == Init /\ [][Next]_vars

-----------------------------------------------------------------------------
\* An environment stays in enbu.toml until its revisions are gone, so that a
\* deletion that stopped halfway can be repeated (DeleteEnvironmentPurging).
PurgeIsRetryable == \A u \in User : torn[u] \subseteq Shown(toml[u])

\* Creating, renaming and switching take no lineage out of a checkout: what an
\* environment showed is still shown under some name (RenameEnvironment,
\* AddEnvironmentWithID).  A file that has a default_env and no sections is
\* left to ImplicitIsKept.
NothingIsLost ==
    [][\A u \in User :
          Command(u) /\ (Empty(toml[u]) => toml[u].def = NoName)
              => Shown(toml[u]) \subseteq Shown(toml'[u])]_vars

Apart(t) ==
    \A m, n \in EnvironmentNames(t) : Resource(t, m) = Resource(t, n) => m = n

\* No command gives two environments of a checkout one lineage
\* (AddEnvironmentWithID, RenameEnvironment).
CommandsKeepApart ==
    [][\A u \in User : Command(u) /\ Apart(toml[u]) => Apart(toml'[u])]_vars

\* Whatever the names were, a lineage has one name before a command and after.
LineagesStay == NothingIsLost /\ CommandsKeepApart

\* A rename of the environment the user works in leaves the user in it, when
\* the user or the team chose it (RenameEnvironment).
RenameIsFollowed ==
    [][\A u \in User :
          FollowRename(u) /\ cmd[u].was # Absent
              => Resource(toml'[u], CurrentEnvironment(toml'[u], Choice(u)')) = cmd[u].was]_vars

\* The implicit default is kept under its name when a first environment is
\* created (AddEnvironmentWithID).
ImplicitIsKept ==
    [][\A u \in User : CreateEnvironment(u) /\ Empty(toml[u]) => Default \in Shown(toml'[u])]_vars

\* "A broken local state must not silently send commands to the team default"
\* (app.go:70).
ChoiceIsKept ==
    [][\A u \in User : local[u].current # NoName => local'[u].current # NoName]_vars
=============================================================================
