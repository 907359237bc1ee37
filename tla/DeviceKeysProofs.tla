-------------------------- MODULE DeviceKeysProofs --------------------------
(***************************************************************************)
(* Theorems about DeviceKeys, for any keys, any number of processes and    *)
(* any number of changes, crashes and failed writes.                       *)
(***************************************************************************)
EXTENDS DeviceKeys, FiniteSetTheorems, TLAPS

Creating == {"stat", "reuse", "save"}

\* What a process knows of its own operation.
Fits(r) ==
    /\ r.pc \in Creating \cup {"lock", "clean", "ask", "approve"} =>
          r.op \in {"init", "upgrade"}
    /\ r.slot = "signing" \/ r.pc \in {"clean", "ask"} => r.key \in Key
    /\ r.op = "init" => r.view = NoKey
    /\ r.op = "upgrade" => r.view \notin Hybrid
    /\ r.pc = "idle" => r = Idle
    /\ r.slot = "next" => r.op \in {"upgrade", "own"}

ProcOK == \A p \in Proc : Fits(proc[p])

\* What a process that has made a key may rely on under its lock.
SavesOK ==
    \A p \in Proc : At(p, "save") =>
        /\ proc[p].new \in vault \cap MayMake[proc[p].slot]
        /\ slot[proc[p].slot] = NoKey
        /\ \A s \in Slot : slot[s] # proc[p].new
        /\ \A q \in Proc \ {p} : At(q, "save") => proc[q].new # proc[p].new

\* The keys in use have their material, and no key is in two places that
\* matter.
SlotsOK ==
    /\ \A s \in Slot : slot[s] \in made \cup {NoKey}
    /\ \A s \in {"current", "next"} : slot[s] # NoKey => slot[s] \in vault
    /\ \A p \in Proc : proc[p].pc \in {"keep", "replace"} => slot["next"] # NoKey
    /\ slot["next"] # NoKey => slot["next"] # slot["current"] /\ slot["next"] # slot["previous"]

\* A process that is past the creation of the first key, or had a session.
Beyond(p) ==
    \/ proc[p].op \in {"session", "upgrade", "own"}
    \/ proc[p].slot = "signing" \/ proc[p].pc \in {"clean", "ask", "approve"}

CurrentOK ==
    requests # {} \/ control # NoKey \/ (\E p \in Proc : Beyond(p)) => slot["current"] # NoKey

UpdatesOK == \A r \in requests : r.replaces \notin Hybrid

Inv == TypeOK /\ ProcOK /\ SavesOK /\ SlotsOK /\ CurrentOK /\ UpdatesOK

-----------------------------------------------------------------------------
LEMMA IdleFits == Idle \in Process /\ Fits(Idle)
  BY DeviceKeysOK DEF Idle, Process, Phase, Slot, Fits, Creating

\* A process that ends is as at the start.
LEMMA EndsKeeps ==
    ASSUME TypeOK, ProcOK, NEW p \in Proc, Ends(p)
    PROVE  /\ proc' \in [Proc -> Process] /\ ProcOK'
           /\ proc'[p] = Idle /\ \A q \in Proc \ {p} : proc'[q] = proc[q]
  BY IdleFits DEF Ends, TypeOK, ProcOK

\* Its locks are gone, those of the others stay.
LEMMA EndsType ==
    ASSUME TypeOK, ProcOK, NEW p \in Proc, Ends(p), Release(p),
           UNCHANGED <<files, requests, control, listed>>
    PROVE  TypeOK'
  <1>1. /\ proc' \in [Proc -> Process]
        /\ proc'[p] = Idle /\ \A q \in Proc \ {p} : proc'[q] = proc[q]
    BY EndsKeeps
  <1>2. lock' \in [Slot -> Proc \cup {Nobody}]
    BY DEF Release, Unlocked, TypeOK
  <1>3. \A q \in Proc, s \in Slot : lock[s] = q /\ q # p => lock'[s] = q
    BY DEF Release, Unlocked
  <1>4. \A q \in Proc : proc[q].slot \in Slot
    BY DEF TypeOK, Process
  <1>5. Idle.pc = "idle" /\ Idle.key = NoKey /\ Idle.new = NoKey
    BY DEF Idle
  <1>6. "current" \in Slot
    BY DEF Slot
  <1> QED BY <1>1, <1>2, <1>3, <1>4, <1>5, <1>6 DEF TypeOK, files

LEMMA RetainedType ==
    ASSUME TypeOK, NEW p \in Proc, NEW s \in {"next", "previous"}
    PROVE  LoadRetained(p, s) \in SUBSET Key
  BY DeviceKeysOK DEF TypeOK, Process, Slot, LoadRetained, Loadable

LEMMA LoadsType ==
    ASSUME TypeOK, NEW p \in Proc, NEW ids \in SUBSET Key, NEW pc \in Phase,
           proc' = [proc EXCEPT ![p].pc = pc, ![p].ids = ids]
    PROVE  proc' \in [Proc -> Process]
  <1>1. [proc[p] EXCEPT !.pc = pc, !.ids = ids] \in Process
    <2>1. proc[p] \in Process
      BY DEF TypeOK
    <2> QED BY <2>1 DEF Process
  <1>2. proc' = [proc EXCEPT ![p] = [proc[p] EXCEPT !.pc = pc, !.ids = ids]]
    BY DEF TypeOK
  <1> QED BY <1>1, <1>2 DEF TypeOK

\* The actions that write the slots, delete material, and change the requests
\* and what Control lists.
LEMMA WhatChanges ==
    ASSUME [Next]_vars
    PROVE  /\ UNCHANGED slot \/ \E p \in Proc : Save(p) \/ KeepCurrent(p) \/ Replace(p)
           /\ vault \subseteq vault' \/ \E p \in Proc : SaveFails(p) \/ Check(p)
           /\ UNCHANGED requests \/ \E p \in Proc : Clean(p) \/ Ask(p)
           /\ UNCHANGED control \/ ApproveMember \/ RemoveMember \/ \E p \in Proc : ApproveOwn(p)
  <1> DEFINE WhatMoves ==
               /\ UNCHANGED slot \/ \E p \in Proc : Save(p) \/ KeepCurrent(p) \/ Replace(p)
               /\ vault \subseteq vault' \/ \E p \in Proc : SaveFails(p) \/ Check(p)
               /\ UNCHANGED requests \/ \E p \in Proc : Clean(p) \/ Ask(p)
               /\ UNCHANGED control \/ ApproveMember \/ RemoveMember \/ \E p \in Proc : ApproveOwn(p)
  <1>1. ASSUME NEW p \in Proc, Creates(p)
        PROVE  WhatMoves
    BY <1>1 DEF Creates, Stat, Reuse, Generate, Stored, Unavailable, Save, SaveFails, files, shared
  <1>2. ASSUME NEW p \in Proc, Promotes(p)
        PROVE  WhatMoves
    BY <1>2 DEF Promotes, PendingInfo, Check, KeepCurrent, Replace, PromoteFails, files, shared
  <1>3. ASSUME NEW p \in Proc, Loads(p)
        PROVE  WhatMoves
    BY <1>3 DEF Loads, Load, LoadNext, LoadPrevious, CloseSession, CreatePending, files, shared
  <1>4. ASSUME NEW p \in Proc, Asks(p)
        PROVE  WhatMoves
    BY <1>4 DEF Asks, Clean, Ask, ApproveOwn, ApprovalFails, files, shared
  <1>5. ASSUME NEW p \in Proc,
               \/ StartInit(p) \/ OpenSession(p) \/ UpgradeIdentity(p)
               \/ Acquire(p) \/ AcquireToPromote(p) \/ Stop(p)
        PROVE  WhatMoves
    BY <1>5 DEF StartInit, OpenSession, UpgradeIdentity, Open, Acquire, AcquireToPromote, Stop,
                files, shared
  <1>6. CASE ApproveMember \/ RemoveMember
    BY <1>6 DEF ApproveMember, RemoveMember, files, Lists
  <1>7. CASE UNCHANGED vars
    BY <1>7 DEF vars, files
  <1> QED BY <1>1, <1>2, <1>3, <1>4, <1>5, <1>6, <1>7 DEF Next, Runs

-----------------------------------------------------------------------------

\* Every step keeps the types, and the locks of those in their sections.
LEMMA TypeStep ==
    ASSUME Inv, [Next]_vars
    PROVE  TypeOK'
  <1> USE DeviceKeysOK
      DEF Inv, TypeOK, ProcOK, Fits, SavesOK, SlotsOK, MayMake, LockOf, Process, Phase,
          Slot, Request, Creating, At, Goes, Exists, files, shared, FaultsOnce
  <1>1. ASSUME NEW p \in Proc, StartInit(p)
        PROVE  TypeOK'
    BY <1>1 DEF StartInit, Idle
  <1>2. ASSUME NEW p \in Proc, Acquire(p)
        PROVE  TypeOK'
    BY <1>2 DEF Acquire
  <1>3. ASSUME NEW p \in Proc, Stat(p)
        PROVE  TypeOK'
    BY <1>3 DEF Stat
  <1>4. ASSUME NEW p \in Proc, Reuse(p)
        PROVE  TypeOK'
    <2>1. CASE Loadable(proc[p].slot) # {}
      BY <1>4, <2>1 DEF Reuse, AfterCreate, Release, Unlocked, Loadable
    <2>2. CASE Loadable(proc[p].slot) = {}
      <3>1. Ends(p)
        BY <1>4, <2>2 DEF Reuse, AfterCreate, Release, Unlocked, Loadable
      <3> QED BY <1>4, <2>2, <3>1, EndsKeeps DEF Reuse, AfterCreate, Release, Unlocked, Loadable, Idle
    <2> QED BY <2>1, <2>2
  <1>5. ASSUME NEW p \in Proc, Generate(p)
        PROVE  TypeOK'
    BY <1>5 DEF Generate, Fresh, OneOf, Stored
  <1>6. ASSUME NEW p \in Proc, Unavailable(p)
        PROVE  TypeOK'
    BY <1>6 DEF Unavailable, Ends, Release, Unlocked, Idle
  <1>7. ASSUME NEW p \in Proc, Save(p)
        PROVE  TypeOK'
    BY <1>7 DEF Save, AfterCreate, Release, Unlocked
  <1>8. ASSUME NEW p \in Proc, SaveFails(p)
        PROVE  TypeOK'
    BY <1>8 DEF SaveFails, Erased, Ends, Release, Unlocked, Idle
  <1>9. ASSUME NEW p \in Proc, Clean(p)
        PROVE  TypeOK'
    <2>1. CASE control = NoKey
      BY <1>9, <2>1 DEF Clean, Obsolete
    <2>2. CASE control # NoKey
      <3>1. Ends(p)
        BY <1>9, <2>2 DEF Clean, Obsolete
      <3> QED BY <1>9, <2>2, <3>1, EndsKeeps DEF Clean, Obsolete, Idle
    <2> QED BY <2>1, <2>2
  <1>10. ASSUME NEW p \in Proc, Ask(p)
        PROVE  TypeOK'
    <2>1. CASE Ends(p)
      BY <1>10, <2>1, EndsKeeps DEF Ask, Idle
    <2>2. CASE ~ Ends(p)
      BY <1>10, <2>2 DEF Ask
    <2> QED BY <2>1, <2>2
  <1>11. ASSUME NEW p \in Proc, OpenSession(p)
        PROVE  TypeOK'
    BY <1>11 DEF OpenSession, Open, Idle
  <1>12. ASSUME NEW p \in Proc, UpgradeIdentity(p)
        PROVE  TypeOK'
    BY <1>12 DEF UpgradeIdentity, Open, Idle
  <1>13. ASSUME NEW p \in Proc, PendingInfo(p)
        PROVE  TypeOK'
    BY <1>13 DEF PendingInfo
  <1>14. ASSUME NEW p \in Proc, AcquireToPromote(p)
        PROVE  TypeOK'
    BY <1>14 DEF AcquireToPromote
  <1>15. ASSUME NEW p \in Proc, Check(p)
        PROVE  TypeOK'
    <2>1. CASE Exists("next")
      BY <1>15, <2>1 DEF Check
    <2>2. CASE ~ Exists("next") /\ proc[p].op = "own"
      <3>1. Ends(p) /\ Release(p)
        BY <1>15, <2>2 DEF Check, AfterPromote
      <3> QED BY <1>15, <2>2, <3>1, EndsType DEF Check
    <2>3. CASE ~ Exists("next") /\ proc[p].op # "own"
      BY <1>15, <2>3 DEF Check, AfterPromote, Release, Unlocked
    <2> QED BY <2>1, <2>2, <2>3
  <1>16. ASSUME NEW p \in Proc, KeepCurrent(p)
        PROVE  TypeOK'
    BY <1>16 DEF KeepCurrent, Kept
  <1>17. ASSUME NEW p \in Proc, Replace(p)
        PROVE  TypeOK'
    <2>1. CASE proc[p].op # "own"
      BY <1>17, <2>1 DEF Replace, AfterPromote, Release, Unlocked
    <2>2. CASE proc[p].op = "own"
      <3>1. Ends(p)
        BY <1>17, <2>2 DEF Replace, AfterPromote, Release, Unlocked
      <3> QED BY <1>17, <2>2, <3>1, EndsKeeps DEF Replace, AfterPromote, Release, Unlocked, Idle
    <2> QED BY <2>1, <2>2
  <1>18. ASSUME NEW p \in Proc, PromoteFails(p)
        PROVE  TypeOK'
    <2>1. CASE proc[p].op # "own"
      BY <1>18, <2>1 DEF PromoteFails, AfterPromote, Release, Unlocked
    <2>2. CASE proc[p].op = "own"
      <3>1. Ends(p)
        BY <1>18, <2>2 DEF PromoteFails, AfterPromote, Release, Unlocked
      <3> QED BY <1>18, <2>2, <3>1, EndsKeeps DEF PromoteFails, AfterPromote, Release, Unlocked, Idle
    <2> QED BY <2>1, <2>2
  <1>19. ASSUME NEW p \in Proc, Load(p)
        PROVE  TypeOK'
    <2>1. CASE Loadable("current") # {}
      BY <1>19, <2>1 DEF Load, Loadable
    <2>2. CASE Loadable("current") = {}
      <3>1. Ends(p)
        BY <1>19, <2>2 DEF Load, Loadable
      <3> QED BY <1>19, <2>2, <3>1, EndsKeeps DEF Load, Loadable, Idle
    <2> QED BY <2>1, <2>2
  <1>20. ASSUME NEW p \in Proc, LoadNext(p)
        PROVE  TypeOK'
    <2>1. LoadRetained(p, "next") \in SUBSET Key
      BY RetainedType
    <2>2. proc' \in [Proc -> Process]
      BY <1>20, <2>1, LoadsType DEF LoadNext
    <2> QED BY <1>20, <2>1, <2>2 DEF LoadNext
  <1>21. ASSUME NEW p \in Proc, LoadPrevious(p)
        PROVE  TypeOK'
    <2>1. LoadRetained(p, "previous") \in SUBSET Key
      BY RetainedType
    <2>2. proc' \in [Proc -> Process]
      BY <1>21, <2>1, LoadsType DEF LoadPrevious
    <2> QED BY <1>21, <2>1, <2>2 DEF LoadPrevious
  <1>22. ASSUME NEW p \in Proc, CloseSession(p)
        PROVE  TypeOK'
    BY <1>22 DEF CloseSession, Ends, Idle
  <1>23. ASSUME NEW p \in Proc, CreatePending(p)
        PROVE  TypeOK'
    <2> DEFINE r == [Idle EXCEPT !.pc = "lock", !.op = "upgrade", !.slot = "next",
                                 !.view = proc[p].view]
    <2>1. proc[p].view \in Key \cup {NoKey}
      OBVIOUS
    <2>2. r \in Process /\ r.pc = "lock" /\ r.key = NoKey /\ r.new = NoKey
      BY <2>1 DEF Idle
    <2>3. proc' = [proc EXCEPT ![p] = r]
      BY <1>23 DEF CreatePending
    <2> HIDE DEF r
    <2>4. proc' \in [Proc -> Process] /\ proc'[p] = r /\ \A q \in Proc \ {p} : proc'[q] = proc[q]
      BY <2>2, <2>3
    <2>5. UNCHANGED <<slot, vault, made, lock, requests, control, listed>>
      BY <1>23 DEF CreatePending
    <2>6. \A q \in Proc :
              /\ {proc'[q].key, proc'[q].new} \subseteq made \cup {NoKey}
              /\ proc'[q].pc \in {"stat", "reuse", "save"} => lock[proc'[q].slot] = q
              /\ proc'[q].pc \in {"check", "keep", "replace"} => lock["current"] = q
      BY <2>2, <2>4
    <2> QED BY <2>4, <2>5, <2>6
  <1>24. ASSUME NEW p \in Proc, ApproveOwn(p)
        PROVE  TypeOK'
    BY <1>24 DEF ApproveOwn, Recipients, Pending, ListJoinRequests, Lists
  <1>25. ASSUME NEW p \in Proc, ApprovalFails(p)
        PROVE  TypeOK'
    BY <1>25 DEF ApprovalFails, Ends, Idle
  <1>26. ASSUME NEW p \in Proc, Stop(p)
        PROVE  TypeOK'
    BY <1>26 DEF Stop, Ends, Release, Unlocked, Idle
  <1>27. CASE ApproveMember
    BY <1>27 DEF ApproveMember, Recipients, Pending, ListJoinRequests, Lists
  <1>28. CASE RemoveMember
    BY <1>28 DEF RemoveMember, Lists
  <1>29. CASE UNCHANGED vars
    BY <1>29 DEF vars
  <1> QED
    BY <1>1, <1>2, <1>3, <1>4, <1>5, <1>6, <1>7, <1>8, <1>9, <1>10, <1>11, <1>12, <1>13, <1>14,
       <1>15, <1>16, <1>17, <1>18, <1>19, <1>20, <1>21, <1>22, <1>23, <1>24, <1>25, <1>26, <1>27, <1>28, <1>29
    DEF Next, Runs, Creates, Promotes, Loads, Asks

\* Every step leaves each process with what its phase needs.
LEMMA ProcStep ==
    ASSUME Inv, [Next]_vars
    PROVE  ProcOK'
  <1> USE DeviceKeysOK
      DEF Inv, TypeOK, ProcOK, Fits, SavesOK, SlotsOK, MayMake, Process, Phase, Creating,
          Slot, At, Goes, Exists, files, shared, FaultsOnce
  <1>1. ASSUME NEW p \in Proc, StartInit(p)
        PROVE  ProcOK'
    BY <1>1 DEF StartInit, Idle
  <1>2. ASSUME NEW p \in Proc, Acquire(p)
        PROVE  ProcOK'
    BY <1>2 DEF Acquire
  <1>3. ASSUME NEW p \in Proc, Stat(p)
        PROVE  ProcOK'
    BY <1>3 DEF Stat
  <1>4. ASSUME NEW p \in Proc, Reuse(p)
        PROVE  ProcOK'
    <2>1. CASE Loadable(proc[p].slot) # {}
      BY <1>4, <2>1 DEF Reuse, AfterCreate, Release, Unlocked, Loadable
    <2>2. CASE Loadable(proc[p].slot) = {}
      <3>1. Ends(p)
        BY <1>4, <2>2 DEF Reuse, AfterCreate, Release, Unlocked, Loadable
      <3> QED BY <1>4, <2>2, <3>1, EndsKeeps DEF Reuse, AfterCreate, Release, Unlocked, Loadable
    <2> QED BY <2>1, <2>2
  <1>5. ASSUME NEW p \in Proc, Generate(p)
        PROVE  ProcOK'
    BY <1>5 DEF Generate, Fresh, OneOf, Stored
  <1>6. ASSUME NEW p \in Proc, Unavailable(p)
        PROVE  ProcOK'
    BY <1>6 DEF Unavailable, Ends, Release, Unlocked, Idle
  <1>7. ASSUME NEW p \in Proc, Save(p)
        PROVE  ProcOK'
    BY <1>7 DEF Save, AfterCreate, Release, Unlocked
  <1>8. ASSUME NEW p \in Proc, SaveFails(p)
        PROVE  ProcOK'
    BY <1>8 DEF SaveFails, Erased, Ends, Release, Unlocked, Idle
  <1>9. ASSUME NEW p \in Proc, Clean(p)
        PROVE  ProcOK'
    <2>1. CASE control = NoKey
      BY <1>9, <2>1 DEF Clean, Obsolete
    <2>2. CASE control # NoKey
      <3>1. Ends(p)
        BY <1>9, <2>2 DEF Clean, Obsolete
      <3> QED BY <1>9, <2>2, <3>1, EndsKeeps DEF Clean, Obsolete
    <2> QED BY <2>1, <2>2
  <1>10. ASSUME NEW p \in Proc, Ask(p)
        PROVE  ProcOK'
    <2>1. CASE Ends(p)
      BY <1>10, <2>1, EndsKeeps DEF Ask
    <2>2. CASE ~ Ends(p)
      BY <1>10, <2>2 DEF Ask
    <2> QED BY <2>1, <2>2
  <1>11. ASSUME NEW p \in Proc, OpenSession(p)
        PROVE  ProcOK'
    BY <1>11 DEF OpenSession, Open, Idle
  <1>12. ASSUME NEW p \in Proc, UpgradeIdentity(p)
        PROVE  ProcOK'
    BY <1>12 DEF UpgradeIdentity, Open, Idle
  <1>13. ASSUME NEW p \in Proc, PendingInfo(p)
        PROVE  ProcOK'
    BY <1>13 DEF PendingInfo
  <1>14. ASSUME NEW p \in Proc, AcquireToPromote(p)
        PROVE  ProcOK'
    BY <1>14 DEF AcquireToPromote
  <1>15. ASSUME NEW p \in Proc, Check(p)
        PROVE  ProcOK'
    <2>1. CASE Exists("next")
      BY <1>15, <2>1 DEF Check
    <2>2. CASE ~ Exists("next") /\ proc[p].op = "own"
      <3>1. Ends(p) /\ Release(p)
        BY <1>15, <2>2 DEF Check, AfterPromote
      <3> QED BY <1>15, <2>2, <3>1, EndsKeeps DEF Check
    <2>3. CASE ~ Exists("next") /\ proc[p].op # "own"
      BY <1>15, <2>3 DEF Check, AfterPromote
    <2> QED BY <2>1, <2>2, <2>3
  <1>16. ASSUME NEW p \in Proc, KeepCurrent(p)
        PROVE  ProcOK'
    BY <1>16 DEF KeepCurrent, Kept
  <1>17. ASSUME NEW p \in Proc, Replace(p)
        PROVE  ProcOK'
    <2>1. CASE proc[p].op # "own"
      BY <1>17, <2>1 DEF Replace, AfterPromote, Release, Unlocked
    <2>2. CASE proc[p].op = "own"
      <3>1. Ends(p)
        BY <1>17, <2>2 DEF Replace, AfterPromote, Release, Unlocked
      <3> QED BY <1>17, <2>2, <3>1, EndsKeeps DEF Replace, AfterPromote, Release, Unlocked
    <2> QED BY <2>1, <2>2
  <1>18. ASSUME NEW p \in Proc, PromoteFails(p)
        PROVE  ProcOK'
    <2>1. CASE proc[p].op # "own"
      BY <1>18, <2>1 DEF PromoteFails, AfterPromote, Release, Unlocked
    <2>2. CASE proc[p].op = "own"
      <3>1. Ends(p)
        BY <1>18, <2>2 DEF PromoteFails, AfterPromote, Release, Unlocked
      <3> QED BY <1>18, <2>2, <3>1, EndsKeeps DEF PromoteFails, AfterPromote, Release, Unlocked
    <2> QED BY <2>1, <2>2
  <1>19. ASSUME NEW p \in Proc, Load(p)
        PROVE  ProcOK'
    <2>1. CASE Loadable("current") # {}
      BY <1>19, <2>1 DEF Load, Loadable
    <2>2. CASE Loadable("current") = {}
      <3>1. Ends(p)
        BY <1>19, <2>2 DEF Load, Loadable
      <3> QED BY <1>19, <2>2, <3>1, EndsKeeps DEF Load, Loadable
    <2> QED BY <2>1, <2>2
  <1>20. ASSUME NEW p \in Proc, LoadNext(p)
        PROVE  ProcOK'
    <2>1. LoadRetained(p, "next") \in SUBSET Key
      BY RetainedType
    <2> QED BY <1>20, <2>1 DEF LoadNext
  <1>21. ASSUME NEW p \in Proc, LoadPrevious(p)
        PROVE  ProcOK'
    <2>1. LoadRetained(p, "previous") \in SUBSET Key
      BY RetainedType
    <2> QED BY <1>21, <2>1 DEF LoadPrevious
  <1>22. ASSUME NEW p \in Proc, CloseSession(p)
        PROVE  ProcOK'
    BY <1>22 DEF CloseSession, Ends, Idle
  <1>23. ASSUME NEW p \in Proc, CreatePending(p)
        PROVE  ProcOK'
    BY <1>23 DEF CreatePending, Idle
  <1>24. ASSUME NEW p \in Proc, ApproveOwn(p)
        PROVE  ProcOK'
    BY <1>24 DEF ApproveOwn, Recipients, Pending, ListJoinRequests, Lists
  <1>25. ASSUME NEW p \in Proc, ApprovalFails(p)
        PROVE  ProcOK'
    BY <1>25 DEF ApprovalFails, Ends, Idle
  <1>26. ASSUME NEW p \in Proc, Stop(p)
        PROVE  ProcOK'
    BY <1>26 DEF Stop, Ends, Release, Unlocked, Idle
  <1>27. CASE ApproveMember
    BY <1>27 DEF ApproveMember, Recipients, Pending, ListJoinRequests, Lists
  <1>28. CASE RemoveMember
    BY <1>28 DEF RemoveMember, Lists
  <1>29. CASE UNCHANGED vars
    BY <1>29 DEF vars
  <1> QED
    BY <1>1, <1>2, <1>3, <1>4, <1>5, <1>6, <1>7, <1>8, <1>9, <1>10, <1>11, <1>12, <1>13, <1>14,
       <1>15, <1>16, <1>17, <1>18, <1>19, <1>20, <1>21, <1>22, <1>23, <1>24, <1>25, <1>26, <1>27, <1>28, <1>29
    DEF Next, Runs, Creates, Promotes, Loads, Asks

\* Nobody else fills the slot of a process that is about to save, nor takes its
\* key: the lock of the slot keeps other creations out, and a promotion empties
\* slots or fills "current" under its lock.
LEMMA SavesStep ==
    ASSUME Inv, [Next]_vars
    PROVE  SavesOK'
  <1> USE DeviceKeysOK
      DEF Inv, TypeOK, SavesOK, SlotsOK, MayMake, LockOf, Slot, Process, At, Goes, Exists,
          files, shared, FaultsOnce
  <1>1. ASSUME NEW p \in Proc, StartInit(p)
        PROVE  SavesOK'
    BY <1>1 DEF StartInit, Idle
  <1>2. ASSUME NEW p \in Proc, Acquire(p)
        PROVE  SavesOK'
    BY <1>2 DEF Acquire
  <1>3. ASSUME NEW p \in Proc, Stat(p)
        PROVE  SavesOK'
    BY <1>3 DEF Stat
  <1>4. ASSUME NEW p \in Proc, Reuse(p)
        PROVE  SavesOK'
    BY <1>4 DEF Reuse, AfterCreate, Release, Unlocked, Loadable, Idle, Ends
  <1>5. ASSUME NEW p \in Proc, Generate(p)
        PROVE  SavesOK'
    BY <1>5 DEF Generate, Fresh, OneOf, Stored
  <1>6. ASSUME NEW p \in Proc, Unavailable(p)
        PROVE  SavesOK'
    BY <1>6 DEF Unavailable, Ends, Release, Unlocked, Idle
  <1>7. ASSUME NEW p \in Proc, Save(p)
        PROVE  SavesOK'
    BY <1>7 DEF Save, AfterCreate, Release, Unlocked
  <1>8. ASSUME NEW p \in Proc, SaveFails(p)
        PROVE  SavesOK'
    BY <1>8 DEF SaveFails, Erased, Ends, Release, Unlocked, Idle
  <1>9. ASSUME NEW p \in Proc, Clean(p)
        PROVE  SavesOK'
    BY <1>9 DEF Clean, Obsolete, Idle, Ends
  <1>10. ASSUME NEW p \in Proc, Ask(p)
        PROVE  SavesOK'
    BY <1>10 DEF Ask, Idle, Ends
  <1>11. ASSUME NEW p \in Proc, OpenSession(p)
        PROVE  SavesOK'
    BY <1>11 DEF OpenSession, Open, Idle
  <1>12. ASSUME NEW p \in Proc, UpgradeIdentity(p)
        PROVE  SavesOK'
    BY <1>12 DEF UpgradeIdentity, Open, Idle
  <1>13. ASSUME NEW p \in Proc, PendingInfo(p)
        PROVE  SavesOK'
    BY <1>13 DEF PendingInfo
  <1>14. ASSUME NEW p \in Proc, AcquireToPromote(p)
        PROVE  SavesOK'
    BY <1>14 DEF AcquireToPromote
  <1>15. ASSUME NEW p \in Proc, Check(p)
        PROVE  SavesOK'
    BY <1>15 DEF Check, Older, AfterPromote, Release, Unlocked, Idle, Ends
  <1>16. ASSUME NEW p \in Proc, KeepCurrent(p)
        PROVE  SavesOK'
    BY <1>16 DEF KeepCurrent, Kept
  <1>17. ASSUME NEW p \in Proc, Replace(p)
        PROVE  SavesOK'
    BY <1>17 DEF Replace, AfterPromote, Release, Unlocked, Idle, Ends
  <1>18. ASSUME NEW p \in Proc, PromoteFails(p)
        PROVE  SavesOK'
    BY <1>18 DEF PromoteFails, AfterPromote, Release, Unlocked, Idle, Ends
  <1>19. ASSUME NEW p \in Proc, Load(p)
        PROVE  SavesOK'
    BY <1>19 DEF Load, Loadable, Idle, Ends
  <1>20. ASSUME NEW p \in Proc, LoadNext(p)
        PROVE  SavesOK'
    BY <1>20 DEF LoadNext
  <1>21. ASSUME NEW p \in Proc, LoadPrevious(p)
        PROVE  SavesOK'
    BY <1>21 DEF LoadPrevious
  <1>22. ASSUME NEW p \in Proc, CloseSession(p)
        PROVE  SavesOK'
    BY <1>22 DEF CloseSession, Ends, Idle
  <1>23. ASSUME NEW p \in Proc, CreatePending(p)
        PROVE  SavesOK'
    BY <1>23 DEF CreatePending, Idle
  <1>24. ASSUME NEW p \in Proc, ApproveOwn(p)
        PROVE  SavesOK'
    BY <1>24 DEF ApproveOwn, Recipients, Pending, ListJoinRequests, Lists
  <1>25. ASSUME NEW p \in Proc, ApprovalFails(p)
        PROVE  SavesOK'
    BY <1>25 DEF ApprovalFails, Ends, Idle
  <1>26. ASSUME NEW p \in Proc, Stop(p)
        PROVE  SavesOK'
    BY <1>26 DEF Stop, Ends, Release, Unlocked, Idle
  <1>27. CASE ApproveMember
    BY <1>27 DEF ApproveMember, Recipients, Pending, ListJoinRequests, Lists
  <1>28. CASE RemoveMember
    BY <1>28 DEF RemoveMember, Lists
  <1>29. CASE UNCHANGED vars
    BY <1>29 DEF vars
  <1> QED
    BY <1>1, <1>2, <1>3, <1>4, <1>5, <1>6, <1>7, <1>8, <1>9, <1>10, <1>11, <1>12, <1>13, <1>14,
       <1>15, <1>16, <1>17, <1>18, <1>19, <1>20, <1>21, <1>22, <1>23, <1>24, <1>25, <1>26, <1>27, <1>28, <1>29
    DEF Next, Runs, Creates, Promotes, Loads, Asks

\* A promotion moves keys on and deletes the one that no other slot holds.
LEMMA SlotsStep ==
    ASSUME Inv, [Next]_vars
    PROVE  SlotsOK'
  <1> USE DeviceKeysOK
      DEF Inv, TypeOK, SavesOK, SlotsOK, MayMake, LockOf, Slot, Process, At, Goes, Exists,
          files, shared, FaultsOnce
  <1>1. ASSUME NEW p \in Proc, StartInit(p)
        PROVE  SlotsOK'
    BY <1>1 DEF StartInit, Idle
  <1>2. ASSUME NEW p \in Proc, Acquire(p)
        PROVE  SlotsOK'
    BY <1>2 DEF Acquire
  <1>3. ASSUME NEW p \in Proc, Stat(p)
        PROVE  SlotsOK'
    BY <1>3 DEF Stat
  <1>4. ASSUME NEW p \in Proc, Reuse(p)
        PROVE  SlotsOK'
    BY <1>4 DEF Reuse, AfterCreate, Release, Unlocked, Loadable, Idle, Ends
  <1>5. ASSUME NEW p \in Proc, Generate(p)
        PROVE  SlotsOK'
    BY <1>5 DEF Generate, Fresh, OneOf, Stored
  <1>6. ASSUME NEW p \in Proc, Unavailable(p)
        PROVE  SlotsOK'
    BY <1>6 DEF Unavailable, Ends, Release, Unlocked, Idle
  <1>7. ASSUME NEW p \in Proc, Save(p)
        PROVE  SlotsOK'
    BY <1>7 DEF Save, AfterCreate, Release, Unlocked
  <1>8. ASSUME NEW p \in Proc, SaveFails(p)
        PROVE  SlotsOK'
    BY <1>8 DEF SaveFails, Erased, Ends, Release, Unlocked, Idle
  <1>9. ASSUME NEW p \in Proc, Clean(p)
        PROVE  SlotsOK'
    BY <1>9 DEF Clean, Obsolete, Idle, Ends
  <1>10. ASSUME NEW p \in Proc, Ask(p)
        PROVE  SlotsOK'
    BY <1>10 DEF Ask, Idle, Ends
  <1>11. ASSUME NEW p \in Proc, OpenSession(p)
        PROVE  SlotsOK'
    BY <1>11 DEF OpenSession, Open, Idle
  <1>12. ASSUME NEW p \in Proc, UpgradeIdentity(p)
        PROVE  SlotsOK'
    BY <1>12 DEF UpgradeIdentity, Open, Idle
  <1>13. ASSUME NEW p \in Proc, PendingInfo(p)
        PROVE  SlotsOK'
    BY <1>13 DEF PendingInfo
  <1>14. ASSUME NEW p \in Proc, AcquireToPromote(p)
        PROVE  SlotsOK'
    BY <1>14 DEF AcquireToPromote
  <1>15. ASSUME NEW p \in Proc, Check(p)
        PROVE  SlotsOK'
    BY <1>15 DEF Check, Older, AfterPromote, Release, Unlocked, Idle, Ends
  <1>16. ASSUME NEW p \in Proc, KeepCurrent(p)
        PROVE  SlotsOK'
    BY <1>16 DEF KeepCurrent, Kept
  <1>17. ASSUME NEW p \in Proc, Replace(p)
        PROVE  SlotsOK'
    BY <1>17 DEF Replace, AfterPromote, Release, Unlocked, Idle, Ends
  <1>18. ASSUME NEW p \in Proc, PromoteFails(p)
        PROVE  SlotsOK'
    BY <1>18 DEF PromoteFails, AfterPromote, Release, Unlocked, Idle, Ends
  <1>19. ASSUME NEW p \in Proc, Load(p)
        PROVE  SlotsOK'
    BY <1>19 DEF Load, Loadable, Idle, Ends
  <1>20. ASSUME NEW p \in Proc, LoadNext(p)
        PROVE  SlotsOK'
    BY <1>20 DEF LoadNext
  <1>21. ASSUME NEW p \in Proc, LoadPrevious(p)
        PROVE  SlotsOK'
    BY <1>21 DEF LoadPrevious
  <1>22. ASSUME NEW p \in Proc, CloseSession(p)
        PROVE  SlotsOK'
    BY <1>22 DEF CloseSession, Ends, Idle
  <1>23. ASSUME NEW p \in Proc, CreatePending(p)
        PROVE  SlotsOK'
    BY <1>23 DEF CreatePending, Idle
  <1>24. ASSUME NEW p \in Proc, ApproveOwn(p)
        PROVE  SlotsOK'
    BY <1>24 DEF ApproveOwn, Recipients, Pending, ListJoinRequests, Lists
  <1>25. ASSUME NEW p \in Proc, ApprovalFails(p)
        PROVE  SlotsOK'
    BY <1>25 DEF ApprovalFails, Ends, Idle
  <1>26. ASSUME NEW p \in Proc, Stop(p)
        PROVE  SlotsOK'
    BY <1>26 DEF Stop, Ends, Release, Unlocked, Idle
  <1>27. CASE ApproveMember
    BY <1>27 DEF ApproveMember, Recipients, Pending, ListJoinRequests, Lists
  <1>28. CASE RemoveMember
    BY <1>28 DEF RemoveMember, Lists
  <1>29. CASE UNCHANGED vars
    BY <1>29 DEF vars
  <1> QED
    BY <1>1, <1>2, <1>3, <1>4, <1>5, <1>6, <1>7, <1>8, <1>9, <1>10, <1>11, <1>12, <1>13, <1>14,
       <1>15, <1>16, <1>17, <1>18, <1>19, <1>20, <1>21, <1>22, <1>23, <1>24, <1>25, <1>26, <1>27, <1>28, <1>29
    DEF Next, Runs, Creates, Promotes, Loads, Asks

\* The current key stays once it is there, and nothing names the device before.
LEMMA CurrentStep ==
    ASSUME Inv, [Next]_vars
    PROVE  CurrentOK'
  <1> USE DeviceKeysOK
      DEF Inv, TypeOK, ProcOK, Fits, SavesOK, SlotsOK, CurrentOK, Beyond, MayMake, Slot,
          Process, Creating, At, Goes, Exists, files, shared, FaultsOnce
  <1>1. ASSUME NEW p \in Proc, StartInit(p)
        PROVE  CurrentOK'
    BY <1>1 DEF StartInit, Idle
  <1>2. ASSUME NEW p \in Proc, Acquire(p)
        PROVE  CurrentOK'
    BY <1>2 DEF Acquire
  <1>3. ASSUME NEW p \in Proc, Stat(p)
        PROVE  CurrentOK'
    BY <1>3 DEF Stat
  <1>4. ASSUME NEW p \in Proc, Reuse(p)
        PROVE  CurrentOK'
    BY <1>4 DEF Reuse, AfterCreate, Release, Unlocked, Loadable, Idle, Ends
  <1>5. ASSUME NEW p \in Proc, Generate(p)
        PROVE  CurrentOK'
    BY <1>5 DEF Generate, Fresh, OneOf, Stored
  <1>6. ASSUME NEW p \in Proc, Unavailable(p)
        PROVE  CurrentOK'
    BY <1>6 DEF Unavailable, Ends, Release, Unlocked, Idle
  <1>7. ASSUME NEW p \in Proc, Save(p)
        PROVE  CurrentOK'
    BY <1>7 DEF Save, AfterCreate, Release, Unlocked
  <1>8. ASSUME NEW p \in Proc, SaveFails(p)
        PROVE  CurrentOK'
    BY <1>8 DEF SaveFails, Erased, Ends, Release, Unlocked, Idle
  <1>9. ASSUME NEW p \in Proc, Clean(p)
        PROVE  CurrentOK'
    BY <1>9 DEF Clean, Obsolete, Idle, Ends
  <1>10. ASSUME NEW p \in Proc, Ask(p)
        PROVE  CurrentOK'
    BY <1>10 DEF Ask, Idle, Ends
  <1>11. ASSUME NEW p \in Proc, OpenSession(p)
        PROVE  CurrentOK'
    BY <1>11 DEF OpenSession, Open, Idle
  <1>12. ASSUME NEW p \in Proc, UpgradeIdentity(p)
        PROVE  CurrentOK'
    BY <1>12 DEF UpgradeIdentity, Open, Idle
  <1>13. ASSUME NEW p \in Proc, PendingInfo(p)
        PROVE  CurrentOK'
    BY <1>13 DEF PendingInfo
  <1>14. ASSUME NEW p \in Proc, AcquireToPromote(p)
        PROVE  CurrentOK'
    BY <1>14 DEF AcquireToPromote
  <1>15. ASSUME NEW p \in Proc, Check(p)
        PROVE  CurrentOK'
    BY <1>15 DEF Check, Older, AfterPromote, Release, Unlocked, Idle, Ends
  <1>16. ASSUME NEW p \in Proc, KeepCurrent(p)
        PROVE  CurrentOK'
    BY <1>16 DEF KeepCurrent, Kept
  <1>17. ASSUME NEW p \in Proc, Replace(p)
        PROVE  CurrentOK'
    BY <1>17 DEF Replace, AfterPromote, Release, Unlocked, Idle, Ends
  <1>18. ASSUME NEW p \in Proc, PromoteFails(p)
        PROVE  CurrentOK'
    BY <1>18 DEF PromoteFails, AfterPromote, Release, Unlocked, Idle, Ends
  <1>19. ASSUME NEW p \in Proc, Load(p)
        PROVE  CurrentOK'
    BY <1>19 DEF Load, Loadable, Idle, Ends
  <1>20. ASSUME NEW p \in Proc, LoadNext(p)
        PROVE  CurrentOK'
    BY <1>20 DEF LoadNext
  <1>21. ASSUME NEW p \in Proc, LoadPrevious(p)
        PROVE  CurrentOK'
    BY <1>21 DEF LoadPrevious
  <1>22. ASSUME NEW p \in Proc, CloseSession(p)
        PROVE  CurrentOK'
    BY <1>22 DEF CloseSession, Ends, Idle
  <1>23. ASSUME NEW p \in Proc, CreatePending(p)
        PROVE  CurrentOK'
    BY <1>23 DEF CreatePending, Idle
  <1>24. ASSUME NEW p \in Proc, ApproveOwn(p)
        PROVE  CurrentOK'
    BY <1>24 DEF ApproveOwn, Recipients, Pending, ListJoinRequests, Lists
  <1>25. ASSUME NEW p \in Proc, ApprovalFails(p)
        PROVE  CurrentOK'
    BY <1>25 DEF ApprovalFails, Ends, Idle
  <1>26. ASSUME NEW p \in Proc, Stop(p)
        PROVE  CurrentOK'
    BY <1>26 DEF Stop, Ends, Release, Unlocked, Idle
  <1>27. CASE ApproveMember
    BY <1>27 DEF ApproveMember, Recipients, Pending, ListJoinRequests, Lists
  <1>28. CASE RemoveMember
    BY <1>28 DEF RemoveMember, Lists
  <1>29. CASE UNCHANGED vars
    BY <1>29 DEF vars
  <1> QED
    BY <1>1, <1>2, <1>3, <1>4, <1>5, <1>6, <1>7, <1>8, <1>9, <1>10, <1>11, <1>12, <1>13, <1>14,
       <1>15, <1>16, <1>17, <1>18, <1>19, <1>20, <1>21, <1>22, <1>23, <1>24, <1>25, <1>26, <1>27, <1>28, <1>29
    DEF Next, Runs, Creates, Promotes, Loads, Asks

\* A hybrid recipient is never asked to be replaced.
LEMMA UpdatesStep ==
    ASSUME Inv, [Next]_vars
    PROVE  UpdatesOK'
  <1>1. ASSUME NEW p \in Proc, Clean(p)
        PROVE  UpdatesOK'
    BY <1>1 DEF Inv, UpdatesOK, Clean, Obsolete
  <1>2. ASSUME NEW p \in Proc, Ask(p)
        PROVE  UpdatesOK'
    <2>1. proc[p].view \notin Hybrid
      BY <1>2, DeviceKeysOK DEF Inv, ProcOK, Fits, Ask, At
    <2> QED BY <1>2, <2>1 DEF Inv, UpdatesOK, Ask
  <1>3. CASE UNCHANGED requests
    BY <1>3 DEF Inv, UpdatesOK
  <1> QED BY <1>1, <1>2, <1>3, WhatChanges

-----------------------------------------------------------------------------
LEMMA InitInv == Init => Inv
  BY DeviceKeysOK
  DEF Init, Inv, TypeOK, ProcOK, Fits, SavesOK, SlotsOK, CurrentOK, UpdatesOK, Beyond, At,
      Idle, Process, Phase, Slot, Creating, Request

LEMMA NextInv == Inv /\ [Next]_vars => Inv'
  BY TypeStep, ProcStep, SavesStep, SlotsStep, CurrentStep, UpdatesStep DEF Inv

LEMMA Invariance == Spec => []Inv
  BY InitInv, NextInv, PTL DEF Spec

\* Slots, locks, requests and processes are what they are meant to be, whatever
\* runs at once and wherever it stops.
THEOREM TypeCorrect == Spec => []TypeOK
  <1>1. Inv => TypeOK
    BY DEF Inv
  <1> QED BY <1>1, Invariance, PTL

\* "The current identity exists at every point" (manager.go:590): once a request
\* or Control names the device, it can load its current key.
THEOREM CurrentIsAlwaysThere == Spec => []CurrentIsThere
  <1>1. Inv => CurrentIsThere
    BY DEF Inv, CurrentOK, SlotsOK, CurrentIsThere, Loadable
  <1> QED BY <1>1, Invariance, PTL

\* The device keeps its signing key (Manager.CreateSigner): the key is saved
\* only into an empty slot, under the lock of that slot.
THEOREM DeviceIsOne == Spec => OneDevice
  <1> DEFINE Stays == slot["signing"] # NoKey => slot["signing"] = slot'["signing"]
  <1>1. ASSUME Inv, Next
        PROVE  Stays
    <2> USE DEF Inv, TypeOK, SavesOK, Slot, Process, files
    <2>1. ASSUME NEW p \in Proc, Save(p)
          PROVE  Stays
      BY <1>1, <2>1 DEF Save, At
    <2>2. ASSUME NEW p \in Proc, KeepCurrent(p) \/ Replace(p)
          PROVE  Stays
      BY <1>1, <2>2 DEF KeepCurrent, Kept, Replace
    <2>3. ASSUME UNCHANGED slot
          PROVE  Stays
      BY <2>3
    <2> QED BY <1>1, <2>1, <2>2, <2>3, WhatChanges
  <1>2. Inv /\ [Next]_vars => [Stays]_vars
    BY <1>1
  <1> QED BY <1>2, Invariance, PTL DEF Spec, OneDevice

\* Key material is deleted with the previous key, when no other slot holds it,
\* or with a creation that failed (Manager.PromotePending, Manager.create).
THEOREM DeletionsAreSafe == Spec => DeletesOnlyPrevious
  <1> DEFINE Safe == \A k \in vault \ vault', s \in Slot \ {"previous"} : slot[s] # k
  <1>1. ASSUME Inv, Next
        PROVE  Safe
    <2>1. ASSUME NEW p \in Proc, SaveFails(p)
          PROVE  Safe
      BY <1>1, <2>1 DEF SaveFails, Erased, Inv, SavesOK, At
    <2>2. ASSUME NEW p \in Proc, Check(p)
          PROVE  Safe
      BY <1>1, <2>2, DeviceKeysOK DEF Check, Older, Inv, SlotsOK, TypeOK, Slot, Exists, files
    <2>3. ASSUME vault \subseteq vault'
          PROVE  Safe
      BY <2>3
    <2> QED BY <1>1, <2>1, <2>2, <2>3, WhatChanges
  <1>2. Inv /\ [Next]_vars => [Safe]_vars
    BY <1>1
  <1> QED BY <1>2, Invariance, PTL DEF Spec, DeletesOnlyPrevious

\* "A stale update, or an old join request, must not swap a key back"
\* (members.go:125): whatever requests lie in storage, a member that was given a
\* hybrid recipient keeps it.
THEOREM NeverSwappedBackAlways == Spec => NeverSwappedBack
  <1> DEFINE Stays == control \in Hybrid => control' \in {control, NoKey}
  <1>1. ASSUME Inv, Next
        PROVE  Stays
    <2>1. control \in Hybrid => Recipients = {}
      BY <1>1, DeviceKeysOK DEF Inv, UpdatesOK, Recipients, Pending, ListJoinRequests
    <2>2. ASSUME NEW p \in Proc, ApproveOwn(p)
          PROVE  Stays
      BY <2>1, <2>2 DEF ApproveOwn
    <2>3. ASSUME RemoveMember
          PROVE  Stays
      BY <2>3 DEF RemoveMember, Lists
    <2>4. ASSUME UNCHANGED control
          PROVE  Stays
      BY <2>4
    <2>5. ASSUME ApproveMember
          PROVE  Stays
      BY <2>1, <2>5 DEF ApproveMember
    <2> QED BY <1>1, <2>2, <2>3, <2>4, <2>5, WhatChanges
  <1>2. Inv /\ [Next]_vars => [Stays]_vars
    BY <1>1
  <1> QED BY <1>2, Invariance, PTL DEF Spec, NeverSwappedBack

-----------------------------------------------------------------------------
\* No second hybrid key was made.
OneMade == \A j, k \in made \cap Hybrid : j = k

\* The device has the key k, given its slots S and its keyring V.
Has(S, V, k) == k \in V /\ k \in {S["current"], S["next"], S["previous"]}

\* A promotion overwrites no key that is not in another slot.
OrderOK ==
    /\ slot["current"] = NoKey => slot["previous"] = NoKey
    /\ slot["previous"] \in {NoKey, slot["current"]} \/ slot["current"] \in Hybrid
    /\ \A p \in Proc : At(p, "replace") => slot["previous"] = slot["current"]

Promoting == {"lockPromote", "check", "keep", "replace"}

\* What is asked for, and what a session has found or has yet to find of the
\* key its view of Control lists.
Finds(S, V, M, r) ==
    /\ r.slot = "signing" \/ r.pc \in {"clean", "ask"} => Has(S, V, r.key)
    /\ r.pc = "pending" => Has(S, V, r.view)
    /\ r.pc \in Promoting /\ r.op # "own" => r.view \in Hybrid \cap M
    /\ r.pc = "load" /\ ~ r.failed => r.view \in V \cap {S["current"], S["previous"]}
    /\ r.pc \in {"loadNext", "loadPrevious"} /\ ~ r.failed =>
          r.view \in r.ids \/ r.view \in V \cap {S["previous"]}
    /\ r.pc = "opened" /\ ~ r.failed => r.view \in r.ids

HeldOK ==
    /\ \A r \in requests : Has(slot, vault, r.recipient)
    /\ control # NoKey => Has(slot, vault, control)
    /\ \A p \in Proc : Finds(slot, vault, made, proc[p])

RetainsOK == IsFiniteSet(made) /\ (OneMade => OrderOK /\ HeldOK)

\* What one step does to the three slots, none of whose keys it takes from the
\* keyring.
SlotsMove ==
    /\ \A s \in Slot : slot[s] # NoKey /\ slot[s] \in vault => slot[s] \in vault'
    /\ \/ \A s \in {"current", "next", "previous"} : slot'[s] = slot[s]
       \/ /\ slot["current"] = NoKey
          /\ slot'["next"] = slot["next"] /\ slot'["previous"] = slot["previous"]
       \/ /\ slot["next"] = NoKey
          /\ slot'["current"] = slot["current"] /\ slot'["previous"] = slot["previous"]
          /\ slot["previous"] \in {NoKey, slot["current"]} \/ slot["current"] \in Hybrid
       \/ /\ slot'["previous"] = slot["current"] /\ slot["previous"] \in {NoKey, slot["current"]}
          /\ slot'["current"] = slot["current"] /\ slot'["next"] = slot["next"]
       \/ /\ slot'["current"] = slot["next"] /\ slot["next"] \in Hybrid \cap made
          /\ slot'["previous"] = slot["previous"] /\ slot["previous"] = slot["current"]

LEMMA NextMoves ==
    ASSUME Inv, OneMade, OrderOK, [Next]_vars
    PROVE  SlotsMove
  <1> USE DeviceKeysOK DEF Inv, TypeOK, Slot, files
  <1>k. \A k \in vault : k # NoKey
    OBVIOUS
  <1>n. slot["next"] # NoKey => slot["previous"] \in {NoKey, slot["current"]}
    BY DEF OneMade, OrderOK, SlotsOK
  <1>1. \A s \in Slot : slot[s] # NoKey /\ slot[s] \in vault => slot[s] \in vault'
    <2>1. ASSUME NEW p \in Proc, SaveFails(p)
          PROVE  \A s \in Slot : slot[s] # NoKey /\ slot[s] \in vault => slot[s] \in vault'
      BY <2>1 DEF SaveFails, Erased, SavesOK, At
    <2>2. ASSUME NEW p \in Proc, Check(p)
          PROVE  \A s \in Slot : slot[s] # NoKey /\ slot[s] \in vault => slot[s] \in vault'
      <3>1. Exists("next") => vault' = vault \ Older
        BY <2>2 DEF Check
      <3>2. ~ Exists("next") => vault' = vault
        BY <2>2 DEF Check
      <3> QED BY <1>n, <3>1, <3>2 DEF Older, Exists
    <2> QED BY <2>1, <2>2, WhatChanges
  <1>2. ASSUME NEW p \in Proc, Save(p)
        PROVE  SlotsMove
    <2>1. proc[p].slot \in {"current", "next", "signing"} /\ slot[proc[p].slot] = NoKey
      BY <1>2 DEF Save, SavesOK, At, Process
    <2>2. \A s \in Slot : slot'[s] = IF s = proc[p].slot THEN proc[p].new ELSE slot[s]
      BY <1>2 DEF Save
    <2> QED BY <1>1, <2>1, <2>2 DEF SlotsMove, OrderOK
  <1>3. ASSUME NEW p \in Proc, KeepCurrent(p)
        PROVE  SlotsMove
    <2>1. slot["next"] # NoKey
      BY <1>3 DEF KeepCurrent, SlotsOK, At
    <2>2. \A s \in Slot : slot'[s] = IF s = "previous" THEN slot["current"] ELSE slot[s]
      BY <1>3 DEF KeepCurrent, Kept
    <2> QED BY <1>n, <1>1, <2>1, <2>2 DEF SlotsMove
  <1>4. ASSUME NEW p \in Proc, Replace(p)
        PROVE  SlotsMove
    <2>1. slot["next"] \in Hybrid \cap made /\ slot["previous"] = slot["current"]
      BY <1>4 DEF Replace, SlotsOK, OrderOK, At
    <2>2. /\ slot'["current"] = slot["next"] /\ slot'["previous"] = slot["previous"]
      BY <1>4 DEF Replace
    <2> QED BY <1>1, <2>1, <2>2 DEF SlotsMove
  <1>5. CASE UNCHANGED slot
    BY <1>1, <1>5 DEF SlotsMove
  <1> QED BY <1>2, <1>3, <1>4, <1>5, WhatChanges

\* The device keeps what it has, and a process keeps what it found.
LEMMA HasStays ==
    ASSUME TypeOK, SlotsMove, NEW k, Has(slot, vault, k)
    PROVE  Has(slot', vault', k)
  BY DeviceKeysOK DEF Has, SlotsMove, TypeOK, Slot

LEMMA FindsStays ==
    ASSUME TypeOK, SlotsMove, made \subseteq made', NEW r, Finds(slot, vault, made, r)
    PROVE  Finds(slot', vault', made', r)
  <1>1. r.slot = "signing" \/ r.pc \in {"clean", "ask"} => Has(slot', vault', r.key)
    BY HasStays DEF Finds
  <1>2. r.pc = "pending" => Has(slot', vault', r.view)
    BY HasStays DEF Finds
  <1>3. ASSUME NEW k \in vault \cap {slot["current"], slot["previous"]}
        PROVE  k \in vault' \cap {slot'["current"], slot'["previous"]}
    BY DeviceKeysOK DEF SlotsMove, TypeOK, Slot
  <1>4. ASSUME NEW k \in vault \cap {slot["previous"]}
        PROVE  k \in vault' \cap {slot'["previous"]}
    BY DeviceKeysOK DEF SlotsMove, TypeOK, Slot
  <1>5. /\ r.pc \in Promoting /\ r.op # "own" => r.view \in Hybrid \cap made'
        /\ r.pc = "opened" /\ ~ r.failed => r.view \in r.ids
    BY DEF Finds
  <1>6. r.pc = "load" /\ ~ r.failed => r.view \in vault' \cap {slot'["current"], slot'["previous"]}
    BY <1>3 DEF Finds
  <1>7. r.pc \in {"loadNext", "loadPrevious"} /\ ~ r.failed =>
            r.view \in r.ids \/ r.view \in vault' \cap {slot'["previous"]}
    BY <1>4 DEF Finds
  <1> QED BY <1>1, <1>2, <1>5, <1>6, <1>7 DEF Finds

\* Only Manager.create makes a key, one at a time.
LEMMA MadeGrows ==
    ASSUME [Next]_vars
    PROVE  made' = made \/ \E k : made' = made \cup {k}
  <1> DEFINE Grown == made' = made \/ \E k : made' = made \cup {k}
  <1>1. ASSUME NEW p \in Proc, Creates(p)
        PROVE  Grown
    BY <1>1 DEF Creates, Stat, Reuse, Generate, Unavailable, Save, SaveFails, files, shared
  <1>2. ASSUME NEW p \in Proc, Promotes(p)
        PROVE  Grown
    BY <1>2 DEF Promotes, PendingInfo, Check, KeepCurrent, Replace, PromoteFails, files, shared
  <1>3. ASSUME NEW p \in Proc, Loads(p)
        PROVE  Grown
    BY <1>3 DEF Loads, Load, LoadNext, LoadPrevious, CloseSession, CreatePending, files, shared
  <1>4. ASSUME NEW p \in Proc, Asks(p)
        PROVE  Grown
    BY <1>4 DEF Asks, Clean, Ask, ApproveOwn, ApprovalFails, files, shared
  <1>5. ASSUME NEW p \in Proc,
               \/ StartInit(p) \/ OpenSession(p) \/ UpgradeIdentity(p)
               \/ Acquire(p) \/ AcquireToPromote(p) \/ Stop(p)
        PROVE  Grown
    BY <1>5 DEF StartInit, OpenSession, UpgradeIdentity, Open, Acquire, AcquireToPromote, Stop,
                files, shared
  <1>6. CASE ApproveMember \/ RemoveMember
    BY <1>6 DEF ApproveMember, RemoveMember, files, Lists
  <1>7. CASE UNCHANGED vars
    BY <1>7 DEF vars, files
  <1> QED BY <1>1, <1>2, <1>3, <1>4, <1>5, <1>6, <1>7 DEF Next, Runs

\* What a step of p does to the process itself.
Stepped(p) ==
    /\ \A q \in Proc \ {p} : proc'[q] = proc[q]
    /\ At(p, "replace")' => KeepCurrent(p)
    /\ Finds(slot', vault', made', proc'[p])

LEMMA OwnStep ==
    ASSUME Inv, OneMade, OrderOK, HeldOK, NEW p \in Proc, SlotsMove, made \subseteq made',
           StartInit(p) \/ OpenSession(p) \/ UpgradeIdentity(p) \/ Acquire(p)
           \/ AcquireToPromote(p) \/ Runs(p) \/ Stop(p)
    PROVE  Stepped(p)
  <1> DEFINE r == proc[p]
  <1>r. r \in Process /\ proc \in [Proc -> Process] /\ Fits(r)
    BY DEF Inv, TypeOK, ProcOK
  <1>o. Finds(slot, vault, made, r) /\ Finds(slot', vault', made', r)
    BY FindsStays DEF HeldOK, Inv
  <1>i. Finds(slot', vault', made', Idle) /\ Idle.pc = "idle"
    BY DEF Finds, Idle, Promoting
  <1>e. ASSUME Ends(p) PROVE Stepped(p)
    BY <1>e, <1>r, <1>i DEF Ends, Stepped, At
  <1>k. NoKey \notin vault
    BY DeviceKeysOK DEF Inv, TypeOK
  <1>1. CASE StartInit(p)
    <2>1. r = Idle
      BY <1>1, <1>r DEF StartInit, At, Fits
    <2> QED BY <1>1, <1>r, <2>1 DEF StartInit, Stepped, At, Finds, Idle, Promoting
  <1>2. CASE Acquire(p) \/ Stat(p) \/ Generate(p)
    <2>1. \E new : \E pc \in {"stat", "reuse", "save"} :
              proc' = [proc EXCEPT ![p].pc = pc, ![p].new = new]
      BY <1>2, <1>r DEF Acquire, Stat, Generate, Goes, Process
    <2> QED BY <1>r, <1>o, <2>1 DEF Stepped, At, Finds, Promoting, Process
  <1>3. CASE Unavailable(p) \/ SaveFails(p) \/ CloseSession(p) \/ ApprovalFails(p) \/ Stop(p)
    BY <1>3, <1>e DEF Unavailable, SaveFails, CloseSession, ApprovalFails, Stop
  <1>4. ASSUME NEW k, AfterCreate(p, k),
               r.slot \in {"current", "next"} => Has(slot', vault', k)
        PROVE  Stepped(p)
    BY <1>4, <1>r, <1>o DEF AfterCreate, Stepped, At, Finds, Promoting, Process
  <1>5. CASE Reuse(p)
    <2>1. CASE Loadable(r.slot) # {}
      <3>1. AfterCreate(p, slot[r.slot]) /\ slot[r.slot] \in vault
        BY <1>5, <2>1 DEF Reuse, Loadable
      <3>2. r.slot \in {"current", "next"} => Has(slot', vault', slot[r.slot])
        BY <3>1, HasStays DEF Has, Inv
      <3> QED BY <1>4, <3>1, <3>2
    <2> QED BY <1>5, <1>e, <2>1 DEF Reuse
  <1>6. CASE Save(p)
    <2>1. AfterCreate(p, r.new) /\ r.new \in vault /\ vault' = vault
      BY <1>6 DEF Save, Inv, SavesOK, At
    <2>2. r.slot \in {"current", "next"} => slot'[r.slot] = r.new
      BY <1>6 DEF Save, Inv, TypeOK, Slot
    <2> QED BY <1>4, <2>1, <2>2 DEF Has
  <1>7. CASE Clean(p) \/ Ask(p)
    <2>1. CASE Ends(p)
      BY <1>e, <2>1
    <2>2. CASE Clean(p) /\ Goes(p, "ask")
      BY <1>r, <1>o, <2>2 DEF Clean, Goes, Stepped, At, Finds, Promoting, Process
    <2>3. CASE Goes(p, "approve")
      BY <1>r, <1>o, <2>3 DEF Goes, Stepped, At, Finds, Promoting, Process
    <2> QED BY <1>7, <2>1, <2>2, <2>3 DEF Clean, Ask
  <1>8. ASSUME NEW op, Open(p, op) PROVE Stepped(p)
    <2>1. r = Idle /\ Has(slot', vault', control)
      BY <1>8, <1>r, HasStays DEF Open, At, Fits, HeldOK, Inv
    <2> QED BY <1>8, <1>r, <2>1 DEF Open, Stepped, At, Finds, Idle, Promoting
  <1>9. CASE PendingInfo(p)
    <2>1. r.pc = "pending" /\ Has(slot, vault, r.view) /\ UNCHANGED <<slot, vault, made>>
      BY <1>9, <1>o DEF PendingInfo, At, Finds, files
    <2>2. CASE IsApproved(p)
      <3>1. r.view \in Hybrid \cap made
        BY <2>2 DEF IsApproved, Exists, Inv, TypeOK, SlotsOK, Slot
      <3> QED BY <1>9, <1>r, <1>o, <2>1, <2>2, <3>1
              DEF PendingInfo, Goes, Stepped, At, Finds, Promoting, Process
    <2>3. CASE ~ IsApproved(p)
      <3>1. r.view \in vault \cap {slot["current"], slot["previous"]}
        BY <1>k, <2>1, <2>3 DEF IsApproved, Exists, Has
      <3> QED BY <1>9, <1>r, <1>o, <2>1, <2>3, <3>1
              DEF PendingInfo, Goes, Stepped, At, Finds, Promoting, Process
    <2> QED BY <2>2, <2>3
  <1>10. ASSUME NEW pc \in Promoting, proc' = [proc EXCEPT ![p].pc = pc],
                r.pc \in Promoting, pc = "replace" => KeepCurrent(p)
         PROVE  Stepped(p)
    BY <1>10, <1>r, <1>o DEF Stepped, At, Finds, Promoting, Process
  <1>11. CASE AcquireToPromote(p) \/ KeepCurrent(p)
    BY <1>10, <1>11 DEF AcquireToPromote, KeepCurrent, At, Goes, Promoting
  <1>12. ASSUME AfterPromote(p, TRUE) PROVE Stepped(p)
    <2>1. CASE r.op = "own"
      BY <1>e, <1>12, <2>1 DEF AfterPromote
    <2>2. CASE r.op # "own"
      BY <1>r, <1>o, <1>12, <2>2 DEF AfterPromote, Stepped, At, Finds, Promoting, Process
    <2> QED BY <2>1, <2>2
  <1>13. CASE Check(p)
    <2>1. CASE Exists("next")
      BY <1>10, <1>13, <2>1 DEF Check, At, Goes, Promoting
    <2>2. CASE ~ Exists("next")
      BY <1>12, <1>13, <2>2 DEF Check
    <2> QED BY <2>1, <2>2
  <1>14. CASE PromoteFails(p)
    BY <1>12, <1>14 DEF PromoteFails
  <1>15. CASE Replace(p)
    <2>1. /\ r.pc = "replace" /\ slot["next"] \in Hybrid \cap made /\ slot["next"] \in vault
          /\ slot'["current"] = slot["next"] /\ vault' = vault /\ AfterPromote(p, FALSE)
      BY <1>15 DEF Replace, At, Inv, TypeOK, SlotsOK, Slot
    <2>2. CASE r.op = "own"
      BY <1>e, <2>1, <2>2 DEF AfterPromote
    <2>3. CASE r.op # "own"
      <3>1. r.view \in vault' \cap {slot'["current"], slot'["previous"]}
        BY <1>o, <2>1, <2>3 DEF Finds, Promoting, OneMade
      <3> QED BY <1>r, <1>o, <2>1, <2>3, <3>1
              DEF AfterPromote, Stepped, At, Finds, Promoting, Process
    <2> QED BY <2>2, <2>3
  <1>16. CASE Load(p)
    <2>1. CASE Loadable("current") = {}
      BY <1>e, <1>16, <2>1 DEF Load
    <2>2. CASE Loadable("current") # {}
      BY <1>r, <1>o, <1>16, <2>2
         DEF Load, Loadable, Stepped, At, Finds, Promoting, Process, files
    <2> QED BY <2>1, <2>2
  <1>17. CASE LoadNext(p) \/ LoadPrevious(p)
    BY <1>r, <1>o, <1>17 DEF LoadNext, LoadPrevious, LoadRetained, Loadable, Stepped, At, Finds,
                             Promoting, Process, files
  <1>18. CASE CreatePending(p)
    BY <1>r, <1>18 DEF CreatePending, Stepped, At, Finds, Promoting, Idle
  <1>19. CASE ApproveOwn(p)
    BY <1>r, <1>o, <1>19 DEF ApproveOwn, Stepped, At, Finds, Promoting, Process
  <1> QED
    BY <1>1, <1>2, <1>3, <1>5, <1>6, <1>7, <1>8, <1>9, <1>11, <1>13, <1>14, <1>15, <1>16, <1>17,
       <1>18, <1>19
    DEF Runs, Creates, Promotes, Loads, Asks, OpenSession, UpgradeIdentity


LEMMA OrderStep ==
    ASSUME Inv, OneMade, OrderOK, HeldOK, [Next]_vars
    PROVE  OrderOK'
  <1>m. SlotsMove /\ made \subseteq made'
    BY NextMoves, MadeGrows
  <1>l. \A q \in Proc : At(q, "replace") => lock["current"] = q
    BY DEF Inv, TypeOK, At
  <1>1. ASSUME NEW p \in Proc, Stepped(p),
               StartInit(p) \/ OpenSession(p) \/ UpgradeIdentity(p) \/ Acquire(p)
               \/ AcquireToPromote(p) \/ Runs(p) \/ Stop(p)
        PROVE  OrderOK'
    <2>1. \A q \in Proc : At(q, "replace")' => (At(q, "replace") /\ q # p) \/ KeepCurrent(p)
      BY <1>1 DEF Stepped, At
    <2>2. CASE Save(p)
      <3>1. /\ proc[p].slot \in {"current", "next", "signing"} /\ slot[proc[p].slot] = NoKey
            /\ lock[proc[p].slot] = p /\ proc[p].new # NoKey
            /\ ~ KeepCurrent(p)
        BY <2>2, DeviceKeysOK DEF Save, Inv, TypeOK, SavesOK, At, Process, Slot, KeepCurrent
      <3>2. \A s \in Slot : slot'[s] = IF s = proc[p].slot THEN proc[p].new ELSE slot[s]
        BY <2>2 DEF Save, Inv, TypeOK
      <3>3. CASE proc[p].slot = "current"
        BY <1>l, <2>1, <3>1, <3>2, <3>3 DEF OrderOK, Slot
      <3>4. CASE proc[p].slot # "current"
        BY <2>1, <3>1, <3>2, <3>4 DEF OrderOK, Slot
      <3> QED BY <3>3, <3>4
    <2>3. CASE KeepCurrent(p)
      <3>1. slot'["previous"] = slot["current"] /\ slot'["current"] = slot["current"]
        BY <2>3 DEF KeepCurrent, Kept, Inv, TypeOK, Slot
      <3> QED BY <3>1 DEF OrderOK
    <2>4. CASE Replace(p)
      <3>1. /\ slot'["current"] = slot["next"] /\ slot["next"] \in Hybrid
            /\ At(p, "replace") /\ ~ KeepCurrent(p)
        BY <2>4 DEF Replace, Inv, TypeOK, SlotsOK, Slot, At, KeepCurrent
      <3>2. slot'["current"] # NoKey
        BY <3>1, DeviceKeysOK
      <3> QED BY <1>l, <2>1, <3>1, <3>2 DEF OrderOK
    <2>5. CASE UNCHANGED slot
      <3>1. ~ KeepCurrent(p) => OrderOK'
        BY <2>1, <2>5 DEF OrderOK
      <3> QED BY <2>3, <3>1
    <2>6. Save(p) \/ KeepCurrent(p) \/ Replace(p) \/ UNCHANGED slot
      BY <1>1 DEF Runs, Creates, Promotes, Loads, Asks, files, shared,
        StartInit, OpenSession, UpgradeIdentity, Open, Acquire, AcquireToPromote, Stop,
        Stat, Reuse, Generate, Unavailable, Save, SaveFails, PendingInfo,
        Check, KeepCurrent, Replace, PromoteFails, Load, LoadNext, LoadPrevious,
        CloseSession, CreatePending, Clean, Ask, ApproveOwn, ApprovalFails
    <2> QED BY <2>2, <2>3, <2>4, <2>5, <2>6
  <1>2. CASE UNCHANGED <<slot, proc>>
    BY <1>2 DEF OrderOK, At
  <1> QED BY <1>1, <1>2, <1>m, OwnStep DEF Next, vars, files, ApproveMember, RemoveMember

LEMMA HeldStep ==
    ASSUME Inv, OneMade, OrderOK, HeldOK, [Next]_vars
    PROVE  HeldOK'
  <1>m. SlotsMove /\ made \subseteq made'
    BY NextMoves, MadeGrows
  <1>h. \A k : Has(slot, vault, k) => Has(slot', vault', k)
    BY <1>m, HasStays DEF Inv
  <1>1. \A r \in requests' : Has(slot', vault', r.recipient)
    <2>1. ASSUME NEW p \in Proc, Ask(p), NEW r \in requests' \ requests
          PROVE  Has(slot, vault, r.recipient)
      BY <2>1 DEF Ask, At, HeldOK, Finds
    <2>2. \A r \in requests : Has(slot', vault', r.recipient)
      BY <1>h DEF HeldOK
    <2>3. ASSUME NEW p \in Proc, Clean(p)
          PROVE  requests' \subseteq requests
      BY <2>3 DEF Clean
    <2> QED BY <1>h, <2>1, <2>2, <2>3, WhatChanges
  <1>2. control' # NoKey => Has(slot', vault', control')
    <2>1. \A k \in Recipients : Has(slot, vault, k)
      BY DEF Recipients, Pending, ListJoinRequests, HeldOK
    <2>2. control' \in {control, NoKey} \cup Recipients
      BY WhatChanges DEF ApproveMember, RemoveMember, ApproveOwn, Lists
    <2> QED BY <1>h, <2>1, <2>2 DEF HeldOK
  <1>3. ASSUME NEW p \in Proc, Stepped(p)
        PROVE  \A q \in Proc : Finds(slot', vault', made', proc'[q])
    <2>1. \A q \in Proc : Finds(slot', vault', made', proc[q])
      BY <1>m, FindsStays DEF HeldOK, Inv
    <2> QED BY <1>3, <2>1 DEF Stepped
  <1>4. CASE UNCHANGED proc
    <2>1. \A q \in Proc : Finds(slot', vault', made', proc[q])
      BY <1>m, FindsStays DEF HeldOK, Inv
    <2> QED BY <1>1, <1>2, <1>4, <2>1 DEF HeldOK
  <1> QED
    BY <1>1, <1>2, <1>3, <1>4, <1>m, OwnStep DEF Next, vars, ApproveMember, RemoveMember, HeldOK

\* Two hybrid keys are two elements of a finite set.
LEMMA OneUpdateMakesOne ==
    ASSUME IsFiniteSet(made), OneUpdate
    PROVE  OneMade
  <1> SUFFICES ASSUME NEW j \in made \cap Hybrid, NEW k \in made \cap Hybrid, j # k PROVE FALSE
    BY DEF OneMade
  <1>1. IsFiniteSet(made \cap Hybrid)
    BY FS_Subset
  <1>2. IsFiniteSet({j}) /\ Cardinality({j}) = 1
    BY FS_Singleton
  <1>3. Cardinality({j} \cup {k}) = 2
    <2> DEFINE S == {j}
    <2>1. IsFiniteSet(S) /\ Cardinality(S) = 1 /\ k \notin S
      BY <1>2
    <2> HIDE DEF S
    <2>2. Cardinality(S \cup {k}) = IF k \in S THEN Cardinality(S) ELSE Cardinality(S) + 1
      BY <2>1, FS_AddElement
    <2>3. Cardinality(S \cup {k}) = 2
      BY <2>1, <2>2
    <2> QED BY <2>3 DEF S
  <1>4. {j} \cup {k} \subseteq made \cap Hybrid
    OBVIOUS
  <1> QED BY <1>1, <1>3, <1>4, FS_Subset, FS_CardinalityType DEF OneUpdate

\* What Control lists for the device is among its keys, and a session finds it
\* in the slots it loads one by one while others promote, until a second
\* update of the same device (Manager.PromotePending, App.openSession).
THEOREM ListedIsAlwaysHeld == Spec => []ListedIsHeld
<1>1. Init => RetainsOK
  BY FS_EmptySet, DeviceKeysOK
     DEF Init, RetainsOK, OrderOK, HeldOK, Finds, Idle, At, Promoting, Slot
<1>2. Inv /\ RetainsOK /\ [Next]_vars => RetainsOK'
  <2> SUFFICES ASSUME Inv, RetainsOK, [Next]_vars PROVE RetainsOK'
    OBVIOUS
  <2>1. IsFiniteSet(made') /\ made \subseteq made'
    BY MadeGrows, FS_AddElement DEF RetainsOK
  <2>2. ASSUME OneMade' PROVE OrderOK' /\ HeldOK'
    <3>1. OneMade
      BY <2>1, <2>2 DEF OneMade
    <3> QED BY <3>1, OrderStep, HeldStep DEF RetainsOK
  <2> QED BY <2>1, <2>2 DEF RetainsOK
<1>3. Inv /\ RetainsOK => ListedIsHeld
  <2> SUFFICES ASSUME Inv, RetainsOK, OneUpdate
               PROVE  /\ control # NoKey =>
                            \E s \in {"current", "next", "previous"} : control \in Loadable(s)
                      /\ \A p \in Proc :
                            At(p, "opened") /\ ~proc[p].failed => proc[p].view \in proc[p].ids
    BY DEF ListedIsHeld
  <2>1. HeldOK
    BY OneUpdateMakesOne DEF RetainsOK
  <2> QED BY <2>1 DEF HeldOK, Has, Finds, Loadable, At
<1>4. QED BY <1>1, <1>2, <1>3, Invariance, PTL DEF Spec
=============================================================================
