------------------------- MODULE PublicationProofs -------------------------
(***************************************************************************)
(* Theorems about Publication, for every backend, any objects, any number  *)
(* of processes and any number of publications, deletions and crashes.     *)
(***************************************************************************)
EXTENDS Publication, TLAPS

Process == [phase : Phase, obj : Object \cup {NoObject}, next : 0..3]

Typed ==
    /\ backend \in Backend
    /\ blobs \subseteq {Config} \cup UNION {PartSet(o) : o \in Object}
    /\ named \subseteq Object /\ pending \subseteq Object
    /\ proc \in [Proc -> Process]
    /\ \A p \in Proc : (proc[p].phase = "idle") <=> (proc[p].obj = NoObject)
    /\ listed \in [Proc -> SUBSET Object] /\ shownAt \in [Proc -> SUBSET Object]
    /\ cache \in [Device -> SUBSET Object]
    /\ acked \subseteq Object /\ deleted \subseteq Object

\* Where a process is in the parts of its object.
Place(p) ==
    /\ proc[p].phase \in {"resolve", "manifest", "back", "rename", "exists"} => proc[p].next = 1
    /\ proc[p].phase \in {"push", "check"} => proc[p].next \in 1..Len(PartsOf(proc[p].obj))

\* Only a deletion removes a name: a process that has seen the name of an
\* object nobody deletes may rely on it.
NameSeen(p) ==
    /\ proc[p].phase \in {"delete", "version", "dropped"} => proc[p].obj \in deleted
    /\ proc[p].phase \in {"back", "exists", "check", "ack"} => proc[p].obj \in named \cup deleted

\* The parts a process has checked stay, as the name does.
PartsSeen(p) ==
    backend = "oci" /\ proc[p].obj \notin deleted =>
        /\ proc[p].phase = "check" =>
              \A j \in 1..(proc[p].next - 1) : PartsOf(proc[p].obj)[j] \in blobs
        /\ proc[p].phase = "ack" => PartSet(proc[p].obj) \subseteq blobs

Knows(p) == Place(p) /\ NameSeen(p) /\ PartsSeen(p)

AckedOK ==
    /\ acked \subseteq named \cup deleted
    /\ backend = "oci" => \A o \in acked \ deleted : PartSet(o) \subseteq blobs

\* A device is served what it listed.
ListedOK == \A p \in Proc : listed[p] \subseteq shownAt[p]

Inv == Typed /\ (\A p \in Proc : Knows(p)) /\ AckedOK /\ ListedOK

-----------------------------------------------------------------------------
\* An object has two parts, or three with its blob.
LEMMA Parts ==
    ASSUME NEW o
    PROVE  /\ o \in Bare => Len(PartsOf(o)) = 2
           /\ o \notin Bare => Len(PartsOf(o)) = 3 /\ PartsOf(o)[3] = BlobPart(o)
           /\ PartsOf(o)[1] = Config /\ PartsOf(o)[2] = HeadPart(o)
  BY DEF PartsOf

LEMMA PartsInSet ==
    ASSUME NEW o
    PROVE  /\ HeadPart(o) \in PartSet(o)
           /\ o \notin Bare => BlobPart(o) \in PartSet(o)
           /\ \A i \in 1..Len(PartsOf(o)) : PartsOf(o)[i] \in PartSet(o)
  BY Parts DEF PartSet

\* Nothing in the invariant looks at the other fields of a process that only moves.
LEMMA MovesTyped ==
    ASSUME Typed, NEW p \in Proc, NEW phase \in Phase, Moves(p, phase)
    PROVE  /\ proc' \in [Proc -> Process]
           /\ proc'[p].phase = phase /\ proc'[p].obj = proc[p].obj /\ proc'[p].next = proc[p].next
           /\ \A q \in Proc \ {p} : proc'[q] = proc[q]
  BY DEF Typed, Moves, Process

LEMMA EndsTyped ==
    ASSUME Typed, NEW p \in Proc, Ends(p)
    PROVE  /\ proc' \in [Proc -> Process]
           /\ proc'[p].phase = "idle" /\ proc'[p].obj = NoObject
           /\ \A q \in Proc \ {p} : proc'[q] = proc[q]
  BY DEF Typed, Ends, Process, Idle, Phase

LEMMA AdvancesTyped ==
    ASSUME Typed, NEW p \in Proc, NEW i \in 0..3,
           proc' = [proc EXCEPT ![p].next = i]
    PROVE  /\ proc' \in [Proc -> Process]
           /\ proc'[p].phase = proc[p].phase /\ proc'[p].obj = proc[p].obj /\ proc'[p].next = i
           /\ \A q \in Proc \ {p} : proc'[q] = proc[q]
  BY DEF Typed, Process

\* A process that works has an object, and a place in it.
LEMMA Working ==
    ASSUME Typed, NEW p \in Proc
    PROVE  /\ proc[p].phase # "idle" => proc[p].obj \in Object
           /\ proc[p].next \in 0..3 /\ proc[p].phase \in Phase
           /\ proc[p].obj \in Object => proc[p].obj # NoObject
  BY PublicationOK DEF Typed, Process, NoObject

\* The types are kept by what one process does to itself and to the backend.
LEMMA TypesKept ==
    ASSUME Typed, NEW p \in Proc, proc' \in [Proc -> Process],
           \A q \in Proc \ {p} : proc'[q] = proc[q],
           (proc'[p].phase = "idle") <=> (proc'[p].obj = NoObject),
           blobs' \subseteq {Config} \cup UNION {PartSet(o) : o \in Object},
           named' \subseteq Object, pending' \subseteq Object,
           listed' \in [Proc -> SUBSET Object], shownAt' \in [Proc -> SUBSET Object],
           cache' \in [Device -> SUBSET Object],
           acked' \subseteq Object, deleted' \subseteq Object, backend' = backend
    PROVE  Typed'
  BY DEF Typed

LEMMA InvInit == Init => Inv
  BY PublicationOK DEF Init, Inv, Typed, Knows, Place, NameSeen, PartsSeen, AckedOK, ListedOK,
        Idle, Process, Phase

\* What no deletion concerns stays: names, and the parts they name.
Keeps ==
    /\ backend' = backend /\ deleted \subseteq deleted'
    /\ named \subseteq named' \cup deleted'
    /\ \A o \in named : PartSet(o) \cap blobs \subseteq blobs'

\* Then what a process knows stays true, and what was acknowledged stored.
LEMMA KnowledgeStays ==
    ASSUME Inv, Keeps, NEW q \in Proc, proc'[q] = proc[q]
    PROVE  Knows(q)'
  <1>1. Place(q)'
    BY DEF Inv, Knows, Place
  <1>2. NameSeen(q)'
    BY DEF Inv, Knows, NameSeen, Keeps
  <1>3. PartsSeen(q)'
    <2> SUFFICES ASSUME backend = "oci", proc[q].obj \notin deleted'
                 PROVE  /\ proc[q].phase = "check" =>
                              \A j \in 1..(proc[q].next - 1) : PartsOf(proc[q].obj)[j] \in blobs'
                        /\ proc[q].phase = "ack" => PartSet(proc[q].obj) \subseteq blobs'
      BY DEF Keeps, PartsSeen
    <2>1. proc[q].phase \in {"check", "ack"} => PartSet(proc[q].obj) \cap blobs \subseteq blobs'
      BY DEF Inv, Knows, NameSeen, Keeps
    <2>2. CASE proc[q].phase = "check"
      <3>1. proc[q].next \in 1..Len(PartsOf(proc[q].obj))
        BY <2>2 DEF Inv, Knows, Place
      <3>2. Len(PartsOf(proc[q].obj)) \in Nat
        BY Parts
      <3>3. \A j \in 1..(proc[q].next - 1) : PartsOf(proc[q].obj)[j] \in PartSet(proc[q].obj)
        BY <3>1, <3>2, PartsInSet
      <3> QED BY <2>1, <2>2, <3>3 DEF Inv, Knows, PartsSeen, Keeps
    <2>3. CASE proc[q].phase = "ack"
      BY <2>1, <2>3 DEF Inv, Knows, PartsSeen, Keeps
    <2> QED BY <2>2, <2>3
  <1> QED BY <1>1, <1>2, <1>3 DEF Knows

LEMMA AckedStays ==
    ASSUME Inv, Keeps, acked' = acked
    PROVE  AckedOK'
  BY DEF Inv, Keeps, AckedOK

\* It is enough to look at the process that takes the step.
LEMMA OthersKeep ==
    ASSUME Inv, Keeps, NEW p \in Proc, \A q \in Proc \ {p} : proc'[q] = proc[q],
           Typed', Knows(p)', AckedOK', ListedOK'
    PROVE  Inv'
  BY KnowledgeStays DEF Inv

\* A process goes on with its object.
LEMMA MovesStep ==
    ASSUME Inv, NEW p \in Proc, NEW phase \in Phase \ {"idle"}, proc[p].phase # "idle",
           Moves(p, phase), Keeps, Knows(p)', blobs' \subseteq blobs, named' \subseteq Object,
           pending' \subseteq Object, UNCHANGED <<listed, shownAt, cache, acked, deleted>>
    PROVE  Inv'
  <1>1. Typed'
    BY MovesTyped, TypesKept DEF Inv, Typed, Keeps
  <1>2. \A q \in Proc \ {p} : proc'[q] = proc[q]
    BY MovesTyped DEF Inv
  <1> QED BY <1>1, <1>2, OthersKeep, AckedStays DEF Inv, ListedOK

\* A call returns.
LEMMA EndsStep ==
    ASSUME Inv, NEW p \in Proc, Ends(p), Keeps, blobs' \subseteq blobs,
           named' \subseteq Object, UNCHANGED <<pending, deleted>>, AckedOK', ListedOK',
           acked' \subseteq Object, cache' \in [Device -> SUBSET Object],
           listed' \in [Proc -> SUBSET Object], shownAt' \in [Proc -> SUBSET Object]
    PROVE  Inv'
  <1>1. Typed'
    BY EndsTyped, TypesKept DEF Inv, Typed, Keeps
  <1>2. \A q \in Proc \ {p} : proc'[q] = proc[q]
    BY EndsTyped DEF Inv
  <1>3. Knows(p)'
    BY EndsTyped DEF Inv, Knows, Place, NameSeen, PartsSeen
  <1> QED BY <1>1, <1>2, <1>3, OthersKeep

\* A call begins.
LEMMA BeginsStep ==
    ASSUME Inv, NEW p \in Proc, NEW r \in Process, proc' = [proc EXCEPT ![p] = r],
           r.phase \in {"resolve", "delete", "served", "fetched"}, r.obj \in Object,
           r.phase = "resolve" => r.next = 1, r.phase = "delete" => r.obj \in deleted',
           deleted \subseteq deleted', deleted' \subseteq Object,
           UNCHANGED <<backend, blobs, named, pending, listed, shownAt, cache, acked>>
    PROVE  Inv'
  <1>1. proc' \in [Proc -> Process] /\ proc'[p] = r /\ \A q \in Proc \ {p} : proc'[q] = proc[q]
    BY DEF Inv, Typed
  <1>2. Typed'
    BY <1>1, TypesKept, PublicationOK DEF Inv, Typed, NoObject
  <1>3. Keeps
    BY DEF Keeps
  <1>4. Knows(p)'
    BY <1>1 DEF Knows, Place, NameSeen, PartsSeen
  <1> QED BY <1>1, <1>2, <1>3, <1>4, OthersKeep, AckedStays DEF Inv, ListedOK

LEMMA Begins ==
    ASSUME NEW phase \in Phase, NEW o \in Object, NEW r \in Process
    PROVE  /\ [r EXCEPT !.phase = phase, !.obj = o] \in Process
           /\ [r EXCEPT !.phase = phase, !.obj = o].phase = phase
           /\ [r EXCEPT !.phase = phase, !.obj = o].obj = o
  BY DEF Process

LEMMA PlaceAfter ==
    ASSUME NEW n \in {2, 3}, NEW i \in 1..n, i # n
    PROVE  i + 1 \in 0..3 /\ i + 1 \in 1..n
  OBVIOUS

\* The process that turns to a part of its object.
Placed(r, phase, i) == [r EXCEPT !.phase = phase, !.next = i]

LEMMA PlacedTyped ==
    ASSUME NEW phase \in Phase, NEW i \in 0..3, NEW r \in Process
    PROVE  /\ Placed(r, phase, i) \in Process
           /\ Placed(r, phase, i).phase = phase /\ Placed(r, phase, i).next = i
           /\ Placed(r, phase, i).obj = r.obj
  BY DEF Placed, Process

\* The process that begins with an object.
Begun(phase, o) == [Idle EXCEPT !.phase = phase, !.obj = o]

LEMMA BegunTyped ==
    ASSUME NEW phase \in Phase, NEW o \in Object
    PROVE  Begun(phase, o) \in Process /\ Begun(phase, o).phase = phase /\ Begun(phase, o).obj = o
  <1>1. Idle \in Process
    BY DEF Idle, Process, Phase
  <1> QED BY <1>1, Begins DEF Begun

-----------------------------------------------------------------------------
\* A publication, up to the name.
LEMMA PublishStep ==
    ASSUME Inv, NEW p \in Proc,
           \/ \E o \in Object : Publish(p, o)
           \/ ResolveTag(p) \/ PushBlob(p) \/ PushManifest(p)
           \/ PutObject(p) \/ WritePending(p) \/ CommitFile(p)
    PROVE  Inv'
  <1> USE DEF Keeps, Knows, Place, NameSeen, PartsSeen, Phase
  <1>1. ASSUME NEW o \in Object, Publish(p, o)
        PROVE  Inv'
    <2> DEFINE r == [phase |-> "resolve", obj |-> o, next |-> 1]
    <2>1. r \in Process /\ r.phase = "resolve" /\ r.obj = o /\ r.next = 1
      BY DEF Process
    <2>2. proc' = [proc EXCEPT ![p] = r]
      BY <1>1 DEF Publish
    <2> HIDE DEF r
    <2> QED BY <1>1, <2>1, <2>2, BeginsStep DEF Publish, Inv, Typed
  <1>2. CASE ResolveTag(p)
    <2>1. CASE proc[p].obj \in named
      BY <1>2, <2>1, MovesStep, MovesTyped, Parts DEF ResolveTag, Inv, Typed
    <2>2. CASE proc[p].obj \notin named
      BY <1>2, <2>2, MovesStep, MovesTyped, Parts DEF ResolveTag, Inv, Typed
    <2> QED BY <2>1, <2>2
  <1>3. CASE PushBlob(p)
    <2> DEFINE o == proc[p].obj
               i == proc[p].next
    <2>1. /\ o \in Object /\ o # NoObject /\ i \in 1..Len(PartsOf(o)) /\ proc[p].phase = "push"
      BY <1>3, Working DEF PushBlob, Inv
    <2>2. /\ proc' \in [Proc -> Process] /\ \A q \in Proc \ {p} : proc'[q] = proc[q]
          /\ proc'[p].obj = o
          /\ \/ proc'[p].phase = "manifest" /\ proc'[p].next = 1
             \/ proc'[p].phase = "push" /\ proc'[p].next = i + 1 /\ i + 1 \in 1..Len(PartsOf(o))
      <3>1. CASE i = Len(PartsOf(o))
        <4> DEFINE r == Placed(proc[p], "manifest", 1)
        <4>1. proc' = [proc EXCEPT ![p] = r]
          BY <1>3, <3>1 DEF PushBlob, Placed, Inv, Typed
        <4>2. proc[p] \in Process /\ "manifest" \in Phase /\ 1 \in 0..3
          BY DEF Inv, Typed
        <4>3. r \in Process /\ r.phase = "manifest" /\ r.obj = o /\ r.next = 1
          BY <4>2, PlacedTyped
        <4> HIDE DEF r
        <4> QED BY <4>1, <4>3 DEF Inv, Typed
      <3>2. CASE i # Len(PartsOf(o))
        <4>1. i + 1 \in 0..3 /\ i + 1 \in 1..Len(PartsOf(o))
          <5>1. Len(PartsOf(o)) \in {2, 3}
            BY Parts
          <5> QED BY <2>1, <3>2, <5>1, PlaceAfter
        <4>2. proc' = [proc EXCEPT ![p].next = i + 1]
          BY <1>3, <3>2 DEF PushBlob
        <4> QED BY <2>1, <4>1, <4>2, AdvancesTyped DEF Inv
      <3> QED BY <3>1, <3>2
    <2>3. blobs' \subseteq blobs \cup PartSet(o) /\ blobs \subseteq blobs'
      BY <1>3, <2>1, PartsInSet DEF PushBlob
    <2>4. Typed'
      BY <1>3, <2>1, <2>2, <2>3, TypesKept DEF PushBlob, Inv, Typed
    <2>5. Keeps /\ Knows(p)' /\ AckedOK' /\ ListedOK'
      BY <1>3, <2>1, <2>2, <2>3, AckedStays DEF PushBlob, Inv, ListedOK
    <2> QED BY <2>2, <2>4, <2>5, OthersKeep
  <1>4. CASE PushManifest(p)
    BY <1>4, MovesStep, MovesTyped, Working DEF PushManifest, Inv, Typed
  <1>5. CASE PutObject(p)
    BY <1>5, MovesStep, MovesTyped, Working DEF PutObject, Inv, Typed
  <1>6. CASE WritePending(p)
    BY <1>6, MovesStep, MovesTyped, Working DEF WritePending, Inv, Typed
  <1>7. CASE CommitFile(p)
    BY <1>7, MovesStep, MovesTyped, Working DEF CommitFile, Inv, Typed
  <1> QED BY <1>1, <1>2, <1>3, <1>4, <1>5, <1>6, <1>7

\* What was published is read back and checked, then acknowledged.
LEMMA ConfirmStep ==
    ASSUME Inv, NEW p \in Proc, ReadBack(p) \/ CheckBlob(p) \/ Acknowledge(p)
    PROVE  Inv'
  <1> USE DEF Keeps, Knows, Place, NameSeen, PartsSeen, Phase
  <1>1. CASE ReadBack(p)
    <2>1. CASE proc[p].obj \notin named
      BY <1>1, <2>1, EndsStep DEF ReadBack, Inv, Typed, AckedOK, ListedOK
    <2>2. CASE proc[p].obj \in named
      BY <1>1, <2>2, MovesStep, MovesTyped, Parts DEF ReadBack, Inv, Typed
    <2> QED BY <2>1, <2>2
  <1>2. CASE CheckBlob(p)
    <2> DEFINE o == proc[p].obj
               i == proc[p].next
    <2>1. /\ o \in Object /\ o # NoObject /\ i \in 1..Len(PartsOf(o)) /\ proc[p].phase = "check"
      BY <1>2, Working DEF CheckBlob, Inv
    <2>2. CASE PartsOf(o)[i] \notin blobs
      BY <1>2, <2>2, EndsStep DEF CheckBlob, Inv, Typed, AckedOK, ListedOK
    <2>3. CASE PartsOf(o)[i] \in blobs /\ i = Len(PartsOf(o))
      <3>1. backend = "oci" /\ o \notin deleted => PartSet(o) \subseteq blobs
        <4> SUFFICES ASSUME backend = "oci", o \notin deleted, NEW j \in 1..Len(PartsOf(o))
                     PROVE  PartsOf(o)[j] \in blobs
          BY DEF PartSet
        <4>1. j = i \/ j \in 1..(i - 1)
          BY <2>3, Parts
        <4> QED BY <2>1, <2>3, <4>1 DEF Inv
      <3> QED BY <1>2, <2>1, <2>3, <3>1, MovesStep, MovesTyped DEF CheckBlob, Inv, Typed
    <2>4. CASE PartsOf(o)[i] \in blobs /\ i # Len(PartsOf(o))
      <3>1. i + 1 \in 0..3 /\ i + 1 \in 1..Len(PartsOf(o))
        <4>1. Len(PartsOf(o)) \in {2, 3}
          BY Parts
        <4> QED BY <2>1, <2>4, <4>1, PlaceAfter
      <3>2. proc' = [proc EXCEPT ![p].next = i + 1]
        BY <1>2, <2>4 DEF CheckBlob
      <3>3. /\ proc' \in [Proc -> Process] /\ \A q \in Proc \ {p} : proc'[q] = proc[q]
            /\ proc'[p].phase = "check" /\ proc'[p].obj = o /\ proc'[p].next = i + 1
        BY <2>1, <3>1, <3>2, AdvancesTyped DEF Inv
      <3>4. Typed'
        BY <1>2, <2>1, <3>3, TypesKept DEF CheckBlob, Inv, Typed
      <3>5. Keeps /\ AckedOK' /\ ListedOK'
        BY <1>2, AckedStays DEF CheckBlob, Inv, ListedOK
      <3>6. backend = "oci" /\ o \notin deleted =>
               \A j \in 1..((i + 1) - 1) : PartsOf(o)[j] \in blobs
        <4> SUFFICES ASSUME backend = "oci", o \notin deleted, NEW j \in 1..((i + 1) - 1)
                     PROVE  PartsOf(o)[j] \in blobs
          OBVIOUS
        <4>1. j = i \/ j \in 1..(i - 1)
          BY <2>1, Parts
        <4> QED BY <2>1, <2>4, <4>1 DEF Inv
      <3>7. Knows(p)'
        BY <1>2, <2>1, <3>1, <3>3, <3>6 DEF CheckBlob, Inv
      <3> QED BY <3>3, <3>4, <3>5, <3>7, OthersKeep
    <2> QED BY <2>2, <2>3, <2>4
  <1>3. CASE Acknowledge(p)
    <2>1. AckedOK'
      BY <1>3 DEF Acknowledge, Inv, AckedOK
    <2> QED BY <1>3, <2>1, EndsStep, Working, PublicationOK
            DEF Acknowledge, Caches, Inv, Typed, ListedOK
  <1> QED BY <1>1, <1>2, <1>3

\* A deletion.
LEMMA DeleteStep ==
    ASSUME Inv, NEW p \in Proc,
           \/ \E o \in Object : Delete(p, o)
           \/ FindVersion(p) \/ DeleteVersion(p) \/ RemoveObject(p) \/ ForgetHead(p)
    PROVE  Inv'
  <1> USE DEF Keeps, Knows, Place, NameSeen, PartsSeen, Phase
  <1>1. ASSUME NEW o \in Object, Delete(p, o)
        PROVE  Inv'
    <2> DEFINE r == Begun("delete", o)
    <2>1. r \in Process /\ r.phase = "delete" /\ r.obj = o
      BY BegunTyped
    <2>2. proc' = [proc EXCEPT ![p] = r]
      BY <1>1 DEF Delete, Begun
    <2> HIDE DEF r
    <2>3. /\ deleted \subseteq deleted' /\ deleted' \subseteq Object /\ o \in deleted'
          /\ UNCHANGED <<backend, blobs, named, pending, listed, shownAt, cache, acked>>
      BY <1>1 DEF Delete, Inv, Typed
    <2> QED BY <2>1, <2>2, <2>3, BeginsStep
  <1>2. CASE FindVersion(p)
    BY <1>2, MovesStep, MovesTyped DEF FindVersion, Inv, Typed
  <1>3. CASE DeleteVersion(p)
    <2>1. CASE proc[p].obj \in named
      BY <1>3, <2>1, MovesStep, MovesTyped DEF DeleteVersion, Inv, Typed
    <2>2. CASE proc[p].obj \notin named
      BY <1>3, <2>2, EndsStep DEF DeleteVersion, Inv, Typed, AckedOK, ListedOK
    <2> QED BY <2>1, <2>2
  <1>4. CASE RemoveObject(p)
    BY <1>4, MovesStep, MovesTyped DEF RemoveObject, Inv, Typed
  <1>5. CASE ForgetHead(p)
    BY <1>5, EndsStep, PublicationOK DEF ForgetHead, Inv, Typed, AckedOK, ListedOK
  <1> QED BY <1>1, <1>2, <1>3, <1>4, <1>5

\* A listing, a fetch, and a call that fails.
LEMMA ReadStep ==
    ASSUME Inv, NEW p \in Proc,
           \/ \E o \in Object : FetchHead(p, o)
           \/ Discover(p) \/ WriteCache(p) \/ Stop(p)
    PROVE  Inv'
  <1> USE DEF Keeps, Knows, Place, NameSeen, PartsSeen, Phase
  <1>1. ASSUME NEW o \in Object, FetchHead(p, o)
        PROVE  Inv'
    <2> DEFINE how == IF ServesCached(p, o) THEN "served" ELSE "fetched"
               r == Begun(how, o)
    <2>1. how \in {"served", "fetched"}
      OBVIOUS
    <2> HIDE DEF how
    <2>2. r \in Process /\ r.phase \in {"served", "fetched"} /\ r.obj = o
      BY <2>1, BegunTyped
    <2>3. proc' = [proc EXCEPT ![p] = r]
      BY <1>1 DEF FetchHead, Begun, how
    <2> HIDE DEF r
    <2> QED BY <1>1, <2>2, <2>3, BeginsStep DEF FetchHead, Inv, Typed
  <1>2. CASE Discover(p)
    BY <1>2 DEF Discover, Shown, Inv, Typed, AckedOK, ListedOK
  <1>3. CASE WriteCache(p)
    BY <1>3, EndsStep, Working, PublicationOK
       DEF WriteCache, Caches, Inv, Typed, AckedOK, ListedOK
  <1>4. CASE Stop(p)
    BY <1>4, EndsStep DEF Stop, Inv, Typed, AckedOK, ListedOK
  <1> QED BY <1>1, <1>2, <1>3, <1>4

\* The registry drops parts; those of an object that has its name stay.
LEMMA GarbageStep ==
    ASSUME Inv, CollectGarbage
    PROVE  Inv'
  <1>1. Keeps
    BY DEF CollectGarbage, Referenced, Keeps
  <1>2. Typed' /\ AckedOK' /\ ListedOK'
    BY <1>1, AckedStays DEF CollectGarbage, Inv, Typed, ListedOK
  <1>3. \A q \in Proc : Knows(q)'
    BY <1>1, KnowledgeStays DEF CollectGarbage
  <1> QED BY <1>2, <1>3 DEF Inv

LEMMA InvStep ==
    ASSUME Inv, [Next]_vars
    PROVE  Inv'
  <1>1. CASE UNCHANGED vars
    BY <1>1 DEF vars, Inv, Typed, Knows, Place, NameSeen, PartsSeen, AckedOK, ListedOK
  <1>2. CASE Next
    BY <1>2, PublishStep, ConfirmStep, DeleteStep, ReadStep, GarbageStep DEF Next
  <1> QED BY <1>1, <1>2

LEMMA Invariance == Spec => []Inv
  BY InvInit, InvStep, PTL DEF Spec

-----------------------------------------------------------------------------
\* The types, and that a process has an object while it works, hold at all times.
THEOREM TypeCorrect == Spec => []TypeOK
  <1>1. Inv => TypeOK
    BY DEF Inv, Typed, TypeOK, Process
  <1> QED BY <1>1, Invariance, PTL

\* "returns only after reading the object back by name" (Store.Publish): a
\* publication that succeeded can be read in full on every backend, whatever
\* other writers, the registry's garbage collection and crashes do.
THEOREM AckedIsAlwaysWhole == Spec => []AckedIsWhole
  <1>1. Inv => AckedIsWhole
    BY PartsInSet
       DEF Inv, Typed, AckedOK, AckedIsWhole, HeadStored, BlobStored, Stored, OciPart, FilePart
  <1> QED BY <1>1, Invariance, PTL

\* Every step of a process but the first ones needs it to be at work.
LEMMA IdleStays ==
    ASSUME Inv, [Next]_vars, NEW p \in Proc, proc[p].phase = "idle"
    PROVE  \/ proc'[p].phase = "idle"
           \/ \E o \in Object : Publish(p, o) \/ Delete(p, o) \/ FetchHead(p, o)
  <1> USE DEF Inv, Typed, Moves, Ends
  <1>1. ASSUME NEW q \in Proc,
               \/ ResolveTag(q) \/ PushBlob(q) \/ PushManifest(q) \/ CheckBlob(q) \/ PutObject(q)
               \/ WritePending(q) \/ CommitFile(q) \/ ReadBack(q) \/ Acknowledge(q)
        PROVE  proc'[p].phase = "idle"
    <2>1. q # p
      BY <1>1 DEF ResolveTag, PushBlob, PushManifest, CheckBlob, PutObject, WritePending,
            CommitFile, ReadBack, Acknowledge
    <2>2. proc'[p] = proc[p]
      BY <1>1, <2>1 DEF ResolveTag, PushBlob, PushManifest, CheckBlob, PutObject, WritePending,
            CommitFile, ReadBack, Acknowledge
    <2> QED BY <2>2
  <1>2. ASSUME NEW q \in Proc,
               \/ FindVersion(q) \/ DeleteVersion(q) \/ RemoveObject(q) \/ ForgetHead(q)
               \/ WriteCache(q) \/ Stop(q)
        PROVE  proc'[p].phase = "idle"
    <2>1. q # p
      BY <1>2 DEF FindVersion, DeleteVersion, RemoveObject, ForgetHead, WriteCache, Stop
    <2>2. proc'[p] = proc[p]
      BY <1>2, <2>1 DEF FindVersion, DeleteVersion, RemoveObject, ForgetHead, WriteCache, Stop
    <2> QED BY <2>2
  <1>3. ASSUME NEW q \in Proc \ {p}, NEW o \in Object,
               Publish(q, o) \/ Delete(q, o) \/ FetchHead(q, o)
        PROVE  proc'[p].phase = "idle"
    BY <1>3 DEF Publish, Delete, FetchHead
  <1>4. CASE UNCHANGED vars \/ CollectGarbage \/ \E q \in Proc : Discover(q)
    BY <1>4 DEF vars, CollectGarbage, Discover
  <1> QED BY <1>1, <1>2, <1>3, <1>4 DEF Next

\* "a cache entry never brings back a revision storage no longer has" (headCache).
THEOREM ServedIsAlwaysShown == Spec => ServedIsShown
  <1> DEFINE FromStorage ==
        \A p \in Proc : proc[p].phase = "idle" /\ proc'[p].phase \in {"served", "fetched"} =>
            proc'[p].obj \in named \cup shownAt[p]
  <1>1. ASSUME Inv, [Next]_vars
        PROVE  FromStorage
    <2> SUFFICES ASSUME NEW p \in Proc, proc[p].phase = "idle",
                        proc'[p].phase \in {"served", "fetched"}
                 PROVE  proc'[p].obj \in named \cup shownAt[p]
      OBVIOUS
    <2>1. PICK o \in Object : Publish(p, o) \/ Delete(p, o) \/ FetchHead(p, o)
      BY <1>1, IdleStays
    <2>2. FetchHead(p, o) /\ proc'[p].obj = o
      <3>1. CASE Publish(p, o) \/ Delete(p, o)
        <4>1. /\ "delete" \in Phase
              /\ \/ proc'[p] = [phase |-> "resolve", obj |-> o, next |-> 1]
                 \/ proc'[p] = Begun("delete", o)
          BY <1>1, <3>1 DEF Publish, Delete, Begun, Inv, Typed, Phase
        <4>2. proc'[p].phase \in {"resolve", "delete"}
          BY <4>1, BegunTyped
        <4> QED BY <4>2
      <3>2. CASE FetchHead(p, o)
        <4> DEFINE how == IF ServesCached(p, o) THEN "served" ELSE "fetched"
        <4>1. proc'[p] = Begun(how, o)
          BY <1>1, <3>2 DEF FetchHead, Begun, Inv, Typed
        <4>2. how \in Phase
          BY DEF Phase
        <4> HIDE DEF how
        <4> QED BY <3>2, <4>1, <4>2, BegunTyped
      <3> QED BY <2>1, <3>1, <3>2
    <2> QED BY <1>1, <2>1, <2>2
            DEF FetchHead, ServesCached, HeadStored, Stored, OciPart, FilePart, Inv, ListedOK
  <1> QED BY <1>1, Invariance, PTL DEF Spec, ServedIsShown
=============================================================================
