---------------------------- MODULE Publication ----------------------------
(***************************************************************************)
(* Storage (pkg/storage): how an object gets its name in a registry, in an *)
(* S3 bucket or in a directory, and the cache of heads above them.  A      *)
(* registry keeps the parts of an object apart and drops parts no manifest *)
(* names; a bucket and a directory keep an object in one file.  Processes  *)
(* interleave between any two requests to the backend, and may stop.       *)
(*                                                                         *)
(* Names are made from contents, so an object stands for its name, and a   *)
(* name that holds something else (which only an outsider can arrange) is  *)
(* left out.  A registry drops a part in the step that finds it unnamed.   *)
(***************************************************************************)
EXTENDS Naturals, FiniteSets, Sequences

CONSTANTS
    Backend,        \* a subset of {"oci", "s3", "local"}
    Object,
    Bare,           \* the objects that attach no blob
    Proc,
    Device, DeviceOf

ASSUME PublicationOK ==
    /\ Backend \subseteq {"oci", "s3", "local"}
    /\ "none" \notin Object /\ Bare \subseteq Object
    /\ DeviceOf \in [Proc -> Device]

VARIABLES
    backend,    \* which backend the workspace uses
    blobs,      \* the parts a registry holds
    named,      \* the objects whose name the backend resolves
    pending,    \* temporary files of a directory
    proc,       \* what each process is doing
    listed,     \* the latest listing of each process
    shownAt,    \* what the backend held at that listing, less what the process deleted
    cache,      \* the cached heads of each device
    acked,      \* the objects whose publication succeeded
    deleted     \* the objects with a blob somebody deleted, each at most once

vars == <<backend, blobs, named, pending, proc, listed, shownAt, cache, acked, deleted>>

NoObject == "none"

Config == [of |-> NoObject, kind |-> "config"]
HeadPart(o) == [of |-> o, kind |-> "head"]
BlobPart(o) == [of |-> o, kind |-> "blob"]

\* manifestFor: the order in which parts are uploaded and checked.
PartsOf(o) == <<Config, HeadPart(o)>> \o (IF o \in Bare THEN <<>> ELSE <<BlobPart(o)>>)

PartSet(o) == {PartsOf(o)[i] : i \in 1..Len(PartsOf(o))}

Idle == [phase |-> "idle", obj |-> NoObject, next |-> 0]

Phase == {"idle", "resolve", "push", "manifest", "back", "check", "rename", "exists",
          "ack", "served", "fetched", "delete", "version", "dropped"}

TypeOK ==
    /\ backend \in Backend
    /\ blobs \subseteq {Config} \cup UNION {PartSet(o) : o \in Object}
    /\ named \subseteq Object /\ pending \subseteq Object
    /\ proc \in [Proc -> [phase : Phase, obj : Object \cup {NoObject}, next : 0..3]]
    /\ \A p \in Proc : (proc[p].phase = "idle") <=> (proc[p].obj = NoObject)
    /\ listed \in [Proc -> SUBSET Object] /\ shownAt \in [Proc -> SUBSET Object]
    /\ cache \in [Device -> SUBSET Object]
    /\ acked \subseteq Object /\ deleted \subseteq Object

Init ==
    /\ backend \in Backend
    /\ blobs = {} /\ named = {} /\ pending = {}
    /\ proc = [p \in Proc |-> Idle]
    /\ listed = [p \in Proc |-> {}] /\ shownAt = [p \in Proc |-> {}]
    /\ cache = [d \in Device |-> {}]
    /\ acked = {} /\ deleted = {}

Moves(p, phase) == proc' = [proc EXCEPT ![p].phase = phase]

Ends(p) == proc' = [proc EXCEPT ![p] = Idle]

\* headCache.write
Caches(p, o) == cache' = [cache EXCEPT ![DeviceOf[p]] = @ \cup {o}]

-----------------------------------------------------------------------------
(***************************************************************************)
(* Publish                                                                 *)
(***************************************************************************)
Publish(p, o) ==
    /\ proc[p].phase = "idle"
    /\ proc' = [proc EXCEPT ![p] = [phase |-> "resolve", obj |-> o, next |-> 1]]
    /\ UNCHANGED <<backend, blobs, named, pending, listed, shownAt, cache, acked, deleted>>

\* A registry: a tag that is there already is only checked.
ResolveTag(p) ==
    /\ proc[p].phase = "resolve" /\ backend = "oci"
    /\ Moves(p, IF proc[p].obj \in named THEN "back" ELSE "push")
    /\ UNCHANGED <<backend, blobs, named, pending, listed, shownAt, cache, acked, deleted>>

\* pushBlob: a part that is there is not uploaded again.
PushBlob(p) ==
    LET parts == PartsOf(proc[p].obj)
        i == proc[p].next
    IN
    /\ proc[p].phase = "push"
    /\ blobs' = blobs \cup {parts[i]}
    /\ IF i = Len(parts) THEN proc' = [proc EXCEPT ![p].phase = "manifest", ![p].next = 1]
       ELSE proc' = [proc EXCEPT ![p].next = i + 1]
    /\ UNCHANGED <<backend, named, pending, listed, shownAt, cache, acked, deleted>>

PushManifest(p) ==
    /\ proc[p].phase = "manifest"
    /\ named' = named \cup {proc[p].obj}
    /\ Moves(p, "back")
    /\ UNCHANGED <<backend, blobs, pending, listed, shownAt, cache, acked, deleted>>

\* (Variant of CheckBlob, for mutation: the parts are not checked.)
NameOnly(p) ==
    /\ proc[p].phase = "check"
    /\ Moves(p, "ack")
    /\ UNCHANGED <<backend, blobs, named, pending, listed, shownAt, cache, acked, deleted>>

\* Every part must be there once the tag is.
CheckBlob(p) ==
    LET parts == PartsOf(proc[p].obj)
        i == proc[p].next
    IN
    /\ proc[p].phase = "check"
    /\ IF parts[i] \notin blobs THEN Ends(p)
       ELSE IF i = Len(parts) THEN Moves(p, "ack")
       ELSE proc' = [proc EXCEPT ![p].next = i + 1]
    /\ UNCHANGED <<backend, blobs, named, pending, listed, shownAt, cache, acked, deleted>>

\* S3 creates the key in the request that finds it free.
PutObject(p) ==
    /\ proc[p].phase = "resolve" /\ backend = "s3"
    /\ named' = named \cup {proc[p].obj}
    /\ Moves(p, IF proc[p].obj \in named THEN "exists" ELSE "back")
    /\ UNCHANGED <<backend, blobs, pending, listed, shownAt, cache, acked, deleted>>

\* A directory: a temporary file beside the revisions, then a rename.
WritePending(p) ==
    LET taken == proc[p].obj \in named IN
    /\ proc[p].phase = "resolve" /\ backend = "local"
    /\ pending' = IF taken THEN pending ELSE pending \cup {proc[p].obj}
    /\ Moves(p, IF taken THEN "ack" ELSE "rename")
    /\ UNCHANGED <<backend, blobs, named, listed, shownAt, cache, acked, deleted>>

CommitFile(p) ==
    /\ proc[p].phase = "rename"
    /\ named' = named \cup {proc[p].obj}
    /\ pending' = pending \ {proc[p].obj}
    /\ Moves(p, "back")
    /\ UNCHANGED <<backend, blobs, listed, shownAt, cache, acked, deleted>>

\* The object is read back by name; one that is gone is an error.
ReadBack(p) ==
    /\ proc[p].phase \in {"back", "exists"}
    /\ IF proc[p].obj \notin named THEN Ends(p)
       ELSE Moves(p, IF backend = "oci" THEN "check" ELSE "ack")
    /\ UNCHANGED <<backend, blobs, named, pending, listed, shownAt, cache, acked, deleted>>

\* headCache.Publish keeps the head, and the caller is told that the object is stored.
Acknowledge(p) ==
    LET o == proc[p].obj IN
    /\ proc[p].phase = "ack"
    /\ acked' = acked \cup {o}
    /\ Caches(p, o)
    /\ Ends(p)
    /\ UNCHANGED <<backend, blobs, named, pending, listed, shownAt, deleted>>

-----------------------------------------------------------------------------
(***************************************************************************)
(* Delete                                                                  *)
(***************************************************************************)
Delete(p, o) ==
    /\ proc[p].phase = "idle"
    /\ o \notin Bare \cup deleted
    /\ deleted' = deleted \cup {o}
    /\ proc' = [proc EXCEPT ![p] = [Idle EXCEPT !.phase = "delete", !.obj = o]]
    /\ UNCHANGED <<backend, blobs, named, pending, listed, shownAt, cache, acked>>

\* GHCR is first asked which package version carries the tag; that none does is
\* "not found", which the caller takes for deleted.
FindVersion(p) ==
    /\ proc[p].phase = "delete" /\ backend = "oci"
    /\ Moves(p, IF proc[p].obj \in named THEN "version" ELSE "dropped")
    /\ UNCHANGED <<backend, blobs, named, pending, listed, shownAt, cache, acked, deleted>>

\* A version that is gone by now is an error of the API.
DeleteVersion(p) ==
    LET o == proc[p].obj IN
    /\ proc[p].phase = "version"
    /\ named' = named \ {o}
    /\ IF o \in named THEN Moves(p, "dropped") ELSE Ends(p)
    /\ UNCHANGED <<backend, blobs, pending, listed, shownAt, cache, acked, deleted>>

\* A key of S3, a file of a directory.
RemoveObject(p) ==
    /\ proc[p].phase = "delete" /\ backend # "oci"
    /\ named' = named \ {proc[p].obj}
    /\ Moves(p, "dropped")
    /\ UNCHANGED <<backend, blobs, pending, listed, shownAt, cache, acked, deleted>>

\* headCache.Delete, after the backend's.
ForgetHead(p) ==
    LET o == proc[p].obj IN
    /\ proc[p].phase = "dropped"
    /\ cache' = [cache EXCEPT ![DeviceOf[p]] = @ \ {o}]
    /\ listed' = [listed EXCEPT ![p] = @ \ {o}]
    /\ shownAt' = [shownAt EXCEPT ![p] = @ \ {o}]
    /\ Ends(p)
    /\ UNCHANGED <<backend, blobs, named, pending, acked, deleted>>

-----------------------------------------------------------------------------
(***************************************************************************)
(* Reading                                                                 *)
(***************************************************************************)
\* A listing: every name of the kind and scope.
Shown == named

\* headCache.Discover.  A listing that is stale makes the cache serve less.
Discover(p) ==
    /\ proc[p].phase = "idle"
    /\ listed' = [listed EXCEPT ![p] = Shown]
    /\ shownAt' = [shownAt EXCEPT ![p] = named]
    /\ UNCHANGED <<backend, blobs, named, pending, proc, cache, acked, deleted>>

\* A registry: the manifest and, of its parts, the one that is asked for.
OciPart(o, part) == o \in named /\ part \in blobs

\* A file holds its parts one after the other, the lengths first.
FilePart(o, part) == o \in named /\ part \in PartSet(o)

Stored(o, part) == IF backend = "oci" THEN OciPart(o, part) ELSE FilePart(o, part)

HeadStored(o) == Stored(o, HeadPart(o))

\* OpenBlob
BlobStored(o) == o \in Bare \/ Stored(o, BlobPart(o))

\* (Variant of ServesCached, for mutation: the cache answers for every head.)
CacheKnows(p, o) == o \in cache[DeviceOf[p]]

ServesCached(p, o) == o \in listed[p] /\ o \in cache[DeviceOf[p]]

\* headCache.FetchHead: from the cache (a damaged file counts as none), or from
\* the backend.
FetchHead(p, o) ==
    /\ proc[p].phase = "idle"
    /\ ServesCached(p, o) \/ HeadStored(o)
    /\ proc' = [proc EXCEPT ![p] =
                   [Idle EXCEPT !.phase = IF ServesCached(p, o) THEN "served" ELSE "fetched", !.obj = o]]
    /\ UNCHANGED <<backend, blobs, named, pending, listed, shownAt, cache, acked, deleted>>

\* The caller has the head; one from the backend is cached first.
WriteCache(p) ==
    LET o == proc[p].obj IN
    /\ proc[p].phase \in {"served", "fetched"}
    /\ IF proc[p].phase = "fetched" THEN Caches(p, o) ELSE UNCHANGED cache
    /\ Ends(p)
    /\ UNCHANGED <<backend, blobs, named, pending, listed, shownAt, acked, deleted>>

-----------------------------------------------------------------------------
Referenced == UNION {PartSet(o) : o \in named}

\* The registry drops parts that no manifest names (external).
CollectGarbage ==
    /\ backend = "oci"
    /\ \E part \in blobs \ Referenced : blobs' = blobs \ {part}
    /\ UNCHANGED <<backend, named, pending, proc, listed, shownAt, cache, acked, deleted>>

\* An error of the backend or the network ends the call; a process that was
\* killed forgets what it listed.
Stop(p) ==
    /\ proc[p].phase # "idle"
    /\ Ends(p)
    /\ \/ UNCHANGED <<listed, shownAt>>
       \/ listed' = [listed EXCEPT ![p] = {}] /\ shownAt' = [shownAt EXCEPT ![p] = {}]
    /\ UNCHANGED <<backend, blobs, named, pending, cache, acked, deleted>>

Next ==
    \/ \E p \in Proc :
          \/ ResolveTag(p) \/ PushBlob(p) \/ PushManifest(p) \/ CheckBlob(p)
          \/ PutObject(p) \/ WritePending(p) \/ CommitFile(p) \/ ReadBack(p) \/ Acknowledge(p)
          \/ FindVersion(p) \/ DeleteVersion(p) \/ RemoveObject(p) \/ ForgetHead(p)
          \/ Discover(p) \/ WriteCache(p) \/ Stop(p)
          \/ \E o \in Object : Publish(p, o) \/ Delete(p, o) \/ FetchHead(p, o)
    \/ CollectGarbage

Spec == Init /\ [][Next]_vars

-----------------------------------------------------------------------------
\* "returns only after reading the object back by name" (Store.Publish): what a
\* writer was told is stored can be read in full, unless somebody deletes it.
AckedIsWhole == \A o \in acked \ deleted : HeadStored(o) /\ BlobStored(o)

\* "so a head is never visible without the blobs it refers to" (Store.Publish)
VisibleIsWhole == \A o \in named : HeadStored(o) => BlobStored(o)

\* "a cache entry never brings back a revision storage no longer has"
\* (headCache): what a process is served is stored now, or was when it last
\* listed and it has not deleted it since.
ServedIsShown ==
    [][\A p \in Proc : proc[p].phase = "idle" /\ proc'[p].phase \in {"served", "fetched"} =>
          proc'[p].obj \in named \cup shownAt[p]]_vars
=============================================================================
