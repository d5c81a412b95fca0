-------------------------------- MODULE Tiers --------------------------------
(***************************************************************************)
(* Storage and the sources that fill it: the local cache in front of the   *)
(* source caches, which are asked in the order of their priority, and of   *)
(* the build cache.  Tasks of one build look sources up, copy artifacts    *)
(* between the tiers layer by layer, fetch what no tier has and stage it.  *)
(*                                                                         *)
(* Meanwhile users edit trees, upstreams change, remote calls fail and the *)
(* local cache is pruned.  A backend's own calls are single steps here;    *)
(* LocalStore and S3Store take them apart.                                 *)
(***************************************************************************)
EXTENDS Sources, Catalog, S3Transfer, SequencesExt

CONSTANTS
    Task,
    Cache,      \* the remote caches
    Priority,   \* the registered source caches, first to last
    Build,      \* the registered build cache, or None
    Product,    \* Id -> the layers of what a transform made under this id
    Worlds,     \* Origin -> contents, to begin with
    Remotes,    \* what the remote caches may hold to begin with
    Editable,   \* bound: the contents an origin may take on
    MaxCalls, MaxFaults, MaxEdits,
    None

ASSUME TierAssumption == Range(Priority) \cup ({Build} \ {None}) \subseteq Cache

VARIABLES
    world,      \* what repositories, URLs, images and paths hold now
    local,      \* the local cache: [cat, blobs]
    remote,     \* Cache -> [cat, blobs]
    task,       \* per task: its step and its locals
    calls, faults, edits

vars == <<world, local, remote, task, calls, faults, edits>>
-----------------------------------------------------------------------------
Idle == [pc |-> "idle", op |-> None, src |-> None, id |-> None, at |-> 1, peer |-> None,
         layers |-> {}, todo |-> {}, lost |-> FALSE, bytes |-> None, excused |-> FALSE]

At(t, step) == task[t].pc = step
Goto(t, step) == task' = [task EXCEPT ![t].pc = step]
Active(t) == ~At(t, "idle")

Init ==
    /\ world \in Worlds
    /\ local = [cat |-> Empty, blobs |-> {}]
    /\ remote \in Remotes
    /\ task = [t \in Task |-> Idle]
    /\ calls = 0
    /\ faults = 0
    /\ edits = 0

ArtifactOf(id, layers) == [id |-> id, layers |-> layers]
Stored(id, layers) == [local EXCEPT !.cat = Add(local.cat, ArtifactOf(id, layers))]

(* A task calls Source::cache, as prepare and the container farm do, fetch,  *)
(* as the import transform does, or find_build with sync.                  *)
Call(t, op, s, id) ==
    /\ At(t, "idle")
    /\ calls < MaxCalls
    /\ calls' = calls + 1
    /\ task' = [task EXCEPT ![t] = [Idle EXCEPT !.pc = IF op = "fetch" THEN "fetch" ELSE "local",
                                                 !.op = op, !.src = s, !.id = id]]
    /\ UNCHANGED <<world, local, remote, faults, edits>>

(* fetch_source and find_build ask the local cache first. *)
AskLocal(t) ==
    /\ At(t, "local")
    /\ Goto(t, IF Has(local.cat, task[t].id) THEN "open"
               ELSE IF task[t].op = "find" THEN "build" ELSE "probe")
    /\ UNCHANGED <<world, local, remote, calls, faults, edits>>

(* open, after has or for an upload; what was there may be gone by now. *)
OpenLocal(t) ==
    /\ At(t, "open")
    /\ LET layers == local.cat.manifests[task[t].id] IN
       task' = [task EXCEPT ![t] =
           IF ~Has(local.cat, @.id) THEN [@ EXCEPT !.pc = "failed"]
           ELSE IF @.op = "upload" THEN [@ EXCEPT !.pc = "copy", !.peer = Build,
                                                  !.layers = layers, !.todo = layers]
           ELSE [@ EXCEPT !.pc = "done", !.layers = layers]]
    /\ UNCHANGED <<world, local, remote, calls, faults, edits>>

Download(t, cache) ==
    LET layers == remote[cache].cat.manifests[task[t].id] IN
    task' = [task EXCEPT ![t].pc = "copy", ![t].peer = cache, ![t].layers = layers, ![t].todo = layers]

(* find_source: the first cache that has the id.  Nothing removes artifacts  *)
(* from remote caches, so that has and open are one step.                  *)
Probe(t) ==
    /\ At(t, "probe")
    /\ IF task[t].at > Len(Priority) THEN Goto(t, "fetch")
       ELSE IF Has(remote[Priority[task[t].at]].cat, task[t].id) THEN Download(t, Priority[task[t].at])
       ELSE task' = [task EXCEPT ![t].at = @ + 1]
    /\ UNCHANGED <<world, local, remote, calls, faults, edits>>

AskBuild(t) ==
    /\ At(t, "build")
    /\ IF Build # None /\ Has(remote[Build].cat, task[t].id) THEN Download(t, Build) ELSE Goto(t, "done")
    /\ UNCHANGED <<world, local, remote, calls, faults, edits>>
-----------------------------------------------------------------------------
(* download and upload: one spawned task per layer.  The receiving backend   *)
(* names the blob by the digest of the bytes that arrived.                 *)
DownloadLayer(t, d, room) ==
    /\ At(t, "copy")
    /\ task[t].op # "upload"
    /\ d \in task[t].todo
    /\ local' = [local EXCEPT !.blobs = @ \cup {FlattenSeq(Stream(remote[task[t].peer].blobs[d], room))}]
    /\ task' = [task EXCEPT ![t].todo = @ \ {d}]
    /\ UNCHANGED <<world, remote, calls, faults, edits>>

UploadLayer(t, d) ==
    /\ At(t, "copy")
    /\ task[t].op = "upload"
    /\ d \in task[t].todo
    /\ IF d \in local.blobs
       THEN /\ remote' = [remote EXCEPT ![task[t].peer].blobs[d] = Upload(d)]
            /\ task' = [task EXCEPT ![t].todo = @ \ {d}]
       ELSE /\ task' = [task EXCEPT ![t].todo = @ \ {d}, ![t].lost = TRUE]
            /\ UNCHANGED remote
    /\ UNCHANGED <<world, local, calls, faults, edits>>

(* A layer that fails to copy does not stop the others. *)
LoseLayer(t, d) ==
    /\ At(t, "copy")
    /\ d \in task[t].todo
    /\ faults < MaxFaults
    /\ faults' = faults + 1
    /\ task' = [task EXCEPT ![t].todo = @ \ {d}, ![t].lost = TRUE, ![t].excused = TRUE]
    /\ UNCHANGED <<world, local, remote, calls, edits>>

(* Faulty variant: the manifest is saved whatever became of the layers. *)
SaveAnyway(t) ==
    /\ At(t, "copy")
    /\ task[t].todo = {}
    /\ LET a == ArtifactOf(task[t].id, task[t].layers) IN
       /\ Goto(t, "done")
       /\ IF task[t].op = "upload"
          THEN remote' = [remote EXCEPT ![task[t].peer].cat = Add(@, a)] /\ UNCHANGED local
          ELSE local' = [local EXCEPT !.cat = Add(@, a)] /\ UNCHANGED remote
    /\ UNCHANGED <<world, calls, faults, edits>>

(* wait returns all the failures; only without any is the manifest saved.    *)
(* The local backend looks for every layer's blob once more.               *)
SaveCopied(t) ==
    /\ At(t, "copy")
    /\ task[t].todo = {}
    /\ LET a == ArtifactOf(task[t].id, task[t].layers) IN
       IF task[t].lost \/ (task[t].op # "upload" /\ ~(a.layers \subseteq local.blobs))
       THEN Goto(t, "failed") /\ UNCHANGED <<local, remote>>
       ELSE /\ Goto(t, "done")
            /\ IF task[t].op = "upload"
               THEN remote' = [remote EXCEPT ![task[t].peer].cat = Add(@, a)] /\ UNCHANGED local
               ELSE local' = [local EXCEPT !.cat = Add(@, a)] /\ UNCHANGED remote
    /\ UNCHANGED <<world, calls, faults, edits>>
-----------------------------------------------------------------------------
(* fetch computes the id again, then reads the origin. *)
FetchId(t) ==
    /\ At(t, "fetch")
    /\ task' = [task EXCEPT ![t].pc = "pull", ![t].id = UniqueId(task[t].src, world)]
    /\ UNCHANGED <<world, local, remote, calls, faults, edits>>

(* An image's digest is checked before anything is written.  Otherwise the   *)
(* layer is written and finished first.  A command that fails goes          *)
(* unnoticed.                                                              *)
Pull(t, success) ==
    /\ At(t, "pull")
    /\ success \/ (RunsCommand(task[t].src) /\ faults < MaxFaults)
    /\ faults' = IF success THEN faults ELSE faults + 1
    /\ LET s == task[t].src
           bytes == Archive(s, world[Origin[s]], success)
       IN IF Kind[s] = "image" /\ ~ImageAccepts(s, bytes)
          THEN Goto(t, "failed") /\ UNCHANGED local
          ELSE /\ local' = [local EXCEPT !.blobs = @ \cup {bytes}]
               /\ task' = [task EXCEPT ![t].pc = "fetched", ![t].bytes = bytes]
    /\ UNCHANGED <<world, remote, calls, edits>>

(* Faulty variant: the digest of a remote file is not compared. *)
SaveUnchecked(t) ==
    /\ At(t, "fetched")
    /\ IF task[t].bytes \notin local.blobs
       THEN Goto(t, "failed") /\ UNCHANGED local
       ELSE /\ local' = Stored(task[t].id, {task[t].bytes})
            /\ task' = [task EXCEPT ![t].pc = "done", ![t].layers = {task[t].bytes}]
    /\ UNCHANGED <<world, remote, calls, faults, edits>>

(* A remote file's digest is checked now; the blob stays if it is wrong. *)
SaveFetched(t) ==
    /\ At(t, "fetched")
    /\ IF \/ Kind[task[t].src] = "remote" /\ ~RemoteAccepts(task[t].src, task[t].bytes)
          \/ task[t].bytes \notin local.blobs
       THEN Goto(t, "failed") /\ UNCHANGED local
       ELSE /\ local' = Stored(task[t].id, {task[t].bytes})
            /\ task' = [task EXCEPT ![t].pc = "done", ![t].layers = {task[t].bytes}]
    /\ UNCHANGED <<world, remote, calls, faults, edits>>

(* stage computes the id once more and reads what is local; an image is not  *)
(* staged.                                                                 *)
Stage(t) ==
    /\ At(t, "done")
    /\ task[t].op \in {"cache", "fetch"}
    /\ LET s == task[t].src
           id == UniqueId(s, world)
       IN Goto(t, IF \/ Kind[s] = "image"
                     \/ Has(local.cat, id) /\ local.cat.manifests[id] \subseteq local.blobs
                  THEN "staged" ELSE "failed")
    /\ UNCHANGED <<world, local, remote, calls, faults, edits>>

(* A transform has succeeded: its layers and its manifest are local, and     *)
(* execute calls upload_build.                                             *)
Produce(t, id) ==
    /\ At(t, "idle")
    /\ calls < MaxCalls
    /\ calls' = calls + 1
    /\ local' = [cat |-> Add(local.cat, ArtifactOf(id, Product[id])), blobs |-> local.blobs \cup Product[id]]
    /\ task' = [task EXCEPT ![t] = [Idle EXCEPT !.pc = IF Build = None THEN "done" ELSE "open",
                                                 !.op = "upload", !.id = id]]
    /\ UNCHANGED <<world, remote, faults, edits>>

Return(t) ==
    /\ task[t].pc \in {"staged", "failed"} \/ (At(t, "done") /\ task[t].op \in {"find", "upload"})
    /\ task' = [task EXCEPT ![t] = Idle]
    /\ UNCHANGED <<world, local, remote, calls, faults, edits>>
-----------------------------------------------------------------------------
(* A remote call fails: has, open, an HTTP request, a pull. *)
Fault(t) ==
    /\ task[t].pc \in {"probe", "build", "pull"}
    /\ faults < MaxFaults
    /\ faults' = faults + 1
    /\ task' = [task EXCEPT ![t].pc = "failed", ![t].excused = TRUE]
    /\ UNCHANGED <<world, local, remote, calls, edits>>

Edit(o, c) ==
    /\ edits < MaxEdits
    /\ c # world[o]
    /\ edits' = edits + 1
    /\ world' = [world EXCEPT ![o] = c]
    /\ task' = [t \in Task |-> [task[t] EXCEPT !.excused = @ \/ (task[t].src # None /\ Origin[task[t].src] = o)]]
    /\ UNCHANGED <<local, remote, calls, faults>>

(* Context::prune for one transform: all the ids of its prefix but its own,  *)
(* with the blobs that no manifest counts any more.                        *)
Prune(id) ==
    /\ edits < MaxEdits
    /\ edits' = edits + 1
    /\ LET gone == Matching(local.cat, id) \ {id}
           cat == FoldSet(LAMBDA i, c : Del(c, i), local.cat, gone)
       IN /\ gone # {}
          /\ local' = [cat |-> cat, blobs |->
                 local.blobs \ {d \in UNION {local.cat.manifests[i] : i \in gone} : cat.blob_counts[d] = 0}]
    /\ task' = [t \in Task |-> [task[t] EXCEPT !.excused = @ \/ Active(t)]]
    /\ UNCHANGED <<world, remote, calls, faults>>
-----------------------------------------------------------------------------
Next ==
    \/ \E t \in Task, s \in Source, op \in {"cache", "fetch"} : Call(t, op, s, UniqueId(s, world))
    \/ \E t \in Task, id \in DOMAIN Product : Call(t, "find", None, id) \/ Produce(t, id)
    \/ \E t \in Task : \/ AskLocal(t) \/ OpenLocal(t) \/ Probe(t) \/ AskBuild(t) \/ SaveCopied(t)
                       \/ FetchId(t) \/ SaveFetched(t) \/ Stage(t) \/ Return(t) \/ Fault(t)
    \/ \E t \in Task : \E d \in task[t].todo :
          \/ \E room \in 1 .. MaxRoom : DownloadLayer(t, d, room)
          \/ UploadLayer(t, d)
          \/ LoseLayer(t, d)
    \/ \E t \in Task, success \in BOOLEAN : Pull(t, success)
    \/ \E o \in DOMAIN world, c \in Editable : Edit(o, c)
    \/ \E id \in DOMAIN Product : Prune(id)

Spec == Init /\ [][Next]_vars
-----------------------------------------------------------------------------
(* Properties                                                               *)

Tier == {local.cat} \cup {remote[c].cat : c \in Cache}

(* Whatever upstreams serve, calls fail and tasks race: what any tier holds  *)
(* under the id of a remote or image source is the content its ref pins.   *)
PinnedExact ==
    \A s \in Source, cat \in Tier :
        Pinned(s) /\ Has(cat, UniqueId(s, world)) => cat.manifests[UniqueId(s, world)] = {Ref[s]}

(* A manifest is in a tier only with all of its layers, each of which holds  *)
(* the bytes that its digest names: a copy that lost a layer leaves none.  *)
TiersComplete ==
    /\ \A id \in local.cat.ids : local.cat.manifests[id] \subseteq local.blobs
    /\ \A c \in Cache : \A id \in remote[c].cat.ids :
          \A d \in remote[c].cat.manifests[id] : remote[c].blobs[d] = d

(* A call fails for a cause: a failed remote call, a prune or an edit since  *)
(* it began, or an upstream that does not serve what the ref pins.  Above   *)
(* all a source that was cached is there to be staged, and what a cache     *)
(* streams in segments arrives whole.                                      *)
FailsForACause ==
    \A t \in Task : At(t, "failed") =>
        \/ task[t].excused
        \/ /\ task[t].src # None
           /\ Pinned(task[t].src)
           /\ world[Origin[task[t].src]] # Ref[task[t].src]
-----------------------------------------------------------------------------
(* docs/components/source.md: GitSource "shells out to `git` to clone and    *)
(* checkout `ref`, then tars the working tree".  What is saved for a git    *)
(* source is a working tree.                                               *)
CheckoutArchived ==
    \A s \in Source : Kind[s] = "git" =>
        LET id == UniqueId(s, world) IN
        Has(local.cat, id) => local.cat.manifests[id] # {Nothing}
=============================================================================
