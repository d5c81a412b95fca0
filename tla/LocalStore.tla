------------------------------ MODULE LocalStore ------------------------------
(***************************************************************************)
(* LocalBackend and its Catalog: layers as blobs named by their digest,    *)
(* manifests and per-digest reference counts in one catalog file that is   *)
(* read, changed and rewritten under a process-wide RwLock.                *)
(*                                                                         *)
(* Builder tasks finish layers, save and copy artifacts and stream layers; *)
(* the pruner deletes.  The commands that do the one and the other run one *)
(* after the other; where they overlap on one backend, overlapped says so. *)
(* A crash may come between any two steps.                                 *)
(***************************************************************************)
EXTENDS Catalog

CONSTANTS
    Builder,    \* tasks of a build
    Pruner,     \* the task of edo prune
    Output,     \* what builds produce: records [id, layers]
    MaxOps,     \* bound: operations begun
    MaxCrash,   \* bound: crashes and failed writes
    None, Torn  \* nothing; a catalog file that does not parse

Task == Builder \cup {Pruner}

ASSUME TaskAssumption == IsFiniteSet(Builder) /\ Pruner \notin Builder /\ None \notin Task
ASSUME StoreAssumption ==
    /\ None \notin Id /\ None \notin Digest
    /\ Output \subseteq [id : Id, layers : SUBSET Digest]
ASSUME BoundAssumption == MaxOps \in Nat /\ MaxCrash \in Nat

VARIABLES
    disk,            \* catalog.json: a catalog or Torn (absent is the empty one)
    catalogued,      \* does catalog.json exist?
    blobs,           \* Digest -> "absent", "partial" or "whole"
    layer_dir,       \* does blobs/blake3 exist?
    writer, readers, \* the RwLock catalog_file
    task,            \* per task: its step and its locals
    kept,            \* history: ids saved and not pruned since
    resaved,         \* history: was an id saved that was there already?
    overlapped,      \* history: did a prune and a build run together?
    ops, crashes     \* bounds

store == <<disk, catalogued, blobs, layer_dir>>
lock == <<writer, readers>>
history == <<kept, resaved, overlapped>>
vars == <<store, lock, task, history, ops, crashes>>
-----------------------------------------------------------------------------
Idle == [pc |-> "idle", layer |-> None, art |-> None, todo |-> {}, cat |-> None, victims |-> {}]
At(t, step) == task[t].pc = step

Init ==
    /\ disk = Empty
    /\ catalogued = FALSE
    /\ blobs = [d \in Digest |-> "absent"]
    /\ layer_dir = TRUE
    /\ writer = None
    /\ readers = {}
    /\ task = [t \in Task |-> Idle]
    /\ kept = {}
    /\ resaved = FALSE
    /\ overlapped = FALSE
    /\ ops = 0
    /\ crashes = 0

(* A task begins an operation, moves on, or returns. *)
Begin(t) ==
    /\ At(t, "idle")
    /\ ops < MaxOps
    /\ ops' = ops + 1
    /\ overlapped' = (overlapped \/ \E u \in Task :
                         ~At(u, "idle") /\ (t = Pruner \/ u = Pruner))
Goto(t, step) == task' = [task EXCEPT ![t].pc = step]
Return(t) == task' = [task EXCEPT ![t] = Idle]

LockFree == writer = None /\ readers = {}
WriteLock(t) == LockFree /\ writer' = t /\ UNCHANGED readers
Unlock == writer' = None /\ UNCHANGED readers
-----------------------------------------------------------------------------
(* Storing an artifact, as every source, transform and download does it:    *)
(* each layer through start_layer and finish_layer, then save.  The bytes   *)
(* go to a temporary file of the task's own; fs::copy then truncates and    *)
(* refills the file named by the digest.                                   *)

Store(t, a) ==
    /\ Begin(t)
    /\ task' = [task EXCEPT ![t] = [@ EXCEPT !.pc = "layer", !.art = a, !.todo = a.layers]]
    /\ UNCHANGED <<store, lock, kept, resaved, crashes>>

Copying(d) == {t \in Task : At(t, "copying") /\ task[t].layer = d}

CopyBlob(t, d) ==
    /\ At(t, "layer")
    /\ d \in task[t].todo
    /\ \/ /\ layer_dir
          /\ blobs' = [blobs EXCEPT ![d] = "partial"]
          /\ task' = [task EXCEPT ![t] = [@ EXCEPT !.pc = "copying", !.layer = d]]
       \/ ~layer_dir /\ Return(t) /\ UNCHANGED blobs
    /\ UNCHANGED <<disk, catalogued, layer_dir, lock, history, ops, crashes>>

(* Two copies of one blob write the same bytes to the same file; a file     *)
(* that was unlinked meanwhile stays so.                                   *)
FinishLayer(t) ==
    /\ At(t, "copying")
    /\ LET d == task[t].layer IN
       /\ blobs' = [blobs EXCEPT ![d] =
                       IF @ = "partial" /\ Copying(d) = {t} THEN "whole" ELSE @]
       /\ task' = [task EXCEPT ![t] = [@ EXCEPT !.pc = "layer", !.todo = task[t].todo \ {d}]]
    /\ UNCHANGED <<disk, catalogued, layer_dir, lock, history, ops, crashes>>

Save(t) ==
    /\ At(t, "layer")
    /\ task[t].todo = {}
    /\ task' = [task EXCEPT ![t] = [@ EXCEPT !.pc = "check", !.todo = task[t].art.layers]]
    /\ UNCHANGED <<store, lock, history, ops, crashes>>

(* read of a layer of a saved artifact; the caller streams the blob after    *)
(* the call has returned.                                                  *)
Read(t, d) ==
    /\ Begin(t)
    /\ disk # Torn
    /\ Refs(disk, d) # {}
    /\ blobs[d] # "absent"
    /\ task' = [task EXCEPT ![t] = [@ EXCEPT !.pc = "reading", !.layer = d]]
    /\ UNCHANGED <<store, lock, kept, resaved, crashes>>

EndRead(t) ==
    /\ At(t, "reading")
    /\ Return(t)
    /\ UNCHANGED <<store, lock, history, ops, crashes>>
-----------------------------------------------------------------------------
(* save and copy                                                            *)

(* copy: open, then save under another id. *)
Copy(t, from, to) ==
    /\ Begin(t)
    /\ writer = None
    /\ disk # Torn
    /\ Has(disk, from)
    /\ LET a == [id |-> to, layers |-> disk.manifests[from]] IN
       task' = [task EXCEPT ![t] = [@ EXCEPT !.pc = "check", !.art = a, !.todo = a.layers]]
    /\ UNCHANGED <<store, lock, kept, resaved, crashes>>

(* Faulty variant: a manifest without missing layers goes straight to the    *)
(* file.                                                                   *)
CheckThenFlush(t) ==
    /\ At(t, "check")
    /\ \/ task[t].todo = {} /\ Goto(t, "flush")
       \/ \E d \in task[t].todo :
             \/ blobs[d] # "absent" /\ task' = [task EXCEPT ![t].todo = @ \ {d}]
             \/ blobs[d] = "absent" /\ Return(t)
    /\ UNCHANGED <<store, lock, history, ops, crashes>>

(* Every layer's blob must exist; this is looked at without the lock. *)
CheckLayer(t) ==
    /\ At(t, "check")
    /\ \/ task[t].todo = {} /\ Goto(t, "save")
       \/ \E d \in task[t].todo :
             \/ blobs[d] # "absent" /\ task' = [task EXCEPT ![t].todo = @ \ {d}]
             \/ blobs[d] = "absent" /\ Return(t)
    /\ UNCHANGED <<store, lock, history, ops, crashes>>

(* Faulty variant: the catalog is loaded before the lock is taken. *)
LoadUnlocked(t) ==
    /\ At(t, "save")
    /\ \/ /\ task[t].cat = None /\ disk # Torn
          /\ task' = [task EXCEPT ![t].cat = Add(disk, task[t].art)]
          /\ UNCHANGED lock
       \/ task[t].cat # None /\ WriteLock(t) /\ Goto(t, "flush")
    /\ UNCHANGED <<store, history, ops, crashes>>

LoadForSave(t) ==
    /\ At(t, "save")
    /\ \/ /\ disk # Torn
          /\ WriteLock(t)
          /\ task' = [task EXCEPT ![t] = [@ EXCEPT !.pc = "flush", !.cat = Add(disk, task[t].art)]]
       \/ disk = Torn /\ LockFree /\ Return(t) /\ UNCHANGED lock
    /\ UNCHANGED <<store, history, ops, crashes>>

(* flush_at: truncate, then write; the lock is held throughout. *)
Truncate(t) ==
    /\ At(t, "flush")
    /\ disk' = Torn
    /\ catalogued' = TRUE
    /\ Goto(t, "write")
    /\ UNCHANGED <<blobs, layer_dir, lock, history, ops, crashes>>

(* Faulty variant: an early return that leaves the guard alive. *)
WriteKeepingLock(t) ==
    /\ At(t, "write")
    /\ disk' = task[t].cat
    /\ \/ /\ t # Pruner
          /\ kept' = kept \cup {task[t].art.id}
          /\ resaved' = (resaved \/ task[t].art.id \in kept)
          /\ Return(t)
       \/ /\ t = Pruner
          /\ kept' = kept \ {task[t].art.id}
          /\ Goto(t, "sweep")
          /\ UNCHANGED resaved
    /\ UNCHANGED <<catalogued, blobs, layer_dir, lock, overlapped, ops, crashes>>

Write(t) ==
    /\ At(t, "write")
    /\ disk' = task[t].cat
    /\ Unlock
    /\ \/ /\ t # Pruner
          /\ kept' = kept \cup {task[t].art.id}
          /\ resaved' = (resaved \/ task[t].art.id \in kept)
          /\ Return(t)
       \/ /\ t = Pruner
          /\ kept' = kept \ {task[t].art.id}
          /\ Goto(t, "sweep")
          /\ UNCHANGED resaved
    /\ UNCHANGED <<catalogued, blobs, layer_dir, overlapped, ops, crashes>>

(* to_writer fails, on a full disk for example: the truncated file stays. *)
WriteFails(t) ==
    /\ At(t, "write")
    /\ crashes < MaxCrash
    /\ crashes' = crashes + 1
    /\ Unlock
    /\ Return(t)
    /\ UNCHANGED <<store, history, ops>>
-----------------------------------------------------------------------------
(* prune, del and prune_all                                                 *)

Prune(t, id) ==
    /\ Begin(t)
    /\ writer = None
    /\ disk # Torn
    /\ task' = [task EXCEPT ![t] = [@ EXCEPT !.pc = "prune", !.victims = Matching(disk, id) \ {id}]]
    /\ UNCHANGED <<store, lock, kept, resaved, crashes>>

PruneDone(t) ==
    /\ At(t, "prune")
    /\ task[t].victims = {}
    /\ Return(t)
    /\ UNCHANGED <<store, lock, history, ops, crashes>>

(* del, up to the flush at the end of its first block. *)
LoadForDel(t, id) ==
    /\ At(t, "prune")
    /\ id \in task[t].victims
    /\ \/ disk = Torn /\ LockFree /\ Return(t) /\ UNCHANGED lock
       \/ /\ disk # Torn /\ LockFree /\ ~Has(disk, id)
          /\ task' = [task EXCEPT ![t].victims = @ \ {id}]
          /\ UNCHANGED lock
       \/ /\ disk # Torn
          /\ Has(disk, id)
          /\ WriteLock(t)
          /\ task' = [task EXCEPT ![t] = [@ EXCEPT
                !.victims = task[t].victims \ {id}, !.pc = "flush", !.cat = Del(disk, id),
                !.art = [id |-> id, layers |-> disk.manifests[id]], !.todo = disk.manifests[id]]]
    /\ UNCHANGED <<store, history, ops, crashes>>

(* Faulty variant: the blob goes whatever its count. *)
SweepUncounted(t, d) ==
    /\ At(t, "sweep")
    /\ d \in task[t].todo
    /\ writer = None
    /\ readers' = readers \cup {t}
    /\ task' = [task EXCEPT ![t] = [@ EXCEPT !.pc = "remove", !.layer = d]]
    /\ UNCHANGED <<store, writer, history, ops, crashes>>

(* Faulty variant: a count of zero is taken for a use. *)
SweepNegative(t, d) ==
    /\ At(t, "sweep")
    /\ d \in task[t].todo
    /\ writer = None
    /\ \/ disk = Torn /\ Return(t) /\ UNCHANGED readers
       \/ /\ disk # Torn
          /\ disk.blob_counts[d] >= 0 \/ blobs[d] = "absent"
          /\ task' = [task EXCEPT ![t].todo = @ \ {d}]
          /\ UNCHANGED readers
       \/ /\ disk # Torn
          /\ disk.blob_counts[d] < 0 /\ blobs[d] # "absent"
          /\ readers' = readers \cup {t}
          /\ task' = [task EXCEPT ![t] = [@ EXCEPT !.pc = "remove", !.layer = d]]
    /\ UNCHANGED <<store, writer, history, ops, crashes>>

(* The layers, one by one, each under the read lock, on a catalog loaded    *)
(* afresh.                                                                 *)
Sweep(t, d) ==
    /\ At(t, "sweep")
    /\ d \in task[t].todo
    /\ writer = None
    /\ \/ disk = Torn /\ Return(t) /\ UNCHANGED readers
       \/ /\ disk # Torn
          /\ disk.blob_counts[d] > 0 \/ blobs[d] = "absent"
          /\ task' = [task EXCEPT ![t].todo = @ \ {d}]
          /\ UNCHANGED readers
       \/ /\ disk # Torn
          /\ disk.blob_counts[d] <= 0 /\ blobs[d] # "absent"
          /\ readers' = readers \cup {t}
          /\ task' = [task EXCEPT ![t] = [@ EXCEPT !.pc = "remove", !.layer = d]]
    /\ UNCHANGED <<store, writer, history, ops, crashes>>

RemoveBlob(t) ==
    /\ At(t, "remove")
    /\ blobs' = [blobs EXCEPT ![task[t].layer] = "absent"]
    /\ readers' = readers \ {t}
    /\ task' = [task EXCEPT ![t] = [@ EXCEPT !.pc = "sweep", !.todo = task[t].todo \ {task[t].layer}]]
    /\ UNCHANGED <<disk, catalogued, layer_dir, writer, history, ops, crashes>>

SweepDone(t) ==
    /\ At(t, "sweep")
    /\ task[t].todo = {}
    /\ Goto(t, "prune")
    /\ UNCHANGED <<store, lock, history, ops, crashes>>

(* prune_all: the catalog file (an error if there is none), then the blobs. *)
PruneAll(t) ==
    /\ Begin(t)
    /\ catalogued
    /\ WriteLock(t)
    /\ disk' = Empty
    /\ catalogued' = FALSE
    /\ kept' = {}
    /\ Goto(t, "wipe")
    /\ UNCHANGED <<blobs, layer_dir, resaved, crashes>>

Wipe(t) ==
    /\ At(t, "wipe")
    /\ \/ \E d \in Digest :
             /\ blobs[d] # "absent"
             /\ blobs' = [blobs EXCEPT ![d] = "absent"]
             /\ UNCHANGED <<layer_dir, task, lock>>
       \/ /\ \A d \in Digest : blobs[d] = "absent"
          /\ layer_dir' = FALSE
          /\ Unlock
          /\ Return(t)
          /\ UNCHANGED blobs
    /\ UNCHANGED <<disk, catalogued, history, ops, crashes>>
-----------------------------------------------------------------------------
(* The lock and the locals go with a process; LocalBackend::new_ makes the   *)
(* directories that the next one misses.                                   *)
Restart ==
    /\ layer_dir' = TRUE
    /\ writer' = None
    /\ readers' = {}
    /\ task' = [t \in Task |-> Idle]
    /\ UNCHANGED <<disk, catalogued, blobs, history, ops>>

Crash ==
    /\ crashes < MaxCrash
    /\ \E t \in Task : ~At(t, "idle")
    /\ Restart
    /\ crashes' = crashes + 1

NextCommand ==
    /\ \A t \in Task : At(t, "idle")
    /\ ~layer_dir
    /\ Restart
    /\ UNCHANGED crashes
-----------------------------------------------------------------------------
Continue(t) ==
    \/ (\E d \in Digest : CopyBlob(t, d)) \/ FinishLayer(t) \/ EndRead(t)
    \/ Save(t) \/ CheckLayer(t) \/ LoadForSave(t) \/ Truncate(t) \/ Write(t)
    \/ (\E id \in Id : LoadForDel(t, id)) \/ (\E d \in Digest : Sweep(t, d))
    \/ RemoveBlob(t) \/ SweepDone(t) \/ PruneDone(t) \/ Wipe(t)

Call(t) ==
    \/ /\ t \in Builder
       /\ \/ \E a \in Output : Store(t, a)
          \/ \E d \in Digest : Read(t, d)
          \/ \E from \in Id : \E to \in Id \ {from} : Copy(t, from, to)
    \/ /\ t = Pruner
       /\ PruneAll(t) \/ \E id \in Id : Prune(t, id)

Next == Crash \/ NextCommand \/ \E t \in Task : Continue(t) \/ WriteFails(t) \/ Call(t)

(* The tasks keep being polled and the RwLock is fair. *)
Fairness == \A t \in Task : WF_vars(Continue(t))

Spec == Init /\ [][Next]_vars
FairSpec == Spec /\ Fairness
-----------------------------------------------------------------------------
(* Properties                                                               *)

Steps == {"idle", "layer", "copying", "reading", "check", "save", "flush", "write", "prune",
          "sweep", "remove", "wipe"}

Locals == [pc : Steps, layer : Digest \cup {None}, art : Artifact \cup {None},
           todo : SUBSET Digest, cat : Catalog \cup {None}, victims : SUBSET Id]

TypeOK ==
    /\ disk \in Catalog \cup {Torn}
    /\ catalogued \in BOOLEAN
    /\ blobs \in [Digest -> {"absent", "partial", "whole"}]
    /\ layer_dir \in BOOLEAN
    /\ writer \in Task \cup {None}
    /\ readers \subseteq Task
    /\ writer # None => readers = {}
    /\ task \in [Task -> Locals]
    /\ kept \subseteq Id
    /\ resaved \in BOOLEAN
    /\ overlapped \in BOOLEAN
    /\ ops \in 0 .. MaxOps
    /\ crashes \in 0 .. MaxCrash

(* As long as builds and prunes take turns, every artifact in the catalog   *)
(* has all its blobs on disk, whatever order saves, copies, sweeps and      *)
(* crashes come in: find_build can take a manifest for a build.  Without a  *)
(* crash a blob is only half there while some task copies it.              *)
ManifestsComplete ==
    disk # Torn /\ ~overlapped =>
        \A i \in Id : Has(disk, i) => \A d \in disk.manifests[i] :
            /\ blobs[d] # "absent"
            /\ blobs[d] = "partial" /\ crashes = 0 => Copying(d) # {}

(* No save and no deletion is lost to another task's rewrite of the         *)
(* catalog.                                                                *)
SavesKept == disk # Torn => kept = disk.ids

(* The counts of a catalog, where an id may have been saved over itself.    *)
Sound(c, again) ==
    \A d \in Digest : /\ c.blob_counts[d] >= Cardinality(Refs(c, d))
                      /\ ~again => c.blob_counts[d] = Cardinality(Refs(c, d))

(* A blob's count never falls below the number of manifests that use it, so *)
(* the sweep cannot take a blob away from one; it is exact unless an id was *)
(* saved over itself.                                                      *)
CountsSound == disk # Torn => Sound(disk, resaved)

(* del takes the layers along that no other artifact uses, unless an id was *)
(* saved over itself.                                                      *)
Deleted == At(Pruner, "prune") /\ task[Pruner].art # None /\ disk # Torn
Unswept ==
    {d \in task[Pruner].art.layers : blobs[d] # "absent" /\ Refs(disk, d) = {}}
DeletedLayersGone == Deleted /\ ~resaved /\ ~overlapped => Unswept = {}

(* Every operation returns: no path leaves the lock held. *)
OpsReturn == \A t \in Task : ~At(t, "idle") ~> At(t, "idle")
=============================================================================
