------------------------------- MODULE S3Store -------------------------------
(***************************************************************************)
(* S3Backend: the catalog is one object of a bucket that the tasks of many *)
(* edo processes load, change and put back, with a lock object that is     *)
(* looked at, put and deleted by separate requests.                        *)
(*                                                                         *)
(* Each request is a step.  Any of them may fail, having taken effect in   *)
(* the bucket or not, and a client may die between any two.                *)
(***************************************************************************)
EXTENDS Catalog

CONSTANTS
    Client,       \* tasks that use the bucket
    Output,       \* what builds upload: records [id, layers]
    MaxAttempts,  \* looks at the lock, 5 in the code
    MaxOps,       \* bound: operations begun
    MaxFaults,    \* bound: failed requests and crashes
    None

ASSUME ClientAssumption == IsFiniteSet(Client) /\ MaxAttempts \in Nat \ {0}
ASSUME OutputAssumption == Output \subseteq Artifact
ASSUME NoneAssumption == None \notin Catalog /\ None \notin Artifact
ASSUME FaultAssumption == MaxOps \in Nat /\ MaxFaults \in Nat

VARIABLES
    catalog,     \* the catalog object: a catalog, or None
    lockfile,    \* is there a lock object?
    blobs,       \* the digests that have an object
    client,      \* per client: its step and its locals
    kept,        \* history: ids saved and not deleted since
    raced,       \* history: was the catalog put while another client held a copy of it?
    misread,     \* history: was a failed head request taken for "no catalog"?
    overlapped,  \* history: did a prune run together with another operation?
    stuck,       \* history: did a client end without deleting its lock?
    ops, faults  \* bounds

bucket == <<catalog, lockfile, blobs>>
history == <<kept, raced, misread, overlapped, stuck>>
vars == <<bucket, client, history, ops, faults>>
-----------------------------------------------------------------------------
Idle == [pc |-> "idle", art |-> None, cat |-> None, looks |-> 0, put |-> FALSE,
         todo |-> {}, deleting |-> FALSE, victims |-> {}]
At(c, step) == client[c].pc = step
Becomes(c, locals) == client' = [client EXCEPT ![c] = locals]
Goto(c, step) == Becomes(c, [client[c] EXCEPT !.pc = step])
Return(c) == Becomes(c, Idle)

Init ==
    /\ catalog = None
    /\ lockfile = FALSE
    /\ blobs = {}
    /\ client = [c \in Client |-> Idle]
    /\ kept = {}
    /\ raced = FALSE
    /\ misread = FALSE
    /\ overlapped = FALSE
    /\ stuck = FALSE
    /\ ops = 0
    /\ faults = 0

Begin(c, pruning) ==
    /\ At(c, "idle")
    /\ ops < MaxOps
    /\ ops' = ops + 1
    /\ overlapped' = (overlapped \/ \E u \in Client \ {c} :
                         ~At(u, "idle") /\ (pruning \/ client[u].deleting))

Fault == faults < MaxFaults /\ faults' = faults + 1

(* load: a catalog, the default one when the head request fails for whatever *)
(* reason, or None for an error of the get request.                        *)
Loads(k) ==
    \/ k = (IF catalog = None THEN Empty ELSE catalog) /\ UNCHANGED <<faults, misread>>
    \/ catalog # None /\ Fault /\ k = Empty /\ misread' = TRUE
    \/ catalog # None /\ Fault /\ k = None /\ UNCHANGED misread
Loadable == {IF catalog = None THEN Empty ELSE catalog, Empty, None}
Finds(k, id) == k # None /\ Has(k, id)
-----------------------------------------------------------------------------
(* finish_layer for each layer, then save.                                  *)

Save(c, a) ==
    /\ Begin(c, FALSE)
    /\ Becomes(c, [client[c] EXCEPT !.pc = "layer", !.art = a, !.todo = a.layers])
    /\ UNCHANGED <<bucket, kept, raced, misread, stuck, faults>>

FinishLayer(c, d) ==
    /\ At(c, "layer")
    /\ d \in client[c].todo
    /\ \/ /\ blobs' = blobs \cup {d}
          /\ Becomes(c, [client[c] EXCEPT !.todo = @ \ {d}])
          /\ UNCHANGED faults
       \/ Fault /\ blobs' \in {blobs, blobs \cup {d}} /\ Return(c)
    /\ UNCHANGED <<catalog, lockfile, history, ops>>

(* Faulty variant: the manifest is saved before its layers are up. *)
SaveEarly(c) ==
    /\ At(c, "layer")
    /\ \E k \in Loadable :
       /\ Loads(k)
       /\ k # None
       /\ Becomes(c, [client[c] EXCEPT !.pc = "wait", !.cat = Add(k, client[c].art)])
    /\ UNCHANGED <<bucket, kept, raced, overlapped, stuck, ops>>

LoadForSave(c) ==
    /\ At(c, "layer")
    /\ client[c].todo = {}
    /\ \E k \in Loadable :
       /\ Loads(k)
       /\ \/ k = None /\ Return(c)
          \/ /\ k # None
             /\ Becomes(c, [client[c] EXCEPT !.pc = "wait", !.cat = Add(k, client[c].art)])
    /\ UNCHANGED <<bucket, kept, raced, overlapped, stuck, ops>>

(* open, then save under the other id: no layer moves. *)
Copy(c, from, to) ==
    /\ Begin(c, FALSE)
    /\ \E k \in Loadable :
       /\ Loads(k)
       /\ \/ ~Finds(k, from) /\ UNCHANGED client
          \/ /\ Finds(k, from)
             /\ Becomes(c, [client[c] EXCEPT !.pc = "layer",
                              !.art = [id |-> to, layers |-> k.manifests[from]]])
    /\ UNCHANGED <<bucket, kept, raced, stuck>>
-----------------------------------------------------------------------------
(* flush                                                                    *)

(* Faulty variant: the number of looks is not bounded. *)
WaitForever(c) ==
    /\ At(c, "wait")
    /\ \/ ~lockfile /\ Goto(c, "lock") /\ UNCHANGED faults
       \/ lockfile /\ UNCHANGED <<client, faults>>
    /\ UNCHANGED <<bucket, history, ops>>

(* Faulty variant: one look more than the limit. *)
WaitOneMore(c) ==
    /\ At(c, "wait")
    /\ \/ /\ ~lockfile \/ client[c].looks + 1 > MaxAttempts
          /\ Goto(c, "lock")
       \/ /\ lockfile /\ client[c].looks + 1 <= MaxAttempts
          /\ Becomes(c, [client[c] EXCEPT !.looks = @ + 1])
    /\ UNCHANGED <<bucket, history, ops, faults>>

(* One round of wait_for_lock. *)
WaitForLock(c) ==
    /\ At(c, "wait")
    /\ \/ /\ ~lockfile \/ client[c].looks + 1 >= MaxAttempts
          /\ Goto(c, "lock")
          /\ UNCHANGED faults
       \/ /\ lockfile /\ client[c].looks + 1 < MaxAttempts
          /\ Becomes(c, [client[c] EXCEPT !.looks = @ + 1])
          /\ UNCHANGED faults
       \/ lockfile /\ Fault /\ Goto(c, "lock")
    /\ UNCHANGED <<bucket, history, ops>>

PutLock(c) ==
    /\ At(c, "lock")
    /\ \/ /\ lockfile' = TRUE
          /\ Goto(c, "put")
          /\ UNCHANGED <<stuck, faults>>
       \/ /\ Fault
          /\ lockfile' \in {lockfile, TRUE}
          /\ Return(c)
          /\ stuck' = TRUE
    /\ UNCHANGED <<catalog, blobs, kept, raced, misread, overlapped, ops>>

Holding == {c \in Client : client[c].pc \in {"wait", "lock", "put"}}

(* The result is kept while the lock is deleted. *)
PutCatalog(c) ==
    /\ At(c, "put")
    /\ \/ catalog' = client[c].cat /\ UNCHANGED faults
       \/ Fault /\ catalog' \in {catalog, client[c].cat}
    /\ Becomes(c, [client[c] EXCEPT !.pc = "unlock", !.put = (faults' = faults)])
    /\ raced' = (raced \/ Holding # {c})
    /\ kept' = IF client[c].deleting THEN kept \ {client[c].art.id}
               ELSE IF faults' = faults THEN kept \cup {client[c].art.id} ELSE kept
    /\ UNCHANGED <<lockfile, blobs, misread, overlapped, stuck, ops>>

(* Faulty variant: a failed put returns at once. *)
UnlockIfPut(c) ==
    /\ At(c, "unlock")
    /\ \/ /\ ~client[c].put
          /\ Return(c)
          /\ UNCHANGED lockfile
       \/ /\ client[c].put
          /\ lockfile' = FALSE
          /\ \/ ~client[c].deleting /\ Return(c)
             \/ /\ client[c].deleting
                /\ Becomes(c, [client[c] EXCEPT !.pc = "sweep", !.todo =
                        {d \in client[c].art.layers : client[c].cat.blob_counts[d] <= 0}])
    /\ UNCHANGED <<catalog, blobs, history, ops, faults>>

(* Deleting the lock, whoever put it.  A failed put makes save or del fail   *)
(* here; a del goes on to the layers that its own copy counts no more.     *)
DeleteLock(c) ==
    /\ At(c, "unlock")
    /\ \/ /\ lockfile' = FALSE
          /\ \/ (~client[c].put \/ ~client[c].deleting) /\ Return(c)
             \/ /\ client[c].put /\ client[c].deleting
                /\ Becomes(c, [client[c] EXCEPT !.pc = "sweep", !.todo =
                        {d \in client[c].art.layers : client[c].cat.blob_counts[d] <= 0}])
          /\ UNCHANGED <<stuck, faults>>
       \/ /\ Fault
          /\ lockfile' \in {lockfile, FALSE}
          /\ Return(c)
          /\ stuck' = TRUE
    /\ UNCHANGED <<catalog, blobs, kept, raced, misread, overlapped, ops>>
-----------------------------------------------------------------------------
(* prune and del                                                            *)

Prune(c, id) ==
    /\ Begin(c, TRUE)
    /\ \E k \in Loadable :
       /\ Loads(k)
       /\ \/ k = None /\ UNCHANGED client
          \/ /\ k # None
             /\ Becomes(c, [client[c] EXCEPT !.pc = "prune", !.deleting = TRUE,
                              !.cat = k, !.victims = Matching(k, id) \ {id}])
    /\ UNCHANGED <<bucket, kept, raced, stuck>>

PruneDone(c) ==
    /\ At(c, "prune")
    /\ client[c].victims = {}
    /\ Return(c)
    /\ UNCHANGED <<bucket, history, ops, faults>>

(* The has at the start of del. *)
DelHas(c, id) ==
    /\ At(c, "prune")
    /\ id \in client[c].victims
    /\ \E k \in Loadable :
       /\ Loads(k)
       /\ \/ k = None /\ Return(c)
          \/ k # None /\ ~Has(k, id) /\ Becomes(c, [client[c] EXCEPT !.victims = @ \ {id}])
          \/ /\ Finds(k, id)
             /\ Becomes(c, [client[c] EXCEPT !.pc = "del", !.victims = @ \ {id},
                              !.art = [id |-> id, layers |-> {}]])
    /\ UNCHANGED <<bucket, kept, raced, overlapped, stuck, ops>>

Deletes(c, k) ==
    \/ ~Finds(k, client[c].art.id) /\ Return(c)
    \/ /\ Finds(k, client[c].art.id)
       /\ Becomes(c, [client[c] EXCEPT !.pc = "wait", !.looks = 0,
                        !.cat = Del(k, client[c].art.id),
                        !.art = [id |-> client[c].art.id, layers |-> k.manifests[client[c].art.id]]])

(* Faulty variant: del works on the catalog that the previous del left. *)
DelStale(c) ==
    /\ At(c, "del")
    /\ Deletes(c, client[c].cat)
    /\ UNCHANGED <<bucket, history, ops, faults>>

(* Its second load, which decides. *)
LoadForDel(c) ==
    /\ At(c, "del")
    /\ \E k \in Loadable : Loads(k) /\ Deletes(c, k)
    /\ UNCHANGED <<bucket, kept, raced, overlapped, stuck, ops>>

DeleteBlob(c, d) ==
    /\ At(c, "sweep")
    /\ d \in client[c].todo
    /\ \/ /\ blobs' = blobs \ {d}
          /\ Becomes(c, [client[c] EXCEPT !.todo = @ \ {d}])
          /\ UNCHANGED faults
       \/ Fault /\ blobs' \in {blobs, blobs \ {d}} /\ Return(c)
    /\ UNCHANGED <<catalog, lockfile, history, ops>>

DelDone(c) ==
    /\ At(c, "sweep")
    /\ client[c].todo = {}
    /\ Goto(c, "prune")
    /\ UNCHANGED <<bucket, history, ops, faults>>
-----------------------------------------------------------------------------
Crash(c) ==
    /\ ~At(c, "idle")
    /\ Fault
    /\ Return(c)
    /\ stuck' = (stuck \/ client[c].pc \in {"put", "unlock"})
    /\ UNCHANGED <<bucket, kept, raced, misread, overlapped, ops>>

Continue(c) ==
    \/ (\E d \in Digest : FinishLayer(c, d)) \/ LoadForSave(c)
    \/ WaitForLock(c) \/ PutLock(c) \/ PutCatalog(c) \/ DeleteLock(c)
    \/ (\E id \in Id : DelHas(c, id)) \/ LoadForDel(c)
    \/ (\E d \in Digest : DeleteBlob(c, d)) \/ DelDone(c) \/ PruneDone(c)

Call(c) ==
    \/ \E a \in Output : Save(c, a)
    \/ \E from \in Id : \E to \in Id \ {from} : Copy(c, from, to)
    \/ \E id \in Id : Prune(c, id)

Next == \E c \in Client : Continue(c) \/ Call(c) \/ Crash(c)

(* Requests are answered and the tasks keep being polled. *)
Fairness == \A c \in Client : WF_vars(Continue(c))

Spec == Init /\ [][Next]_vars
FairSpec == Spec /\ Fairness
-----------------------------------------------------------------------------
(* Properties                                                               *)

Steps == {"idle", "layer", "wait", "lock", "put", "unlock", "prune", "del", "sweep"}
Locals == [pc : Steps, art : Artifact \cup {None},
           cat : Catalog \cup {None}, looks : 0 .. MaxAttempts - 1, put : BOOLEAN,
           todo : SUBSET Digest, deleting : BOOLEAN, victims : SUBSET Id]

TypeOK ==
    /\ catalog \in Catalog \cup {None}
    /\ lockfile \in BOOLEAN
    /\ blobs \subseteq Digest
    /\ client \in [Client -> Locals]
    /\ kept \subseteq Id
    /\ {raced, misread, overlapped, stuck} \subseteq BOOLEAN
    /\ ops \in 0 .. MaxOps
    /\ faults \in 0 .. MaxFaults

Saved(k) == IF k = None THEN {} ELSE k.ids

(* A save that put its catalog is lost to two things only: another client    *)
(* that was between its load and its put at that moment, and a head request *)
(* whose failure load takes for an empty bucket.  Crashes, stale locks,     *)
(* failed puts that took effect and dels of other ids lose nothing.        *)
SavesKept == ~raced /\ ~misread => kept \subseteq Saved(catalog)

(* Even where updates are lost, a manifest in the catalog has all its blobs, *)
(* as long as no prune overlapped another operation: each copy of the       *)
(* catalog counts the manifests of that copy, and layers go up before save. *)
ManifestsComplete ==
    ~overlapped => \A i \in Saved(catalog) : catalog.manifests[i] \subseteq blobs

(* The lock does not outlive the operations: whatever clients put theirs    *)
(* over another's and delete another's for theirs, when all have returned   *)
(* it is gone, a failed put of the catalog included.  Only a crash and a    *)
(* failed request for the lock itself leave one behind.                    *)
LockReleased == ~stuck /\ (\A c \in Client : At(c, "idle")) => ~lockfile

(* No operation waits for ever, though a dead client's lock is never        *)
(* removed.                                                                *)
OpsReturn == \A c \in Client : ~At(c, "idle") ~> At(c, "idle")
=============================================================================
