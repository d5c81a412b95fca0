------------------------- MODULE LocalStoreInvariant -------------------------
(***************************************************************************)
(* The inductive invariant of LocalStore, and the proof of the parts that  *)
(* need nothing of the catalog's counts: types, who is where with what and *)
(* with which lock, the blobs the steps of a build rely on, and the copies *)
(* in progress.                                                            *)
(***************************************************************************)
EXTENDS LocalStore, TLAPS

(* Who is where: the steps of builders and of the pruner, what each step    *)
(* has in its locals, and who has the lock.                                *)
Roles ==
    \A t \in Task :
        /\ task[t].pc \in {"layer", "copying", "reading", "check", "save"} => t # Pruner
        /\ task[t].pc \in {"prune", "sweep", "remove", "wipe"} => t = Pruner
        /\ task[t].pc \in {"layer", "copying", "check", "save", "flush", "write", "sweep", "remove"}
              => task[t].art \in Artifact
        /\ task[t].pc \in {"flush", "write"} => task[t].cat \in Catalog
        /\ task[t].pc \in {"copying", "remove"} => task[t].layer \in Digest
        /\ task[t].pc \in {"flush", "write", "wipe"} <=> writer = t
        /\ task[t].pc = "remove" <=> t \in readers

(* The catalog on disk, and the one that the holder of the lock writes.     *)
Again(t) == resaved \/ (t # Pruner /\ task[t].art.id \in kept)
Recorded ==
    /\ disk # Torn => kept = disk.ids /\ Sound(disk, resaved)
    /\ \A t \in Task : task[t].pc \in {"flush", "write"} =>
          /\ task[t].cat.ids = IF t = Pruner THEN kept \ {task[t].art.id}
                               ELSE kept \cup {task[t].art.id}
          /\ Sound(task[t].cat, Again(t))

(* As long as builds and prunes take turns: the blobs that a step relies on *)
(* are there, and the one that is being removed is in no manifest.         *)
Present(L) == \A d \in L : blobs[d] # "absent"
Complete(c) == \A i \in Id : Has(c, i) => Present(c.manifests[i])
Turns == task[Pruner].pc # "idle" => \A t \in Builder : task[t].pc = "idle"
Backed ==
    ~overlapped =>
        /\ Turns
        /\ disk # Torn => Complete(disk)
        /\ \A t \in Task :
              /\ task[t].pc = "check" => Present(task[t].art.layers \ task[t].todo)
              /\ task[t].pc = "save" => Present(task[t].art.layers)
              /\ task[t].pc \in {"flush", "write"} => Complete(task[t].cat)
              /\ task[t].pc = "remove" /\ disk # Torn => Refs(disk, task[t].layer) = {}
              /\ task[t].pc = "wipe" => disk = Empty

(* A half-written blob has a writer, unless there was a crash.              *)
Written == crashes = 0 => \A d \in Digest : blobs[d] = "partial" => Copying(d) # {}

(* What the pruner has swept.                                               *)
Gone(L) == disk # Torn => \A d \in L : blobs[d] = "absent" \/ Refs(disk, d) # {}
Swept ==
    ~overlapped /\ ~resaved =>
        /\ task[Pruner].pc = "idle" => task[Pruner].art = None
        /\ task[Pruner].pc \in {"flush", "write"} => task[Pruner].todo = task[Pruner].art.layers
        /\ task[Pruner].pc \in {"sweep", "remove"} => Gone(task[Pruner].art.layers \ task[Pruner].todo)
        /\ task[Pruner].pc = "prune" /\ task[Pruner].art # None => Gone(task[Pruner].art.layers)

Inductive == TypeOK /\ Roles /\ Recorded /\ Backed /\ Written /\ Swept
-----------------------------------------------------------------------------
(* Types                                                                    *)

(* Catalog::add and Catalog::del turn catalogs into catalogs, and the new   *)
(* catalog is one.                                                         *)
LEMMA CatalogTypes ==
    /\ Empty \in Catalog
    /\ \A c \in Catalog, a \in Artifact : Add(c, a) \in Catalog
    /\ \A c \in Catalog, id \in Id : Del(c, id) \in Catalog
<1>1. Empty \in Catalog
  BY DEF Empty, Catalog, Manifest
<1>2. ASSUME NEW c \in Catalog, NEW a \in Artifact PROVE Add(c, a) \in Catalog
  BY <1>2 DEF Add, Catalog, Artifact, Manifest
<1>3. ASSUME NEW c \in Catalog, NEW id \in Id PROVE Del(c, id) \in Catalog
  BY <1>3 DEF Del, Catalog, Has, Manifest
<1> QED BY <1>1, <1>2, <1>3

(* Beginning an operation stays within the bound.                           *)
LEMMA BeginType ==
    ASSUME TypeOK, NEW t, Begin(t)
    PROVE  ops' \in 0 .. MaxOps /\ overlapped' \in BOOLEAN /\ At(t, "idle")
<1>1. ops' \in 0 .. MaxOps /\ At(t, "idle")
  BY BoundAssumption DEF TypeOK, Begin
<1>2. overlapped' \in BOOLEAN
  BY Zenon DEF Begin
<1> QED BY <1>1, <1>2

(* What a step may put into the locals.                                     *)
LEMMA FieldTypes ==
    ASSUME NEW l \in Locals
    PROVE  /\ \A x \in Steps : [l EXCEPT !.pc = x] \in Locals
           /\ \A x \in SUBSET Digest : [l EXCEPT !.todo = x] \in Locals
           /\ \A x \in SUBSET Id : [l EXCEPT !.victims = x] \in Locals
           /\ \A p \in Steps, x \in Digest : [l EXCEPT !.pc = p, !.layer = x] \in Locals
           /\ \A p \in Steps, x \in SUBSET Digest : [l EXCEPT !.pc = p, !.todo = x] \in Locals
           /\ \A p \in Steps, x \in Catalog : [l EXCEPT !.pc = p, !.cat = x] \in Locals
           /\ \A p \in Steps, x \in SUBSET Id : [l EXCEPT !.pc = p, !.victims = x] \in Locals
           /\ \A p \in Steps, a \in Artifact, x \in SUBSET Digest :
                 [l EXCEPT !.pc = p, !.art = a, !.todo = x] \in Locals
           /\ \A p \in Steps, a \in Artifact, x \in SUBSET Digest, c \in Catalog, v \in SUBSET Id :
                 [l EXCEPT !.victims = v, !.pc = p, !.cat = c, !.art = a, !.todo = x] \in Locals
<1>1. ASSUME NEW p \in Steps, NEW x \in Digest PROVE [l EXCEPT !.pc = p, !.layer = x] \in Locals
  BY Zenon DEF Locals
<1>2. ASSUME NEW p \in Steps, NEW x \in SUBSET Digest PROVE [l EXCEPT !.pc = p, !.todo = x] \in Locals
  BY Zenon DEF Locals
<1>3. ASSUME NEW p \in Steps, NEW x \in Catalog PROVE [l EXCEPT !.pc = p, !.cat = x] \in Locals
  BY Zenon DEF Locals
<1>4. ASSUME NEW p \in Steps, NEW x \in SUBSET Id PROVE [l EXCEPT !.pc = p, !.victims = x] \in Locals
  BY Zenon DEF Locals
<1>5. ASSUME NEW p \in Steps, NEW a \in Artifact, NEW x \in SUBSET Digest
      PROVE  [l EXCEPT !.pc = p, !.art = a, !.todo = x] \in Locals
  BY Zenon DEF Locals
<1>6. ASSUME NEW p \in Steps, NEW a \in Artifact, NEW x \in SUBSET Digest, NEW c \in Catalog, NEW v \in SUBSET Id
      PROVE  [l EXCEPT !.victims = v, !.pc = p, !.cat = c, !.art = a, !.todo = x] \in Locals
  BY ZenonT(60) DEF Locals
<1>7. /\ \A x \in Steps : [l EXCEPT !.pc = x] \in Locals
      /\ \A x \in SUBSET Digest : [l EXCEPT !.todo = x] \in Locals
      /\ \A x \in SUBSET Id : [l EXCEPT !.victims = x] \in Locals
  BY SMT DEF Locals
<1> QED BY <1>1, <1>2, <1>3, <1>4, <1>5, <1>6, <1>7, Zenon

(* Changing one task's locals keeps the function one.                       *)
LEMMA PutType ==
    ASSUME TypeOK, NEW t \in Task, NEW l \in Locals, task' = [task EXCEPT ![t] = l]
    PROVE  task' \in [Task -> Locals]
BY DEF TypeOK

(* An idle task's locals are of their types.                                *)
LEMMA IdleType == Idle \in Locals
BY DEF Idle, Locals, Steps

(* The locals stay of their types.                                          *)
LEMMA LocalsStep ==
    ASSUME TypeOK, Roles, NEW t \in Task, Continue(t) \/ WriteFails(t) \/ Call(t)
    PROVE  task' \in [Task -> Locals]
<1> DEFINE New(l) == task' = [task EXCEPT ![t] = l]
           old == task[t]
<1>1. ASSUME NEW l \in Locals, New(l) PROVE task' \in [Task -> Locals]
  BY <1>1, PutType, Zenon
<1>2. old \in Locals /\ old.todo \in SUBSET Digest /\ old.victims \in SUBSET Id
  BY DEF TypeOK, Locals
<1>3. old.art # None => old.art \in Artifact
  BY DEF TypeOK, Locals
<1>4. \A a \in Artifact : a.layers \in SUBSET Digest
  BY DEF Artifact, Manifest
<1>5. \A id \in Id : disk # Torn => disk \in Catalog /\ disk.manifests[id] \in SUBSET Digest
  BY DEF TypeOK, Catalog, Manifest
<1>6. \A p \in {"layer", "copying", "reading", "check", "save", "flush", "write", "prune", "sweep", "remove", "wipe"} :
         p \in Steps
  BY DEF Steps
<1>7. ASSUME \E p \in Steps : Goto(t, p) PROVE task' \in [Task -> Locals]
  <2> PICK p \in Steps : Goto(t, p)
    BY <1>7
  <2>1. [old EXCEPT !.pc = p] \in Locals
    BY <1>2, FieldTypes, Zenon
  <2>2. New([old EXCEPT !.pc = p])
    BY DEF Goto
  <2> QED BY <1>1, <2>1, <2>2, Zenon
<1>8. ASSUME Return(t) PROVE task' \in [Task -> Locals]
  BY <1>1, <1>8, IdleType, Zenon DEF Return
<1>9. ASSUME NEW d, New([old EXCEPT !.todo = @ \ {d}]) PROVE task' \in [Task -> Locals]
  <2>1. [old EXCEPT !.todo = @ \ {d}] \in Locals
    BY <1>2, FieldTypes, Zenon
  <2> QED BY <1>1, <1>9, <2>1, Zenon
<1>10. ASSUME NEW p \in Steps, NEW d \in Digest, New([old EXCEPT !.pc = p, !.layer = d])
       PROVE  task' \in [Task -> Locals]
  <2>1. [old EXCEPT !.pc = p, !.layer = d] \in Locals
    BY <1>2, FieldTypes, Zenon
  <2> QED BY <1>1, <1>10, <2>1, Zenon
<1>11. ASSUME NEW p \in Steps, NEW S \in SUBSET Digest, New([old EXCEPT !.pc = p, !.todo = S])
       PROVE  task' \in [Task -> Locals]
  <2>1. [old EXCEPT !.pc = p, !.todo = S] \in Locals
    BY <1>2, FieldTypes, Zenon
  <2> QED BY <1>1, <1>11, <2>1, Zenon
<1>12. ASSUME NEW a \in Artifact, NEW p \in Steps, New([old EXCEPT !.pc = p, !.art = a, !.todo = a.layers])
       PROVE  task' \in [Task -> Locals]
  <2>1. [old EXCEPT !.pc = p, !.art = a, !.todo = a.layers] \in Locals
    BY <1>2, <1>4, FieldTypes, Zenon
  <2> QED BY <1>1, <1>12, <2>1, Zenon
<1> USE DEF At
<1> HIDE DEF New, old
<1>13. CASE \E d \in Digest : CopyBlob(t, d)
  <2> PICK d \in Digest : CopyBlob(t, d)
    BY <1>13
  <2>1. New([old EXCEPT !.pc = "copying", !.layer = d]) \/ Return(t)
    BY SMTT(30), ZenonT(30) DEF CopyBlob, New, old
  <2> QED BY <1>6, <1>8, <1>10, <2>1, Zenon
<1>14. CASE FinishLayer(t)
  <2>1. New([old EXCEPT !.pc = "layer", !.todo = old.todo \ {old.layer}])
    BY <1>14 DEF FinishLayer, New, old
  <2> QED BY <1>2, <1>6, <1>11, <2>1, ZenonT(30)
<1>15. CASE EndRead(t) \/ PruneDone(t) \/ WriteFails(t)
  BY <1>8, <1>15 DEF EndRead, PruneDone, WriteFails
<1>16. CASE Save(t)
  <2>1. New([old EXCEPT !.pc = "check", !.todo = old.art.layers]) /\ old.art \in Artifact
    BY <1>16 DEF Save, New, old, Roles
  <2> QED BY <1>4, <1>6, <1>11, <2>1, Zenon
<1>17. CASE CheckLayer(t)
  <2>1. \/ Goto(t, "save") \/ Return(t)
        \/ \E d \in task[t].todo : New([old EXCEPT !.todo = @ \ {d}])
    BY <1>17 DEF CheckLayer, New, old
  <2> QED BY <1>6, <1>7, <1>8, <1>9, <2>1, Zenon
<1>18. CASE LoadForSave(t)
  <2>1. CASE disk # Torn
    <3>1. New([old EXCEPT !.pc = "flush", !.cat = Add(disk, old.art)])
      BY <1>18, <2>1 DEF LoadForSave, New, old
    <3>2. Add(disk, old.art) \in Catalog
      BY <1>18, <2>1, CatalogTypes DEF LoadForSave, Roles, TypeOK, old
    <3>3. [old EXCEPT !.pc = "flush", !.cat = Add(disk, old.art)] \in Locals
      BY <1>2, <1>6, <3>2, FieldTypes, Zenon
    <3> QED BY <1>1, <3>1, <3>3
  <2>2. CASE disk = Torn
    BY <1>8, <1>18, <2>2 DEF LoadForSave
  <2> QED BY <2>1, <2>2
<1>19. CASE Truncate(t) \/ SweepDone(t)
  BY <1>6, <1>7, <1>19 DEF Truncate, SweepDone
<1>20. CASE Write(t)
  BY <1>6, <1>7, <1>8, <1>20 DEF Write
<1>21. CASE \E id \in Id : LoadForDel(t, id)
  <2> PICK id \in Id : LoadForDel(t, id)
    BY <1>21
  <2>1. CASE disk = Torn
    BY <1>8, <2>1 DEF LoadForDel
  <2>2. CASE disk # Torn /\ ~Has(disk, id)
    <3>1. New([old EXCEPT !.victims = @ \ {id}])
      BY <2>2, SMTT(30), ZenonT(30) DEF LoadForDel, New, old
    <3>2. [old EXCEPT !.victims = @ \ {id}] \in Locals
      BY <1>2, FieldTypes, Zenon
    <3> QED BY <1>1, <3>1, <3>2
  <2>3. CASE disk # Torn /\ Has(disk, id)
    <3> DEFINE a == [id |-> id, layers |-> disk.manifests[id]]
               l == [old EXCEPT !.victims = old.victims \ {id}, !.pc = "flush", !.cat = Del(disk, id),
                                !.art = a, !.todo = disk.manifests[id]]
    <3>1. New(l)
      BY <2>3 DEF LoadForDel, New, old
    <3>2. a \in Artifact
      BY <1>5, <2>3 DEF Artifact, Manifest
    <3>3. Del(disk, id) \in Catalog
      BY <1>5, <2>3, CatalogTypes
    <3>4. old.victims \ {id} \in SUBSET Id
      BY <1>2
    <3> HIDE DEF a
    <3>5. l \in Locals
      BY <1>2, <1>5, <1>6, <2>3, <3>2, <3>3, <3>4, FieldTypes, ZenonT(30)
    <3> QED BY <1>1, <3>1, <3>5
  <2> QED BY <2>1, <2>2, <2>3
<1>22. CASE \E d \in Digest : Sweep(t, d)
  <2> PICK d \in Digest : Sweep(t, d)
    BY <1>22
  <2>1. \/ Return(t) \/ New([old EXCEPT !.todo = @ \ {d}])
        \/ New([old EXCEPT !.pc = "remove", !.layer = d])
    BY SMTT(30), ZenonT(30) DEF Sweep, New, old
  <2> QED BY <1>6, <1>8, <1>9, <1>10, <2>1, Zenon
<1>23. CASE RemoveBlob(t)
  <2>1. New([old EXCEPT !.pc = "sweep", !.todo = old.todo \ {old.layer}])
    BY <1>23 DEF RemoveBlob, New, old
  <2> QED BY <1>2, <1>6, <1>11, <2>1, ZenonT(30)
<1>24. CASE Wipe(t)
  <2>1. UNCHANGED task \/ Return(t)
    BY <1>24 DEF Wipe
  <2> QED BY <1>8, <2>1 DEF TypeOK
<1>25. CASE \E a \in Output : Store(t, a)
  <2> PICK a \in Output : Store(t, a)
    BY <1>25
  <2>1. New([old EXCEPT !.pc = "layer", !.art = a, !.todo = a.layers]) /\ a \in Artifact
    BY StoreAssumption, SMTT(30), ZenonT(30) DEF Store, New, old, Artifact, Manifest
  <2> QED BY <1>6, <1>12, <2>1, Zenon
<1>26. CASE \E d \in Digest : Read(t, d)
  <2> PICK d \in Digest : Read(t, d)
    BY <1>26
  <2>1. New([old EXCEPT !.pc = "reading", !.layer = d])
    BY SMTT(30), ZenonT(30) DEF Read, New, old
  <2> QED BY <1>6, <1>10, <2>1, Zenon
<1>27. CASE \E from \in Id : \E to \in Id \ {from} : Copy(t, from, to)
  <2> PICK from \in Id, to \in Id : Copy(t, from, to)
    BY <1>27
  <2> DEFINE a == [id |-> to, layers |-> disk.manifests[from]]
  <2>1. a \in Artifact
    BY <1>5 DEF Copy, Artifact, Manifest
  <2>2. New([old EXCEPT !.pc = "check", !.art = a, !.todo = a.layers])
    BY DEF Copy, New, old
  <2> QED BY <1>6, <1>12, <2>1, <2>2, Zenon
<1>28. CASE PruneAll(t)
  BY <1>6, <1>7, <1>28 DEF PruneAll
<1>29. CASE \E id \in Id : Prune(t, id)
  <2> PICK id \in Id : Prune(t, id)
    BY <1>29
  <2>1. New([old EXCEPT !.pc = "prune", !.victims = Matching(disk, id) \ {id}])
    BY DEF Prune, New, old
  <2>2. [old EXCEPT !.pc = "prune", !.victims = Matching(disk, id) \ {id}] \in Locals
    <3>1. Matching(disk, id) \ {id} \in SUBSET Id
      BY SMTT(30), ZenonT(30) DEF Matching
    <3> QED BY <1>2, <1>6, <3>1, FieldTypes, Zenon
  <2> QED BY <1>1, <2>1, <2>2
<1> QED
  BY SMTT(30), ZenonT(30), <1>13, <1>14, <1>15, <1>16, <1>17, <1>18, <1>19, <1>20, <1>21, <1>22, <1>23, <1>24, <1>25,
     <1>26, <1>27, <1>28, <1>29 DEF Continue, Call

(* A step of one task leaves the locals of the others alone.                *)
LEMMA Frame ==
    ASSUME TypeOK, NEW t \in Task, Continue(t) \/ WriteFails(t) \/ Call(t), NEW u \in Task, u # t
    PROVE  task'[u] = task[u]
BY Zenon DEF TypeOK, Continue, Call, Goto, Return, CopyBlob, FinishLayer, EndRead, Save, CheckLayer, LoadForSave,
       Truncate, Write, LoadForDel, Sweep, RemoveBlob, SweepDone, PruneDone, Wipe, WriteFails, Store, Read,
       Copy, PruneAll, Prune

(* The type invariant is inductive with Roles.                              *)
LEMMA TypeStep == TypeOK /\ Roles /\ [Next]_vars => TypeOK'
<1> SUFFICES ASSUME TypeOK, Roles, [Next]_vars PROVE TypeOK'
  OBVIOUS
<1> DEFINE Stored == /\ disk' \in Catalog \cup {Torn}
                     /\ catalogued' \in BOOLEAN
                     /\ blobs' \in [Digest -> {"absent", "partial", "whole"}]
                     /\ layer_dir' \in BOOLEAN
           Locking == /\ writer' \in Task \cup {None}
                      /\ readers' \subseteq Task
                      /\ writer' # None => readers' = {}
           Noted == kept' \subseteq Id /\ resaved' \in BOOLEAN
           Counted == overlapped' \in BOOLEAN /\ ops' \in 0 .. MaxOps /\ crashes' \in 0 .. MaxCrash
<1>1. ASSUME NEW t \in Task, Continue(t) \/ WriteFails(t) \/ Call(t) PROVE TypeOK'
  <2> USE <1>1 DEF TypeOK, store, lock, history
  <2>1. Stored
    <3>1. CASE UNCHANGED store
      BY <3>1
    <3>2. CASE \E d \in Digest : CopyBlob(t, d)
      BY <3>2 DEF CopyBlob
    <3>3. CASE FinishLayer(t)
      BY <3>3, Zenon DEF FinishLayer
    <3>4. CASE Truncate(t)
      BY <3>4 DEF Truncate
    <3>5. CASE Write(t)
      BY <3>5 DEF Write, Roles, At
    <3>6. CASE RemoveBlob(t)
      BY <3>6, Zenon DEF RemoveBlob
    <3>7. CASE Wipe(t)
      BY <3>7, Zenon DEF Wipe
    <3>8. CASE PruneAll(t)
      BY <3>8, CatalogTypes, Zenon DEF PruneAll
    <3> HIDE DEF TypeOK
    <3> QED
      BY <1>1, <3>1, <3>2, <3>3, <3>4, <3>5, <3>6, <3>7, <3>8, ZenonT(30)
      DEF Continue, Call, EndRead, Save, CheckLayer, LoadForSave, LoadForDel, Sweep, SweepDone,
          PruneDone, WriteFails, Store, Read, Copy, Prune
  <2>2. Locking
    BY TaskAssumption, ZenonT(30)
    DEF Continue, Call, WriteLock, LockFree, Unlock, CopyBlob, FinishLayer, EndRead, Save, CheckLayer, LoadForSave,
        Truncate, Write, LoadForDel, Sweep, RemoveBlob, SweepDone, PruneDone, Wipe, WriteFails, Store, Read,
        Copy, PruneAll, Prune
  <2>3. Noted
    <3>1. CASE UNCHANGED <<kept, resaved>>
      BY <3>1
    <3>2. CASE Write(t)
      <4>1. kept' \subseteq Id
        BY <3>2 DEF Write, Roles, At, Artifact
      <4>2. resaved' \in BOOLEAN
        BY <3>2, Zenon DEF Write
      <4> QED BY <4>1, <4>2
    <3>3. CASE PruneAll(t)
      BY <3>3, SMTT(30), ZenonT(30) DEF PruneAll
    <3> HIDE DEF TypeOK
    <3> QED
      BY <1>1, <3>1, <3>2, <3>3, Zenon
      DEF Continue, Call, CopyBlob, FinishLayer, EndRead, Save, CheckLayer, LoadForSave, Truncate, LoadForDel,
          Sweep, RemoveBlob, SweepDone, PruneDone, Wipe, WriteFails, Store, Read, Copy, Prune
  <2>4. Counted
    <3>1. CASE UNCHANGED <<overlapped, ops, crashes>>
      BY <3>1
    <3>2. CASE Begin(t) /\ UNCHANGED crashes
      BY <3>2, BeginType
    <3>3. CASE WriteFails(t)
      BY <3>3, BoundAssumption DEF WriteFails
    <3> HIDE DEF TypeOK
    <3> QED
      BY <1>1, <3>1, <3>2, <3>3, Zenon
      DEF Continue, Call, CopyBlob, FinishLayer, EndRead, Save, CheckLayer, LoadForSave, Truncate, Write, LoadForDel,
          Sweep, RemoveBlob, SweepDone, PruneDone, Wipe, Store, Read, Copy, PruneAll, Prune
  <2> QED BY <2>1, <2>2, <2>3, <2>4, LocalsStep, SMTT(30), ZenonT(30)
<1>2. CASE Crash \/ NextCommand
  <2>1. Restart /\ crashes' \in 0 .. MaxCrash
    BY <1>2, BoundAssumption DEF Crash, NextCommand, TypeOK
  <2>2. task' \in [Task -> Locals]
    BY <2>1, IdleType DEF Restart
  <2> QED BY <2>1, <2>2 DEF Restart, TypeOK, history
<1>3. CASE UNCHANGED vars
  BY <1>3 DEF vars, store, lock, history, TypeOK
<1> QED BY <1>1, <1>2, <1>3 DEF Next
-----------------------------------------------------------------------------
(* Steps and the lock                                                       *)

(* Each task is at a step of its own kind, has in its locals what the step  *)
(* needs, and holds the lock exactly where the code does.                  *)
LEMMA RolesStep == TypeOK /\ Roles /\ [Next]_vars => Roles'
<1> SUFFICES ASSUME TypeOK, Roles, [Next]_vars PROVE Roles'
  OBVIOUS
<1> USE TaskAssumption DEF At, Goto, Return, Idle, store, lock
<1>1. ASSUME NEW t \in Task, Continue(t) \/ WriteFails(t) \/ Call(t) PROVE Roles'
  <2>1. task[t] \in Locals /\ task' \in [Task -> Locals] /\ task \in [Task -> Locals] /\ (writer # None => readers = {})
    BY <1>1, LocalsStep DEF TypeOK
  <2>0. task \in [Task -> Locals]
    BY DEF TypeOK
  <2>2. \A u \in Task \ {t} : task'[u] = task[u]
    BY <1>1, Frame
  <2>3. t \in Builder <=> t # Pruner
    BY DEF Task
  <2>4. CASE \E d \in Digest : CopyBlob(t, d)
    <3> PICK d \in Digest : CopyBlob(t, d)
      BY <2>4
    <3>1. \/ task' = [task EXCEPT ![t] = [@ EXCEPT !.pc = "copying", !.layer = d]]
          \/ task' = [task EXCEPT ![t] = Idle]
      BY DEF CopyBlob
    <3>2. \/ task'[t].pc = "copying" /\ task'[t].layer = d /\ task'[t].art = task[t].art
          \/ task'[t].pc = "idle"
      <4>1. CASE task' = [task EXCEPT ![t] = [@ EXCEPT !.pc = "copying", !.layer = d]]
        BY <2>0, <4>1 DEF Locals
      <4>2. CASE task' = [task EXCEPT ![t] = Idle]
        BY <2>0, <4>2
      <4> QED BY <3>1, <4>1, <4>2
    <3> QED BY <2>1, <2>2, <2>3, <3>2 DEF CopyBlob, Roles
  <2>5. CASE FinishLayer(t)
    BY <2>1, <2>2, <2>3, <2>5, SMTT(30), ZenonT(30) DEF Roles, Locals, FinishLayer
  <2>6. CASE EndRead(t)
    BY <2>1, <2>2, <2>3, <2>6, SMTT(30), ZenonT(30) DEF Roles, Locals, EndRead
  <2>7. CASE Save(t)
    BY <2>1, <2>2, <2>3, <2>7, SMTT(30), ZenonT(30) DEF Roles, Locals, Save
  <2>8. CASE CheckLayer(t)
    BY <2>1, <2>2, <2>3, <2>8 DEF Roles, Locals, CheckLayer
  <2>9. CASE LoadForSave(t)
    <3>1. CASE disk # Torn
      <4>0. /\ task' = [task EXCEPT ![t] = [@ EXCEPT !.pc = "flush", !.cat = Add(disk, task[t].art)]]
            /\ LockFree /\ writer' = t /\ readers' = readers
        BY <2>9, <3>1 DEF LoadForSave, WriteLock
      <4>1. task'[t].pc = "flush" /\ task'[t].art = task[t].art /\ task'[t].cat = Add(disk, task[t].art)
        BY <2>0, <4>0 DEF Locals
      <4>2. Add(disk, task[t].art) \in Catalog
        BY <2>9, <3>1, CatalogTypes, SMTT(30), ZenonT(30) DEF LoadForSave, Roles, TypeOK
      <4> QED BY <2>1, <2>2, <2>3, <2>9, <4>0, <4>1, <4>2, SMTT(30), ZenonT(30) DEF LoadForSave, LockFree, Roles
    <3>2. CASE disk = Torn
      BY <2>1, <2>2, <2>3, <2>9, <3>2, SMTT(30), ZenonT(30) DEF LoadForSave, LockFree, Roles, Locals
    <3> QED BY <3>1, <3>2
  <2>10. CASE Truncate(t)
    BY <2>1, <2>2, <2>3, <2>10 DEF Roles, Locals, Truncate
  <2>11. CASE Write(t)
    BY <2>1, <2>2, <2>3, <2>11 DEF Roles, Locals, Write, Unlock
  <2>12. CASE \E id \in Id : LoadForDel(t, id)
    <3> PICK id \in Id : LoadForDel(t, id)
      BY <2>12
    <3>1. CASE disk # Torn /\ Has(disk, id)
      <4>0. /\ task' = [task EXCEPT ![t] = [@ EXCEPT
                !.victims = task[t].victims \ {id}, !.pc = "flush", !.cat = Del(disk, id),
                !.art = [id |-> id, layers |-> disk.manifests[id]], !.todo = disk.manifests[id]]]
            /\ LockFree /\ writer' = t /\ readers' = readers
        BY <3>1 DEF LoadForDel, WriteLock
      <4>1. /\ task'[t].pc = "flush" /\ task'[t].art = [id |-> id, layers |-> disk.manifests[id]]
            /\ task'[t].cat = Del(disk, id)
        BY <2>0, <4>0, SMTT(30), ZenonT(30) DEF Locals
      <4>2. Del(disk, id) \in Catalog /\ task'[t].art \in Artifact
        BY <3>1, <4>1, CatalogTypes, SMTT(30), ZenonT(30) DEF TypeOK, Artifact, Catalog
      <4> QED BY <2>1, <2>2, <2>3, <4>0, <4>1, <4>2, SMTT(30), ZenonT(30) DEF LoadForDel, LockFree, Roles
    <3>2. CASE ~(disk # Torn /\ Has(disk, id))
      BY <2>1, <2>2, <2>3, <3>2 DEF LoadForDel, LockFree, Roles, Locals
    <3> QED BY <3>1, <3>2
  <2>13. CASE \E d \in Digest : Sweep(t, d)
    <3> PICK d \in Digest : Sweep(t, d)
      BY <2>13
    <3>0. \/ task' = [task EXCEPT ![t] = [@ EXCEPT !.pc = "remove", !.layer = d]] /\ readers' = readers \cup {t}
          \/ task' = [task EXCEPT ![t].todo = @ \ {d}] /\ readers' = readers
          \/ task' = [task EXCEPT ![t] = Idle] /\ readers' = readers
      BY DEF Sweep
    <3>1. task[t].pc = "sweep" /\ t = Pruner /\ writer = None /\ writer' = None
      BY DEF Sweep, Roles
    <3>2. CASE task' = [task EXCEPT ![t] = [@ EXCEPT !.pc = "remove", !.layer = d]] /\ readers' = readers \cup {t}
      <4>1. task'[t].pc = "remove" /\ task'[t].layer = d /\ task'[t].art = task[t].art
        BY <2>0, <3>2 DEF Locals
      <4> QED BY <2>1, <2>2, <3>1, <3>2, <4>1 DEF Roles
    <3>3. CASE task' = [task EXCEPT ![t].todo = @ \ {d}] /\ readers' = readers
      <4>1. task'[t].pc = "sweep" /\ task'[t].art = task[t].art
        BY <2>0, <3>1, <3>3, SMTT(30), ZenonT(30) DEF Locals
      <4> QED BY <2>1, <2>2, <3>1, <3>3, <4>1 DEF Roles
    <3>4. CASE task' = [task EXCEPT ![t] = Idle] /\ readers' = readers
      BY <2>0, <2>1, <2>2, <3>1, <3>4 DEF Roles
    <3> QED BY <3>0, <3>2, <3>3, <3>4
  <2>14. CASE RemoveBlob(t)
    BY <2>1, <2>2, <2>3, <2>14 DEF Roles, Locals, RemoveBlob
  <2>15. CASE SweepDone(t)
    BY <2>1, <2>2, <2>3, <2>15, SMTT(30), ZenonT(30) DEF Roles, Locals, SweepDone
  <2>16. CASE PruneDone(t)
    BY <2>1, <2>2, <2>3, <2>16, SMTT(30), ZenonT(30) DEF Roles, Locals, PruneDone
  <2>17. CASE Wipe(t)
    BY <2>1, <2>2, <2>3, <2>17, SMTT(30), ZenonT(30) DEF Roles, Locals, Wipe, Unlock
  <2>18. CASE WriteFails(t)
    BY <2>1, <2>2, <2>3, <2>18, SMTT(30), ZenonT(30) DEF Roles, Locals, WriteFails, Unlock
  <2>19. CASE t \in Builder /\ \E a \in Output : Store(t, a)
    <3> PICK a \in Output : Store(t, a)
      BY <2>19
    <3>1. task[t].pc = "idle" /\ task'[t].pc = "layer" /\ task'[t].art = a
      BY <2>1 DEF Store, Begin, Locals
    <3>2. a \in Artifact
      BY StoreAssumption DEF Artifact, Manifest
    <3> QED BY <2>1, <2>2, <2>3, <2>19, <3>1, <3>2 DEF Store, Roles
  <2>20. CASE t \in Builder /\ \E d \in Digest : Read(t, d)
    BY <2>1, <2>2, <2>3, <2>20, SMTT(30), ZenonT(30) DEF Roles, Locals, Read, Begin
  <2>21. CASE t \in Builder /\ \E from \in Id : \E to \in Id \ {from} : Copy(t, from, to)
    <3> PICK from \in Id, to \in Id : Copy(t, from, to)
      BY <2>21
    <3>1. /\ task[t].pc = "idle" /\ task'[t].pc = "check"
          /\ task'[t].art = [id |-> to, layers |-> disk.manifests[from]]
      BY <2>1 DEF Copy, Begin, Locals
    <3>2. [id |-> to, layers |-> disk.manifests[from]] \in Artifact
      BY DEF Copy, TypeOK, Artifact, Catalog
    <3> QED BY <2>1, <2>2, <2>3, <2>21, <3>1, <3>2, SMTT(30), ZenonT(30) DEF Copy, Roles
  <2>22. CASE t = Pruner /\ PruneAll(t)
    BY <2>1, <2>2, <2>3, <2>22, SMTT(30), ZenonT(30) DEF Roles, Locals, PruneAll, Begin, WriteLock, LockFree
  <2>23. CASE t = Pruner /\ \E id \in Id : Prune(t, id)
    BY <2>1, <2>2, <2>3, <2>23, SMTT(30), ZenonT(30) DEF Roles, Locals, Prune, Begin
  <2> QED
    BY <1>1, <2>4, <2>5, <2>6, <2>7, <2>8, <2>9, <2>10, <2>11, <2>12, <2>13, <2>14, <2>15, <2>16, <2>17, <2>18, <2>19, <2>20, <2>21, <2>22, <2>23, SMTT(30), ZenonT(30) DEF Continue, Call
<1>2. CASE Crash \/ NextCommand
  BY <1>2, SMTT(30), ZenonT(30) DEF Crash, NextCommand, Restart, Roles
<1>3. CASE UNCHANGED vars
  BY <1>3, SMTT(30), ZenonT(30) DEF vars, Roles
<1> QED BY <1>1, <1>2, <1>3 DEF Next
-----------------------------------------------------------------------------
(* Where each step of a task leads, and what it leaves in the locals.       *)
Moves(t) ==
    LET was == task[t]
        is == task'[t] IN
    /\ \A a \in Output : Store(t, a) => is.pc = "layer" /\ is.art = a /\ is.todo = a.layers
    /\ \A d \in Digest : CopyBlob(t, d) =>
          \/ is.pc = "copying" /\ is.layer = d /\ is.art = was.art /\ is.todo = was.todo
          \/ is = Idle
    /\ FinishLayer(t) => is.pc = "layer" /\ is.art = was.art /\ is.todo = was.todo \ {was.layer}
    /\ Save(t) => is.pc = "check" /\ is.art = was.art /\ is.todo = was.art.layers
    /\ \A d \in Digest : Read(t, d) => is.pc = "reading"
    /\ EndRead(t) => is = Idle
    /\ \A from, to \in Id : Copy(t, from, to) =>
          /\ is.pc = "check"
          /\ is.art = [id |-> to, layers |-> disk.manifests[from]] /\ is.todo = disk.manifests[from]
    /\ CheckLayer(t) =>
          \/ was.todo = {} /\ is.pc = "save" /\ is.art = was.art
          \/ \E d \in was.todo : /\ blobs[d] # "absent"
                                 /\ is.pc = "check" /\ is.art = was.art /\ is.todo = was.todo \ {d}
          \/ is = Idle
    /\ LoadForSave(t) =>
          \/ disk # Torn /\ is.pc = "flush" /\ is.art = was.art /\ is.cat = Add(disk, was.art)
          \/ is = Idle
    /\ Truncate(t) => /\ is.pc = "write" /\ is.art = was.art /\ is.cat = was.cat /\ is.todo = was.todo
    /\ Write(t) =>
          \/ t # Pruner /\ is = Idle
          \/ t = Pruner /\ is.pc = "sweep" /\ is.art = was.art /\ is.todo = was.todo
    /\ WriteFails(t) => is = Idle
    /\ \A id \in Id : Prune(t, id) => is.pc = "prune" /\ is.art = was.art
    /\ PruneDone(t) => is = Idle
    /\ \A id \in Id : LoadForDel(t, id) =>
          \/ /\ disk # Torn /\ Has(disk, id) /\ is.pc = "flush" /\ is.cat = Del(disk, id)
             /\ is.art = [id |-> id, layers |-> disk.manifests[id]] /\ is.todo = disk.manifests[id]
          \/ is.pc = "prune" /\ is.art = was.art
          \/ is = Idle
    /\ \A d \in Digest : Sweep(t, d) =>
          \/ /\ disk # Torn /\ (disk.blob_counts[d] > 0 \/ blobs[d] = "absent")
             /\ is.pc = "sweep" /\ is.art = was.art /\ is.todo = was.todo \ {d}
          \/ /\ disk # Torn /\ disk.blob_counts[d] <= 0
             /\ is.pc = "remove" /\ is.art = was.art /\ is.todo = was.todo /\ is.layer = d
          \/ is = Idle
    /\ RemoveBlob(t) => is.pc = "sweep" /\ is.art = was.art /\ is.todo = was.todo \ {was.layer}
    /\ SweepDone(t) => is.pc = "prune" /\ is.art = was.art
    /\ PruneAll(t) => is.pc = "wipe"
    /\ Wipe(t) => is = was \/ is = Idle

(* The lines of the actions, read off field by field.                       *)
LEMMA MovesHold == ASSUME task \in [Task -> Locals], NEW t \in Task PROVE Moves(t)
<1> USE DEF Return, Goto, Locals
<1> DEFINE was == task[t]
           is == task'[t]
<1>1. \A a \in Output : Store(t, a) => is.pc = "layer" /\ is.art = a /\ is.todo = a.layers
  BY DEF Store
<1>2. \A d \in Digest : CopyBlob(t, d) =>
          \/ is.pc = "copying" /\ is.layer = d /\ is.art = was.art /\ is.todo = was.todo
          \/ is = Idle
  <2> SUFFICES ASSUME NEW d \in Digest, CopyBlob(t, d)
               PROVE  \/ is.pc = "copying" /\ is.layer = d /\ is.art = was.art /\ is.todo = was.todo
                      \/ is = Idle
    BY Zenon
  <2>1. CASE task' = [task EXCEPT ![t] = [@ EXCEPT !.pc = "copying", !.layer = d]]
    BY <2>1
  <2>2. CASE task' = [task EXCEPT ![t] = Idle]
    BY <2>2
  <2> QED BY <2>1, <2>2, SMTT(30), ZenonT(30) DEF CopyBlob
<1>3. FinishLayer(t) => is.pc = "layer" /\ is.art = was.art /\ is.todo = was.todo \ {was.layer}
  BY DEF FinishLayer
<1>4. Save(t) => is.pc = "check" /\ is.art = was.art /\ is.todo = was.art.layers
  BY DEF Save
<1>5. \A d \in Digest : Read(t, d) => is.pc = "reading"
  BY DEF Read
<1>6. EndRead(t) => is = Idle
  BY DEF EndRead
<1>7. \A from, to \in Id : Copy(t, from, to) =>
          /\ is.pc = "check"
          /\ is.art = [id |-> to, layers |-> disk.manifests[from]] /\ is.todo = disk.manifests[from]
  BY DEF Copy
<1>8. CheckLayer(t) =>
          \/ was.todo = {} /\ is.pc = "save" /\ is.art = was.art
          \/ \E d \in was.todo : /\ blobs[d] # "absent"
                                 /\ is.pc = "check" /\ is.art = was.art /\ is.todo = was.todo \ {d}
          \/ is = Idle
  <2> SUFFICES ASSUME CheckLayer(t)
               PROVE
          \/ was.todo = {} /\ is.pc = "save" /\ is.art = was.art
          \/ \E d \in was.todo : /\ blobs[d] # "absent"
                                 /\ is.pc = "check" /\ is.art = was.art /\ is.todo = was.todo \ {d}
          \/ is = Idle
    OBVIOUS
  <2>1. CASE was.todo = {} /\ task' = [task EXCEPT ![t].pc = "save"]
    BY <2>1
  <2>2. CASE \E d \in was.todo : blobs[d] # "absent" /\ task' = [task EXCEPT ![t].todo = @ \ {d}]
    <3> PICK d \in was.todo : blobs[d] # "absent" /\ task' = [task EXCEPT ![t].todo = @ \ {d}]
      BY <2>2, Zenon
    <3>1. was.pc = "check"
      BY DEF CheckLayer, At
    <3>2. is.pc = "check" /\ is.art = was.art /\ is.todo = was.todo \ {d}
      BY <3>1
    <3> QED BY <3>2
  <2>3. CASE task' = [task EXCEPT ![t] = Idle]
    BY <2>3
  <2> QED BY <2>1, <2>2, <2>3, SMTT(30), ZenonT(30) DEF CheckLayer
<1>9. LoadForSave(t) =>
          \/ disk # Torn /\ is.pc = "flush" /\ is.art = was.art /\ is.cat = Add(disk, was.art)
          \/ is = Idle
  <2> SUFFICES ASSUME LoadForSave(t)
               PROVE  \/ disk # Torn /\ is.pc = "flush" /\ is.art = was.art /\ is.cat = Add(disk, was.art)
                      \/ is = Idle
    OBVIOUS
  <2>1. CASE disk # Torn
    <3>1. task' = [task EXCEPT ![t] = [@ EXCEPT !.pc = "flush", !.cat = Add(disk, task[t].art)]]
      BY <2>1 DEF LoadForSave
    <3> QED BY <2>1, <3>1
  <2>2. CASE disk = Torn
    BY <2>2 DEF LoadForSave
  <2> QED BY <2>1, <2>2, SMTT(30), ZenonT(30)
<1>10. Truncate(t) => /\ is.pc = "write" /\ is.art = was.art /\ is.cat = was.cat /\ is.todo = was.todo
  BY DEF Truncate
<1>11. Write(t) =>
          \/ t # Pruner /\ is = Idle
          \/ t = Pruner /\ is.pc = "sweep" /\ is.art = was.art /\ is.todo = was.todo
  BY DEF Write
<1>12. WriteFails(t) => is = Idle
  BY DEF WriteFails
<1>13. \A id \in Id : Prune(t, id) => is.pc = "prune" /\ is.art = was.art
  BY DEF Prune
<1>14. PruneDone(t) => is = Idle
  BY SMTT(30), ZenonT(30) DEF PruneDone
<1>15. \A id \in Id : LoadForDel(t, id) =>
          \/ /\ disk # Torn /\ Has(disk, id) /\ is.pc = "flush" /\ is.cat = Del(disk, id)
             /\ is.art = [id |-> id, layers |-> disk.manifests[id]] /\ is.todo = disk.manifests[id]
          \/ is.pc = "prune" /\ is.art = was.art
          \/ is = Idle
  <2> SUFFICES ASSUME NEW id \in Id, LoadForDel(t, id)
               PROVE
          \/ /\ disk # Torn /\ Has(disk, id) /\ is.pc = "flush" /\ is.cat = Del(disk, id)
             /\ is.art = [id |-> id, layers |-> disk.manifests[id]] /\ is.todo = disk.manifests[id]
          \/ is.pc = "prune" /\ is.art = was.art
          \/ is = Idle
    OBVIOUS
  <2>1. CASE disk = Torn
    BY <2>1 DEF LoadForDel
  <2>2. CASE disk # Torn /\ ~Has(disk, id)
    <3>1. was.pc = "prune" /\ task' = [task EXCEPT ![t].victims = @ \ {id}]
      BY <2>2 DEF LoadForDel, At
    <3> QED BY <3>1
  <2>3. CASE disk # Torn /\ Has(disk, id)
    <3>1. task' = [task EXCEPT ![t] = [@ EXCEPT
                !.victims = task[t].victims \ {id}, !.pc = "flush", !.cat = Del(disk, id),
                !.art = [id |-> id, layers |-> disk.manifests[id]], !.todo = disk.manifests[id]]]
      BY <2>3 DEF LoadForDel
    <3> QED BY <2>3, <3>1
  <2> QED BY <2>1, <2>2, <2>3, ZenonT(30)
<1>16. \A d \in Digest : Sweep(t, d) =>
          \/ /\ disk # Torn /\ (disk.blob_counts[d] > 0 \/ blobs[d] = "absent")
             /\ is.pc = "sweep" /\ is.art = was.art /\ is.todo = was.todo \ {d}
          \/ /\ disk # Torn /\ disk.blob_counts[d] <= 0
             /\ is.pc = "remove" /\ is.art = was.art /\ is.todo = was.todo /\ is.layer = d
          \/ is = Idle
  <2> SUFFICES ASSUME NEW d \in Digest, Sweep(t, d)
               PROVE
          \/ /\ disk # Torn /\ (disk.blob_counts[d] > 0 \/ blobs[d] = "absent")
             /\ is.pc = "sweep" /\ is.art = was.art /\ is.todo = was.todo \ {d}
          \/ /\ disk # Torn /\ disk.blob_counts[d] <= 0
             /\ is.pc = "remove" /\ is.art = was.art /\ is.todo = was.todo /\ is.layer = d
          \/ is = Idle
    OBVIOUS
  <2>1. CASE disk = Torn
    BY <2>1 DEF Sweep
  <2>2. CASE /\ disk # Torn /\ (disk.blob_counts[d] > 0 \/ blobs[d] = "absent")
             /\ task' = [task EXCEPT ![t].todo = @ \ {d}]
    <3>1. was.pc = "sweep"
      BY DEF Sweep, At
    <3> QED BY <2>2, <3>1
  <2>3. CASE /\ disk # Torn /\ disk.blob_counts[d] <= 0
             /\ task' = [task EXCEPT ![t] = [@ EXCEPT !.pc = "remove", !.layer = d]]
    BY <2>3
  <2> QED BY <2>1, <2>2, <2>3, SMTT(30), ZenonT(30) DEF Sweep
<1>17. RemoveBlob(t) => is.pc = "sweep" /\ is.art = was.art /\ is.todo = was.todo \ {was.layer}
  BY DEF RemoveBlob
<1>18. SweepDone(t) => is.pc = "prune" /\ is.art = was.art
  BY DEF SweepDone
<1>19. PruneAll(t) => is.pc = "wipe"
  BY DEF PruneAll
<1>20. Wipe(t) => is = was \/ is = Idle
  BY DEF Wipe
<1> QED BY <1>1, <1>2, <1>3, <1>4, <1>5, <1>6, <1>7, <1>8, <1>9, <1>10, <1>11, <1>12, <1>13, <1>14, <1>15, <1>16, <1>17, <1>18, <1>19, <1>20, ZenonT(30) DEF Moves
-----------------------------------------------------------------------------
(* Blobs and manifests                                                      *)

(* A catalog that save or del is about to write names no missing blob if    *)
(* the one it was made from does not.                                      *)
LEMMA CatalogsComplete ==
    ASSUME NEW c \in Catalog, Complete(c)
    PROVE  /\ \A a \in Artifact : Present(a.layers) => Complete(Add(c, a))
           /\ \A id \in Id : Complete(Del(c, id))
<1>1. ASSUME NEW a \in Artifact, Present(a.layers) PROVE Complete(Add(c, a))
  <2> SUFFICES ASSUME NEW i \in Id, Has(Add(c, a), i) PROVE Present(Add(c, a).manifests[i])
    BY DEF Complete
  <2>1. CASE i = a.id
    BY <1>1, <2>1 DEF Add, Catalog
  <2>2. CASE i # a.id
    <3>1. Add(c, a).manifests[i] = c.manifests[i] /\ Has(c, i)
      BY <2>2 DEF Add, Catalog, Has
    <3> QED BY <3>1 DEF Complete
  <2> QED BY <2>1, <2>2
<1>2. ASSUME NEW id \in Id PROVE Complete(Del(c, id))
  <2> SUFFICES ASSUME NEW i \in Id, Has(Del(c, id), i) PROVE Present(Del(c, id).manifests[i])
    BY DEF Complete
  <2>1. Del(c, id).manifests[i] = c.manifests[i] /\ Has(c, i)
    BY DEF Del, Catalog, Has
  <2> QED BY <2>1 DEF Complete
<1> QED BY <1>1, <1>2

(* Builds and prunes keep taking turns unless overlapped says otherwise.    *)
LEMMA TurnsStep ==
    ASSUME TypeOK, Roles, Backed, ~overlapped', NEW t \in Task, Continue(t) \/ WriteFails(t) \/ Call(t)
    PROVE  ~overlapped /\ Turns'
           /\ (t = Pruner => \A u \in Task \ {t} : task[u].pc = "idle" /\ task'[u].pc = "idle")
           /\ (t # Pruner => task[Pruner].pc = "idle" /\ task'[Pruner].pc = "idle")
<1> USE TaskAssumption DEF At
<1>1. task \in [Task -> Locals] /\ overlapped \in BOOLEAN
  BY DEF TypeOK
<1>2. \A u \in Task \ {t} : task'[u] = task[u]
  BY Frame
<1>3. Task = Builder \cup {Pruner} /\ Pruner \notin Builder
  BY DEF Task
<1>4. CASE Call(t)
  <2>1. Begin(t)
    BY <1>4, Zenon DEF Call, Store, Read, Copy, PruneAll, Prune
  <2>2. ~overlapped /\ ~\E u \in Task : task[u].pc # "idle" /\ (t = Pruner \/ u = Pruner)
    BY <2>1, Zenon DEF Begin
  <2> QED BY <1>2, <1>3, <2>2, SMTT(30), ZenonT(30) DEF Turns
<1>5. CASE Continue(t) \/ WriteFails(t)
  <2>1. overlapped' = overlapped
    BY <1>5, ZenonT(30)
    DEF Continue, WriteFails, CopyBlob, FinishLayer, EndRead, Save, CheckLayer, LoadForSave, Truncate, Write,
        LoadForDel, Sweep, RemoveBlob, SweepDone, PruneDone, Wipe, history
  <2>2. task[t].pc # "idle"
    BY <1>5, Zenon
    DEF Continue, WriteFails, CopyBlob, FinishLayer, EndRead, Save, CheckLayer, LoadForSave, Truncate, Write,
        LoadForDel, Sweep, RemoveBlob, SweepDone, PruneDone, Wipe
  <2>3. Turns /\ ~overlapped
    BY <2>1, SMTT(30), ZenonT(30) DEF Backed
  <2> QED BY <1>2, <1>3, <2>2, <2>3 DEF Turns
<1> QED BY <1>4, <1>5

(* A step of a build: blobs come and do not go, and what a save writes has   *)
(* been checked since.                                                     *)
LEMMA BackedBuild ==
    ASSUME TypeOK, Roles, Roles', Backed, NEW t \in Task \ {Pruner}, Continue(t) \/ WriteFails(t) \/ Call(t)
    PROVE  Backed'
<1> SUFFICES ASSUME ~overlapped' PROVE Backed'
  BY DEF Backed
<1> USE TaskAssumption DEF At
<1>1. task \in [Task -> Locals] /\ t \in Task /\ blobs \in [Digest -> {"absent", "partial", "whole"}]
  BY DEF TypeOK
<1>2. ~overlapped /\ Turns'
  BY TurnsStep
<1>3. Moves(t) /\ \A u \in Task \ {t} : task'[u] = task[u]
  BY <1>1, Frame, MovesHold, SMTT(30), ZenonT(30)
<1>4. \A u \in Task : task'[u].pc \notin {"remove", "wipe"}
  <2>1. task'[Pruner].pc = "idle"
    BY TurnsStep
  <2> QED BY <2>1 DEF Roles
<1>5. Idle.pc = "idle"
  BY DEF Idle
<1> DEFINE Grow == \A d \in Digest : blobs[d] # "absent" => blobs'[d] # "absent"
           Kept(L) == \A d \in L : blobs'[d] # "absent"
           Whole(c) == \A i \in Id : Has(c, i) => Kept(c.manifests[i])
<1>6. ASSUME Grow, NEW c \in Catalog, Complete(c) PROVE Whole(c)
  BY <1>6 DEF Complete, Present, Catalog, Manifest
<1>7. ASSUME Grow, NEW L \in SUBSET Digest, Present(L) PROVE Kept(L)
  BY <1>7, SMTT(30), ZenonT(30) DEF Present
(* What is left to show of a step of t.                                     *)
<1>8. ASSUME Grow,
             disk' # Torn => Whole(disk'),
             task'[t].pc = "check" => Kept(task'[t].art.layers \ task'[t].todo),
             task'[t].pc = "save" => Kept(task'[t].art.layers),
             task'[t].pc \in {"flush", "write"} => Whole(task'[t].cat)
      PROVE  Backed'
  <2>1. ASSUME NEW u \in Task \ {t}
        PROVE  /\ task'[u].pc = "check" => Kept(task'[u].art.layers \ task'[u].todo)
               /\ task'[u].pc = "save" => Kept(task'[u].art.layers)
               /\ task'[u].pc \in {"flush", "write"} => Whole(task'[u].cat)
    <3>1. /\ task[u].pc \in {"check", "save"} => task[u].art.layers \in SUBSET Digest
          /\ task[u].pc \in {"flush", "write"} => task[u].cat \in Catalog
      BY SMTT(30), ZenonT(30) DEF Roles, Artifact, Manifest
    <3>2. /\ task[u].pc = "check" => Present(task[u].art.layers \ task[u].todo)
          /\ task[u].pc = "save" => Present(task[u].art.layers)
          /\ task[u].pc \in {"flush", "write"} => Complete(task[u].cat)
      BY <1>2, SMTT(30), ZenonT(30) DEF Backed
    <3> HIDE DEF Grow, Kept, Whole
    <3> QED BY <1>3, <1>6, <1>7, <1>8, <3>1, <3>2, ZenonT(30)
  <2>2. disk' # Torn => Complete(disk)'
    BY <1>8, SMTT(30), ZenonT(30) DEF Complete, Present
  <2>3. ASSUME NEW u \in Task
        PROVE /\ task'[u].pc = "check" => Present(task[u].art.layers \ task[u].todo)'
              /\ task'[u].pc = "save" => Present(task[u].art.layers)'
              /\ task'[u].pc \in {"flush", "write"} => Complete(task[u].cat)'
    BY <1>8, <2>1 DEF Complete, Present
  <2> QED BY <1>2, <1>4, <2>2, <2>3, SMTT(30), ZenonT(30) DEF Backed
<1>9. ASSUME disk' = disk, Grow PROVE disk' # Torn => Whole(disk')
  <2>1. disk # Torn => disk \in Catalog /\ Complete(disk)
    BY <1>2 DEF Backed, TypeOK
  <2> HIDE DEF Grow, Whole
  <2> QED BY <1>6, <1>9, <2>1, SMTT(30), ZenonT(30)
<1>10. ASSUME blobs' = blobs PROVE Grow
  BY <1>10, SMTT(30), ZenonT(30)
<1> HIDE DEF Grow, Kept, Whole
<1> USE <1>8
<1>11. CASE \E d \in Digest : CopyBlob(t, d)
  <2> PICK d \in Digest : CopyBlob(t, d)
    BY <1>11
  <2>1. Grow /\ disk' = disk
    BY <1>1 DEF CopyBlob, Grow
  <2>2. task'[t].pc = "copying" \/ task'[t] = Idle
    BY <1>3, Zenon DEF Moves
  <2> QED BY <1>5, <1>9, <2>1, <2>2, SMTT(30), ZenonT(30)
<1>12. CASE FinishLayer(t)
  <2>1. Grow /\ disk' = disk
    BY <1>1, <1>12 DEF FinishLayer, Grow
  <2>2. task'[t].pc = "layer"
    BY <1>3, <1>12, Zenon DEF Moves
  <2> QED BY <1>9, <2>1, <2>2
<1>13. CASE \/ EndRead(t) \/ WriteFails(t) \/ (\E a \in Output : Store(t, a)) \/ (\E d \in Digest : Read(t, d))
  <2>1. Grow /\ disk' = disk
    BY <1>10, <1>13, Zenon DEF EndRead, WriteFails, Store, Read, store
  <2>2. task'[t].pc \in {"layer", "reading", "idle"}
    BY <1>3, <1>5, <1>13, Zenon DEF Moves
  <2> QED BY <1>9, <2>1, <2>2, SMTT(30), ZenonT(30)
<1>14. CASE Save(t) \/ \E from, to \in Id : Copy(t, from, to)
  <2>1. Grow /\ disk' = disk
    BY <1>10, <1>14, Zenon DEF Save, Copy, store
  <2>2. task'[t].pc = "check" /\ task'[t].todo = task'[t].art.layers
    <3>1. CASE Save(t)
      BY <1>3, <3>1, Zenon DEF Moves
    <3>2. CASE \E from, to \in Id : Copy(t, from, to)
      <4> PICK from \in Id, to \in Id : Copy(t, from, to)
        BY <3>2
      <4>1. /\ task'[t].pc = "check" /\ task'[t].todo = disk.manifests[from]
            /\ task'[t].art = [id |-> to, layers |-> disk.manifests[from]]
        BY <1>3, Zenon DEF Moves
      <4> QED BY <4>1, SMTT(30), ZenonT(30)
    <3> QED BY <1>14, <3>1, <3>2
  <2>3. Kept(task'[t].art.layers \ task'[t].todo)
    BY <2>2 DEF Kept
  <2> QED BY <1>9, <2>1, <2>2, <2>3, SMTT(30), ZenonT(30)
<1>15. CASE CheckLayer(t)
  <2>1. Grow /\ disk' = disk /\ blobs' = blobs
    BY <1>10, <1>15, SMTT(30), ZenonT(30) DEF CheckLayer, store
  <2>2. task[t].art.layers \in SUBSET Digest /\ Present(task[t].art.layers \ task[t].todo)
    BY <1>2, <1>15, SMTT(30), ZenonT(30) DEF CheckLayer, Backed, Roles, Artifact, Manifest
  <2>3. CASE task[t].todo = {} /\ task'[t].pc = "save" /\ task'[t].art = task[t].art
    <3>1. Kept(task'[t].art.layers)
      BY <2>1, <2>2, <2>3, SMTT(30), ZenonT(30) DEF Kept, Present
    <3> QED BY <1>9, <2>1, <2>3, <3>1, SMTT(30), ZenonT(30)
  <2>4. CASE \E d \in task[t].todo : /\ blobs[d] # "absent" /\ task'[t].pc = "check"
                                     /\ task'[t].art = task[t].art /\ task'[t].todo = task[t].todo \ {d}
    <3>1. Kept(task'[t].art.layers \ task'[t].todo)
      BY <2>1, <2>2, <2>4, SMTT(30), ZenonT(30) DEF Kept, Present
    <3> QED BY <1>9, <2>1, <2>4, <3>1, SMTT(30), ZenonT(30)
  <2>5. CASE task'[t] = Idle
    BY <1>5, <1>9, <2>1, <2>5
  <2> QED BY <1>3, <1>15, <2>3, <2>4, <2>5, Zenon DEF Moves
<1>16. CASE LoadForSave(t)
  <2>1. Grow /\ disk' = disk /\ blobs' = blobs
    BY <1>10, <1>16, SMTT(30), ZenonT(30) DEF LoadForSave, store
  <2>2. CASE disk # Torn /\ task'[t].pc = "flush" /\ task'[t].cat = Add(disk, task[t].art)
    <3>1. disk \in Catalog /\ Complete(disk) /\ task[t].art \in Artifact /\ Present(task[t].art.layers)
      BY <1>2, <1>16, <2>2, Zenon DEF LoadForSave, Backed, Roles, TypeOK
    <3>2. Complete(Add(disk, task[t].art)) /\ Add(disk, task[t].art) \in Catalog
      BY <3>1, CatalogsComplete, CatalogTypes, SMTT(30), ZenonT(30)
    <3> QED BY <1>6, <1>9, <2>1, <2>2, <3>2
  <2>3. CASE task'[t] = Idle
    BY <1>5, <1>9, <2>1, <2>3
  <2> QED BY <1>3, <1>16, <2>2, <2>3, Zenon DEF Moves
<1>17. CASE Truncate(t)
  <2>1. Grow /\ disk' = Torn
    BY <1>10, <1>17 DEF Truncate
  <2>2. task'[t].pc = "write" /\ task'[t].cat = task[t].cat
    BY <1>3, <1>17, ZenonT(30) DEF Moves
  <2>3. Complete(task[t].cat) /\ task[t].cat \in Catalog
    BY <1>2, <1>17, ZenonT(30) DEF Truncate, Backed, Roles
  <2> QED BY <1>6, <2>1, <2>2, <2>3, SMTT(30), ZenonT(30)
<1>18. CASE Write(t)
  <2>1. Grow /\ disk' = task[t].cat
    BY <1>10, <1>18 DEF Write
  <2>2. task'[t] = Idle
    BY <1>3, <1>18, ZenonT(30) DEF Moves
  <2>3. Complete(task[t].cat) /\ task[t].cat \in Catalog
    BY <1>1, <1>2, <1>18, Zenon DEF Write, Backed, Roles
  <2> QED BY <1>5, <1>6, <2>1, <2>2, <2>3, SMTT(30), ZenonT(30)
<1> QED
  <2>1. task[t].pc \notin {"prune", "sweep", "remove", "wipe"}
    BY SMTT(30), ZenonT(30) DEF Roles
  <2>2. /\ ~RemoveBlob(t) /\ ~Wipe(t) /\ (\A d \in Digest : ~Sweep(t, d))
        /\ (\A id \in Id : ~LoadForDel(t, id)) /\ ~SweepDone(t) /\ ~PruneDone(t)
    BY <2>1, ZenonT(30) DEF RemoveBlob, Wipe, Sweep, LoadForDel, SweepDone, PruneDone
  <2> QED BY <1>11, <1>12, <1>13, <1>14, <1>15, <1>16, <1>17, <1>18, <2>2, ZenonT(30) DEF Continue, Call

(* Only copying makes a blob partial, and the last of its copies makes it    *)
(* whole.                                                                  *)
LEMMA WrittenStep == TypeOK /\ Roles /\ Written /\ [Next]_vars => Written'
<1> SUFFICES ASSUME TypeOK, Roles, Written, [Next]_vars, crashes' = 0,
                    NEW e \in Digest, blobs'[e] = "partial"
             PROVE  Copying(e)' # {}
  BY DEF Written
<1> USE TaskAssumption DEF At
<1>1. ASSUME NEW t \in Task, Continue(t) \/ WriteFails(t) \/ Call(t) PROVE Copying(e)' # {}
  <2>1. task \in [Task -> Locals] /\ blobs \in [Digest -> {"absent", "partial", "whole"}] /\ crashes \in Nat
    BY BoundAssumption DEF TypeOK
  <2>2. Moves(t) /\ \A u \in Task \ {t} : task'[u] = task[u]
    BY <1>1, <2>1, Frame, MovesHold
  <2>3. \A u \in Task \ {t} : u \in Copying(e) => u \in Copying(e)'
    BY <2>2 DEF Copying
  <2>4. ASSUME crashes' = crashes, blobs[e] = "partial" PROVE Copying(e) # {}
    BY <2>4 DEF Written
  <2>5. ASSUME crashes' = crashes, blobs[e] = "partial", t \notin Copying(e) PROVE Copying(e)' # {}
    <3>1. PICK u \in Task \ {t} : u \in Copying(e)
      BY <2>4, <2>5 DEF Copying
    <3> QED BY <2>3, <3>1
  <2>6. CASE \E d \in Digest : CopyBlob(t, d)
    <3> PICK d \in Digest : CopyBlob(t, d)
      BY <2>6
    <3>1. t \notin Copying(e) /\ crashes' = crashes
      BY DEF CopyBlob, Copying
    <3>2. CASE blobs' = [blobs EXCEPT ![d] = "partial"] /\ layer_dir
      <4>1. task' = [task EXCEPT ![t] = [@ EXCEPT !.pc = "copying", !.layer = d]]
        BY <3>2 DEF CopyBlob
      <4>2. task'[t].pc = "copying" /\ task'[t].layer = d
        BY <2>1, <4>1 DEF Locals
      <4>3. CASE e = d
        BY <4>2, <4>3 DEF Copying
      <4>4. CASE e # d
        <5>1. blobs[e] = "partial"
          BY <2>1, <3>2, <4>4
        <5> QED BY <2>5, <3>1, <5>1
      <4> QED BY <4>3, <4>4
    <3>3. CASE blobs' = blobs
      BY <2>5, <3>1, <3>3
    <3> QED BY <3>2, <3>3 DEF CopyBlob
  <2>7. CASE FinishLayer(t)
    <3> DEFINE d == task[t].layer
    <3>1. /\ blobs' = [blobs EXCEPT ![d] = IF @ = "partial" /\ Copying(d) = {t} THEN "whole" ELSE @]
          /\ crashes' = crashes /\ d \in Digest
      BY <2>7 DEF FinishLayer, Roles
    <3>2. blobs[e] = "partial" /\ Copying(e) # {}
      BY <2>1, <2>4, <3>1
    <3>3. Copying(e) # {t}
      <4>1. CASE e = d
        BY <2>1, <3>1, <3>2, <4>1
      <4>2. CASE e # d
        BY <4>2 DEF Copying
      <4> QED BY <4>1, <4>2
    <3>4. PICK u \in Task \ {t} : u \in Copying(e)
      BY <3>2, <3>3 DEF Copying
    <3> QED BY <2>3, <3>4
  <2>8. CASE ~FinishLayer(t) /\ ~\E d \in Digest : CopyBlob(t, d)
    <3>1. t \notin Copying(e)
      BY <1>1, <2>8, Zenon
      DEF Copying, Continue, Call, WriteFails, EndRead, Save, CheckLayer, LoadForSave, Truncate, Write,
          LoadForDel, Sweep, RemoveBlob, SweepDone, PruneDone, Wipe, Store, Read, Copy, PruneAll, Prune, Begin
    <3>2. ~WriteFails(t)
      BY <2>1, SMTT(30), ZenonT(30) DEF WriteFails
    <3>3. crashes' = crashes
      BY <1>1, <2>8, <3>2, Zenon
      DEF Continue, Call, EndRead, Save, CheckLayer, LoadForSave, Truncate, Write,
          LoadForDel, Sweep, RemoveBlob, SweepDone, PruneDone, Wipe, Store, Read, Copy, PruneAll, Prune
    <3>4. CASE RemoveBlob(t) \/ Wipe(t)
      <4>1. \/ blobs' = blobs
            \/ \E d \in Digest : blobs' = [blobs EXCEPT ![d] = "absent"]
        BY <3>4 DEF RemoveBlob, Wipe, Roles
      <4>2. blobs[e] = "partial"
        BY <2>1, <4>1
      <4> QED BY <2>5, <3>1, <3>3, <4>2
    <3>5. CASE ~RemoveBlob(t) /\ ~Wipe(t)
      <4>1. blobs' = blobs
        BY <1>1, <2>8, <3>2, <3>5, ZenonT(30)
        DEF Continue, Call, EndRead, Save, CheckLayer, LoadForSave, Truncate, Write,
            LoadForDel, Sweep, SweepDone, PruneDone, Store, Read, Copy, PruneAll, Prune, store
      <4> QED BY <2>5, <3>1, <3>3, <4>1, SMTT(30), ZenonT(30)
    <3> QED BY <3>4, <3>5, SMTT(30), ZenonT(30)
  <2> QED BY <2>6, <2>7, <2>8
<1>2. CASE Crash
  BY <1>2, BoundAssumption DEF Crash, TypeOK
<1>3. CASE NextCommand
  <2>1. Copying(e) = {} /\ blobs' = blobs /\ crashes' = crashes
    BY <1>3 DEF NextCommand, Restart, Copying
  <2> QED BY <2>1 DEF Written
<1>4. CASE UNCHANGED vars
  BY <1>4, SMTT(30), ZenonT(30) DEF vars, store, Written, Copying
<1> QED BY <1>1, <1>2, <1>3, <1>4 DEF Next
=============================================================================
