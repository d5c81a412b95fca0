-------------------------- MODULE LocalStoreProofs --------------------------
(***************************************************************************)
(* The safety of LocalStore for every number of tasks, ids, blobs,         *)
(* operations and crashes: what is recorded, what the pruner leaves, and   *)
(* the theorems that follow from the inductive invariant.                  *)
(***************************************************************************)
EXTENDS LocalStoreInvariant, FiniteSetTheorems

(* The counts                                                               *)

(* The manifests that use a blob are finitely many.                         *)
LEMMA RefsFinite ==
    ASSUME NEW c, NEW d
    PROVE  IsFiniteSet(Refs(c, d)) /\ Cardinality(Refs(c, d)) \in Nat
BY CatalogAssumption, FS_Subset, FS_CardinalityType DEF Refs

(* Catalog::add keeps the counts sound, and exact unless the id is already  *)
(* there.                                                                  *)
LEMMA AddSound ==
    ASSUME NEW c \in Catalog, NEW a \in Artifact, NEW again \in BOOLEAN, Sound(c, again)
    PROVE  Sound(Add(c, a), again \/ Has(c, a.id))
<1> SUFFICES ASSUME NEW d \in Digest
             PROVE  /\ Add(c, a).blob_counts[d] >= Cardinality(Refs(Add(c, a), d))
                    /\ ~(again \/ Has(c, a.id))
                          => Add(c, a).blob_counts[d] = Cardinality(Refs(Add(c, a), d))
  BY DEF Sound
<1> DEFINE old == Refs(c, d)
           new == Refs(Add(c, a), d)
<1>1. /\ a.id \in Id /\ a.layers \subseteq Digest
      /\ c.blob_counts[d] \in Int
      /\ c.blob_counts[d] >= Cardinality(old)
      /\ ~again => c.blob_counts[d] = Cardinality(old)
  BY DEF Sound, Artifact, Manifest, Catalog
<1>2. Add(c, a).blob_counts[d] = c.blob_counts[d] + (IF d \in a.layers THEN 1 ELSE 0)
  BY DEF Add
<1>3. \A i \in Id : i \in new <=> IF i = a.id THEN d \in a.layers ELSE i \in old
  BY <1>1 DEF Refs, Has, Add, Catalog
<1>4. ~Has(c, a.id) => a.id \notin old
  BY DEF Refs
<1>5. new \subseteq Id /\ old \subseteq Id
  BY DEF Refs
<1>6. IsFiniteSet(old) /\ Cardinality(old) \in Nat /\ Cardinality(new) \in Nat
  BY RefsFinite
<1>7. CASE d \in a.layers
  <2>1. new = old \cup {a.id}
    BY <1>1, <1>3, <1>5, <1>7
  <2>2. Cardinality(old \cup {a.id}) = IF a.id \in old THEN Cardinality(old) ELSE Cardinality(old) + 1
    <3> HIDE DEF old
    <3> QED BY <1>6, FS_AddElement, Zenon
  <2> QED BY <1>1, <1>2, <1>4, <1>6, <1>7, <2>1, <2>2
<1>8. CASE d \notin a.layers
  <2>1. new \subseteq old /\ (a.id \notin old => new = old)
    BY <1>1, <1>3, <1>5, <1>8, SMTT(30), ZenonT(30)
  <2>2. Cardinality(new) <= Cardinality(old)
    BY <1>6, <2>1, FS_Subset
  <2> QED BY <1>1, <1>2, <1>4, <1>6, <1>8, <2>1, <2>2
<1> QED BY <1>7, <1>8

(* Catalog::del keeps the counts sound, and exact if they were.             *)
LEMMA DelSound ==
    ASSUME NEW c \in Catalog, NEW id \in Id, NEW again \in BOOLEAN, Sound(c, again), Has(c, id)
    PROVE  Sound(Del(c, id), again)
<1> SUFFICES ASSUME NEW d \in Digest
             PROVE  /\ Del(c, id).blob_counts[d] >= Cardinality(Refs(Del(c, id), d))
                    /\ ~again => Del(c, id).blob_counts[d] = Cardinality(Refs(Del(c, id), d))
  BY DEF Sound
<1> DEFINE old == Refs(c, d)
           new == Refs(Del(c, id), d)
<1>1. /\ c.blob_counts[d] \in Int
      /\ c.blob_counts[d] >= Cardinality(old)
      /\ ~again => c.blob_counts[d] = Cardinality(old)
  BY DEF Sound, Catalog
<1>2. new = old \ {id}
  BY DEF Refs, Has, Del, Catalog
<1>3. id \in old <=> d \in c.manifests[id]
  BY DEF Refs
<1>4. IsFiniteSet(old) /\ Cardinality(old) \in Nat /\ Cardinality(new) \in Nat
  BY RefsFinite
<1>5. Cardinality(new) = IF id \in old THEN Cardinality(old) - 1 ELSE Cardinality(old)
  <2> HIDE DEF old, new
  <2> QED BY <1>2, <1>4, FS_RemoveElement, Zenon
<1>6. Del(c, id).blob_counts[d] =
        IF d \in c.manifests[id]
        THEN IF c.blob_counts[d] > 1 THEN c.blob_counts[d] - 1 ELSE 0
        ELSE c.blob_counts[d]
  BY DEF Del
<1> QED BY <1>1, <1>3, <1>4, <1>5, <1>6

(* A count of zero says that no manifest uses the blob; with exact counts a *)
(* positive one says that some does.                                       *)
LEMMA CountsTell ==
    ASSUME NEW c \in Catalog, NEW again \in BOOLEAN, Sound(c, again), NEW d \in Digest
    PROVE  /\ c.blob_counts[d] <= 0 => Refs(c, d) = {}
           /\ ~again /\ c.blob_counts[d] > 0 => Refs(c, d) # {}
<1>1. /\ c.blob_counts[d] \in Int
      /\ c.blob_counts[d] >= Cardinality(Refs(c, d))
      /\ ~again => c.blob_counts[d] = Cardinality(Refs(c, d))
  BY DEF Sound, Catalog
<1>2. Cardinality(Refs(c, d)) \in Nat /\ (Cardinality(Refs(c, d)) = 0 <=> Refs(c, d) = {})
  BY RefsFinite, FS_EmptySet
<1> QED BY <1>1, <1>2

(* The new catalog counts nothing and needs to count nothing.               *)
LEMMA EmptySound == \A again \in BOOLEAN : Sound(Empty, again)
<1>1. \A d \in Digest : Empty.blob_counts[d] = 0 /\ Refs(Empty, d) = {}
  BY DEF Empty, Refs, Has
<1> QED BY <1>1, FS_EmptySet DEF Sound
-----------------------------------------------------------------------------
(* What is recorded                                                         *)

(* The ids on disk are those saved and not deleted since, and the counts    *)
(* are sound: nobody else writes between a load and the end of its rewrite. *)
LEMMA RecordedStep == TypeOK /\ Roles /\ Recorded /\ [Next]_vars => Recorded'
<1> SUFFICES ASSUME TypeOK, Roles, Recorded, [Next]_vars PROVE Recorded'
  OBVIOUS
<1> USE TaskAssumption DEF At, Idle
<1>1. ASSUME NEW t \in Task, Continue(t) \/ WriteFails(t) \/ Call(t) PROVE Recorded'
  <2>1. task \in [Task -> Locals] /\ kept \subseteq Id /\ resaved \in BOOLEAN
    BY DEF TypeOK
  <2>2. \A u \in Task \ {t} : task'[u] = task[u]
    BY <1>1, Frame
  <2>0. Moves(t)
    BY <2>1, MovesHold
  <2>3. ASSUME UNCHANGED <<disk, kept, resaved>>, task'[t].pc \notin {"flush", "write"} PROVE Recorded'
    BY <2>2, <2>3 DEF Recorded, Again
  <2>4. ASSUME UNCHANGED <<disk, kept, resaved>>,
               task'[t].cat.ids = IF t = Pruner THEN kept \ {task'[t].art.id} ELSE kept \cup {task'[t].art.id},
               Sound(task'[t].cat, Again(t)')
        PROVE  Recorded'
    <3>1. ASSUME NEW u \in Task \ {t}, task'[u].pc \in {"flush", "write"}
          PROVE  /\ task'[u].cat.ids = IF u = Pruner THEN kept' \ {task'[u].art.id} ELSE kept' \cup {task'[u].art.id}
                 /\ Sound(task'[u].cat, Again(u)')
      BY <2>2, <2>4, <3>1 DEF Recorded, Again
    <3>2. disk' # Torn => kept' = disk'.ids /\ Sound(disk', resaved')
      BY <2>4, SMTT(30), ZenonT(30) DEF Recorded
    <3> QED BY <2>4, <3>1, <3>2, SMTT(30), ZenonT(30) DEF Recorded
  <2>5. CASE LoadForSave(t)
    <3> DEFINE a == task[t].art
    <3>1. UNCHANGED <<disk, kept, resaved>> /\ t # Pruner /\ a \in Artifact
      BY <2>5 DEF LoadForSave, store, history, Roles
    <3>2. CASE disk # Torn /\ task'[t].art = a /\ task'[t].cat = Add(disk, a)
      <4>1. Add(disk, a).ids = kept \cup {a.id}
        BY <3>2 DEF Add, Recorded
      <4>2. disk \in Catalog /\ Sound(disk, resaved)
        BY <3>2 DEF Recorded, TypeOK
      <4>3. Sound(Add(disk, a), resaved \/ Has(disk, a.id))
        BY <2>1, <3>1, <4>2, AddSound
      <4>4. Has(disk, a.id) <=> a.id \in kept
        BY <3>2 DEF Has, Recorded
      <4>5. (resaved \/ Has(disk, a.id)) <=> Again(t)'
        BY <3>1, <3>2, <4>4 DEF Again
      <4>6. Sound(task'[t].cat, Again(t)')
        BY <3>2, <4>3, <4>5 DEF Sound
      <4> QED BY <2>4, <3>1, <3>2, <4>1, <4>6
    <3>3. CASE task'[t] = Idle
      BY <2>3, <3>1, <3>3
    <3> QED BY <2>5, <2>0, <3>2, <3>3, ZenonT(30) DEF Moves
  <2>6. CASE Truncate(t)
    <3>1. /\ task[t].pc = "flush" /\ task'[t].pc = "write" /\ disk' = Torn
          /\ task'[t].art = task[t].art /\ task'[t].cat = task[t].cat
          /\ UNCHANGED <<kept, resaved>>
      BY <2>0, <2>6, Zenon DEF Moves, Truncate, history
    <3> QED BY <2>2, <3>1, SMTT(30), ZenonT(30) DEF Recorded, Again
  <2>7. CASE Write(t)
    <3>1. \A u \in Task \ {t} : task[u].pc \notin {"flush", "write"}
      BY <2>7 DEF Write, Roles
    <3>2. task[t].pc = "write" /\ disk' = task[t].cat /\ task'[t].pc \notin {"flush", "write"}
      <4>1. task'[t] = Idle \/ task'[t].pc = "sweep"
        BY <2>0, <2>7, Zenon DEF Moves
      <4> QED BY <2>7, <4>1, SMTT(30), ZenonT(30) DEF Write
    <3>3. kept' = IF t = Pruner THEN kept \ {task[t].art.id} ELSE kept \cup {task[t].art.id}
      BY <2>7 DEF Write
    <3>4. resaved' <=> Again(t)
      <4>1. CASE t = Pruner
        BY <2>7, <4>1 DEF Write, Again
      <4>2. CASE t # Pruner
        BY <2>7, <4>2, Zenon DEF Write, Again
      <4> QED BY <4>1, <4>2
    <3>5. Sound(disk', resaved')
      BY <3>2, <3>4, Zenon DEF Recorded, Sound
    <3>6. kept' = disk'.ids
      BY <3>2, <3>3 DEF Recorded
    <3> QED BY <2>2, <3>1, <3>2, <3>5, <3>6 DEF Recorded
  <2>8. CASE \E id \in Id : LoadForDel(t, id)
    <3> PICK id \in Id : LoadForDel(t, id)
      BY <2>8
    <3>1. UNCHANGED <<disk, kept, resaved>> /\ t = Pruner
      BY DEF LoadForDel, store, history, Roles
    <3>2. CASE disk # Torn /\ Has(disk, id) /\ task'[t].art.id = id /\ task'[t].cat = Del(disk, id)
      <4>1. Del(disk, id).ids = kept \ {id}
        BY <3>2, SMTT(30), ZenonT(30) DEF Del, Recorded
      <4>2. disk \in Catalog /\ Sound(disk, resaved)
        BY <3>2 DEF Recorded, TypeOK
      <4>3. Sound(Del(disk, id), resaved)
        BY <2>1, <3>2, <4>2, DelSound
      <4>4. resaved <=> Again(t)'
        BY <3>1 DEF Again
      <4>5. Sound(task'[t].cat, Again(t)')
        BY <3>2, <4>3, <4>4 DEF Sound
      <4> QED BY <2>4, <3>1, <3>2, <4>1, <4>5, SMTT(30), ZenonT(30)
    <3>3. CASE task'[t].pc = "prune" \/ task'[t] = Idle
      BY <2>3, <3>1, <3>3
    <3>4. \/ /\ disk # Torn /\ Has(disk, id) /\ task'[t].cat = Del(disk, id)
             /\ task'[t].art = [id |-> id, layers |-> disk.manifests[id]]
          \/ task'[t].pc = "prune" \/ task'[t] = Idle
      BY <2>0, Zenon DEF Moves
    <3> QED BY <3>2, <3>3, <3>4
  <2>9. CASE PruneAll(t)
    <3>1. /\ disk' = Empty /\ kept' = {} /\ resaved' = resaved /\ task'[t].pc = "wipe"
          /\ \A u \in Task : task[u].pc \notin {"flush", "write"}
      <4>1. task'[t].pc = "wipe"
        BY <2>0, <2>9, Zenon DEF Moves
      <4> QED BY <2>9, <4>1 DEF PruneAll, WriteLock, LockFree, Roles
    <3>2. \A d \in Digest : Empty.blob_counts[d] = 0 /\ Refs(Empty, d) = {}
      BY DEF Empty, Refs, Has
    <3>3. Sound(Empty, resaved)
      BY <3>2, FS_EmptySet DEF Sound
    <3>4. Empty.ids = {}
      BY DEF Empty
    <3> QED BY <2>2, <3>1, <3>3, <3>4, SMTT(30), ZenonT(30) DEF Recorded
  <2>10. CASE \/ (\E d \in Digest : CopyBlob(t, d)) \/ FinishLayer(t) \/ EndRead(t) \/ Save(t) \/ CheckLayer(t)
              \/ (\E d \in Digest : Sweep(t, d)) \/ RemoveBlob(t) \/ SweepDone(t) \/ PruneDone(t) \/ Wipe(t)
              \/ WriteFails(t) \/ (\E a \in Output : Store(t, a)) \/ (\E d \in Digest : Read(t, d))
              \/ (\E from, to \in Id : Copy(t, from, to)) \/ (\E id \in Id : Prune(t, id))
    <3>1. UNCHANGED <<disk, kept, resaved>>
      BY <2>10, Zenon
      DEF CopyBlob, FinishLayer, EndRead, Save, CheckLayer, Sweep, RemoveBlob, SweepDone, PruneDone, Wipe,
          WriteFails, Store, Read, Copy, Prune, store, history
    <3>2. CASE Wipe(t)
      <4>1. task[t].pc = "wipe" /\ (task'[t] = task[t] \/ task'[t] = Idle)
        BY <2>0, <3>2, Zenon DEF Moves, Wipe
      <4> QED BY <2>3, <3>1, <4>1, SMTT(30), ZenonT(30)
    <3>3. CASE ~Wipe(t)
      <4>1. task'[t].pc \in {"copying", "idle", "layer", "check", "save", "sweep", "remove", "prune", "reading"}
        <5>1. Idle.pc = "idle"
          BY DEF Idle
        <5> HIDE DEF Idle
        <5> QED BY <2>0, <2>10, <3>3, <5>1, Zenon DEF Moves
      <4> QED BY <2>3, <3>1, <4>1
    <3> QED BY <3>2, <3>3, SMTT(30), ZenonT(30)
  <2> QED BY <1>1, <2>5, <2>6, <2>7, <2>8, <2>9, <2>10 DEF Continue, Call
<1>2. CASE Crash \/ NextCommand
  <2>1. UNCHANGED <<disk, kept, resaved>> /\ task' = [t \in Task |-> Idle]
    BY <1>2, SMTT(30), ZenonT(30) DEF Crash, NextCommand, Restart, history
  <2> QED BY <2>1, SMTT(30), ZenonT(30) DEF Recorded
<1>3. CASE UNCHANGED vars
  BY <1>3 DEF vars, store, history, Recorded, Again
<1> QED BY <1>1, <1>2, <1>3 DEF Next
-----------------------------------------------------------------------------
(* The blobs under a prune                                                  *)

(* A step of the pruner, the builders idle: it removes a blob that no        *)
(* manifest uses, or all blobs once the catalog is gone.                   *)
LEMMA BackedPrune ==
    ASSUME TypeOK, Roles, Roles', Recorded, Backed, NEW t \in Task, t = Pruner,
           Continue(t) \/ WriteFails(t) \/ Call(t)
    PROVE  Backed'
<1> SUFFICES ASSUME ~overlapped' PROVE Backed'
  BY DEF Backed
<1> USE TaskAssumption DEF At
<1>1. task \in [Task -> Locals] /\ blobs \in [Digest -> {"absent", "partial", "whole"}]
  BY DEF TypeOK
<1>2. ~overlapped /\ Turns' /\ \A u \in Task \ {t} : task'[u].pc = "idle"
  BY TurnsStep
<1>3. Moves(t)
  BY <1>1, MovesHold
<1>4. Idle.pc = "idle"
  BY DEF Idle
<1>5. task[t].pc \notin {"check", "save"} /\ task'[t].pc \notin {"check", "save"}
  BY DEF Roles
(* What is left to show of a step of t.                                     *)
<1> DEFINE Whole(c) == \A i \in Id : Has(c, i) => \A d \in c.manifests[i] : blobs'[d] # "absent"
<1>6. ASSUME disk' # Torn => Whole(disk'),
             task'[t].pc \in {"flush", "write"} => Whole(task'[t].cat),
             task'[t].pc = "remove" /\ disk' # Torn => Refs(disk', task'[t].layer) = {},
             task'[t].pc = "wipe" => disk' = Empty
      PROVE  Backed'
  BY <1>2, <1>5, <1>6 DEF Backed, Complete, Present
<1>7. ASSUME blobs' = blobs, NEW c, Complete(c) PROVE Whole(c)
  BY <1>7 DEF Complete, Present
<1>8. ASSUME blobs' = blobs, disk' = disk PROVE disk' # Torn => Whole(disk')
  <2>1. disk # Torn => Complete(disk)
    BY <1>2 DEF Backed
  <2> HIDE DEF Whole
  <2> QED BY <1>7, <1>8, <2>1
<1>9. Whole(Empty)
  BY DEF Empty, Has
<1>10. disk # Torn => disk \in Catalog
  BY DEF TypeOK
<1> HIDE DEF Whole
<1> USE <1>6
<1>11. CASE PruneAll(t)
  <2>1. disk' = Empty /\ task'[t].pc = "wipe"
    BY <1>3, <1>11, Zenon DEF PruneAll, Moves
  <2> QED BY <1>9, <2>1
<1>12. CASE (\E id \in Id : Prune(t, id)) \/ SweepDone(t) \/ PruneDone(t) \/ WriteFails(t)
  <2>1. blobs' = blobs /\ disk' = disk
    BY <1>12, Zenon DEF Prune, SweepDone, PruneDone, WriteFails, store
  <2>2. task'[t].pc \in {"prune", "idle"}
    BY <1>3, <1>4, <1>12, Zenon DEF Moves
  <2> QED BY <1>8, <2>1, <2>2, SMTT(30), ZenonT(30)
<1>13. CASE \E id \in Id : LoadForDel(t, id)
  <2> PICK id \in Id : LoadForDel(t, id)
    BY <1>13
  <2>1. blobs' = blobs /\ disk' = disk
    BY DEF LoadForDel, store
  <2>2. CASE disk # Torn /\ task'[t].pc = "flush" /\ task'[t].cat = Del(disk, id)
    <3>1. Complete(Del(disk, id))
      BY <1>2, <1>10, <2>2, CatalogsComplete, ZenonT(30) DEF Backed
    <3> QED BY <1>7, <1>8, <2>1, <2>2, <3>1, SMTT(30), ZenonT(30)
  <2>3. CASE task'[t].pc \in {"prune", "idle"}
    BY <1>8, <2>1, <2>3
  <2> QED BY <1>3, <1>4, <2>2, <2>3, Zenon DEF Moves
<1>14. CASE Truncate(t)
  <2>1. blobs' = blobs /\ disk' = Torn /\ Complete(task[t].cat)
    BY <1>2, <1>14, Zenon DEF Truncate, Backed
  <2>2. task'[t].pc = "write" /\ task'[t].cat = task[t].cat
    BY <1>3, <1>14, Zenon DEF Moves
  <2> QED BY <1>7, <2>1, <2>2
<1>15. CASE Write(t)
  <2>1. blobs' = blobs /\ disk' = task[t].cat /\ Complete(task[t].cat)
    BY <1>2, <1>15, Zenon DEF Write, Backed
  <2>2. task'[t].pc = "sweep"
    BY <1>3, <1>15, Zenon DEF Moves
  <2> QED BY <1>7, <2>1, <2>2
<1>16. CASE \E d \in Digest : Sweep(t, d)
  <2> PICK d \in Digest : Sweep(t, d)
    BY <1>16
  <2>1. blobs' = blobs /\ disk' = disk
    BY DEF Sweep, store
  <2>2. CASE task'[t].pc \in {"sweep", "idle"}
    BY <1>8, <2>1, <2>2
  <2>3. CASE disk # Torn /\ disk.blob_counts[d] <= 0 /\ task'[t].pc = "remove" /\ task'[t].layer = d
    <3>1. Sound(disk, resaved) /\ resaved \in BOOLEAN
      BY <2>3 DEF Recorded, TypeOK
    <3>2. Refs(disk, d) = {}
      BY <1>10, <2>3, <3>1, CountsTell
    <3> QED BY <1>8, <2>1, <2>3, <3>2
  <2> QED BY <1>3, <1>4, <2>2, <2>3, Zenon DEF Moves
<1>17. CASE RemoveBlob(t)
  <2>1. /\ task[t].pc = "remove" /\ disk' = disk
        /\ blobs' = [blobs EXCEPT ![task[t].layer] = "absent"]
    BY <1>17 DEF RemoveBlob
  <2>2. task'[t].pc = "sweep"
    BY <1>3, <1>17, Zenon DEF Moves
  <2>3. CASE disk # Torn
    <3>1. Refs(disk, task[t].layer) = {} /\ Complete(disk) /\ disk \in Catalog
      BY <1>2, <1>10, <2>1, <2>3, Zenon DEF Backed
    <3>2. ASSUME NEW i \in Id, Has(disk, i), NEW d \in disk.manifests[i] PROVE blobs'[d] # "absent"
      <4>1. d # task[t].layer
        BY <3>1, <3>2 DEF Refs
      <4>2. d \in Digest /\ blobs[d] # "absent"
        BY <3>1, <3>2 DEF Complete, Present, Catalog, Manifest
      <4> QED BY <1>1, <2>1, <4>1, <4>2, SMTT(30), ZenonT(30)
    <3>3. Whole(disk')
      BY <2>1, <3>2 DEF Whole
    <3> QED BY <2>2, <3>3
  <2> QED BY <2>1, <2>2, <2>3
<1>18. CASE Wipe(t)
  <2>1. disk' = Empty
    BY <1>2, <1>18, Zenon DEF Wipe, Backed
  <2>2. task[t].pc = "wipe" /\ (task'[t] = task[t] \/ task'[t] = Idle)
    BY <1>3, <1>18, Zenon DEF Moves, Wipe
  <2> QED BY <1>4, <1>9, <2>1, <2>2
<1> QED
  <2>1. task[t].pc \notin {"layer", "copying", "reading", "check", "save"} /\ t \notin Builder
    BY SMTT(30), ZenonT(30) DEF Roles
  <2>2. /\ (\A d \in Digest : ~CopyBlob(t, d)) /\ ~FinishLayer(t) /\ ~EndRead(t) /\ ~Save(t)
        /\ ~CheckLayer(t) /\ ~LoadForSave(t)
    BY <2>1, Zenon DEF CopyBlob, FinishLayer, EndRead, Save, CheckLayer, LoadForSave
  <2> QED BY <1>11, <1>12, <1>13, <1>14, <1>15, <1>16, <1>17, <1>18, <2>1, <2>2, SMTT(30), ZenonT(30) DEF Continue, Call

(* Together, with the steps that end a process.                             *)
LEMMA BackedStep == TypeOK /\ Roles /\ Roles' /\ Recorded /\ Backed /\ [Next]_vars => Backed'
<1> SUFFICES ASSUME TypeOK, Roles, Roles', Recorded, Backed, [Next]_vars PROVE Backed'
  OBVIOUS
<1>1. ASSUME NEW t \in Task, Continue(t) \/ WriteFails(t) \/ Call(t) PROVE Backed'
  BY <1>1, BackedBuild, BackedPrune
<1>2. CASE Crash \/ NextCommand
  <2>1. UNCHANGED <<disk, blobs, overlapped>> /\ task' = [t \in Task |-> Idle] /\ Pruner \in Task /\ Builder \subseteq Task
    BY <1>2 DEF Crash, NextCommand, Restart, history, Task
  <2>2. \A t \in Task : task'[t].pc = "idle"
    BY <2>1 DEF Idle
  <2> QED BY <2>1, <2>2 DEF Backed, Turns, Complete, Present
<1>3. CASE UNCHANGED vars
  BY <1>3 DEF vars, store, history, Backed, Turns, Complete, Present
<1> QED BY <1>1, <1>2, <1>3 DEF Next
-----------------------------------------------------------------------------
(* What a prune leaves                                                      *)

(* A step of the pruner: a layer is off its list once its blob is gone or    *)
(* another manifest uses it.                                               *)
LEMMA SweptPrune ==
    ASSUME TypeOK, Roles, Recorded, Swept, ~overlapped, ~overlapped', ~resaved, ~resaved',
           NEW t \in Task, t = Pruner, Continue(t) \/ WriteFails(t) \/ Call(t)
    PROVE  Swept'
<1> USE TaskAssumption DEF At
<1>1. task \in [Task -> Locals] /\ blobs \in [Digest -> {"absent", "partial", "whole"}]
  BY DEF TypeOK
<1>2. Moves(t)
  BY <1>1, MovesHold
<1>3. Idle.pc = "idle" /\ Idle.art = None
  BY SMTT(30), ZenonT(30) DEF Idle
<1> DEFINE Off(L) == disk' # Torn => \A d \in L : blobs'[d] = "absent" \/ Refs(disk', d) # {}
           was == task[t]
           is == task'[t]
<1>4. ASSUME is.pc = "idle" => is.art = None,
             is.pc \in {"flush", "write"} => is.todo = is.art.layers,
             is.pc \in {"sweep", "remove"} => Off(is.art.layers \ is.todo),
             is.pc = "prune" /\ is.art # None => Off(is.art.layers)
      PROVE  Swept'
  BY <1>4 DEF Swept, Gone
<1>5. ASSUME disk' = disk, blobs' = blobs, NEW L, Gone(L) PROVE Off(L)
  BY <1>5 DEF Gone
<1> HIDE DEF Off
<1> USE <1>4
<1>6. CASE PruneAll(t)
  <2>1. is.pc = "wipe"
    BY <1>2, <1>6, Zenon DEF Moves
  <2> QED BY <2>1
<1>7. CASE \E id \in Id : Prune(t, id)
  <2>1. was.pc = "idle" /\ was.art = None
    BY <1>7 DEF Prune, Begin, Swept
  <2>2. is.pc = "prune" /\ is.art = was.art
    BY <1>2, <1>7, Zenon DEF Moves
  <2> QED BY <2>1, <2>2
<1>8. CASE PruneDone(t) \/ WriteFails(t)
  <2>1. is = Idle
    BY <1>2, <1>8, Zenon DEF Moves
  <2> QED BY <1>3, <2>1
<1>9. CASE \E id \in Id : LoadForDel(t, id)
  <2> PICK id \in Id : LoadForDel(t, id)
    BY <1>9, SMTT(30), ZenonT(30)
  <2>1. CASE is.pc = "flush" /\ is.art = [id |-> id, layers |-> disk.manifests[id]] /\ is.todo = disk.manifests[id]
    BY <2>1, SMTT(30), ZenonT(30)
  <2>2. CASE is.pc = "prune" /\ is.art = was.art
    <3>1. disk' = disk /\ blobs' = blobs /\ (was.art # None => Gone(was.art.layers))
      BY SMTT(30), ZenonT(30) DEF LoadForDel, store, Swept
    <3> QED BY <1>5, <2>2, <3>1, SMTT(30), ZenonT(30)
  <2>3. CASE is = Idle
    BY <1>3, <2>3
  <2> QED BY <1>2, <2>1, <2>2, <2>3, Zenon DEF Moves
<1>10. CASE Truncate(t)
  <2>1. is.pc = "write" /\ is.art = was.art /\ is.todo = was.todo
    BY <1>2, <1>10, Zenon DEF Moves
  <2>2. was.todo = was.art.layers
    BY <1>10, SMTT(30), ZenonT(30) DEF Truncate, Swept
  <2> QED BY <2>1, <2>2
<1>11. CASE Write(t)
  <2>1. is.pc = "sweep" /\ is.art = was.art /\ is.todo = was.todo
    BY <1>2, <1>11, Zenon DEF Moves
  <2>2. was.todo = was.art.layers
    BY <1>11, SMTT(30), ZenonT(30) DEF Write, Swept
  <2>3. Off(is.art.layers \ is.todo)
    BY <2>1, <2>2 DEF Off
  <2> QED BY <2>1, <2>3
<1>12. CASE \E d \in Digest : Sweep(t, d)
  <2> PICK d \in Digest : Sweep(t, d)
    BY <1>12
  <2>1. disk' = disk /\ blobs' = blobs /\ Gone(was.art.layers \ was.todo)
    BY SMTT(30), ZenonT(30) DEF Sweep, store, Swept
  <2>2. CASE /\ disk # Torn /\ (disk.blob_counts[d] > 0 \/ blobs[d] = "absent")
             /\ is.pc = "sweep" /\ is.art = was.art /\ is.todo = was.todo \ {d}
    <3>1. disk \in Catalog /\ Sound(disk, resaved) /\ resaved \in BOOLEAN
      BY <2>2, SMTT(30), ZenonT(30) DEF Recorded, TypeOK
    <3>2. blobs[d] = "absent" \/ Refs(disk, d) # {}
      BY <2>2, <3>1, CountsTell, SMTT(30), ZenonT(30)
    <3>3. Off(is.art.layers \ is.todo)
      BY <2>1, <2>2, <3>2, SMTT(30), ZenonT(30) DEF Off, Gone
    <3> QED BY <2>2, <3>3, SMTT(30), ZenonT(30)
  <2>3. CASE is.pc = "remove" /\ is.art = was.art /\ is.todo = was.todo
    BY <1>5, <2>1, <2>3, SMTT(30), ZenonT(30)
  <2>4. CASE is = Idle
    BY <1>3, <2>4
  <2> QED BY <1>2, <2>2, <2>3, <2>4, Zenon DEF Moves
<1>13. CASE RemoveBlob(t)
  <2>1. /\ disk' = disk /\ blobs' = [blobs EXCEPT ![was.layer] = "absent"]
        /\ Gone(was.art.layers \ was.todo)
        /\ was.art.layers \in SUBSET Digest
    BY <1>13 DEF RemoveBlob, Swept, Roles, Artifact, Manifest
  <2>2. is.pc = "sweep" /\ is.art = was.art /\ is.todo = was.todo \ {was.layer}
    BY <1>2, <1>13, Zenon DEF Moves
  <2>3. Off(is.art.layers \ is.todo)
    BY <1>1, <2>1, <2>2, SMTT(30), ZenonT(30) DEF Off, Gone
  <2> QED BY <2>2, <2>3, SMTT(30), ZenonT(30)
<1>14. CASE SweepDone(t)
  <2>1. /\ disk' = disk /\ blobs' = blobs /\ Gone(was.art.layers \ was.todo) /\ was.todo = {}
    BY <1>14 DEF SweepDone, Swept, store
  <2>2. is.pc = "prune" /\ is.art = was.art
    BY <1>2, <1>14, ZenonT(30) DEF Moves
  <2>3. Gone(was.art.layers)
    BY <2>1, SMTT(30), ZenonT(30) DEF Gone
  <2> QED BY <1>5, <2>1, <2>2, <2>3, SMTT(30), ZenonT(30)
<1>15. CASE Wipe(t)
  <2>1. was.pc = "wipe" /\ (is = was \/ is = Idle)
    BY <1>2, <1>15, Zenon DEF Moves, Wipe
  <2> QED BY <1>3, <2>1
<1> QED
  <2>1. was.pc \notin {"layer", "copying", "reading", "check", "save"} /\ t \notin Builder
    BY SMTT(30), ZenonT(30) DEF Roles
  <2>2. /\ (\A d \in Digest : ~CopyBlob(t, d)) /\ ~FinishLayer(t) /\ ~EndRead(t) /\ ~Save(t)
        /\ ~CheckLayer(t) /\ ~LoadForSave(t)
    BY <2>1, Zenon DEF CopyBlob, FinishLayer, EndRead, Save, CheckLayer, LoadForSave
  <2> QED
    BY <1>6, <1>7, <1>8, <1>9, <1>10, <1>11, <1>12, <1>13, <1>14, <1>15, <2>1, <2>2, ZenonT(30) DEF Continue, Call

(* The builders step while the pruner is idle.                              *)
LEMMA SweptStep == TypeOK /\ Roles /\ Recorded /\ Backed /\ Swept /\ [Next]_vars => Swept'
<1> SUFFICES ASSUME TypeOK, Roles, Recorded, Backed, Swept, [Next]_vars, ~overlapped', ~resaved' PROVE Swept'
  BY DEF Swept
<1> USE TaskAssumption DEF At
<1>1. ASSUME NEW t \in Task, Continue(t) \/ WriteFails(t) \/ Call(t) PROVE Swept'
  <2>1. ~overlapped
    BY <1>1, TurnsStep, SMTT(30), ZenonT(30)
  <2>2. ~resaved
    BY <1>1, Zenon
    DEF Continue, Call, WriteFails, CopyBlob, FinishLayer, EndRead, Save, CheckLayer, LoadForSave, Truncate,
        Write, LoadForDel, Sweep, RemoveBlob, SweepDone, PruneDone, Wipe, Store, Read, Copy, PruneAll, Prune,
        history
  <2>3. CASE t = Pruner
    BY <1>1, <2>1, <2>2, <2>3, SweptPrune, SMTT(30), ZenonT(30)
  <2>4. CASE t # Pruner
    <3>1. Pruner \in Task
      BY SMTT(30), ZenonT(30) DEF Task
    <3>2. task'[Pruner] = task[Pruner] /\ task[Pruner].pc = "idle"
      BY <1>1, <2>4, <3>1, Frame, TurnsStep, SMTT(30), ZenonT(30)
    <3> QED BY <2>1, <2>2, <3>2 DEF Swept
  <2> QED BY <2>3, <2>4, SMTT(30), ZenonT(30)
<1>2. CASE Crash \/ NextCommand
  <2>1. task'[Pruner] = Idle
    BY <1>2, SMTT(30), ZenonT(30) DEF Crash, NextCommand, Restart, Task
  <2> QED BY <2>1, SMTT(30), ZenonT(30) DEF Swept, Idle
<1>3. CASE UNCHANGED vars
  BY <1>3 DEF vars, store, history, Swept, Gone
<1> QED BY <1>1, <1>2, <1>3, SMTT(30), ZenonT(30) DEF Next
-----------------------------------------------------------------------------
(* The invariant and what it says                                           *)

(* The new backend and its empty catalog.                                   *)
LEMMA InductiveInit == Init => Inductive
<1> SUFFICES ASSUME Init PROVE Inductive
  OBVIOUS
<1> USE TaskAssumption DEF Init
<1>1. TypeOK
  <2>1. task \in [Task -> Locals]
    BY IdleType
  <2>2. disk \in Catalog
    BY CatalogTypes
  <2>3. blobs \in [Digest -> {"absent", "partial", "whole"}]
    OBVIOUS
  <2>4. ops \in 0 .. MaxOps /\ crashes \in 0 .. MaxCrash
    BY BoundAssumption
  <2>5. writer \in Task \cup {None} /\ readers = {} /\ kept = {}
    OBVIOUS
  <2> HIDE DEF Init
  <2>6. {catalogued, layer_dir, resaved, overlapped} \subseteq BOOLEAN
    BY Zenon DEF Init
  <2> QED BY <2>1, <2>2, <2>3, <2>4, <2>5, <2>6 DEF TypeOK
<1>2. Roles
  BY DEF Roles, Idle
<1>3. Recorded
  <2>1. \A d \in Digest : Empty.blob_counts[d] = 0 /\ Refs(Empty, d) = {}
    BY DEF Empty, Refs, Has
  <2>2. Sound(disk, resaved)
    BY <2>1, EmptySound, Zenon
  <2> QED BY <2>2 DEF Recorded, Idle, Empty
<1>4. Backed
  BY DEF Backed, Turns, Complete, Has, Empty, Idle, Task
<1>5. Written
  BY SMTT(30), ZenonT(30) DEF Written
<1>6. Swept
  BY DEF Swept, Idle, Task
<1> QED BY <1>1, <1>2, <1>3, <1>4, <1>5, <1>6 DEF Inductive

(* Every state has it.                                                      *)
THEOREM Invariance == Spec => []Inductive
<1>1. Inductive /\ [Next]_vars => Inductive'
  BY TypeStep, RolesStep, RecordedStep, BackedStep, WrittenStep, SweptStep DEF Inductive
<1> QED BY InductiveInit, <1>1, PTL DEF Spec

(* The type invariant, which says too that the lock has either one writer    *)
(* or readers.                                                             *)
THEOREM TypeCorrect == Spec => []TypeOK
<1>1. Inductive => TypeOK
  BY DEF Inductive
<1> QED BY Invariance, <1>1, PTL

(* No save and no deletion is lost, for any number of tasks saving at once:  *)
(* the load, the change and the rewrite are under one lock.                *)
THEOREM NothingLost == Spec => []SavesKept
<1>1. Inductive => SavesKept
  BY SMTT(30), ZenonT(30) DEF Inductive, Recorded, SavesKept
<1> QED BY Invariance, <1>1, PTL

(* A count is at least the number of manifests that use the blob, and exact *)
(* unless an id was saved over itself.                                     *)
THEOREM CountsAreSound == Spec => []CountsSound
<1>1. Inductive => CountsSound
  BY SMTT(30), ZenonT(30) DEF Inductive, Recorded, CountsSound
<1> QED BY Invariance, <1>1, PTL

(* While builds and prunes take turns, no manifest lacks a blob.            *)
THEOREM NoMissingBlob == Spec => []ManifestsComplete
<1>1. Inductive => ManifestsComplete
  BY SMTT(30), ZenonT(30) DEF Inductive, Backed, Written, Complete, Present, ManifestsComplete, TypeOK, Catalog, Manifest
<1> QED BY Invariance, <1>1, PTL

(* A prune that has come past an artifact has left no blob of it that no     *)
(* other artifact uses.                                                    *)
THEOREM PruneIsThorough == Spec => []DeletedLayersGone
<1>1. Inductive => DeletedLayersGone
  BY DEF Inductive, Swept, Gone, DeletedLayersGone, Deleted, Unswept, At
<1> QED BY Invariance, <1>1, PTL
=============================================================================
