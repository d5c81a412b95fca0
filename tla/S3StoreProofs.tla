---------------------------- MODULE S3StoreProofs ----------------------------
(***************************************************************************)
(* Proofs about S3Backend for every number of clients, every catalog, any  *)
(* number of failed requests and of crashes at any step: the parts of the  *)
(* inductive invariant, what each step does to them, and what follows.     *)
(***************************************************************************)
EXTENDS S3Store, TLAPS

(* The parts of the inductive invariant, one per idea.                      *)

(* The steps between a client's load of the catalog and its put.            *)
Holder == {"wait", "lock", "put"}

(* What the locals hold at each step.                                       *)
Role(l) ==
    /\ l.pc = "idle" => l = Idle
    /\ l.pc \in Holder \cup {"layer", "unlock", "del", "sweep"} => l.art \in Artifact
    /\ l.pc \in Holder \cup {"unlock"} => l.cat \in Catalog
    /\ l.pc \in {"prune", "del", "sweep"} => l.deleting
Roles == \A c \in Client : Role(client[c])

(* As long as no put raced and no load misread: a copy that will be put has *)
(* every id that the bucket has, but for the one it deletes, and the id it  *)
(* saves.                                                                  *)
Covers(l, S) ==
    l.pc \in Holder => /\ S \ {l.art.id} \subseteq l.cat.ids
                       /\ l.deleting \/ (l.art.id \in l.cat.ids /\ S \subseteq l.cat.ids)
Fresh ==
    ~raced /\ ~misread =>
        kept \subseteq Saved(catalog) /\ \A c \in Client : Covers(client[c], Saved(catalog))

(* As long as no prune overlapped another operation: the pruner is alone,   *)
(* the manifests in the bucket and in every copy have their blobs, and a    *)
(* blob about to be deleted is in no manifest.                             *)
Complete(k, B) == \A i \in k.ids : k.manifests[i] \subseteq B
Alone(c) == client[c].deleting => \A u \in Client \ {c} : At(u, "idle")
Supported(l, k, B) ==
    /\ l.pc = "layer" => l.art.layers \subseteq B \cup l.todo
    /\ l.pc \in Holder => Complete(l.cat, B)
    /\ l.pc = "unlock" /\ l.put /\ l.deleting => k = l.cat
    /\ l.pc = "sweep" /\ k # None => \A d \in l.todo : Refs(k, d) = {}
Backed ==
    ~overlapped =>
        /\ catalog # None => Complete(catalog, blobs)
        /\ \A c \in Client : Alone(c) /\ Supported(client[c], catalog, blobs)

(* Unless somebody ended without deleting it, a lock has someone who will.  *)
Locked == ~stuck /\ lockfile => \E c \in Client : client[c].pc \in {"put", "unlock"}

(* No count is below the number of manifests that use the blob, in the      *)
(* bucket and in every copy.                                               *)
Enough(k) == \A d \in Digest : k.blob_counts[d] >= Cardinality(Refs(k, d))
Counted ==
    /\ catalog # None => Enough(catalog)
    /\ \A c \in Client : client[c].pc \in Holder \cup {"unlock"} => Enough(client[c].cat)

(* What the catalog owes to that: add may count too much, when an id is     *)
(* saved over itself, but neither add nor del ever counts too little.      *)
CountsKept ==
    /\ Enough(Empty)
    /\ \A k \in Catalog : Enough(k) =>
          /\ \A a \in Artifact : Enough(Add(k, a))
          /\ \A id \in Id : Enough(Del(k, id))
          /\ \A d \in Digest : k.blob_counts[d] <= 0 => Refs(k, d) = {}

(* The inductive invariant.                                                 *)
Inductive == TypeOK /\ Roles /\ Counted /\ Fresh /\ Backed /\ Locked
-----------------------------------------------------------------------------
(* Requests and locals                                                      *)

(* Catalog::add and Catalog::del turn catalogs into catalogs, and the new   *)
(* catalog is one.                                                         *)
LEMMA CatalogTypes ==
    /\ Empty \in Catalog
    /\ \A c \in Catalog, a \in Artifact : Add(c, a) \in Catalog
    /\ \A c \in Catalog, id \in Id : Del(c, id) \in Catalog
<1>1. Empty \in Catalog
  BY DEF Empty, Catalog, Manifest
<1>2. ASSUME NEW c \in Catalog, NEW a \in Artifact PROVE Add(c, a) \in Catalog
  BY <1>2 DEF Add, Catalog, Artifact, Manifest
<1>3. ASSUME NEW c \in Catalog, NEW id \in Id PROVE Del(c, id) \in Catalog
  BY <1>3 DEF Del, Catalog, Has, Manifest
<1> QED BY <1>1, <1>2, <1>3

(* Add lists one id more, del one less.                                     *)
LEMMA IdsFacts ==
    \A k, a, id : Add(k, a).ids = k.ids \cup {a.id} /\ Del(k, id).ids = k.ids \ {id}
BY DEF Add, Del

(* What load yields: the catalog of the bucket, an empty one, or nothing;   *)
(* an empty one in place of the bucket's is a misread.                     *)
LEMMA LoadFacts ==
    ASSUME TypeOK, NEW k \in Loadable, Loads(k)
    PROVE  /\ faults' \in 0 .. MaxFaults /\ misread' \in BOOLEAN
           /\ k # None => k \in Catalog /\ (k = Empty \/ (catalog # None /\ k = catalog))
           /\ k # None /\ ~misread' => k.ids = Saved(catalog)
           /\ misread => misread'
<1>1. faults' \in 0 .. MaxFaults
  BY FaultAssumption DEF TypeOK, Loads, Fault
<1>2. misread' \in BOOLEAN /\ (misread => misread')
  <2>1. misread' = misread \/ misread' = TRUE
    BY DEF Loads
  <2>2. misread \in BOOLEAN
    BY DEF TypeOK
  <2>3. CASE misread' = misread
    BY <2>2, <2>3
  <2>4. CASE misread' = TRUE
    BY <2>4
  <2> QED BY <2>1, <2>3, <2>4, Zenon
<1>3. k # None => k \in Catalog /\ (k = Empty \/ (catalog # None /\ k = catalog))
  BY CatalogTypes DEF TypeOK, Loadable
<1>4. ASSUME k # None, ~misread' PROVE k.ids = Saved(catalog)
  <2>1. k = (IF catalog = None THEN Empty ELSE catalog)
    BY <1>4, Zenon DEF Loads
  <2>2. Empty.ids = {}
    BY DEF Empty
  <2> QED BY <2>1, <2>2 DEF Saved
<1> QED BY <1>1, <1>2, <1>3, <1>4

(* A client's step changes its own locals only.                             *)
LEMMA BecomesFacts ==
    ASSUME client \in [Client -> Locals], NEW c \in Client, NEW l, Becomes(c, l)
    PROVE  /\ client'[c] = l
           /\ \A u \in Client \ {c} : client'[u] = client[u]
           /\ l \in Locals => client' \in [Client -> Locals]
BY DEF Becomes

(* What a step may put into the locals.                                     *)
LEMMA FieldTypes ==
    ASSUME NEW l \in Locals, NEW p \in Steps
    PROVE  /\ [l EXCEPT !.pc = p] \in Locals
           /\ \A x \in SUBSET Digest : [l EXCEPT !.todo = x] \in Locals
           /\ \A x \in SUBSET Id : [l EXCEPT !.victims = x] \in Locals
           /\ \A x \in 0 .. MaxAttempts - 1 : [l EXCEPT !.looks = x] \in Locals
           /\ \A x \in BOOLEAN : [l EXCEPT !.pc = p, !.put = x] \in Locals
           /\ \A x \in SUBSET Digest : [l EXCEPT !.pc = p, !.todo = x] \in Locals
           /\ \A x \in Catalog : [l EXCEPT !.pc = p, !.cat = x] \in Locals
           /\ \A a \in Artifact : [l EXCEPT !.pc = p, !.art = a] \in Locals
           /\ \A a \in Artifact, x \in SUBSET Digest :
                 [l EXCEPT !.pc = p, !.art = a, !.todo = x] \in Locals
           /\ \A v \in SUBSET Id, a \in Artifact :
                 [l EXCEPT !.pc = p, !.victims = v, !.art = a] \in Locals
           /\ \A x \in BOOLEAN, k \in Catalog, v \in SUBSET Id :
                 [l EXCEPT !.pc = p, !.deleting = x, !.cat = k, !.victims = v] \in Locals
           /\ \A n \in 0 .. MaxAttempts - 1, k \in Catalog, a \in Artifact :
                 [l EXCEPT !.pc = p, !.looks = n, !.cat = k, !.art = a] \in Locals
<1>1. /\ [l EXCEPT !.pc = p] \in Locals
      /\ \A x \in SUBSET Digest : [l EXCEPT !.todo = x] \in Locals
      /\ \A x \in SUBSET Id : [l EXCEPT !.victims = x] \in Locals
      /\ \A x \in 0 .. MaxAttempts - 1 : [l EXCEPT !.looks = x] \in Locals
  BY SMT DEF Locals
<1>2. ASSUME NEW x \in BOOLEAN PROVE [l EXCEPT !.pc = p, !.put = x] \in Locals
  BY Zenon DEF Locals
<1>3. ASSUME NEW x \in SUBSET Digest PROVE [l EXCEPT !.pc = p, !.todo = x] \in Locals
  BY Zenon DEF Locals
<1>4. ASSUME NEW x \in Catalog PROVE [l EXCEPT !.pc = p, !.cat = x] \in Locals
  BY Zenon DEF Locals
<1>5. ASSUME NEW a \in Artifact PROVE [l EXCEPT !.pc = p, !.art = a] \in Locals
  BY Zenon DEF Locals
<1>6. ASSUME NEW a \in Artifact, NEW x \in SUBSET Digest
      PROVE  [l EXCEPT !.pc = p, !.art = a, !.todo = x] \in Locals
  BY Zenon DEF Locals
<1>7. ASSUME NEW v \in SUBSET Id, NEW a \in Artifact
      PROVE  [l EXCEPT !.pc = p, !.victims = v, !.art = a] \in Locals
  BY Zenon DEF Locals
<1>8. ASSUME NEW x \in BOOLEAN, NEW k \in Catalog, NEW v \in SUBSET Id
      PROVE  [l EXCEPT !.pc = p, !.deleting = x, !.cat = k, !.victims = v] \in Locals
  BY ZenonT(30) DEF Locals
<1>9. ASSUME NEW n \in 0 .. MaxAttempts - 1, NEW k \in Catalog, NEW a \in Artifact
      PROVE  [l EXCEPT !.pc = p, !.looks = n, !.cat = k, !.art = a] \in Locals
  BY ZenonT(30) DEF Locals
<1> QED BY <1>1, <1>2, <1>3, <1>4, <1>5, <1>6, <1>7, <1>8, <1>9, Zenon

(* An idle client's locals are of their types.                              *)
LEMMA IdleType == Idle \in Locals /\ Role(Idle)
BY ClientAssumption DEF Idle, Locals, Steps, Role, Holder
-----------------------------------------------------------------------------
(* The actions, read off field by field                                     *)

(* The locals stay of their types, in their roles, and the others' alone.   *)
Stepped(c) ==
    /\ client' \in [Client -> Locals]
    /\ Role(client'[c])
    /\ \A u \in Client \ {c} : client'[u] = client[u]

(* The fields that say what a client is about.                              *)
Same(c) ==
    /\ client'[c].art = client[c].art
    /\ client'[c].cat = client[c].cat
    /\ client'[c].deleting = client[c].deleting

(* Facts about the locals that every action starts from.                    *)
LEMMA LocalsFacts ==
    ASSUME TypeOK, Roles, NEW c \in Client
    PROVE  /\ client \in [Client -> Locals] /\ client[c] \in Locals /\ Role(client[c])
           /\ client[c].todo \in SUBSET Digest /\ client[c].victims \in SUBSET Id
           /\ client[c].looks \in 0 .. MaxAttempts - 1
           /\ client[c].deleting \in BOOLEAN
           /\ client[c].pc \in Steps
<1>1. client \in [Client -> Locals] /\ client[c] \in Locals /\ Role(client[c])
  BY DEF TypeOK, Roles
<1> QED BY <1>1, Zenon DEF Locals

(* Ending an operation.                                                     *)
LEMMA ReturnEffect ==
    ASSUME TypeOK, NEW c \in Client, Return(c)
    PROVE  Stepped(c) /\ client'[c] = Idle
<1>1. client \in [Client -> Locals]
  BY DEF TypeOK
<1> QED BY <1>1, BecomesFacts, IdleType, Zenon DEF Return, Stepped

(* A step that only moves on.                                               *)
LEMMA GotoEffect ==
    ASSUME TypeOK, Roles, NEW c \in Client, NEW p \in Steps, Goto(c, p),
           \/ client[c].pc = "wait" /\ p = "lock"
           \/ client[c].pc = "lock" /\ p = "put"
           \/ client[c].pc = "sweep" /\ p = "prune"
    PROVE  Stepped(c) /\ Same(c) /\ client'[c].pc = p
<1> DEFINE was == client[c]
           l == [was EXCEPT !.pc = p]
<1>1. client \in [Client -> Locals] /\ was \in Locals /\ Role(was)
  BY LocalsFacts
<1>2. l \in Locals
  BY <1>1, FieldTypes, Zenon
<1>3. l.pc = p /\ l.art = was.art /\ l.cat = was.cat /\ l.deleting = was.deleting
  BY <1>1 DEF Locals
<1>4. Becomes(c, l)
  BY DEF Goto
<1> HIDE DEF l
<1>5. Role(l)
  BY <1>1, <1>3 DEF Role, Holder
<1> QED BY <1>1, <1>2, <1>3, <1>4, <1>5, BecomesFacts, Zenon DEF Stepped, Same

(* A save begins with the layers of its artifact.                           *)
LEMMA SaveEffect ==
    ASSUME TypeOK, Roles, NEW c \in Client, NEW a \in Output, Save(c, a)
    PROVE  /\ Stepped(c) /\ client'[c].pc = "layer" /\ client'[c].art = a
           /\ client'[c].todo = a.layers /\ ~client'[c].deleting
<1> DEFINE was == client[c]
           l == [was EXCEPT !.pc = "layer", !.art = a, !.todo = a.layers]
<1>1. client \in [Client -> Locals] /\ was \in Locals /\ was = Idle
  BY LocalsFacts DEF Save, Begin, At, Role
<1>2. a \in Artifact /\ a.layers \in SUBSET Digest /\ "layer" \in Steps
  BY OutputAssumption DEF Artifact, Manifest, Steps
<1>3. l \in Locals
  BY <1>1, <1>2, FieldTypes, Zenon
<1>4. l.pc = "layer" /\ l.art = a /\ l.todo = a.layers /\ l.deleting = FALSE
  BY <1>1 DEF Locals, Idle
<1>5. Becomes(c, l)
  BY DEF Save
<1> HIDE DEF l
<1>6. Role(l)
  BY <1>2, <1>4 DEF Role, Holder
<1> QED BY <1>1, <1>3, <1>4, <1>5, <1>6, BecomesFacts, Zenon DEF Stepped

(* A layer is up, or the operation ends.                                    *)
LEMMA FinishLayerEffect ==
    ASSUME TypeOK, Roles, NEW c \in Client, NEW d \in Digest, FinishLayer(c, d)
    PROVE  /\ Stepped(c)
           /\ \/ client'[c] = Idle /\ blobs \subseteq blobs' /\ blobs' \subseteq Digest
              \/ /\ client'[c].pc = "layer" /\ Same(c) /\ blobs' = blobs \cup {d}
                 /\ client'[c].todo = client[c].todo \ {d}
<1> DEFINE was == client[c]
           l == [was EXCEPT !.todo = was.todo \ {d}]
<1>1. /\ client \in [Client -> Locals] /\ was \in Locals /\ Role(was)
      /\ was.todo \in SUBSET Digest /\ was.pc = "layer"
  BY LocalsFacts DEF FinishLayer, At
<1>2. CASE Return(c) /\ blobs' \in {blobs, blobs \cup {d}}
  BY <1>2, ReturnEffect DEF TypeOK
<1>3. CASE Becomes(c, l) /\ blobs' = blobs \cup {d}
  <2>1. l \in Locals
    BY <1>1, FieldTypes, Zenon DEF Steps
  <2>2. /\ l.pc = "layer" /\ l.art = was.art /\ l.cat = was.cat /\ l.deleting = was.deleting
        /\ l.todo = was.todo \ {d}
    BY <1>1 DEF Locals
  <2> HIDE DEF l
  <2>3. Role(l)
    BY <1>1, <2>2 DEF Role, Holder
  <2> QED BY <1>1, <1>3, <2>1, <2>2, <2>3, BecomesFacts, Zenon DEF Stepped, Same
<1> QED BY <1>2, <1>3 DEF FinishLayer

(* A save loads the catalog and adds its artifact to the copy, or ends.     *)
LEMMA LoadForSaveEffect ==
    ASSUME TypeOK, Roles, NEW c \in Client, LoadForSave(c)
    PROVE  /\ Stepped(c)
           /\ \E k \in Loadable :
                 /\ Loads(k)
                 /\ \/ client'[c] = Idle
                    \/ /\ k # None /\ client'[c].pc = "wait"
                       /\ client'[c].art = client[c].art /\ client[c].art \in Artifact
                       /\ client'[c].deleting = client[c].deleting
                       /\ client'[c].cat = Add(k, client[c].art)
<1> DEFINE was == client[c]
<1>1. /\ client \in [Client -> Locals] /\ was \in Locals /\ was.art \in Artifact
  BY LocalsFacts DEF LoadForSave, At, Role
<1>2. PICK k \in Loadable :
         /\ Loads(k)
         /\ \/ k = None /\ Return(c)
            \/ k # None /\ Becomes(c, [was EXCEPT !.pc = "wait", !.cat = Add(k, was.art)])
  BY Zenon DEF LoadForSave
<1>3. CASE Return(c)
  BY <1>2, <1>3, ReturnEffect
<1>4. CASE k # None /\ Becomes(c, [was EXCEPT !.pc = "wait", !.cat = Add(k, was.art)])
  <2> DEFINE new == Add(k, was.art)
             l == [was EXCEPT !.pc = "wait", !.cat = new]
  <2>1. new \in Catalog /\ "wait" \in Steps
    BY <1>1, <1>2, <1>4, LoadFacts, CatalogTypes DEF Steps
  <2> HIDE DEF new
  <2>2. l \in Locals
    BY <1>1, <2>1, FieldTypes, Zenon
  <2>3. l.pc = "wait" /\ l.art = was.art /\ l.cat = new /\ l.deleting = was.deleting
    BY <1>1 DEF Locals
  <2>4. Becomes(c, l)
    BY <1>4 DEF new
  <2> HIDE DEF l
  <2>5. Role(l)
    BY <1>1, <2>1, <2>3 DEF Role, Holder
  <2>6. /\ Stepped(c) /\ client'[c].pc = "wait" /\ client'[c].art = was.art
        /\ client'[c].cat = new /\ client'[c].deleting = was.deleting
    BY <1>1, <2>2, <2>3, <2>4, <2>5, BecomesFacts, Zenon DEF Stepped
  <2> QED BY <1>1, <1>2, <1>4, <2>6 DEF new
<1> QED BY <1>2, <1>3, <1>4

(* A copy begins with the layers of the artifact it found, none to upload.  *)
LEMMA CopyEffect ==
    ASSUME TypeOK, Roles, NEW c \in Client, NEW from \in Id, NEW to \in Id, Copy(c, from, to)
    PROVE  /\ Stepped(c)
           /\ \E k \in Loadable :
                 /\ Loads(k)
                 /\ \/ client' = client
                    \/ /\ k \in Catalog /\ k # None /\ from \in k.ids
                       /\ client'[c].pc = "layer" /\ ~client'[c].deleting
                       /\ client'[c].art.layers = k.manifests[from]
<1> DEFINE was == client[c]
<1>1. client \in [Client -> Locals] /\ was \in Locals /\ was = Idle /\ Role(was)
  BY LocalsFacts DEF Copy, Begin, At, Role
<1>2. PICK k \in Loadable :
         /\ Loads(k)
         /\ \/ ~Finds(k, from) /\ UNCHANGED client
            \/ /\ Finds(k, from)
               /\ Becomes(c, [was EXCEPT !.pc = "layer", !.art = [id |-> to, layers |-> k.manifests[from]]])
  BY Zenon DEF Copy
<1>3. CASE UNCHANGED client
  BY <1>1, <1>2, <1>3 DEF Stepped
<1>4. CASE /\ Finds(k, from)
           /\ Becomes(c, [was EXCEPT !.pc = "layer", !.art = [id |-> to, layers |-> k.manifests[from]]])
  <2> DEFINE a == [id |-> to, layers |-> k.manifests[from]]
             l == [was EXCEPT !.pc = "layer", !.art = a]
  <2>1. k # None /\ k \in Catalog /\ from \in k.ids
    BY <1>2, <1>4, LoadFacts DEF Finds, Has
  <2>2. a \in Artifact /\ a.layers = k.manifests[from] /\ "layer" \in Steps
    BY <2>1 DEF Catalog, Artifact, Steps
  <2> HIDE DEF a
  <2>3. l \in Locals
    BY <1>1, <2>2, FieldTypes, Zenon
  <2>4. l.pc = "layer" /\ l.art = a /\ l.deleting = FALSE
    BY <1>1 DEF Locals, Idle
  <2>5. Becomes(c, l)
    BY <1>4 DEF a
  <2> HIDE DEF l
  <2>6. Role(l)
    BY <2>2, <2>4 DEF Role, Holder
  <2>7. Stepped(c) /\ client'[c] = l
    BY <1>1, <2>3, <2>5, <2>6, BecomesFacts, Zenon DEF Stepped
  <2> QED BY <1>2, <2>1, <2>2, <2>4, <2>7
<1> QED BY <1>2, <1>3, <1>4

(* The flush keeps its copy until the catalog is put.                       *)
LEMMA FlushEffect ==
    ASSUME TypeOK, Roles, NEW c \in Client, WaitForLock(c) \/ PutLock(c) \/ PutCatalog(c)
    PROVE  /\ Stepped(c)
           /\ WaitForLock(c) => Same(c) /\ client'[c].pc \in {"wait", "lock"}
           /\ PutLock(c) => \/ client'[c] = Idle /\ stuck'
                            \/ Same(c) /\ client'[c].pc = "put"
           /\ PutCatalog(c) => /\ Same(c) /\ client'[c].pc = "unlock"
                               /\ client'[c].put => faults' = faults
<1> DEFINE was == client[c]
<1>1. /\ client \in [Client -> Locals] /\ was \in Locals /\ Role(was)
      /\ was.looks \in 0 .. MaxAttempts - 1
  BY LocalsFacts
<1>2. CASE WaitForLock(c)
  <2>1. was.pc = "wait" /\ ~PutLock(c) /\ ~PutCatalog(c)
    BY <1>2 DEF WaitForLock, PutLock, PutCatalog, At
  <2>2. CASE Goto(c, "lock")
    BY <2>1, <2>2, GotoEffect DEF Steps
  <2>3. CASE was.looks + 1 < MaxAttempts /\ Becomes(c, [was EXCEPT !.looks = @ + 1])
    <3> DEFINE l == [was EXCEPT !.looks = was.looks + 1]
    <3>1. was.looks + 1 \in 0 .. MaxAttempts - 1
      BY <1>1, <2>3, ClientAssumption
    <3>2. l \in Locals
      BY <1>1, <3>1, FieldTypes, Zenon DEF Steps
    <3>3. l.pc = "wait" /\ l.art = was.art /\ l.cat = was.cat /\ l.deleting = was.deleting
      BY <1>1, <2>1 DEF Locals
    <3> HIDE DEF l
    <3>4. Role(l)
      BY <1>1, <2>1, <3>3 DEF Role, Holder
    <3>5. Becomes(c, l)
      BY <2>3 DEF l
    <3>6. Stepped(c) /\ Same(c) /\ client'[c].pc = "wait"
      BY <1>1, <3>2, <3>3, <3>4, <3>5, BecomesFacts, Zenon DEF Stepped, Same
    <3> QED BY <2>1, <3>6
  <2> QED BY <1>2, <2>2, <2>3 DEF WaitForLock
<1>3. CASE PutLock(c)
  <2>1. was.pc = "lock" /\ ~WaitForLock(c) /\ ~PutCatalog(c)
    BY <1>3 DEF WaitForLock, PutLock, PutCatalog, At
  <2>2. CASE Goto(c, "put")
    BY <2>1, <2>2, GotoEffect DEF Steps
  <2>3. CASE Return(c) /\ stuck' = TRUE
    BY <2>1, <2>3, ReturnEffect
  <2> QED BY <1>3, <2>2, <2>3, Zenon DEF PutLock
<1>4. CASE PutCatalog(c)
  <2> DEFINE b == (faults' = faults)
             l == [was EXCEPT !.pc = "unlock", !.put = b]
  <2>1. was.pc = "put" /\ ~WaitForLock(c) /\ ~PutLock(c) /\ Becomes(c, l)
    BY <1>4 DEF WaitForLock, PutLock, PutCatalog, At
  <2>2. b \in BOOLEAN /\ (b => faults' = faults) /\ "unlock" \in Steps
    BY DEF Steps
  <2> HIDE DEF b
  <2>3. l \in Locals
    BY <1>1, <2>2, FieldTypes, Zenon
  <2>4. l.pc = "unlock" /\ l.art = was.art /\ l.cat = was.cat /\ l.deleting = was.deleting /\ l.put = b
    BY <1>1 DEF Locals
  <2> HIDE DEF l
  <2>5. Role(l)
    BY <1>1, <2>1, <2>4 DEF Role, Holder
  <2>6. Stepped(c) /\ Same(c) /\ client'[c].pc = "unlock" /\ client'[c].put = b
    BY <1>1, <2>1, <2>3, <2>4, <2>5, BecomesFacts, Zenon DEF Stepped, Same
  <2> QED BY <2>1, <2>2, <2>6
<1> QED BY <1>2, <1>3, <1>4

(* Deleting the lock ends a save and a failed del; a del goes on to sweep.  *)
LEMMA DeleteLockEffect ==
    ASSUME TypeOK, Roles, NEW c \in Client, DeleteLock(c)
    PROVE  /\ Stepped(c)
           /\ lockfile' = FALSE \/ stuck'
           /\ \/ client'[c] = Idle
              \/ /\ client'[c].pc = "sweep" /\ client[c].put /\ client[c].deleting
                 /\ client'[c].deleting = client[c].deleting
                 /\ client'[c].todo = {d \in client[c].art.layers : client[c].cat.blob_counts[d] <= 0}
<1> DEFINE was == client[c]
           T == {d \in was.art.layers : was.cat.blob_counts[d] <= 0}
           l == [was EXCEPT !.pc = "sweep", !.todo = T]
<1>1. client \in [Client -> Locals] /\ was \in Locals /\ was.art \in Artifact
  BY LocalsFacts DEF DeleteLock, At, Role
<1>2. T \in SUBSET Digest /\ "sweep" \in Steps
  BY <1>1 DEF Artifact, Manifest, Steps
<1>3. \/ Return(c) /\ (lockfile' = FALSE \/ stuck' = TRUE)
      \/ was.put /\ was.deleting /\ Becomes(c, l) /\ lockfile' = FALSE
  BY Zenon DEF DeleteLock
<1>4. CASE Return(c) /\ (lockfile' = FALSE \/ stuck' = TRUE)
  BY <1>4, ReturnEffect
<1>5. CASE was.put /\ was.deleting /\ Becomes(c, l) /\ lockfile' = FALSE
  <2> HIDE DEF T
  <2>1. l \in Locals
    BY <1>1, <1>2, FieldTypes, Zenon
  <2>2. l.pc = "sweep" /\ l.art = was.art /\ l.deleting = was.deleting /\ l.todo = T
    BY <1>1 DEF Locals
  <2> HIDE DEF l
  <2>3. Role(l)
    BY <1>1, <1>5, <2>2 DEF Role, Holder
  <2>4. Stepped(c) /\ client'[c] = l
    BY <1>1, <1>5, <2>1, <2>3, BecomesFacts, Zenon DEF Stepped
  <2> QED BY <1>5, <2>2, <2>4, Zenon DEF T
<1> QED BY <1>3, <1>4, <1>5, Zenon

(* A prune lists its victims; del looks each of them up.                    *)
LEMMA PruneEffect ==
    ASSUME TypeOK, Roles, NEW c \in Client, NEW id \in Id, Prune(c, id) \/ DelHas(c, id)
    PROVE  /\ Stepped(c)
           /\ \E k \in Loadable : Loads(k)
           /\ \/ client'[c] = Idle \/ client' = client
              \/ client'[c].pc \in {"prune", "del"} /\ client'[c].deleting
<1> DEFINE was == client[c]
<1>1. /\ client \in [Client -> Locals] /\ was \in Locals /\ Role(was)
      /\ was.victims \in SUBSET Id
  BY LocalsFacts
<1>2. CASE Prune(c, id)
  <2>1. PICK k \in Loadable :
           /\ Loads(k)
           /\ \/ k = None /\ UNCHANGED client
              \/ /\ k # None
                 /\ Becomes(c, [was EXCEPT !.pc = "prune", !.deleting = TRUE,
                                            !.cat = k, !.victims = Matching(k, id) \ {id}])
    BY <1>2, Zenon DEF Prune
  <2>2. CASE UNCHANGED client
    BY <1>1, <2>1, <2>2 DEF Stepped
  <2>3. CASE k # None /\ Becomes(c, [was EXCEPT !.pc = "prune", !.deleting = TRUE,
                                                !.cat = k, !.victims = Matching(k, id) \ {id}])
    <3> DEFINE V == Matching(k, id) \ {id}
               l == [was EXCEPT !.pc = "prune", !.deleting = TRUE, !.cat = k, !.victims = V]
    <3>1. k \in Catalog /\ V \in SUBSET Id /\ "prune" \in Steps /\ TRUE \in BOOLEAN
      BY <2>1, <2>3, LoadFacts DEF Matching, Steps
    <3>2. Becomes(c, l)
      BY <2>3
    <3> HIDE DEF V
    <3>3. l \in Locals
      BY <1>1, <3>1, FieldTypes, Zenon
    <3>4. l.pc = "prune" /\ l.deleting = TRUE
      BY <1>1 DEF Locals
    <3> HIDE DEF l
    <3>5. Role(l)
      BY <3>4 DEF Role, Holder
    <3>6. Stepped(c) /\ client'[c] = l
      BY <1>1, <3>2, <3>3, <3>5, BecomesFacts, Zenon DEF Stepped
    <3> QED BY <2>1, <3>4, <3>6
  <2> QED BY <2>1, <2>2, <2>3
<1>3. CASE DelHas(c, id)
  <2> DEFINE V == was.victims \ {id}
             a == [id |-> id, layers |-> {}]
             l == [was EXCEPT !.victims = V]
             m == [was EXCEPT !.pc = "del", !.victims = V, !.art = a]
  <2>1. was.pc = "prune" /\ was.deleting
    BY <1>1, <1>3 DEF DelHas, At, Role
  <2>2. \E k \in Loadable : Loads(k)
    BY <1>3 DEF DelHas
  <2>3. Return(c) \/ Becomes(c, l) \/ Becomes(c, m)
    BY <1>3 DEF DelHas
  <2>4. CASE Return(c)
    BY <2>2, <2>4, ReturnEffect
  <2>5. V \in SUBSET Id /\ a \in Artifact /\ "del" \in Steps
    BY <1>1 DEF Artifact, Manifest, Steps
  <2> HIDE DEF V, a
  <2>6. CASE Becomes(c, l)
    <3>1. l \in Locals
      BY <1>1, <2>5, FieldTypes, Zenon
    <3>2. l.pc = was.pc /\ l.deleting = was.deleting
      BY <1>1 DEF Locals
    <3> HIDE DEF l
    <3>3. Role(l)
      BY <2>1, <3>2 DEF Role, Holder
    <3>4. Stepped(c) /\ client'[c] = l
      BY <1>1, <2>6, <3>1, <3>3, BecomesFacts, Zenon DEF Stepped
    <3> QED BY <2>1, <2>2, <3>2, <3>4, Zenon
  <2>7. CASE Becomes(c, m)
    <3>1. m \in Locals
      BY <1>1, <2>5, FieldTypes, Zenon
    <3>2. m.pc = "del" /\ m.deleting = was.deleting /\ m.art = a
      BY <1>1 DEF Locals
    <3> HIDE DEF m
    <3>3. Role(m)
      BY <2>1, <2>5, <3>2 DEF Role, Holder
    <3>4. Stepped(c) /\ client'[c] = m
      BY <1>1, <2>7, <3>1, <3>3, BecomesFacts, Zenon DEF Stepped
    <3> QED BY <2>1, <2>2, <3>2, <3>4, Zenon
  <2> QED BY <2>3, <2>4, <2>6, <2>7
<1> QED BY <1>2, <1>3

(* A del loads again, takes the id out of the copy and notes its layers.    *)
LEMMA LoadForDelEffect ==
    ASSUME TypeOK, Roles, NEW c \in Client, LoadForDel(c)
    PROVE  /\ Stepped(c)
           /\ \E k \in Loadable :
                 /\ Loads(k)
                 /\ \/ client'[c] = Idle
                    \/ /\ k # None /\ client[c].art \in Artifact /\ Has(k, client[c].art.id)
                       /\ client'[c].pc = "wait" /\ client[c].deleting
                       /\ client'[c].art.id = client[c].art.id
                       /\ client'[c].deleting = client[c].deleting
                       /\ client'[c].cat = Del(k, client[c].art.id)
<1> DEFINE was == client[c]
           id == was.art.id
<1>1. /\ client \in [Client -> Locals] /\ was \in Locals /\ was.deleting
      /\ was.art \in Artifact /\ id \in Id
  BY LocalsFacts DEF LoadForDel, At, Role, Artifact
<1>2. PICK k \in Loadable :
         /\ Loads(k)
         /\ \/ Return(c)
            \/ /\ k # None /\ Has(k, id)
               /\ Becomes(c, [was EXCEPT !.pc = "wait", !.looks = 0, !.cat = Del(k, id),
                                          !.art = [id |-> id, layers |-> k.manifests[id]]])
  BY Zenon DEF LoadForDel, Deletes, Finds
<1>3. CASE Return(c)
  BY <1>2, <1>3, ReturnEffect
<1>4. CASE /\ k # None /\ Has(k, id)
           /\ Becomes(c, [was EXCEPT !.pc = "wait", !.looks = 0, !.cat = Del(k, id),
                                      !.art = [id |-> id, layers |-> k.manifests[id]]])
  <2> DEFINE new == Del(k, id)
             a == [id |-> id, layers |-> k.manifests[id]]
             l == [was EXCEPT !.pc = "wait", !.looks = 0, !.cat = new, !.art = a]
  <2>1. k \in Catalog
    BY <1>2, <1>4, LoadFacts
  <2>2. new \in Catalog /\ "wait" \in Steps /\ 0 \in 0 .. MaxAttempts - 1
    BY <1>1, <2>1, CatalogTypes, ClientAssumption DEF Steps
  <2>3. a \in Artifact /\ a.id = id
    BY <1>1, <2>1 DEF Catalog, Artifact
  <2>4. Becomes(c, l)
    BY <1>4
  <2> HIDE DEF new, a
  <2>5. l \in Locals
    BY <1>1, <2>2, <2>3, FieldTypes, Zenon
  <2>6. l.pc = "wait" /\ l.art = a /\ l.cat = new /\ l.deleting = was.deleting
    BY <1>1, Zenon DEF Locals
  <2> HIDE DEF l
  <2>7. Role(l)
    BY <1>1, <2>2, <2>3, <2>6 DEF Role, Holder
  <2>8. Stepped(c) /\ client'[c] = l
    BY <1>1, <2>4, <2>5, <2>7, BecomesFacts, Zenon DEF Stepped
  <2> QED BY <1>1, <1>2, <1>4, <2>3, <2>6, <2>8, Zenon DEF new
<1> QED BY <1>2, <1>3, <1>4

(* A blob is deleted, or the prune ends.                                    *)
LEMMA DeleteBlobEffect ==
    ASSUME TypeOK, Roles, NEW c \in Client, NEW d \in Digest, DeleteBlob(c, d)
    PROVE  /\ Stepped(c)
           /\ client[c].deleting /\ d \in client[c].todo /\ client[c].pc = "sweep"
           /\ blobs' \subseteq Digest /\ blobs \ {d} \subseteq blobs'
           /\ \/ client'[c] = Idle
              \/ /\ client'[c].pc = "sweep" /\ Same(c)
                 /\ client'[c].todo = client[c].todo \ {d}
<1> DEFINE was == client[c]
           l == [was EXCEPT !.todo = was.todo \ {d}]
<1>1. /\ client \in [Client -> Locals] /\ was \in Locals /\ Role(was) /\ was.deleting
      /\ was.todo \in SUBSET Digest /\ was.pc = "sweep" /\ d \in was.todo
  BY LocalsFacts DEF DeleteBlob, At, Role
<1>2. blobs' \subseteq Digest /\ blobs \ {d} \subseteq blobs'
  BY DEF TypeOK, DeleteBlob
<1>3. CASE Return(c)
  BY <1>1, <1>2, <1>3, ReturnEffect
<1>4. CASE Becomes(c, l)
  <2>1. l \in Locals
    BY <1>1, FieldTypes, Zenon DEF Steps
  <2>2. /\ l.pc = "sweep" /\ l.art = was.art /\ l.cat = was.cat /\ l.deleting = was.deleting
        /\ l.todo = was.todo \ {d}
    BY <1>1, Zenon DEF Locals
  <2> HIDE DEF l
  <2>3. Role(l)
    BY <1>1, <2>2 DEF Role, Holder
  <2>4. Stepped(c) /\ client'[c] = l
    BY <1>1, <1>4, <2>1, <2>3, BecomesFacts, Zenon DEF Stepped
  <2> QED BY <1>1, <1>2, <2>2, <2>4, Zenon DEF Same
<1> QED BY <1>3, <1>4 DEF DeleteBlob

(* The steps that only move on or end.                                      *)
LEMMA EndEffect ==
    ASSUME TypeOK, Roles, NEW c \in Client, DelDone(c) \/ PruneDone(c) \/ Crash(c)
    PROVE  /\ Stepped(c)
           /\ \/ client'[c] = Idle
              \/ DelDone(c) /\ client'[c].pc = "prune" /\ Same(c)
<1>1. CASE DelDone(c)
  BY <1>1, GotoEffect DEF DelDone, At, Steps
<1>2. CASE PruneDone(c) \/ Crash(c)
  BY <1>2, ReturnEffect DEF PruneDone, Crash
<1> QED BY <1>1, <1>2

(* Every step of a client is one of these, so all of them keep the types of *)
(* the locals and the roles.                                               *)
LEMMA StepsStepped ==
    ASSUME TypeOK, Roles, NEW c \in Client, Continue(c) \/ Call(c) \/ Crash(c)
    PROVE  Stepped(c)
BY SaveEffect, FinishLayerEffect, LoadForSaveEffect, CopyEffect, FlushEffect, DeleteLockEffect,
   PruneEffect, LoadForDelEffect, DeleteBlobEffect, EndEffect, Zenon DEF Continue, Call

(* The steps that neither put the catalog nor leave the client with a copy  *)
(* that it will put.                                                       *)
LEMMA NoCopy ==
    ASSUME TypeOK, Roles, NEW c \in Client,
           \/ Call(c) \/ Crash(c) \/ DeleteLock(c) \/ DelDone(c) \/ PruneDone(c)
           \/ \E d \in Digest : FinishLayer(c, d) \/ DeleteBlob(c, d)
           \/ \E id \in Id : DelHas(c, id)
    PROVE  /\ UNCHANGED <<catalog, kept, raced>> /\ (misread => misread')
           /\ client'[c].pc \notin Holder \cup {"unlock"}
<1>1. UNCHANGED <<catalog, kept, raced>>
  BY Zenon DEF Call, Save, Copy, Prune, Crash, DeleteLock, DelDone, PruneDone, FinishLayer, DeleteBlob,
     DelHas, bucket, history
<1>2. misread => misread'
  <2>1. UNCHANGED misread \/ \E k \in Loadable : Loads(k)
    BY Zenon DEF Call, Save, Copy, Prune, Crash, DeleteLock, DelDone, PruneDone, FinishLayer, DeleteBlob,
       DelHas, history
  <2> QED BY <2>1, LoadFacts, Zenon
<1>3. Idle.pc = "idle" /\ (Call(c) => client[c].pc = "idle")
  BY Zenon DEF Idle, Call, Save, Copy, Prune, Begin, At
<1>4. client'[c].pc \in {"idle", "layer", "prune", "del", "sweep"}
  <2>1. CASE Call(c)
    BY <1>3, <2>1, SaveEffect, CopyEffect, PruneEffect, Zenon DEF Call
  <2>2. CASE Crash(c) \/ DelDone(c) \/ PruneDone(c)
    BY <1>3, <2>2, EndEffect
  <2>3. CASE DeleteLock(c)
    BY <1>3, <2>3, DeleteLockEffect, Zenon
  <2>4. CASE \E d \in Digest : FinishLayer(c, d) \/ DeleteBlob(c, d)
    BY <1>3, <2>4, FinishLayerEffect, DeleteBlobEffect
  <2>5. ASSUME NEW id \in Id, DelHas(c, id) PROVE client'[c].pc \in {"idle", "prune", "del"}
    <3>1. client[c].pc = "prune"
      BY <2>5, Zenon DEF DelHas, At
    <3> QED BY <1>3, <2>5, <3>1, PruneEffect, Zenon
  <2> QED BY <2>1, <2>2, <2>3, <2>4, <2>5
<1> QED BY <1>1, <1>2, <1>4 DEF Holder
-----------------------------------------------------------------------------
(* Types and roles                                                          *)

(* Beginning an operation stays within the bound.                           *)
LEMMA BeginFacts ==
    ASSUME TypeOK, NEW c \in Client, NEW pruning \in BOOLEAN, Begin(c, pruning)
    PROVE  /\ ops' \in 0 .. MaxOps /\ overlapped' \in BOOLEAN
           /\ ~overlapped' => /\ ~overlapped
                              /\ \A u \in Client \ {c} : ~At(u, "idle") =>
                                    ~pruning /\ ~client[u].deleting
<1>1. ops' \in 0 .. MaxOps
  BY FaultAssumption DEF TypeOK, Begin
<1>2. overlapped' \in BOOLEAN
  BY Zenon DEF Begin
<1>3. ~overlapped' => /\ ~overlapped
                     /\ \A u \in Client \ {c} : ~At(u, "idle") => ~pruning /\ ~client[u].deleting
  BY Zenon DEF Begin
<1> QED BY <1>1, <1>2, <1>3

(* A failed request is counted, and so is a crash.                          *)
LEMMA FaultType == ASSUME TypeOK, Fault \/ UNCHANGED faults PROVE faults' \in 0 .. MaxFaults
BY FaultAssumption DEF TypeOK, Fault

(* The type invariant is inductive with Roles.                              *)
LEMMA TypeStep ==
    ASSUME TypeOK, Roles, NEW c \in Client, Continue(c) \/ Call(c) \/ Crash(c)
    PROVE  TypeOK'
<1>1. client' \in [Client -> Locals]
  BY StepsStepped DEF Stepped
<1>2. /\ catalog \in Catalog \cup {None} /\ lockfile \in BOOLEAN /\ blobs \subseteq Digest
      /\ kept \subseteq Id /\ ops \in 0 .. MaxOps
      /\ raced \in BOOLEAN /\ misread \in BOOLEAN /\ overlapped \in BOOLEAN /\ stuck \in BOOLEAN
  BY DEF TypeOK
<1>3. ASSUME catalog' \in Catalog \cup {None}, lockfile' \in BOOLEAN, blobs' \subseteq Digest,
             kept' \subseteq Id, raced' \in BOOLEAN, misread' \in BOOLEAN,
             overlapped' \in BOOLEAN, stuck' \in BOOLEAN,
             ops' \in 0 .. MaxOps, faults' \in 0 .. MaxFaults
      PROVE  TypeOK'
  <2>1. {raced, misread, overlapped, stuck}' \subseteq BOOLEAN
    BY <1>3, Zenon
  <2> QED BY <1>1, <1>3, <2>1, Zenon DEF TypeOK
<1>4. ASSUME UNCHANGED <<bucket, kept, raced, stuck>>, ops' \in 0 .. MaxOps,
             overlapped' \in BOOLEAN, misread' \in BOOLEAN, faults' \in 0 .. MaxFaults
      PROVE  TypeOK'
  BY <1>2, <1>3, <1>4, Zenon DEF bucket
<1>5. CASE \E a \in Output : Save(c, a)
  BY <1>2, <1>4, <1>5, BeginFacts, FaultType, Zenon DEF Save
<1>6. CASE \E d \in Digest : FinishLayer(c, d)
  <2>1. PICK d \in Digest : FinishLayer(c, d)
    BY <1>6
  <2>2. blobs' \subseteq Digest
    BY <1>2, <2>1, FinishLayerEffect
  <2>3. faults' \in 0 .. MaxFaults
    BY <2>1, FaultType DEF FinishLayer
  <2> QED BY <1>2, <1>3, <2>1, <2>2, <2>3, Zenon DEF FinishLayer, history
<1>7. CASE LoadForSave(c) \/ LoadForDel(c) \/ \E id \in Id : DelHas(c, id)
  <2>1. /\ \E k \in Loadable : Loads(k)
        /\ UNCHANGED <<bucket, kept, raced, overlapped, stuck, ops>>
    BY <1>7, Zenon DEF LoadForSave, LoadForDel, DelHas
  <2> QED BY <1>2, <1>4, <2>1, LoadFacts
<1>8. CASE \/ \E from \in Id : \E to \in Id \ {from} : Copy(c, from, to)
           \/ \E id \in Id : Prune(c, id)
  <2>1. /\ \E k \in Loadable : Loads(k)
        /\ \E p \in BOOLEAN : Begin(c, p)
        /\ UNCHANGED <<bucket, kept, raced, stuck>>
    BY <1>8, Zenon DEF Copy, Prune
  <2> QED BY <1>2, <1>4, <2>1, LoadFacts, BeginFacts
<1>9. CASE WaitForLock(c) \/ PruneDone(c) \/ DelDone(c)
  <2>1. UNCHANGED <<bucket, history, ops>> /\ (Fault \/ UNCHANGED faults)
    BY <1>9, Zenon DEF WaitForLock, PruneDone, DelDone
  <2> QED BY <1>2, <1>4, <2>1, FaultType DEF history
<1>10. CASE PutLock(c) \/ DeleteLock(c)
  <2>1. /\ UNCHANGED <<catalog, blobs, kept, raced, misread, overlapped, ops>>
        /\ Fault \/ UNCHANGED faults
        /\ lockfile' \in {lockfile, TRUE, FALSE} /\ stuck' \in {stuck, TRUE}
    BY <1>10, Zenon DEF PutLock, DeleteLock
  <2>2. lockfile' \in BOOLEAN /\ stuck' \in BOOLEAN
    BY <1>2, <2>1, Zenon
  <2> QED BY <1>2, <1>3, <2>1, <2>2, FaultType
<1>11. CASE PutCatalog(c)
  <2>1. client[c].cat \in Catalog /\ client[c].art.id \in Id
    BY <1>11, LocalsFacts DEF PutCatalog, At, Role, Holder, Artifact
  <2>2. /\ catalog' \in {catalog, client[c].cat} /\ kept' \subseteq kept \cup {client[c].art.id}
        /\ Fault \/ UNCHANGED faults
        /\ UNCHANGED <<lockfile, blobs, misread, overlapped, stuck, ops>>
    BY <1>11 DEF PutCatalog
  <2>3. raced' \in BOOLEAN
    BY <1>11, Zenon DEF PutCatalog
  <2>4. catalog' \in Catalog \cup {None} /\ kept' \subseteq Id
    BY <1>2, <2>1, <2>2
  <2> QED BY <1>2, <1>3, <2>2, <2>3, <2>4, FaultType
<1>12. CASE \E d \in Digest : DeleteBlob(c, d)
  <2>1. PICK d \in Digest : DeleteBlob(c, d)
    BY <1>12
  <2>2. blobs' \subseteq Digest
    BY <2>1, DeleteBlobEffect
  <2>3. faults' \in 0 .. MaxFaults
    BY <2>1, FaultType DEF DeleteBlob
  <2> QED BY <1>2, <1>3, <2>1, <2>2, <2>3, Zenon DEF DeleteBlob, history
<1>13. CASE Crash(c)
  <2>1. stuck' \in BOOLEAN /\ UNCHANGED <<bucket, kept, raced, misread, overlapped, ops>> /\ Fault
    BY <1>13, Zenon DEF Crash
  <2> QED BY <1>2, <1>3, <2>1, FaultType, Zenon DEF bucket
<1> QED BY <1>5, <1>6, <1>7, <1>8, <1>9, <1>10, <1>11, <1>12, <1>13 DEF Continue, Call

(* Roles is inductive.                                                      *)
LEMMA RolesStep ==
    ASSUME TypeOK, Roles, NEW c \in Client, Continue(c) \/ Call(c) \/ Crash(c)
    PROVE  Roles'
BY StepsStepped DEF Stepped, Roles
-----------------------------------------------------------------------------
(* The lock                                                                 *)

(* Only the steps of the lock itself change the lock object, and a client   *)
(* leaves "put" and "unlock" by going on, by deleting it or by getting      *)
(* stuck.                                                                  *)
LEMMA LockedStep ==
    ASSUME TypeOK, Roles, Locked, NEW c \in Client, Continue(c) \/ Call(c) \/ Crash(c)
    PROVE  Locked'
<1> DEFINE On(u) == client[u].pc \in {"put", "unlock"}
<1>1. Stepped(c) /\ \A u \in Client \ {c} : client'[u] = client[u]
  BY StepsStepped DEF Stepped
<1>2. ASSUME On(c)' PROVE Locked'
  BY <1>2 DEF Locked
<1>3. ASSUME ~On(c), UNCHANGED <<lockfile, stuck>> PROVE Locked'
  BY <1>1, <1>3 DEF Locked
<1>4. CASE PutLock(c)
  <2>1. stuck' \/ client'[c].pc = "put"
    BY <1>4, FlushEffect
  <2> QED BY <1>2, <2>1 DEF Locked
<1>5. CASE PutCatalog(c)
  <2>1. client'[c].pc = "unlock"
    BY <1>5, FlushEffect
  <2> QED BY <1>2, <2>1
<1>6. CASE DeleteLock(c)
  <2>1. lockfile' = FALSE \/ stuck'
    BY <1>6, DeleteLockEffect, Zenon
  <2> QED BY <2>1 DEF Locked
<1>7. CASE Crash(c)
  <2>1. CASE On(c)
    <3>1. stuck'
      BY <1>7, <2>1, Zenon DEF Crash
    <3> QED BY <3>1 DEF Locked
  <2>2. CASE ~On(c)
    <3>1. stuck' = stuck
      <4>1. stuck' = (stuck \/ On(c)) /\ stuck \in BOOLEAN
        BY <1>7 DEF Crash, TypeOK
      <4> QED BY <2>2, <4>1
    <3> QED BY <1>3, <1>7, <2>2, <3>1 DEF Crash, bucket
  <2> QED BY <2>1, <2>2
<1>8. CASE \/ Call(c) \/ WaitForLock(c) \/ LoadForSave(c) \/ LoadForDel(c) \/ DelDone(c) \/ PruneDone(c)
           \/ \E d \in Digest : FinishLayer(c, d) \/ DeleteBlob(c, d)
           \/ \E id \in Id : DelHas(c, id)
  <2>1. ~On(c)
    BY <1>8, Zenon DEF At, Call, Save, Copy, Prune, Begin, WaitForLock, LoadForSave, LoadForDel, DelDone, PruneDone,
       FinishLayer, DeleteBlob, DelHas
  <2>2. UNCHANGED <<lockfile, stuck>>
    BY <1>8, Zenon DEF Call, Save, Copy, Prune, WaitForLock, LoadForSave, LoadForDel, DelDone, PruneDone,
       FinishLayer, DeleteBlob, DelHas, bucket, history
  <2> QED BY <1>3, <2>1, <2>2
<1> QED BY <1>4, <1>5, <1>6, <1>7, <1>8 DEF Continue
-----------------------------------------------------------------------------
(* What racing updates can lose                                             *)

(* Without a race and a misread no id is lost: a put replaces the catalog   *)
(* its copy was made from.                                                 *)
LEMMA FreshStep ==
    ASSUME TypeOK, Roles, Fresh, NEW c \in Client, Continue(c) \/ Call(c) \/ Crash(c)
    PROVE  Fresh'
<1> SUFFICES ASSUME ~raced', ~misread' PROVE Fresh'
  BY DEF Fresh
<1>1. \A u \in Client \ {c} : client'[u] = client[u]
  BY StepsStepped DEF Stepped
<1>2. ASSUME UNCHANGED <<catalog, kept>>, ~raced, ~misread, Covers(client'[c], Saved(catalog))
      PROVE  Fresh'
  BY <1>1, <1>2 DEF Fresh, Saved
<1>3. ASSUME NEW l, l.pc \notin Holder, NEW S PROVE Covers(l, S)
  BY <1>3 DEF Covers
<1>4. Idle.pc \notin Holder
  BY DEF Idle, Holder
<1>5. CASE LoadForSave(c)
  <2>1. PICK k \in Loadable :
           /\ Loads(k)
           /\ \/ client'[c] = Idle
              \/ /\ k # None /\ client'[c].art = client[c].art
                 /\ client'[c].cat = Add(k, client[c].art)
    BY <1>5, LoadForSaveEffect
  <2>2. UNCHANGED <<catalog, kept, raced>> /\ ~misread
    BY <1>5, <2>1, LoadFacts DEF LoadForSave, bucket
  <2>3. CASE client'[c] = Idle
    BY <1>2, <1>3, <1>4, <2>2, <2>3
  <2>4. CASE k # None /\ client'[c].art = client[c].art /\ client'[c].cat = Add(k, client[c].art)
    <3>1. k.ids = Saved(catalog)
      BY <2>1, <2>4, LoadFacts
    <3>2. client'[c].cat.ids = Saved(catalog) \cup {client'[c].art.id}
      <4>1. client'[c].cat.ids = k.ids \cup {client[c].art.id}
        BY <2>4, IdsFacts
      <4> QED BY <2>4, <3>1, <4>1
    <3>3. Covers(client'[c], Saved(catalog))
      BY <3>2 DEF Covers
    <3> QED BY <1>2, <2>2, <3>3
  <2> QED BY <2>1, <2>3, <2>4
<1>6. CASE LoadForDel(c)
  <2>1. PICK k \in Loadable :
           /\ Loads(k)
           /\ \/ client'[c] = Idle
              \/ /\ k # None /\ client'[c].art.id = client[c].art.id
                 /\ client[c].deleting /\ client'[c].deleting = client[c].deleting
                 /\ client'[c].cat = Del(k, client[c].art.id)
    BY <1>6, LoadForDelEffect
  <2>2. UNCHANGED <<catalog, kept, raced>> /\ ~misread
    BY <1>6, <2>1, LoadFacts, Zenon DEF LoadForDel, bucket
  <2>3. CASE client'[c] = Idle
    BY <1>2, <1>3, <1>4, <2>2, <2>3
  <2>4. CASE /\ k # None /\ client'[c].art.id = client[c].art.id
             /\ client[c].deleting /\ client'[c].deleting = client[c].deleting
             /\ client'[c].cat = Del(k, client[c].art.id)
    <3>1. k.ids = Saved(catalog)
      BY <2>1, <2>4, LoadFacts, Zenon
    <3>2. client'[c].cat.ids = Saved(catalog) \ {client'[c].art.id} /\ client'[c].deleting
      <4>1. client'[c].cat.ids = k.ids \ {client[c].art.id}
        BY <2>4, IdsFacts
      <4>2. client'[c].deleting
        BY <2>4, Zenon
      <4> QED BY <2>4, <3>1, <4>1, <4>2
    <3>3. Covers(client'[c], Saved(catalog))
      BY <3>2 DEF Covers
    <3> QED BY <1>2, <2>2, <3>3
  <2> QED BY <2>1, <2>3, <2>4, Zenon
<1>7. CASE WaitForLock(c) \/ PutLock(c)
  <2>1. UNCHANGED <<catalog, kept, raced, misread>> /\ client[c].pc \in Holder
    BY <1>7, Zenon DEF WaitForLock, PutLock, bucket, history, At, Holder
  <2>2. client'[c] = Idle \/ Same(c)
    BY <1>7, FlushEffect
  <2>3. Covers(client[c], Saved(catalog))
    BY <2>1 DEF Fresh
  <2>4. Covers(client'[c], Saved(catalog))
    BY <1>3, <1>4, <2>1, <2>2, <2>3, Zenon DEF Covers, Same
  <2> QED BY <1>2, <2>1, <2>4
<1>8. CASE PutCatalog(c)
  <2> DEFINE l == client[c]
  <2>1. /\ ~raced /\ Holding = {c} /\ misread' = misread
        /\ catalog' = catalog \/ catalog' = l.cat
        /\ faults' = faults => catalog' = l.cat
        /\ kept' = IF l.deleting THEN kept \ {l.art.id}
                   ELSE IF faults' = faults THEN kept \cup {l.art.id} ELSE kept
    <3>1. raced' = (raced \/ Holding # {c})
      BY <1>8 DEF PutCatalog
    <3>2. ~raced /\ Holding = {c}
      BY <3>1, Zenon
    <3>3. faults' = faults => ~Fault
      BY DEF Fault, TypeOK
    <3> QED BY <1>8, <3>2, <3>3 DEF PutCatalog
  <2>2. kept \subseteq Saved(catalog) /\ Covers(l, Saved(catalog)) /\ l.pc \in Holder
    BY <1>8, <2>1 DEF Fresh, PutCatalog, At, Holder
  <2>3. Saved(l.cat) = l.cat.ids
    <3>1. l.cat \in Catalog
      BY <1>8, LocalsFacts DEF PutCatalog, At, Role, Holder
    <3> QED BY <3>1, NoneAssumption DEF Saved
  <2>4. kept' \subseteq Saved(catalog)'
    <3>1. Saved(catalog)' = Saved(catalog) \/ Saved(catalog)' = l.cat.ids
      BY <2>1, <2>3, Zenon DEF Saved
    <3>2. CASE l.deleting
      BY <2>1, <2>2, <3>1, <3>2, Zenon DEF Covers
    <3>3. CASE ~l.deleting /\ faults' = faults
      <4>1. Saved(catalog)' = l.cat.ids
        BY <2>1, <2>3, <3>3 DEF Saved
      <4> QED BY <2>1, <2>2, <3>3, <4>1, Zenon DEF Covers
    <3>4. CASE ~l.deleting /\ faults' # faults
      BY <2>1, <2>2, <3>1, <3>4, Zenon DEF Covers
    <3> QED BY <3>2, <3>3, <3>4
  <2>5. ASSUME NEW u \in Client PROVE client'[u].pc \notin Holder
    <3>1. CASE u = c
      BY <1>8, <3>1, FlushEffect DEF Holder
    <3>2. CASE u # c
      BY <1>1, <2>1, <3>2 DEF Holding, Holder
    <3> QED BY <3>1, <3>2
  <2> QED BY <2>4, <2>5, <1>3, Zenon DEF Fresh, Covers
<1>9. CASE \/ Call(c) \/ Crash(c) \/ DeleteLock(c) \/ DelDone(c) \/ PruneDone(c)
           \/ \E d \in Digest : FinishLayer(c, d) \/ DeleteBlob(c, d)
           \/ \E id \in Id : DelHas(c, id)
  <2>1. UNCHANGED <<catalog, kept, raced>> /\ client'[c].pc \notin Holder
    BY <1>9, NoCopy, Zenon
  <2>2. ~misread
    BY <1>9, NoCopy, Zenon
  <2> QED BY <1>2, <1>3, <2>1, <2>2
<1> QED BY <1>5, <1>6, <1>7, <1>8, <1>9 DEF Continue
-----------------------------------------------------------------------------
(* The counts                                                               *)

(* Counts stay sound in every copy, however the puts race.                  *)
LEMMA CountedStep ==
    ASSUME CountsKept, TypeOK, Roles, Counted, NEW c \in Client, Continue(c) \/ Call(c) \/ Crash(c)
    PROVE  Counted'
<1> DEFINE Has_copy == Holder \cup {"unlock"}
<1>1. \A u \in Client \ {c} : client'[u] = client[u]
  BY StepsStepped DEF Stepped
<1>2. ASSUME UNCHANGED catalog, client'[c].pc \in Has_copy => Enough(client'[c].cat)
      PROVE  Counted'
  BY <1>1, <1>2 DEF Counted
<1>3. ASSUME NEW k \in Loadable, Loads(k), k # None PROVE k \in Catalog /\ Enough(k)
  BY <1>3, LoadFacts DEF Counted, CountsKept
<1>4. CASE LoadForSave(c)
  <2>1. UNCHANGED catalog
    BY <1>4 DEF LoadForSave, bucket
  <2>2. PICK k \in Loadable :
           /\ Loads(k)
           /\ \/ client'[c] = Idle
              \/ k # None /\ client[c].art \in Artifact /\ client'[c].cat = Add(k, client[c].art)
    BY <1>4, LoadForSaveEffect
  <2>3. CASE client'[c] = Idle
    BY <1>2, <2>1, <2>3 DEF Idle, Holder
  <2>4. CASE k # None /\ client[c].art \in Artifact /\ client'[c].cat = Add(k, client[c].art)
    <3>1. Enough(client'[c].cat)
      BY <1>3, <2>2, <2>4 DEF CountsKept
    <3> QED BY <1>2, <2>1, <3>1
  <2> QED BY <2>2, <2>3, <2>4
<1>5. CASE LoadForDel(c)
  <2>1. UNCHANGED catalog
    BY <1>5 DEF LoadForDel, bucket
  <2>2. PICK k \in Loadable :
           /\ Loads(k)
           /\ \/ client'[c] = Idle
              \/ /\ k # None /\ client[c].art \in Artifact /\ Has(k, client[c].art.id)
                 /\ client'[c].cat = Del(k, client[c].art.id)
    BY <1>5, LoadForDelEffect
  <2>3. CASE client'[c] = Idle
    BY <1>2, <2>1, <2>3 DEF Idle, Holder
  <2>4. CASE /\ k # None /\ client[c].art \in Artifact /\ Has(k, client[c].art.id)
             /\ client'[c].cat = Del(k, client[c].art.id)
    <3>1. client[c].art.id \in Id
      BY <2>4 DEF Artifact
    <3>2. Enough(client'[c].cat)
      BY <1>3, <2>2, <2>4, <3>1 DEF CountsKept
    <3> QED BY <1>2, <2>1, <3>2
  <2> QED BY <2>2, <2>3, <2>4
<1>6. CASE WaitForLock(c) \/ PutLock(c)
  <2>1. UNCHANGED catalog /\ client[c].pc \in Has_copy
    BY <1>6, Zenon DEF WaitForLock, PutLock, bucket, At, Holder
  <2>2. client'[c] = Idle \/ client'[c].cat = client[c].cat
    BY <1>6, FlushEffect DEF Same
  <2>3. Enough(client[c].cat) /\ Idle.pc \notin Has_copy
    BY <2>1 DEF Counted, Idle, Holder
  <2> QED BY <1>2, <2>1, <2>2, <2>3
<1>7. CASE PutCatalog(c)
  <2>1. client[c].pc = "put" /\ catalog' \in {catalog, client[c].cat}
    BY <1>7 DEF PutCatalog, At
  <2>2. client'[c].cat = client[c].cat
    BY <1>7, FlushEffect DEF Same
  <2>3. Enough(client[c].cat)
    BY <2>1 DEF Counted, Holder
  <2> QED BY <1>1, <2>1, <2>2, <2>3 DEF Counted
<1>8. CASE \/ Call(c) \/ Crash(c) \/ DeleteLock(c) \/ DelDone(c) \/ PruneDone(c)
           \/ \E d \in Digest : FinishLayer(c, d) \/ DeleteBlob(c, d)
           \/ \E id \in Id : DelHas(c, id)
  BY <1>2, <1>8, NoCopy DEF Holder
<1> QED BY <1>4, <1>5, <1>6, <1>7, <1>8 DEF Continue
-----------------------------------------------------------------------------
(* Manifests and blobs                                                      *)

(* A prune stays alone unless overlapped says otherwise.                    *)
LEMMA AloneStep ==
    ASSUME TypeOK, Roles, Backed, ~overlapped', NEW c \in Client, Continue(c) \/ Call(c) \/ Crash(c)
    PROVE  /\ ~overlapped
           /\ \A u \in Client : Alone(u)'
           /\ \A u \in Client \ {c} : ~client[u].deleting
           /\ client[c].deleting => \A u \in Client \ {c} : client'[u] = Idle
<1>1. Stepped(c) /\ \A u \in Client \ {c} : client'[u] = client[u]
  BY StepsStepped DEF Stepped
<1>2. \A u \in Client : At(u, "idle") => client[u] = Idle
  BY DEF Roles, Role, At
<1>3. Idle.pc = "idle" /\ Idle.deleting = FALSE
  BY DEF Idle
<1>4. ASSUME ~overlapped PROVE \A u \in Client : Alone(u)
  BY <1>4 DEF Backed
<1>5. ASSUME ~overlapped, ~At(c, "idle"), client'[c] = Idle \/ client'[c].deleting = client[c].deleting
      PROVE  /\ \A u \in Client : Alone(u)'
             /\ \A u \in Client \ {c} : ~client[u].deleting
             /\ client[c].deleting => \A u \in Client \ {c} : client'[u] = Idle
  <2>1. \A u \in Client \ {c} : ~client[u].deleting
    BY <1>4, <1>5 DEF Alone
  <2>2. client[c].deleting => \A u \in Client \ {c} : client[u] = Idle
    BY <1>2, <1>4, <1>5 DEF Alone
  <2>3. ASSUME NEW u \in Client, client'[u].deleting, NEW v \in Client \ {u} PROVE client'[v].pc = "idle"
    <3>1. u = c
      BY <1>1, <2>1, <2>3
    <3>2. client[c].deleting
      BY <1>3, <1>5, <2>3, <3>1
    <3> QED BY <1>1, <1>3, <2>2, <3>1, <3>2
  <2> QED BY <1>1, <2>1, <2>2, <2>3 DEF Alone, At
<1>6. CASE Call(c)
  <2>1. PICK p \in BOOLEAN : Begin(c, p) /\ (p \/ ~client'[c].deleting)
    <3>1. ASSUME NEW a \in Output, Save(c, a) PROVE Begin(c, FALSE) /\ ~client'[c].deleting
      BY <3>1, SaveEffect, Zenon DEF Save
    <3>2. ASSUME NEW from \in Id, NEW to \in Id, Copy(c, from, to)
          PROVE  Begin(c, FALSE) /\ ~client'[c].deleting
      <4>1. Begin(c, FALSE) /\ client[c] = Idle
        BY <1>2, <3>2 DEF Copy, Begin
      <4> QED BY <1>3, <3>2, <4>1, CopyEffect, Zenon
    <3>3. ASSUME NEW id \in Id, Prune(c, id) PROVE Begin(c, TRUE)
      BY <3>3, Zenon DEF Prune
    <3> QED BY <1>6, <3>1, <3>2, <3>3, Zenon DEF Call
  <2>2. /\ ~overlapped /\ client[c] = Idle
        /\ \A u \in Client \ {c} : ~At(u, "idle") => ~p /\ ~client[u].deleting
    BY <1>2, <2>1, BeginFacts DEF Begin
  <2>3. \A u \in Client \ {c} : ~client[u].deleting
    BY <1>2, <1>3, <2>2
  <2>4. \A u \in Client : Alone(u)'
    BY <1>1, <2>1, <2>2, <2>3 DEF Alone, At
  <2> QED BY <1>3, <2>2, <2>3, <2>4
<1>7. CASE Continue(c) \/ Crash(c)
  <2>1. UNCHANGED overlapped
    BY <1>7, Zenon DEF Continue, FinishLayer, LoadForSave, WaitForLock, PutLock, PutCatalog, DeleteLock, DelHas,
       LoadForDel, DeleteBlob, DelDone, PruneDone, Crash, history
  <2>2. ~At(c, "idle")
    BY <1>7, Zenon DEF At, Continue, FinishLayer, LoadForSave, WaitForLock, PutLock, PutCatalog, DeleteLock, DelHas,
       LoadForDel, DeleteBlob, DelDone, PruneDone, Crash
  <2>3. client'[c] = Idle \/ client'[c].deleting = client[c].deleting
    <3>1. ASSUME NEW id \in Id, DelHas(c, id)
          PROVE  client'[c] = Idle \/ client'[c].deleting = client[c].deleting
      <4>1. client[c].deleting /\ client[c].deleting \in BOOLEAN
        BY <3>1, LocalsFacts DEF DelHas, At, Role
      <4>2. client'[c] = Idle \/ (client'[c].deleting /\ client'[c].deleting \in BOOLEAN)
        <5>1. client'[c].deleting \in BOOLEAN
          BY <1>1, Zenon DEF Stepped, Locals
        <5> QED BY <3>1, <4>1, <5>1, PruneEffect
      <4> QED BY <4>1, <4>2, Zenon
    <3> QED BY <1>7, <3>1, FinishLayerEffect, LoadForSaveEffect, FlushEffect, DeleteLockEffect, LoadForDelEffect,
               DeleteBlobEffect, EndEffect, Zenon DEF Continue, Same
  <2> QED BY <1>5, <2>1, <2>2, <2>3
<1> QED BY <1>6, <1>7

(* What a client relies on stays when blobs are added, and a client that    *)
(* relies on nothing is served by any bucket.                              *)
LEMMA SupportedFacts ==
    /\ \A l, k, A, B : Supported(l, k, A) /\ A \subseteq B => Supported(l, k, B)
    /\ \A l, k, B : l.pc \in {"idle", "prune", "del"} => Supported(l, k, B)
    /\ \A k, A, B : Complete(k, A) /\ A \subseteq B => Complete(k, B)
<1>1. \A k, A, B : Complete(k, A) /\ A \subseteq B => Complete(k, B)
  BY DEF Complete
<1>2. ASSUME NEW l, NEW k, NEW A, NEW B, Supported(l, k, A), A \subseteq B PROVE Supported(l, k, B)
  BY <1>1, <1>2 DEF Supported
<1>3. ASSUME NEW l, NEW k, NEW B, l.pc \in {"idle", "prune", "del"} PROVE Supported(l, k, B)
  BY <1>3 DEF Supported, Holder
<1> QED BY <1>1, <1>2, <1>3, Zenon

(* Catalog::add of an artifact whose layers are up, and Catalog::del, keep   *)
(* a catalog complete.                                                     *)
LEMMA CompleteCopies ==
    ASSUME NEW k \in Catalog, NEW B, Complete(k, B)
    PROVE  /\ \A a \in Artifact : a.layers \subseteq B => Complete(Add(k, a), B)
           /\ \A id \in Id : Complete(Del(k, id), B)
           /\ \A d \in Digest : Refs(k, d) = {} => Complete(k, B \ {d})
<1>1. k.ids \subseteq Id /\ k.manifests \in [Id -> Manifest]
  BY DEF Catalog
<1>2. ASSUME NEW a \in Artifact, a.layers \subseteq B PROVE Complete(Add(k, a), B)
  <2> SUFFICES ASSUME NEW i \in Add(k, a).ids PROVE Add(k, a).manifests[i] \subseteq B
    BY DEF Complete
  <2>1. i \in Id /\ Add(k, a).manifests[i] = IF i = a.id THEN a.layers ELSE k.manifests[i]
    BY <1>1 DEF Add, Artifact
  <2>2. i # a.id => i \in k.ids
    BY DEF Add
  <2> QED BY <1>2, <2>1, <2>2 DEF Complete
<1>3. ASSUME NEW id \in Id PROVE Complete(Del(k, id), B)
  <2> SUFFICES ASSUME NEW i \in Del(k, id).ids PROVE Del(k, id).manifests[i] \subseteq B
    BY DEF Complete
  <2>1. i \in k.ids /\ i # id
    BY DEF Del
  <2>2. Del(k, id).manifests[i] = k.manifests[i]
    BY <1>1, <2>1 DEF Del
  <2> QED BY <2>1, <2>2 DEF Complete
<1>4. ASSUME NEW d \in Digest, Refs(k, d) = {} PROVE Complete(k, B \ {d})
  BY <1>1, <1>4 DEF Complete, Refs, Has
<1> QED BY <1>2, <1>3, <1>4

(* What one client's step does to the others and to the catalog, when the   *)
(* bucket only grows.                                                      *)
LEMMA Grown ==
    ASSUME TypeOK, Backed, ~overlapped, NEW c \in Client, Stepped(c), \A u \in Client : Alone(u)',
           UNCHANGED catalog, blobs \subseteq blobs',
           Supported(client'[c], catalog, blobs')
    PROVE  Backed'
<1>1. catalog # None => Complete(catalog, blobs')
  BY SupportedFacts DEF Backed
<1>2. ASSUME NEW u \in Client PROVE Supported(client'[u], catalog', blobs')
  <2>1. CASE u = c
    BY <2>1
  <2>2. CASE u # c
    <3>1. client'[u] = client[u] /\ Supported(client[u], catalog, blobs)
      BY <2>2 DEF Stepped, Backed
    <3> QED BY <3>1, SupportedFacts
  <2> QED BY <2>1, <2>2
<1> QED BY <1>1, <1>2, Zenon DEF Backed

(* While no prune overlaps another operation, every manifest in the bucket  *)
(* and in the copies keeps its blobs.                                      *)
LEMMA BackedStep ==
    ASSUME CountsKept, TypeOK, Roles, Counted, Backed, NEW c \in Client, Continue(c) \/ Call(c) \/ Crash(c)
    PROVE  Backed'
<1> SUFFICES ASSUME ~overlapped' PROVE Backed'
  BY DEF Backed
<1> DEFINE was == client[c]
           is == client'[c]
<1>1. /\ ~overlapped /\ \A u \in Client : Alone(u)'
      /\ \A u \in Client \ {c} : ~client[u].deleting
      /\ was.deleting => \A u \in Client \ {c} : client'[u] = Idle
  BY AloneStep
<1>2. Stepped(c) /\ \A u \in Client \ {c} : client'[u] = client[u]
  BY StepsStepped DEF Stepped
<1>3. /\ catalog # None => catalog \in Catalog /\ Complete(catalog, blobs)
      /\ \A u \in Client : Supported(client[u], catalog, blobs)
  BY <1>1 DEF Backed, TypeOK
<1>4. Idle.pc = "idle"
  BY DEF Idle
<1>5. \A B : Supported(Idle, catalog, B)
  BY <1>4, SupportedFacts
<1>6. ASSUME UNCHANGED catalog, blobs \subseteq blobs', Supported(is, catalog, blobs')
      PROVE  Backed'
  BY <1>1, <1>2, <1>6, Grown
<1>7. ASSUME NEW k \in Loadable, Loads(k), k # None PROVE k \in Catalog /\ Complete(k, blobs)
  <2>1. Complete(Empty, blobs)
    BY DEF Empty, Complete
  <2> QED BY <1>3, <1>7, <2>1, LoadFacts
<1>8. CASE \E a \in Output : Save(c, a)
  <2>1. PICK a \in Output : Save(c, a)
    BY <1>8
  <2>2. is.pc = "layer" /\ is.art = a /\ is.todo = a.layers
    BY <2>1, SaveEffect
  <2>3. Supported(is, catalog, blobs)
    BY <2>2 DEF Supported, Holder
  <2> QED BY <1>6, <2>1, <2>3 DEF Save, bucket
<1>9. CASE \E d \in Digest : FinishLayer(c, d)
  <2>1. PICK d \in Digest : FinishLayer(c, d)
    BY <1>9
  <2>2. UNCHANGED catalog /\ was.pc = "layer"
    BY <2>1 DEF FinishLayer, At
  <2>3. CASE is = Idle /\ blobs \subseteq blobs'
    BY <1>5, <1>6, <2>2, <2>3
  <2>4. CASE is.pc = "layer" /\ Same(c) /\ blobs' = blobs \cup {d} /\ is.todo = was.todo \ {d}
    <3>1. was.art.layers \subseteq blobs \cup was.todo
      BY <1>3, <2>2 DEF Supported
    <3>2. is.art.layers \subseteq blobs' \cup is.todo
      BY <2>4, <3>1 DEF Same
    <3>3. Supported(is, catalog, blobs')
      BY <2>4, <3>2 DEF Supported, Holder
    <3> QED BY <1>6, <2>2, <2>4, <3>3
  <2> QED BY <2>1, <2>3, <2>4, FinishLayerEffect
<1>10. CASE LoadForSave(c)
  <2>1. UNCHANGED <<catalog, blobs>> /\ was.pc = "layer" /\ was.todo = {}
    BY <1>10 DEF LoadForSave, At, bucket
  <2>2. PICK k \in Loadable :
           /\ Loads(k)
           /\ \/ is = Idle
              \/ k # None /\ is.pc = "wait" /\ was.art \in Artifact /\ is.cat = Add(k, was.art)
    BY <1>10, LoadForSaveEffect
  <2>3. CASE is = Idle
    BY <1>5, <1>6, <2>1, <2>3
  <2>4. CASE k # None /\ is.pc = "wait" /\ was.art \in Artifact /\ is.cat = Add(k, was.art)
    <3>1. was.art.layers \subseteq blobs
      BY <1>3, <2>1 DEF Supported
    <3>2. Complete(is.cat, blobs)
      BY <1>7, <2>2, <2>4, <3>1, CompleteCopies
    <3>3. Supported(is, catalog, blobs)
      BY <2>4, <3>2 DEF Supported, Holder
    <3> QED BY <1>6, <2>1, <3>3
  <2> QED BY <2>2, <2>3, <2>4
<1>11. CASE \E from \in Id : \E to \in Id \ {from} : Copy(c, from, to)
  <2>1. PICK from \in Id, to \in Id : Copy(c, from, to)
    BY <1>11
  <2>2. UNCHANGED <<catalog, blobs>>
    BY <2>1 DEF Copy, bucket
  <2>3. PICK k \in Loadable :
           /\ Loads(k)
           /\ \/ client' = client
              \/ k # None /\ from \in k.ids /\ is.pc = "layer" /\ is.art.layers = k.manifests[from]
    BY <2>1, CopyEffect
  <2>4. CASE client' = client
    BY <1>3, <1>6, <2>2, <2>4
  <2>5. CASE k # None /\ from \in k.ids /\ is.pc = "layer" /\ is.art.layers = k.manifests[from]
    <3>1. is.art.layers \subseteq blobs
      BY <1>7, <2>3, <2>5 DEF Complete
    <3>2. Supported(is, catalog, blobs)
      BY <2>5, <3>1 DEF Supported, Holder
    <3> QED BY <1>6, <2>2, <3>2
  <2> QED BY <2>3, <2>4, <2>5
<1>12. CASE WaitForLock(c) \/ PutLock(c)
  <2>1. UNCHANGED <<catalog, blobs>> /\ was.pc \in Holder
    BY <1>12, Zenon DEF WaitForLock, PutLock, At, bucket, Holder
  <2>2. is = Idle \/ (Same(c) /\ is.pc \in Holder)
    BY <1>12, FlushEffect DEF Holder
  <2>3. Complete(was.cat, blobs)
    BY <1>3, <2>1 DEF Supported
  <2>4. CASE is = Idle
    BY <1>5, <1>6, <2>1, <2>4
  <2>5. CASE Same(c) /\ is.pc \in Holder
    <3>1. Supported(is, catalog, blobs)
      BY <2>3, <2>5 DEF Supported, Holder, Same
    <3> QED BY <1>6, <2>1, <3>1
  <2> QED BY <2>2, <2>4, <2>5
<1>13. CASE PutCatalog(c)
  <2>1. /\ was.pc = "put" /\ UNCHANGED blobs
        /\ catalog' = catalog \/ catalog' = was.cat
        /\ faults' = faults => catalog' = was.cat
    <3>1. faults' = faults => ~Fault
      BY DEF Fault, TypeOK
    <3> QED BY <1>13, <3>1 DEF PutCatalog, At
  <2>2. is.pc = "unlock" /\ Same(c) /\ (is.put => faults' = faults)
    BY <1>13, FlushEffect
  <2>3. Complete(was.cat, blobs)
    BY <1>3, <2>1 DEF Supported, Holder
  <2>4. catalog' # None => Complete(catalog', blobs')
    BY <1>3, <2>1, <2>3
  <2>5. Supported(is, catalog', blobs')
    BY <2>1, <2>2 DEF Supported, Holder, Same
  <2>6. ASSUME NEW u \in Client \ {c} PROVE Supported(client'[u], catalog', blobs')
    <3>1. Supported(client[u], catalog, blobs) /\ ~client[u].deleting /\ client'[u] = client[u]
      BY <1>1, <1>2, <1>3
    <3>2. client[u].pc # "sweep"
      BY <3>1 DEF Roles, Role
    <3> QED BY <2>1, <3>1, <3>2 DEF Supported
  <2> QED BY <1>1, <2>4, <2>5, <2>6 DEF Backed
<1>14. CASE DeleteLock(c)
  <2>1. UNCHANGED <<catalog, blobs>> /\ was.pc = "unlock"
    BY <1>14 DEF DeleteLock, At
  <2>2. CASE is = Idle
    BY <1>5, <1>6, <2>1, <2>2
  <2>3. CASE /\ is.pc = "sweep" /\ was.put /\ was.deleting
             /\ is.todo = {d \in was.art.layers : was.cat.blob_counts[d] <= 0}
    <3>1. catalog = was.cat
      BY <1>3, <2>1, <2>3 DEF Supported
    <3>2. was.cat \in Catalog /\ Enough(was.cat) /\ was.art.layers \subseteq Digest
      BY <2>1, LocalsFacts DEF Role, Counted, Artifact, Manifest
    <3>3. \A d \in is.todo : Refs(catalog, d) = {}
      BY <2>3, <3>1, <3>2 DEF CountsKept
    <3>4. Supported(is, catalog, blobs)
      BY <2>3, <3>3 DEF Supported, Holder
    <3> QED BY <1>6, <2>1, <3>4
  <2> QED BY <1>14, <2>2, <2>3, DeleteLockEffect, Zenon
<1>15. CASE \E id \in Id : Prune(c, id) \/ DelHas(c, id)
  <2>1. PICK id \in Id : Prune(c, id) \/ DelHas(c, id)
    BY <1>15
  <2>2. UNCHANGED <<catalog, blobs>>
    BY <2>1, Zenon DEF Prune, DelHas, bucket
  <2>3. CASE client' = client
    BY <1>3, <1>6, <2>2, <2>3
  <2>4. CASE is.pc \in {"idle", "prune", "del"}
    BY <1>6, <2>2, <2>4, SupportedFacts
  <2> QED BY <1>4, <2>1, <2>3, <2>4, PruneEffect
<1>16. CASE LoadForDel(c)
  <2>1. UNCHANGED <<catalog, blobs>>
    BY <1>16 DEF LoadForDel, bucket
  <2>2. PICK k \in Loadable :
           /\ Loads(k)
           /\ \/ is = Idle
              \/ /\ k # None /\ is.pc = "wait" /\ was.art \in Artifact
                 /\ is.cat = Del(k, was.art.id)
    BY <1>16, LoadForDelEffect
  <2>3. CASE is = Idle
    BY <1>5, <1>6, <2>1, <2>3
  <2>4. CASE k # None /\ is.pc = "wait" /\ was.art \in Artifact /\ is.cat = Del(k, was.art.id)
    <3>1. was.art.id \in Id
      BY <2>4 DEF Artifact
    <3>2. Complete(is.cat, blobs)
      BY <1>7, <2>2, <2>4, <3>1, CompleteCopies
    <3>3. Supported(is, catalog, blobs)
      BY <2>4, <3>2 DEF Supported, Holder
    <3> QED BY <1>6, <2>1, <3>3
  <2> QED BY <2>2, <2>3, <2>4
<1>17. CASE \E d \in Digest : DeleteBlob(c, d)
  <2>1. PICK d \in Digest : DeleteBlob(c, d)
    BY <1>17
  <2>2. UNCHANGED catalog
    BY <2>1 DEF DeleteBlob
  <2>3. /\ was.deleting /\ d \in was.todo /\ was.pc = "sweep" /\ blobs \ {d} \subseteq blobs'
        /\ is = Idle \/ (is.pc = "sweep" /\ is.todo = was.todo \ {d})
    BY <2>1, DeleteBlobEffect
  <2>4. catalog # None => \A e \in was.todo : Refs(catalog, e) = {}
    BY <1>3, <2>3 DEF Supported
  <2>5. catalog # None => Complete(catalog, blobs')
    <3>1. catalog # None => Complete(catalog, blobs \ {d})
      BY <1>3, <2>3, <2>4, CompleteCopies
    <3> QED BY <2>3, <3>1, SupportedFacts
  <2>6. Supported(is, catalog, blobs')
    BY <1>5, <2>3, <2>4, Zenon DEF Supported, Holder
  <2>7. \A u \in Client \ {c} : Supported(client'[u], catalog, blobs')
    BY <1>1, <1>5, <2>3
  <2> QED BY <1>1, <2>2, <2>5, <2>6, <2>7 DEF Backed
<1>18. CASE DelDone(c) \/ PruneDone(c) \/ Crash(c)
  <2>1. UNCHANGED <<catalog, blobs>>
    BY <1>18 DEF DelDone, PruneDone, Crash, bucket
  <2>2. is.pc \in {"idle", "prune", "del"}
    BY <1>4, <1>18, EndEffect
  <2> QED BY <1>6, <2>1, <2>2, SupportedFacts
<1> QED BY <1>8, <1>9, <1>10, <1>11, <1>12, <1>13, <1>14, <1>15, <1>16, <1>17, <1>18 DEF Continue, Call
-----------------------------------------------------------------------------
(* The theorems                                                             *)
-----------------------------------------------------------------------------
(* An empty bucket and idle clients satisfy the invariant.                  *)
LEMMA InductiveInit == Init => Inductive
<1> SUFFICES ASSUME Init PROVE Inductive
  OBVIOUS
<1>1. \A c \in Client : client[c] = Idle
  BY DEF Init
<1>2. Idle.pc = "idle" /\ Idle.deleting = FALSE
  BY DEF Idle
<1>3. TypeOK
  <2>1. client \in [Client -> Locals] /\ ops \in 0 .. MaxOps /\ faults \in 0 .. MaxFaults
    BY IdleType, FaultAssumption DEF Init
  <2>2. lockfile \in BOOLEAN /\ {raced, misread, overlapped, stuck} \subseteq BOOLEAN
    BY Zenon DEF Init
  <2>3. catalog \in Catalog \cup {None} /\ blobs \subseteq Digest /\ kept \subseteq Id
    BY DEF Init
  <2> QED BY <2>1, <2>2, <2>3 DEF TypeOK
<1>4. Roles
  BY <1>1, IdleType DEF Roles
<1>5. Counted /\ Locked
  BY <1>1, <1>2 DEF Init, Counted, Locked, Holder
<1>6. Fresh
  BY <1>1, <1>2 DEF Init, Fresh, Covers, Holder
<1>7. Backed
  BY <1>1, <1>2, SupportedFacts DEF Init, Backed, Alone
<1> QED BY <1>3, <1>4, <1>5, <1>6, <1>7 DEF Inductive
-----------------------------------------------------------------------------
(* Cardinalities: that the catalog keeps its counts, and the theorems.      *)
INSTANCE FiniteSetTheorems

(* Add counts each layer once more and adds at most one manifest; del       *)
(* takes both away.                                                        *)
LEMMA EnoughKept ==
    ASSUME NEW k \in Catalog, Enough(k)
    PROVE  /\ \A a \in Artifact : Enough(Add(k, a))
           /\ \A id \in Id : Enough(Del(k, id))
           /\ \A d \in Digest : k.blob_counts[d] <= 0 => Refs(k, d) = {}
<1>1. \A d \in Digest : k.blob_counts[d] \in Int /\ k.blob_counts[d] >= Cardinality(Refs(k, d))
  BY DEF Enough, Catalog
<1>2. \A c, d : IsFiniteSet(Refs(c, d)) /\ Cardinality(Refs(c, d)) \in Nat
  <2>1. \A c, d : Refs(c, d) \in SUBSET Id
    BY DEF Refs
  <2> QED BY <2>1, CatalogAssumption, FS_Subset, FS_CardinalityType
<1>3. ASSUME NEW a \in Artifact PROVE Enough(Add(k, a))
  <2> SUFFICES ASSUME NEW d \in Digest PROVE Add(k, a).blob_counts[d] >= Cardinality(Refs(Add(k, a), d))
    BY DEF Enough
  <2>1. Add(k, a).blob_counts[d] = k.blob_counts[d] + (IF d \in a.layers THEN 1 ELSE 0)
    BY DEF Add
  <2>2. CASE d \in a.layers
    <3>1. Refs(Add(k, a), d) \in SUBSET (Refs(k, d) \cup {a.id})
      BY DEF Refs, Has, Add, Catalog, Artifact
    <3>2. /\ IsFiniteSet(Refs(k, d) \cup {a.id})
          /\ Cardinality(Refs(k, d) \cup {a.id}) \in {Cardinality(Refs(k, d)), Cardinality(Refs(k, d)) + 1}
      BY <1>2, FS_AddElement, Zenon
    <3>3. Cardinality(Refs(Add(k, a), d)) <= Cardinality(Refs(k, d) \cup {a.id})
      BY <3>1, <3>2, FS_Subset
    <3> QED BY <1>1, <1>2, <2>1, <2>2, <3>2, <3>3
  <2>3. CASE d \notin a.layers
    <3>1. Refs(Add(k, a), d) \in SUBSET Refs(k, d)
      BY <2>3 DEF Refs, Has, Add, Catalog, Artifact
    <3>2. Cardinality(Refs(Add(k, a), d)) <= Cardinality(Refs(k, d))
      BY <1>2, <3>1, FS_Subset
    <3> QED BY <1>1, <1>2, <2>1, <2>3, <3>2
  <2> QED BY <2>2, <2>3
<1>4. ASSUME NEW id \in Id PROVE Enough(Del(k, id))
  <2> SUFFICES ASSUME NEW d \in Digest PROVE Del(k, id).blob_counts[d] >= Cardinality(Refs(Del(k, id), d))
    BY DEF Enough
  <2>1. Refs(Del(k, id), d) = Refs(k, d) \ {id} /\ (id \in Refs(k, d) <=> Has(k, id) /\ d \in k.manifests[id])
    BY DEF Refs, Has, Del, Catalog
  <2>2. Cardinality(Refs(k, d) \ {id})
            = IF id \in Refs(k, d) THEN Cardinality(Refs(k, d)) - 1 ELSE Cardinality(Refs(k, d))
    BY <1>2, FS_RemoveElement, Zenon
  <2>3. Del(k, id).blob_counts[d] = IF id \in Refs(k, d)
                                    THEN IF k.blob_counts[d] > 1 THEN k.blob_counts[d] - 1 ELSE 0
                                    ELSE k.blob_counts[d]
    BY <2>1 DEF Del
  <2> QED BY <1>1, <1>2, <2>1, <2>2, <2>3
<1>5. \A d \in Digest : Cardinality(Refs(k, d)) = 0 => Refs(k, d) = {}
  BY <1>2, FS_EmptySet
<1> QED BY <1>1, <1>2, <1>3, <1>4, <1>5

(* A new catalog counts nothing and has nothing to count.                   *)
LEMMA EnoughEmpty == Enough(Empty)
<1>1. \A d \in Digest : Empty.blob_counts[d] = 0 /\ Refs(Empty, d) = {}
  BY DEF Empty, Refs, Has
<1> QED BY <1>1, FS_EmptySet DEF Enough

(* The strengthening of the properties below is an invariant.              *)
THEOREM Invariance == Spec => []Inductive
<1>1. Inductive /\ [Next]_vars => Inductive'
  <2>1. ASSUME Inductive, NEW c \in Client, Continue(c) \/ Call(c) \/ Crash(c) PROVE Inductive'
    <3>1. CountsKept
      BY EnoughKept, EnoughEmpty DEF CountsKept
    <3> QED BY <2>1, <3>1, TypeStep, RolesStep, CountedStep, FreshStep, BackedStep, LockedStep DEF Inductive
  <2>2. ASSUME Inductive, UNCHANGED vars PROVE Inductive'
    BY <2>2, ZenonT(30) DEF Inductive, vars, bucket, history, TypeOK, Roles, Counted, Fresh, Backed, Locked, Alone, At
  <2> QED BY <2>1, <2>2 DEF Next
<1> QED BY <1>1, InductiveInit, PTL DEF Spec

(* Every variable of S3Store stays in its range.                           *)
THEOREM TypeCorrect == Spec => []TypeOK
<1>1. Inductive => TypeOK
  BY DEF Inductive
<1> QED BY <1>1, Invariance, PTL

(* Whatever number of tasks and processes share the bucket, a save whose    *)
(* put succeeded is lost only to a put that raced another client's copy or  *)
(* to a failed head request that load took for an empty bucket.            *)
THEOREM LostOnlyToRaces == Spec => []SavesKept
<1>1. Inductive => SavesKept
  BY DEF Inductive, Fresh, SavesKept
<1> QED BY <1>1, Invariance, PTL

(* Races and misreads included, the catalog in the bucket names no missing  *)
(* blob as long as no prune overlapped another operation.                  *)
THEOREM NoMissingBlob == Spec => []ManifestsComplete
<1>1. Inductive => ManifestsComplete
  BY DEF Inductive, Backed, Complete, ManifestsComplete, Saved
<1> QED BY <1>1, Invariance, PTL

(* When every operation has returned, the lock object is gone, unless a     *)
(* client died or failed on the lock itself.                               *)
THEOREM LockNotLeft == Spec => []LockReleased
<1>1. Inductive => LockReleased
  BY DEF Inductive, Locked, LockReleased, At
<1> QED BY <1>1, Invariance, PTL
==============================================================================
