------------------------------- MODULE Catalog -------------------------------
(***************************************************************************)
(* Catalog (storage/catalog.rs), the index that both backends keep in one  *)
(* JSON file: manifests by id, the ids per prefix, a count per blob.       *)
(***************************************************************************)
EXTENDS Integers, FiniteSets

CONSTANTS
    Id, Digest,
    Prefix      \* Id -> the id without its digest

ASSUME CatalogAssumption ==
    IsFiniteSet(Id) /\ IsFiniteSet(Digest) /\ DOMAIN Prefix = Id

(* ids is the list under "*"; manifests maps an id to the digests of its    *)
(* layers.  The lists per prefix are ids restricted to the prefix, as add  *)
(* and del keep them all in step.                                          *)

Manifest == SUBSET Digest
Artifact == [id : Id, layers : Manifest]
Catalog == [ids : SUBSET Id, manifests : [Id -> Manifest], blob_counts : [Digest -> Int]]
Empty == [ids |-> {}, manifests |-> [i \in Id |-> {}], blob_counts |-> [d \in Digest |-> 0]]

Has(c, id) == id \in c.ids
Matching(c, id) == {i \in Id : Has(c, i) /\ Prefix[i] = Prefix[id]}
Refs(c, d) == {i \in Id : Has(c, i) /\ d \in c.manifests[i]}

(* Faulty variant: an id that is already there leaves the counts alone. *)
AddOnce(c, a) ==
    [ids |-> c.ids \cup {a.id},
     manifests |-> [c.manifests EXCEPT ![a.id] = a.layers],
     blob_counts |-> [d \in Digest |-> c.blob_counts[d]
                        + (IF d \in a.layers /\ ~Has(c, a.id) THEN 1 ELSE 0)]]

Add(c, a) ==
    [ids |-> c.ids \cup {a.id},
     manifests |-> [c.manifests EXCEPT ![a.id] = a.layers],
     blob_counts |-> [d \in Digest |-> c.blob_counts[d] + (IF d \in a.layers THEN 1 ELSE 0)]]

(* An entry that falls to zero is removed, which count reads as zero. *)
Del(c, id) ==
    [ids |-> c.ids \ {id},
     manifests |-> [c.manifests EXCEPT ![id] = {}],
     blob_counts |-> [d \in Digest |->
        IF Has(c, id) /\ d \in c.manifests[id]
        THEN IF c.blob_counts[d] > 1 THEN c.blob_counts[d] - 1 ELSE 0
        ELSE c.blob_counts[d]]]
=============================================================================
