----------------------------- MODULE CatalogFile -----------------------------
(***************************************************************************)
(* The catalog file of the local backend, which every operation reads and  *)
(* parses as a whole and every change writes again as a whole.  Ids are    *)
(* written as text, so an id is found again when its text is read back as  *)
(* the same id.  The operations hold the lock of the file (LocalStore has  *)
(* their interleavings), so one is one step here.                          *)
(***************************************************************************)
EXTENDS Names, FiniteSets

CONSTANTS Addresses,  \* addresses of transforms, as they are written in a project
          Locations,  \* the urls and paths that sources take their name from
          Arches,     \* values of `arch`, with None
          Hashes,     \* digests, as text
          MaxKept     \* bound on the ids saved and not pruned

VARIABLES file,       \* None, or the text: lists of ids by prefix, and manifests by id
          kept,       \* history: the ids saved and not pruned since
          dashed,     \* history: an id was saved whose arch contains a dash
          result      \* how the last command ended
vars == <<file, kept, dashed, result>>

TransformIds == {MakeId(ToId(AddrParse(a)), arch, d) : a \in Addresses, arch \in Arches, d \in Hashes}
SourceIds == {MakeId(l, None, d) : l \in Locations, d \in Hashes}
Ids == TransformIds \cup SourceIds

(* The layer of a source's artifact is a file, of a transform's a tar. *)
MediaOf(id) == [kind |-> IF id \in SourceIds \ TransformIds THEN "file" ELSE "tar", compression |-> None]
Artifact(id) == [content |-> id, media |-> MediaOf(id)]
-----------------------------------------------------------------------------
(* Catalog, in memory: the ids listed under each prefix and the manifests.  *)
EmptyCatalog == [lists |-> {}, manifests |-> <<>>]
Has(c, id) == id \in DOMAIN c.manifests
Get(c, id) == IF Has(c, id) THEN c.manifests[id] ELSE None
Matching(c, id) == {e[2] : e \in {e \in c.lists : e[1] = PrefixOf(id)}}
Add(c, id) == [lists |-> c.lists \cup {<<PrefixOf(id), id>>},
               manifests |-> [i \in DOMAIN c.manifests \cup {id} |->
                                 IF i = id THEN Artifact(id) ELSE c.manifests[i]]]
Del(c, id) == [lists |-> c.lists \ {<<PrefixOf(id), id>>},
               manifests |-> [i \in DOMAIN c.manifests \ {id} |-> c.manifests[i]]]

(* flush_at *)
Written(c) ==
    [lists |-> {<<e[1], Display(e[2])>> : e \in c.lists},
     manifests |-> {<<Display(i), c.manifests[i].content, MediaText(c.manifests[i].media)>> :
                       i \in DOMAIN c.manifests}]

(* What each text the program can write is read as, once and again. *)
Texts == LET once == {Display(id) : id \in Ids}
         IN once \cup {Display(FromStr(t)) : t \in {t \in once : FromStr(t) # Failed}}
Parsed == [t \in Texts |-> FromStr(t)]

(* load_at: no catalog when a text does not parse.  The last of the manifests *)
(* read for one id stays; which one that is is left open.                   *)
Loads ==
    IF file = None THEN {EmptyCatalog}
    ELSE LET texts == {e[2] : e \in file.lists} \cup {e[1] : e \in file.manifests}
             ids == {Parsed[e[1]] : e \in file.manifests}
             last == {M \in SUBSET file.manifests :
                         /\ Cardinality(M) = Cardinality(ids)
                         /\ {Parsed[e[1]] : e \in M} = ids}
             read(M) == [i \in ids |-> LET e == CHOOSE e \in M : Parsed[e[1]] = i
                                       IN [content |-> e[2], media |-> MediaParse(e[3])]]
         IN IF \/ \E t \in texts : Parsed[t] = Failed
               \/ \E e \in file.manifests : MediaParse(e[3]) = Failed
            THEN {}
            ELSE {[lists |-> {<<e[1], Parsed[e[2]]>> : e \in file.lists}, manifests |-> read(M)] : M \in last}

(* A command whose load fails. *)
Fail == /\ Loads = {}
        /\ result' = "err"
        /\ UNCHANGED <<file, kept, dashed>>
-----------------------------------------------------------------------------
Init == /\ file = None
        /\ kept = {}
        /\ dashed = FALSE
        /\ result = "ok"

(* save *)
Save(id) ==
    /\ Cardinality(kept \cup {id}) <= MaxKept
    /\ \E c \in Loads : file' = Written(Add(c, id))
    /\ kept' = kept \cup {id}
    /\ dashed' = (dashed \/ (id.arch # None /\ Contains(id.arch, "-")))
    /\ result' = "ok"

(* prune, with the del of every other id listed under the prefix.  A del of  *)
(* an id without a manifest writes nothing.                                *)
Prune(id) ==
    /\ \E c \in Loads :
           LET gone == {i \in Matching(c, id) \ {id} : Has(c, i)}
           IN file' = IF gone = {} THEN file
                      ELSE Written(FoldSet(LAMBDA i, d : Del(d, i), c, gone))
    /\ kept' = {k \in kept : k = id \/ PrefixOf(k) # PrefixOf(id)}
    /\ result' = "ok"
    /\ UNCHANGED dashed

Next == \/ \E id \in Ids : Save(id) \/ Prune(id)
        \/ Fail
Spec == Init /\ [][Next]_vars
-----------------------------------------------------------------------------
Plain(id) == ~Contains(id.name, "+") /\ (id.arch = None \/ ~Contains(id.arch, "+"))

(* Of the ids whose name and arch have no plus, which Name::parse and       *)
(* Id::from_str treat differently, exactly those saved and not pruned since *)
(* are found, each with its own manifest and the media type of its layers,  *)
(* through every rewrite of the file on behalf of any other id.  This holds *)
(* until an arch with a dash is saved: no load succeeds after that.         *)
ReadBack ==
    ~dashed => /\ Loads # {}
               /\ \A c \in Loads :
                     /\ {id \in Ids : Plain(id) /\ Has(c, id)} = {id \in kept : Plain(id)}
                     /\ \A id \in kept : Plain(id) => Get(c, id) = Artifact(id)

(* Whatever text an id was mangled to, an id that the program asks for never *)
(* gets the artifact of another one: open either finds what was saved under *)
(* that id or nothing.                                                     *)
NeverMistaken == \A c \in Loads, id \in Ids : Get(c, id) \in {Artifact(id), None}
=============================================================================
