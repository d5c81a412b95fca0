------------------------------- MODULE MCTiers -------------------------------
(***************************************************************************)
(* One source of each kind.  The local and the vendored source are the     *)
(* same directory, and its name is also the name of a transform with an    *)
(* old and a new artifact, which share a layer.  Objects are longer than   *)
(* the chunk size, so that uploads have parts and reads have segments.     *)
(***************************************************************************)
EXTENDS Tiers

CONSTANTS t1, t2, near, far

Full == <<1, 2, 3>>
Other == <<1, 2>>
MCVendored == <<9>>
Old == <<"code", "build", 1>>
New == <<"code", "build", 2>>

MCSource == {"git", "file", "image", "tree", "crate"}
MCKind == [git |-> "git", file |-> "remote", image |-> "image", tree |-> "local", crate |-> "vendor"]
MCOrigin == [git |-> "repo", file |-> "url", image |-> "url", tree |-> "path", crate |-> "path"]
MCRef == [git |-> "main", file |-> Full, image |-> Full, tree |-> None, crate |-> None]
MCLabel == [git |-> "git", file |-> "file", image |-> "image", tree |-> "code", crate |-> "code"]

MCProduct == (Old :> {<<7>>}) @@ (New :> {<<4, 5, 6>>, <<7>>})
MCEditable == {Full, Other}
MCWorlds == {[repo |-> Full, url |-> u, path |-> Full] : u \in MCEditable}

MCId == {UniqueId(s, w) : s \in MCSource, w \in [{"repo", "url", "path"} -> MCEditable]} \cup {Old, New}
MCDigest ==
    {Nothing, <<4, 5>>, <<4, 5, 6>>, <<7>>} \cup MCEditable \cup {c \o MCVendored : c \in MCEditable}
MCPrefix == [id \in MCId |-> id[1]]

(* A remote cache to begin with: it holds the artifacts that saved names. *)
Holding(saved) ==
    [cat |-> FoldSet(LAMBDA a, c : Add(c, a), Empty, saved),
     blobs |-> [d \in MCDigest |-> IF \E a \in saved : d \in a.layers THEN d ELSE None]]

TheFile == ArtifactOf(UniqueId("file", [url |-> Full]), {Full})
TheTree == ArtifactOf(UniqueId("tree", [path |-> Full]), {Full})
TheCrate == ArtifactOf(UniqueId("tree", [path |-> Full]), {Full \o MCVendored})
MCRemotes ==
    {[c \in {near, far} |-> Holding(IF c = near THEN {} ELSE saved)] :
        saved \in {{}, {TheFile}, {ArtifactOf(New, {<<4, 5, 6>>, <<7>>}), TheCrate}}}

MCPriority == <<near, far>>
Symmetry == Permutations({t1, t2})
=============================================================================
