----------------------------- MODULE MCProject -----------------------------
(* A root file and one in a directory.  The two require one name with and    *)
(* without a vendor, or two names of which a version of one depends on the  *)
(* other; the second may be edited to one with a source that is no table, a *)
(* git source whose ref is read as a version, a cache of an unknown kind or *)
(* a definition without a kind.  Two commands at a time.                    *)
EXTENDS Project, TLC

CONSTANTS app, lib, v1, v2, root, sub, ra, sa, code

Requires(name, range, vendor) == [name |-> name, range |-> range, vendor |-> vendor]
Def(kind, name, table) ==
    [kind |-> kind, name |-> name, table |-> table, config |-> None, source |-> None]
Using(def, addrs) == [def EXCEPT !.source = [list |-> TRUE, addrs |-> addrs]]

Bucket == Def("s3", "build_cache", [bucket |-> "string"])
Registries == [v \in Vendor |-> Def("image", "registry", [uri |-> "string"])]
Image == "image" :> Using(Def("container", "image", Empty), <<ra>>)
Here == "here" :> Def("local", "here", Empty)
Script(addrs) == "build" :> Using(Def("script", "build", [commands |-> "strings"]), addrs)
Tree == code :> Def("local", "n", [path |-> "string", out |-> "string", is_archive |-> "bool"])
Tagged == code :> Def("git", "n", [url |-> "string", out |-> "string", ref |-> "v1.2.3"])

File_(requires, sources, farms, transforms, keys) ==
    [requires |-> requires, sources |-> sources, farms |-> farms, transforms |-> transforms,
     vendors |-> Empty, source_caches |-> Empty, build_cache |-> None, output_cache |-> None,
     config |-> keys]

Root == [File_(ra :> Requires(app, {1, 2}, None), Empty, Image, Empty, "container" :> "podman")
            EXCEPT !.vendors = Registries, !.build_cache = Bucket]
Pinned == [File_(ra :> Requires(app, {2}, v1), Empty, Image, Empty, Empty)
              EXCEPT !.vendors = Registries, !.build_cache = Bucket]
Sub == File_(sa :> Requires(app, {2}, None), Tree, Here, Script(<<ra, sa, code>>), Empty)
Other == File_(sa :> Requires(lib, {1}, v2), Empty, Empty, Script(<<ra>>), Empty)
NoTable == File_(Empty, code :> NotATable, Empty, Script(<<code>>), Empty)
VersionRef == File_(Empty, Tagged, Empty, Script(<<code>>), Empty)
Kindless == File_(Empty, Empty, Empty, "build" :> Def(None, "build", Empty), Empty)
UnknownCache == [File_(Empty, Empty, Empty, Empty, Empty)
                    EXCEPT !.source_caches = "mirror" :> Def("gcs", "mirror", Empty)]

MCVariants == root :> {Root, Pinned} @@ sub :> {Sub, Other, NoTable, VersionRef, Kindless, UnknownCache}
MCProjects == {root :> Root @@ sub :> Sub, root :> Pinned @@ sub :> Other}
MCMovable == {<<v1, app, <<2, "">>>>}
MCUserConfig == "container" :> "docker"

Tags(one, two) == <<1, "">> :> one @@ <<2, "">> :> two @@ <<1, "v">> :> None @@ <<2, "v">> :> None
MCPublished ==
    v1 :> (app :> Tags("a", "a") @@ lib :> Tags("a", None))
    @@ v2 :> (app :> (<<2, "v">> :> "a" @@ Tags(None, None)) @@ lib :> (<<1, "v">> :> "a" @@ Tags(None, None)))

MCDepends ==
    [k \in Vendor \X Name \X Version |->
        IF k = <<v2, app, 2>> THEN {[name |-> lib, range |-> {1}]}
        ELSE IF k = <<v1, app, 2>> THEN {[name |-> app, range |-> {2}]} ELSE {}]
=============================================================================
