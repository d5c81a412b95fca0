----------------------------- MODULE Definitions -----------------------------
(***************************************************************************)
(* What a definition of a project must have for its component to be built  *)
(* from it: the kinds that register_core registers and, per kind, what its *)
(* from_node demands.                                                      *)
(*                                                                         *)
(* A definition has a kind, a name, a table from keys to values, of which  *)
(* only the type is kept (a list of strings is "strings", of anything else *)
(* "list"), the `runtime` of its `config` table, and the addresses under   *)
(* `source`: None, or a list, or one alone.  An entry of edo.toml that is  *)
(* not a table is NotATable.                                               *)
(***************************************************************************)
EXTENDS Integers, Sequences, FiniteSets

CONSTANTS None, NotATable,
          Runtimes      \* the container engines found on the host

(* Data::try_from a TOML value: texts that look like a version, or like a    *)
(* requirement, are not strings.                                           *)
TryFrom(value) ==
    CASE value = "v1.2.3" -> "version"
      [] value = "^1.2" -> "require"
      [] OTHER -> value

(* toml_def and toml_def_item: what is not a table is passed over, and a     *)
(* table without a kind is an error.                                       *)
TomlDef(section) ==
    [a \in {b \in DOMAIN section : section[b] # NotATable} |-> section[a]]
NoKind(section) == \E a \in DOMAIN section : section[a] # NotATable /\ section[a].kind = None

(* get and as_string, as_bool, as_list *)
Is(node, key, type) == key \in DOMAIN node.table /\ TryFrom(node.table[key]) = type
Opt(node, key, type) == key \in DOMAIN node.table => TryFrom(node.table[key]) = type

(* validate_keys, and the types that from_node asks for right after. *)
Strings(node, keys) == \A k \in keys : Is(node, k, "string")

(* register_core: the kinds that have a constructor, and the lookup of one;  *)
(* any other kind has no provider.                                         *)
Kinds == [backend |-> {"s3"}, farm |-> {"local", "container"},
          source |-> {"git", "local", "image", "remote", "vendor"},
          transform |-> {"compose", "import", "script", "cargo-vendor", "go-vendor"},
          vendor |-> {"image"}]
Provided(component, node) == node.kind \in Kinds[component]
-----------------------------------------------------------------------------
GitSource(node) == Strings(node, {"url", "ref", "out"})
RemoteSource(node) == Strings(node, {"url", "out", "ref"})
LocalSource(node) == Strings(node, {"path", "out"}) /\ Is(node, "is_archive", "bool")
VendorSource(node) == Strings(node, {"path", "inside", "out"}) /\ Opt(node, "go", "strings")
ImageSource(node) == Strings(node, {"url", "ref"})

(* Registry::source *)
Source(node) ==
    /\ Provided("source", node)
    /\ CASE node.kind = "git" -> GitSource(node)
         [] node.kind = "local" -> LocalSource(node)
         [] node.kind = "image" -> ImageSource(node)
         [] node.kind = "remote" -> RemoteSource(node)
         [] node.kind = "vendor" -> VendorSource(node)
-----------------------------------------------------------------------------
IsList(node) == node.source # None /\ node.source.list
Listed(node) == IF node.source = None THEN <<>> ELSE node.source.addrs

(* parse_sources: no list at all stands for an empty one.  given holds the   *)
(* nodes that resolve_sources put in the place of the addresses.           *)
ParseSources(node, given) ==
    /\ node.source # None => IsList(node)
    /\ \A i \in DOMAIN Listed(node) : Source(given[Listed(node)[i]])

(* The addresses whose nodes a farm or a transform makes sources of: a       *)
(* container farm takes the first it lists, a local farm and compose none.  *)
Takes(node) ==
    CASE node.kind = "container" -> <<Head(Listed(node))>>
      [] node.kind \in {"local", "compose"} -> <<>>
      [] OTHER -> Listed(node)

(* The sources are kept by name: of two with one name the later one stays. *)
ByName(node, given) ==
    LET s == Takes(node)
        names == {given[s[i]].name : i \in DOMAIN s}
        last(n) == CHOOSE i \in DOMAIN s :
                       /\ given[s[i]].name = n
                       /\ \A j \in DOMAIN s : given[s[j]].name = n => j <= i
    IN [n \in names |-> given[s[last(n)]]]

ParseDepends(node, key) == Opt(node, key, "strings")

ScriptTransform(node, given) ==
    /\ Opt(node, "environment", "string") /\ Opt(node, "interpreter", "string")
    /\ Is(node, "commands", "strings") /\ Opt(node, "artifact", "string")
    /\ ParseDepends(node, "depends") /\ ParseSources(node, given)
ComposeTransform(node) == ParseDepends(node, "depends")
ImportTransform(node, given) == ParseSources(node, given)
CargoVendorTransform(node, given) ==
    /\ Opt(node, "environment", "string")
    /\ ~Is(node, "cargo_tomls", "table of other")
    /\ ParseSources(node, given)

(* One source, not a list of them: a list has no kind. *)
GoVendorTransform(node, given) ==
    /\ Opt(node, "environment", "string") /\ ~Is(node, "modules", "list")
    /\ node.source # None /\ ~node.source.list
    /\ Source(given[node.source.addrs[1]])

(* Registry::transform *)
Transform(node, given) ==
    /\ Provided("transform", node)
    /\ CASE node.kind = "script" -> ScriptTransform(node, given)
         [] node.kind = "compose" -> ComposeTransform(node)
         [] node.kind = "import" -> ImportTransform(node, given)
         [] node.kind = "cargo-vendor" -> CargoVendorTransform(node, given)
         [] node.kind = "go-vendor" -> GoVendorTransform(node, given)
-----------------------------------------------------------------------------
(* Definable::new: the definition's own config goes before the one of that   *)
(* key in the user's or the project's configuration, and that before the    *)
(* default.                                                                *)
ConfigOf(node, key, config) ==
    IF node.config # None THEN node.config
    ELSE IF key \in DOMAIN config THEN config[key] ELSE None

(* ContainerFarm: set_config looks for the engine that is named, or for any. *)
SetConfig(runtime) == IF runtime = None THEN Runtimes # {} ELSE runtime \in Runtimes

(* Only the first source counts.  Without a list, or with an empty one, the  *)
(* unwrap panics, which ends the command as an error does.                 *)
ContainerFarm(node, given, config) ==
    /\ IsList(node) /\ Listed(node) # <<>>
    /\ Source(given[Head(Listed(node))])
    /\ SetConfig(ConfigOf(node, "container", config))

(* Registry::farm; a local farm takes any definition. *)
Farm(node, given, config) ==
    /\ Provided("farm", node)
    /\ node.kind = "container" => ContainerFarm(node, given, config)

S3Backend(node) == Strings(node, {"bucket"})
LocalBackend(node) == Strings(node, {"path"})

(* add_cache makes a local backend itself and asks the registry for others. *)
Backend(node) ==
    IF node.kind \in {"local", "edo:local"} THEN LocalBackend(node)
    ELSE Provided("backend", node) /\ S3Backend(node)

(* Registry::vendor *)
ImageVendor(node) == Strings(node, {"uri"})
VendorOf(node) == Provided("vendor", node) /\ ImageVendor(node)
=============================================================================
