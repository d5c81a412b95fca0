------------------------------- MODULE Project -------------------------------
(***************************************************************************)
(* Project::load: every edo command walks the project for edo.toml files,  *)
(* checks edo.lock.json against what they require, and either takes the    *)
(* resolved nodes from the lock or resolves them with the vendors and      *)
(* writes a new lock, before it registers farms and transforms.            *)
(*                                                                         *)
(* Commands may run at once, users edit files, registries change, and a    *)
(* command may stop at any step: with an error that a file, a registry, a  *)
(* backend or a plugin returns, or with a crash.                           *)
(***************************************************************************)
EXTENDS Resolver, Sequences

CONSTANTS
    NotATable, Runtimes,  \* see Definitions
    UserConfig,     \* ~/.config/edo.toml
    Proc,           \* edo processes
    File,           \* the edo.toml files
    Variants,       \* File -> the contents it may have
    Projects,       \* the projects to begin with: functions from File
    Published,      \* what the registries hold at first
    Contents,       \* what a version's tag may stand for
    Movable,        \* bound: the tags that change
    MaxLoads,       \* bound: commands begun
    MaxChanges,     \* bound: edits and publications
    Torn            \* a lock file that does not parse

INSTANCE Definitions

(* The tags that stand for a version: the version itself and with a v. *)
Tag == Version \X {"", "v"}

ASSUME LockAssumption == None # Torn
ASSUME BoundAssumption == MaxLoads \in Nat /\ MaxChanges \in Nat
ASSUME FileAssumption == \A c \in Projects : DOMAIN c = File /\ \A f \in File : c[f] \in Variants[f]

(* What a farm or a transform has under `source`: nothing, a list of         *)
(* addresses, or one alone.                                                *)
SourceField(node) ==
    node.source # None =>
        /\ node.source.list \in BOOLEAN
        /\ node.source.addrs \in Seq({node.source.addrs[i] : i \in DOMAIN node.source.addrs})
        /\ ~node.source.list => Len(node.source.addrs) = 1
ASSUME ContentAssumption ==
    \A f \in File : \A c \in Variants[f] :
        /\ MapOf(c.requires, Addr, Require)
        /\ \A section \in {TomlDef(c.farms), TomlDef(c.transforms)} :
              \A a \in DOMAIN section : SourceField(section[a])
ASSUME RegistryAssumption ==
    /\ Movable \subseteq Vendor \X Name \X Tag
    /\ Published \in [Vendor -> [Name -> [Tag -> Contents \cup {None}]]]

VARIABLES
    files,      \* File -> its content
    registry,   \* vendor -> name -> tag -> what the tag stands for, or None
    lock,       \* edo.lock.json: None, Torn or [digest, refs]
    proc,       \* per process: its step and its locals
    loads, changes

vars == <<files, registry, lock, proc, loads, changes>>
-----------------------------------------------------------------------------
Empty == [x \in {} |-> None]
Idle == [pc |-> "idle", locked |-> TRUE, todo |-> {}, need |-> Empty, sources |-> Empty,
         farms |-> Empty, transforms |-> Empty, vendors |-> Empty, source_caches |-> Empty,
         build_cache |-> None, output_cache |-> None, config |-> Empty, seen |-> None,
         reused |-> FALSE, db |-> Empty, found |-> Empty, nodes |-> Empty, built |-> Empty,
         caches |-> {}]

At(p, step) == proc[p].pc = step
Becomes(p, locals) == proc' = [proc EXCEPT ![p] = locals]
Return(p) == Becomes(p, Idle)

(* A map with the entries of f inserted, over those of g. *)
Over(f, g) == [x \in DOMAIN f \cup DOMAIN g |-> IF x \in DOMAIN f THEN f[x] ELSE g[x]]

Init ==
    /\ files \in Projects
    /\ registry = Published
    /\ lock = None
    /\ proc = [p \in Proc |-> Idle]
    /\ loads = 0
    /\ changes = 0
-----------------------------------------------------------------------------
(* update loads with error_on_lock unset, every other command with it set. *)
Load(p, locked) ==
    /\ At(p, "idle")
    /\ loads < MaxLoads
    /\ loads' = loads + 1
    /\ Becomes(p, [proc[p] EXCEPT !.pc = "walk", !.locked = locked, !.todo = File])
    /\ UNCHANGED <<files, registry, lock, changes>>

(* load_toml.  walk takes the files as read_dir lists them.  Addresses carry *)
(* the file's directory, so the tables grow; config keys do not, and the    *)
(* build and output caches are those of the file that came last.           *)
LoadToml(p, f) ==
    /\ At(p, "walk")
    /\ f \in proc[p].todo
    /\ LET c == files[f] IN
       IF \E section \in {c.sources, c.farms, c.transforms, c.vendors, c.source_caches} :
             NoKind(section)
       THEN Return(p)
       ELSE Becomes(p, [proc[p] EXCEPT !.todo = @ \ {f}, !.config = Over(c.config, @),
                            !.need = Over(c.requires, @), !.sources = Over(TomlDef(c.sources), @),
                            !.source_caches = Over(TomlDef(c.source_caches), @),
                            !.build_cache = c.build_cache, !.output_cache = c.output_cache,
                            !.farms = Over(TomlDef(c.farms), @),
                            !.transforms = Over(TomlDef(c.transforms), @),
                            !.vendors = Over(TomlDef(c.vendors), @)])
    /\ UNCHANGED <<files, registry, lock, loads, changes>>

(* The project's configuration over the user's. *)
Merge(config) == Over(config, UserConfig)

(* A farm and a transform may have one address. *)
Users(l) ==
    {l.farms[u] : u \in DOMAIN l.farms} \cup {l.transforms[u] : u \in DOMAIN l.transforms}
Named(node) == {Listed(node)[i] : i \in DOMAIN Listed(node)}

(* Farms and transforms get the nodes of the sources they name; the nodes    *)
(* are shared, so what build writes into one of them they see.             *)
ResolveSources(p) ==
    /\ At(p, "walk")
    /\ proc[p].todo = {}
    /\ IF \A node \in Users(proc[p]) :
             Named(node) \subseteq DOMAIN proc[p].sources \cup DOMAIN proc[p].need
       THEN Becomes(p, [proc[p] EXCEPT !.pc = "lock", !.config = Merge(@),
                            !.nodes = [a \in DOMAIN proc[p].need |-> None]])
       ELSE Return(p)
    /\ UNCHANGED <<files, registry, lock, loads, changes>>

(* Faulty variant: the lock is taken for the project's without a look at the *)
(* digest.                                                                 *)
CheckNoDigest(p) ==
    /\ At(p, "lock")
    /\ \/ lock = None /\ Becomes(p, [proc[p] EXCEPT !.pc = "caches", !.seen = lock])
       \/ lock = Torn /\ Return(p)
       \/ /\ lock \notin {None, Torn}
          /\ Becomes(p, [proc[p] EXCEPT !.pc = "register", !.seen = lock, !.reused = TRUE,
                                        !.nodes = lock.refs])
    /\ UNCHANGED <<files, registry, lock, loads, changes>>

(* Faulty variant: a changed project is resolved anew whoever asks. *)
CheckUnlocked(p) ==
    /\ At(p, "lock")
    /\ \/ lock = None /\ Becomes(p, [proc[p] EXCEPT !.pc = "caches", !.seen = lock])
       \/ lock = Torn /\ Return(p)
       \/ /\ lock \notin {None, Torn}
          /\ IF lock.digest # proc[p].need
             THEN Becomes(p, [proc[p] EXCEPT !.pc = "caches", !.seen = lock])
             ELSE Becomes(p, [proc[p] EXCEPT !.pc = "register", !.seen = lock, !.reused = TRUE,
                                             !.nodes = lock.refs])
    /\ UNCHANGED <<files, registry, lock, loads, changes>>

(* A lock for these requirements; the digest covers the requires nodes and   *)
(* nothing else.                                                           *)
Fits(p) == lock.digest = proc[p].need
Covers(p) == DOMAIN proc[p].need \subseteq DOMAIN lock.refs

(* The lock decides: without one the project is resolved; one that does not  *)
(* parse fails the command; one that fits is used, unless an address is     *)
(* missing from it; past one for other requirements only update goes on.   *)
CheckLock(p) ==
    /\ At(p, "lock")
    /\ \/ lock = None /\ Becomes(p, [proc[p] EXCEPT !.pc = "caches", !.seen = lock])
       \/ lock = Torn /\ Return(p)
       \/ /\ lock \notin {None, Torn}
          /\ \/ /\ Fits(p) /\ Covers(p)
                /\ Becomes(p, [proc[p] EXCEPT !.pc = "register", !.seen = lock, !.reused = TRUE,
                                     !.nodes = [a \in DOMAIN proc[p].need |-> lock.refs[a]]])
             \/ /\ ~Fits(p) /\ ~proc[p].locked
                /\ Becomes(p, [proc[p] EXCEPT !.pc = "caches", !.seen = lock])
             \/ /\ IF Fits(p) THEN ~Covers(p) ELSE proc[p].locked
                /\ Return(p)
    /\ UNCHANGED <<files, registry, lock, loads, changes>>

Configured(l) ==
    {l.source_caches[a] : a \in DOMAIN l.source_caches}
        \cup ({l.build_cache, l.output_cache} \ {None})

(* add_cache for every backend, add_vendor for every vendor: the first that  *)
(* cannot be made ends the command.                                        *)
AddCaches(p) ==
    /\ At(p, "caches")
    /\ IF /\ \A node \in Configured(proc[p]) : Backend(node)
          /\ \A v \in DOMAIN proc[p].vendors : VendorOf(proc[p].vendors[v])
       THEN Becomes(p, [proc[p] EXCEPT !.pc = "db", !.caches = Configured(proc[p]),
                                       !.todo = DOMAIN proc[p].need])
       ELSE Return(p)
    /\ UNCHANGED <<files, registry, lock, loads, changes>>

(* get_options: the versions of the tags, with the v taken off. *)
Offered(vendors, n) ==
    {o \in Option : /\ o.vendor \in DOMAIN vendors
                    /\ \E t \in {"", "v"} : registry[o.vendor][n][<<o.version, t>>] # None}

(* build_db, per requires node: what all vendors offer under its name now    *)
(* joins what they offered before.                                         *)
BuildDb(p, a) ==
    /\ At(p, "db")
    /\ a \in proc[p].todo
    /\ LET n == proc[p].need[a].name
           db == proc[p].db
           known == IF n \in DOMAIN db THEN db[n] ELSE {}
       IN Becomes(p, [proc[p] EXCEPT !.todo = @ \ {a},
              !.db = Over([m \in {n} |-> known \cup Offered(proc[p].vendors, n)], @)])
    /\ UNCHANGED <<files, registry, lock, loads, changes>>

(* Faulty variant: without a solution the vendors are asked again. *)
ResolveAgain(p) ==
    /\ At(p, "db")
    /\ proc[p].todo = {}
    /\ \/ \E sel \in Solutions(proc[p].db, proc[p].need) :
             LET found == Found(sel, proc[p].need) IN
             Becomes(p, [proc[p] EXCEPT !.pc = "vendor", !.db = Empty, !.found = found,
                                        !.todo = DOMAIN found])
       \/ /\ Solutions(proc[p].db, proc[p].need) = {}
          /\ Becomes(p, [proc[p] EXCEPT !.todo = DOMAIN proc[p].need])
    /\ UNCHANGED <<files, registry, lock, loads, changes>>

Resolve(p) ==
    /\ At(p, "db")
    /\ proc[p].todo = {}
    /\ \/ \E sel \in Solutions(proc[p].db, proc[p].need) :
             LET found == Found(sel, proc[p].need) IN
             Becomes(p, [proc[p] EXCEPT !.pc = "vendor", !.db = Empty, !.found = found,
                                        !.todo = DOMAIN found])
       \/ Solutions(proc[p].db, proc[p].need) = {} /\ Return(p)
    /\ UNCHANGED <<files, registry, lock, loads, changes>>

(* Faulty variant: a tag that is gone is pinned all the same. *)
ResolveUnchecked(p, a) ==
    /\ At(p, "vendor")
    /\ a \in proc[p].todo
    /\ LET x == proc[p].found[a] IN
       Becomes(p, [proc[p] EXCEPT !.todo = @ \ {a}, !.nodes = [@ EXCEPT ![a] =
           [name |-> x.name, vendor |-> x.vendor, version |-> x.version,
            ref |-> registry[x.vendor][x.name][<<x.version, "">>]]]])
    /\ UNCHANGED <<files, registry, lock, loads, changes>>

(* ImageVendor::resolve: what the tag stands for now, or else the tag with a *)
(* v in front.                                                             *)
Fetched(x) ==
    LET tags == registry[x.vendor][x.name]
    IN IF tags[<<x.version, "">>] # None THEN tags[<<x.version, "">>] ELSE tags[<<x.version, "v">>]

(* The node is filled in and goes into the new lock. *)
VendorResolve(p, a) ==
    /\ At(p, "vendor")
    /\ a \in proc[p].todo
    /\ LET x == proc[p].found[a] IN
       IF Fetched(x) = None THEN Return(p)
       ELSE Becomes(p, [proc[p] EXCEPT !.todo = @ \ {a}, !.nodes = [@ EXCEPT ![a] =
                [name |-> x.name, vendor |-> x.vendor, version |-> x.version, ref |-> Fetched(x)]]])
    /\ UNCHANGED <<files, registry, lock, loads, changes>>

(* The definition that vendor.resolve returns, which takes the place of the  *)
(* requires node: an image source, named after the package.                *)
ImageNode(x) ==
    [kind |-> "image", name |-> x.name, table |-> [url |-> "string", ref |-> "string"],
     config |-> None, source |-> None, pin |-> x]

(* A requires node as it is before. *)
RequiresNode(a) ==
    [kind |-> "image", name |-> a, table |-> [at |-> "require"], config |-> None, source |-> None]

(* The definitions at the addresses of sources. *)
Given(l) ==
    Over([a \in DOMAIN l.nodes |->
             IF l.nodes[a] = None THEN RequiresNode(a) ELSE ImageNode(l.nodes[a])], l.sources)

FarmsBuild(l) == \A u \in DOMAIN l.farms : Farm(l.farms[u], Given(l), l.config)
TransformsBuild(l) == \A u \in DOMAIN l.transforms : Transform(l.transforms[u], Given(l))

(* add_farm and add_transform build each from the nodes of its sources; the  *)
(* first that is refused ends the command, before the lock is written.     *)
Register(p) ==
    /\ At(p, "register") \/ (At(p, "vendor") /\ proc[p].todo = {})
    /\ IF FarmsBuild(proc[p]) /\ TransformsBuild(proc[p])
       THEN Becomes(p, [proc[p] EXCEPT !.pc = IF proc[p].reused THEN "loaded" ELSE "truncate",
                            !.built = [node \in Users(proc[p]) |-> ByName(node, Given(proc[p]))]])
       ELSE Return(p)
    /\ UNCHANGED <<files, registry, lock, loads, changes>>

Truncate(p) ==
    /\ At(p, "truncate")
    /\ lock' = Torn
    /\ Becomes(p, [proc[p] EXCEPT !.pc = "write"])
    /\ UNCHANGED <<files, registry, loads, changes>>

(* Each process writes from the start of the file.  Over a longer text that  *)
(* another one wrote since, the end of that text remains.                  *)
WriteLock(p) ==
    /\ At(p, "write")
    /\ LET mine == [digest |-> proc[p].need, refs |-> proc[p].nodes] IN
       lock' \in (IF lock \in {None, Torn} THEN {mine} ELSE {mine, Torn})
    /\ Becomes(p, [proc[p] EXCEPT !.pc = "loaded"])
    /\ UNCHANGED <<files, registry, loads, changes>>

(* Any of the steps returns an error, or the process dies. *)
Stop(p) ==
    /\ proc[p].pc \notin {"idle", "loaded"}
    /\ changes < MaxChanges
    /\ changes' = changes + 1
    /\ Return(p)
    /\ UNCHANGED <<files, registry, lock, loads>>

Exit(p) ==
    /\ At(p, "loaded")
    /\ Return(p)
    /\ UNCHANGED <<files, registry, lock, loads, changes>>

Edit(f, c) ==
    /\ changes < MaxChanges
    /\ c # files[f]
    /\ changes' = changes + 1
    /\ files' = [files EXCEPT ![f] = c]
    /\ UNCHANGED <<registry, lock, proc, loads>>

(* A tag is published, moved or withdrawn. *)
Publish(v, n, tag, content) ==
    /\ changes < MaxChanges
    /\ content # registry[v][n][tag]
    /\ changes' = changes + 1
    /\ registry' = [registry EXCEPT ![v][n][tag] = content]
    /\ UNCHANGED <<files, lock, proc, loads>>
-----------------------------------------------------------------------------
Continue(p) ==
    \/ (\E f \in File : LoadToml(p, f)) \/ ResolveSources(p) \/ CheckLock(p) \/ AddCaches(p)
    \/ (\E a \in Addr : BuildDb(p, a)) \/ Resolve(p) \/ (\E a \in Addr : VendorResolve(p, a))
    \/ Register(p) \/ Truncate(p) \/ WriteLock(p)

Next ==
    \/ \E p \in Proc : Continue(p) \/ Stop(p) \/ Exit(p)
    \/ \E p \in Proc, locked \in BOOLEAN : Load(p, locked)
    \/ \E f \in File : \E c \in Variants[f] : Edit(f, c)
    \/ \E t \in Movable, k \in Contents \cup {None} : Publish(t[1], t[2], t[3], k)

(* Each process takes its own steps; registries answer or fail. *)
Fairness == \A p \in Proc : WF_vars(Continue(p))

Spec == Init /\ [][Next]_vars
FairSpec == Spec /\ Fairness
-----------------------------------------------------------------------------
(* Properties                                                               *)

Node == [name : Name, vendor : Vendor, version : Version, ref : Contents]

ASSUME NodeAssumption == None \notin Node

TypeOK ==
    /\ \A f \in File : files[f] \in Variants[f]
    /\ lock \in {None, Torn} \/ DOMAIN lock = {"digest", "refs"}
    /\ \A p \in Proc :
          /\ DOMAIN proc[p] = DOMAIN Idle
          /\ MapOf(proc[p].need, Addr, Require)
          /\ MapOf(proc[p].nodes, Addr, Node \cup {None})
          /\ MapOf(proc[p].db, Name, SUBSET Option)
    /\ loads \in 0 .. MaxLoads
    /\ changes \in 0 .. MaxChanges

Taken(node) == {Takes(node)[i] : i \in DOMAIN Takes(node)}

Pins(need, refs) ==
    /\ DOMAIN refs = DOMAIN need
    /\ \A a \in DOMAIN need : refs[a] # None /\ Satisfies(need[a], refs[a])
    /\ \A a, b \in DOMAIN need :
          need[a].name = need[b].name => refs[a].version = refs[b].version

(* A lock file that parses pins every requirement it was made for, within    *)
(* its range and from its vendor, and one version per name, whatever edits, *)
(* publications, crashes and other commands came between the walk and the   *)
(* write.  CheckLock therefore never meets a fitting lock with a missing    *)
(* address.                                                                *)
LockSound == lock \notin {None, Torn} => Pins(lock.digest, lock.refs)

BuiltRight(node, built, given) ==
    /\ \A name \in DOMAIN built : Source(built[name])
    /\ \A a \in Taken(node) :
          /\ a \in DOMAIN given
          /\ given[a].name \in DOMAIN built
          /\ \E b \in Taken(node) : given[b].name = given[a].name /\ built[given[a].name] = given[b]

(* A command that has loaded built every farm and every transform from       *)
(* definitions that are complete for their kind, with a source for every    *)
(* name among those it takes: the definition at one of the addresses it     *)
(* lists, and where that is a requirement the resolved one, which is that of *)
(* the lock where one was used.                                            *)
SourcesResolved ==
    \A p \in Proc : At(p, "loaded") =>
        /\ Pins(proc[p].need, proc[p].nodes)
        /\ proc[p].reused => proc[p].nodes = proc[p].seen.refs
        /\ \A node \in Users(proc[p]) : BuiltRight(node, proc[p].built[node], Given(proc[p]))

(* Only update replaces a lock that it found: any other command leaves the   *)
(* one it found alone, on the paths that fail as on those that succeed.    *)
NoSilentResolution ==
    [][\A p \in Proc :
         proc[p].locked /\ proc[p].pc \in {"truncate", "write"} /\ lock' # lock /\ proc'[p] # proc[p]
            => proc[p].seen = None]_vars

(* Every load comes to an end. *)
LoadReturns == \A p \in Proc : ~At(p, "idle") ~> proc[p].pc \in {"idle", "loaded"}
-----------------------------------------------------------------------------
(* docs/design.md: "Every TOML table under [...] and `[cache.*]` becomes a   *)
(* `Node` registered under a hierarchical `Addr`".  A loaded project has    *)
(* its caches.                                                             *)
CachesRegistered == \A p \in Proc : At(p, "loaded") => proc[p].caches = Configured(proc[p])
=============================================================================
