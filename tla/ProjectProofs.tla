---------------------------- MODULE ProjectProofs ----------------------------
(***************************************************************************)
(* The lock file and the sources of a loaded project, for any number of    *)
(* commands, files, registries, packages and edits.                        *)
(*                                                                         *)
(* What a process holds in its locals is stated per phase of the load, as  *)
(* an operator of the locals alone: every step of another process, every   *)
(* edit and every publication leaves it as it is.                          *)
(***************************************************************************)
EXTENDS Project, TLAPS

(* The phases of Project::load. *)
Steps == {"idle", "walk", "lock", "caches", "db", "vendor", "register", "truncate", "write",
          "loaded"}

(* The locals have their types, and what a farm or a transform lists is a    *)
(* sequence.                                                               *)
Typed(l) ==
    /\ DOMAIN l = DOMAIN Idle
    /\ l.pc \in Steps
    /\ MapOf(l.need, Addr, Require)
    /\ MapOf(l.nodes, Addr, Node \cup {None})
    /\ MapOf(l.db, Name, SUBSET Option)
    /\ \A node \in Users(l) : SourceField(node)

(* After the walk there is a node for every requirement, and every address   *)
(* that is named is defined.                                               *)
Walked(l) ==
    l.pc \notin {"idle", "walk"} =>
        /\ l.nodes \in [DOMAIN l.need -> Node \cup {None}]
        /\ \A node \in Users(l) : Named(node) \subseteq DOMAIN l.sources \cup DOMAIN l.need

(* The nodes of a lock that was used are those of the lock. *)
FromLock(l) ==
    /\ l.reused => l.pc \in {"register", "loaded"}
    /\ l.pc = "register" => l.reused
    /\ l.reused => l.nodes = l.seen.refs /\ Pins(l.need, l.nodes)

(* A command that may not replace a lock resolves only where there was none. *)
Permitted(l) ==
    l.locked /\ l.pc \in {"caches", "db", "vendor", "truncate", "write"} => l.seen = None

(* Names that have been asked for have a database. *)
Asked(l) ==
    l.pc = "db" =>
        /\ l.todo \subseteq DOMAIN l.need
        /\ \A a \in DOMAIN l.need : a \in l.todo \/ l.need[a].name \in DOMAIN l.db

(* found is what the solver's assignment gives for the requirements. *)
Chosen(found, need) ==
    /\ DOMAIN found = DOMAIN need
    /\ \A a \in DOMAIN need :
          /\ found[a].vendor \in Vendor /\ found[a].version \in Version
          /\ Satisfies(need[a], found[a])
    /\ \A a, b \in DOMAIN need : need[a].name = need[b].name => found[a].version = found[b].version

(* The nodes resolved so far are those the solver chose. *)
Resolving(l) ==
    l.pc = "vendor" =>
        /\ Chosen(l.found, l.need)
        /\ l.todo \subseteq DOMAIN l.need
        /\ \A a \in DOMAIN l.need : a \notin l.todo =>
              /\ l.nodes[a] # None
              /\ l.nodes[a].name = l.found[a].name
              /\ l.nodes[a].vendor = l.found[a].vendor
              /\ l.nodes[a].version = l.found[a].version

(* Once farms and transforms are registered, everything is pinned and their  *)
(* sources are right.                                                      *)
Registered(l) ==
    l.pc \in {"truncate", "write", "loaded"} =>
        /\ Pins(l.need, l.nodes)
        /\ \A node \in Users(l) : BuiltRight(node, l.built[node], Given(l))

LocalsInv(l) ==
    /\ Typed(l) /\ Walked(l) /\ FromLock(l) /\ Permitted(l) /\ Asked(l) /\ Resolving(l)
    /\ Registered(l)

(* A lock file that parses has a node for every requirement of its digest,   *)
(* and pins them.                                                          *)
LockInv(k) ==
    k \notin {None, Torn} =>
        /\ DOMAIN k = {"digest", "refs"}
        /\ k.refs \in [DOMAIN k.digest -> Node]
        /\ Pins(k.digest, k.refs)

Inv ==
    /\ DOMAIN files = File
    /\ \A f \in File : files[f] \in Variants[f]
    /\ registry \in [Vendor -> [Name -> [Tag -> Contents \cup {None}]]]
    /\ LockInv(lock)
    /\ DOMAIN proc = Proc
    /\ \A p \in Proc : LocalsInv(proc[p])
    /\ loads \in 0 .. MaxLoads
    /\ changes \in 0 .. MaxChanges
-----------------------------------------------------------------------------
(* Maps and sequences                                                       *)

(* Inserting into a map keeps the types of its entries. *)
LEMMA OverMap ==
    ASSUME NEW f, NEW g, NEW S, NEW T, MapOf(f, S, T), MapOf(g, S, T)
    PROVE  MapOf(Over(f, g), S, T)
BY DEF MapOf, Over

(* What a map holds after an insertion comes from the one or the other. *)
LEMMA OverEntry ==
    ASSUME NEW f, NEW g, NEW u \in DOMAIN Over(f, g)
    PROVE  \/ u \in DOMAIN f /\ Over(f, g)[u] = f[u]
           \/ u \in DOMAIN g /\ Over(f, g)[u] = g[u]
BY DEF Over

(* A set of numbers up to n that is not empty has a largest one.  The lemmas  *)
(* that need it assume it; it is proved below.                             *)
Bounded ==
    \A n \in Nat : \A T \in SUBSET (1 .. n) : T # {} => \E i \in T : \A j \in T : j <= i

(* built has, for every name among the first n that s takes from given, a    *)
(* definition of that name among them, and nothing else.                   *)
Keeps(built, s, n, given) ==
    /\ \A i \in 1 .. n : given[s[i]].name \in DOMAIN built
    /\ \A name \in DOMAIN built :
          \E i \in 1 .. n : given[s[i]].name = name /\ built[name] = given[s[i]]

(* The sources by name are those that are taken. *)
LEMMA ByNameKeeps ==
    ASSUME Bounded, NEW node, NEW given, NEW n \in Nat, DOMAIN Takes(node) = 1 .. n
    PROVE  Keeps(ByName(node, given), Takes(node), n, given)
<1> DEFINE s == Takes(node)
           names == {given[s[i]].name : i \in DOMAIN s}
           Last(m, i) == /\ given[s[i]].name = m
                         /\ \A j \in DOMAIN s : given[s[j]].name = m => j <= i
           kept == [m \in names |-> given[s[CHOOSE i \in DOMAIN s : Last(m, i)]]]
<1>1. ByName(node, given) = kept /\ DOMAIN kept = names
  BY DEF ByName
<1>2. ASSUME NEW m \in names
      PROVE  \E i \in DOMAIN s : Last(m, i)
  <2> DEFINE T == {i \in 1 .. n : given[s[i]].name = m}
  <2>1. T \in SUBSET (1 .. n) /\ T # {}
    OBVIOUS
  <2>2. PICK i \in T : \A j \in T : j <= i
    BY <2>1, Zenon DEF Bounded
  <2> QED
    BY <2>2
<1>3. ASSUME NEW m \in names
      PROVE  \E i \in 1 .. n : given[s[i]].name = m /\ kept[m] = given[s[i]]
  <2> DEFINE i == CHOOSE i \in DOMAIN s : Last(m, i)
  <2>1. i \in DOMAIN s /\ Last(m, i)
    BY <1>2, Zenon
  <2> QED
    BY <2>1, Zenon
<1>4. \A i \in 1 .. n : given[s[i]].name \in names
  OBVIOUS
<1> HIDE DEF kept, names, s
<1>5. Keeps(kept, s, n, given)
  BY <1>1, <1>3, <1>4, Zenon DEF Keeps
<1> QED
  BY <1>1, <1>5 DEF s

(* What a farm or a transform that is built takes is among what it lists,    *)
(* and is a source.                                                        *)
LEMMA FarmTakes ==
    ASSUME NEW node, NEW given, NEW config, SourceField(node), Farm(node, given, config)
    PROVE  \E n \in Nat :
              /\ DOMAIN Takes(node) = 1 .. n
              /\ \A i \in 1 .. n : Takes(node)[i] \in Named(node) /\ Source(given[Takes(node)[i]])
<1>1. node.kind \in {"local", "container"}
  BY DEF Farm, Provided, Kinds
<1>2. CASE node.kind = "local"
  <2>1. Takes(node) = <<>>
    BY <1>2 DEF Takes
  <2> QED
    BY <2>1
<1>3. CASE node.kind = "container"
  <2>1. IsList(node) /\ Listed(node) # <<>> /\ Source(given[Head(Listed(node))])
    BY <1>3, Zenon DEF Farm, ContainerFarm
  <2>2. Takes(node) = <<Head(Listed(node))>>
    BY <1>3, Zenon DEF Takes
  <2>3. Head(Listed(node)) \in Named(node)
    <3> DEFINE S == {node.source.addrs[i] : i \in DOMAIN node.source.addrs}
    <3>1. Listed(node) = node.source.addrs /\ node.source.addrs \in Seq(S)
      BY <2>1, Zenon DEF IsList, Listed, SourceField
    <3> HIDE DEF S
    <3>2. 1 \in DOMAIN Listed(node) /\ Head(Listed(node)) = Listed(node)[1]
      BY <2>1, <3>1
    <3> QED
      BY <3>2, Zenon DEF Named
  <2>4. DOMAIN Takes(node) = 1 .. 1 /\ Takes(node)[1] = Head(Listed(node))
    BY <2>2
  <2> QED
    BY <2>1, <2>3, <2>4
<1> QED
  BY <1>1, <1>2, <1>3

(* The same for a transform. *)
LEMMA TransformTakes ==
    ASSUME NEW node, NEW given, SourceField(node), Transform(node, given)
    PROVE  \E n \in Nat :
              /\ DOMAIN Takes(node) = 1 .. n
              /\ \A i \in 1 .. n : Takes(node)[i] \in Named(node) /\ Source(given[Takes(node)[i]])
<1> DEFINE S == {node.source.addrs[i] : i \in DOMAIN node.source.addrs}
<1>1. node.kind \in {"compose", "import", "script", "cargo-vendor", "go-vendor"}
  BY DEF Transform, Provided, Kinds
<1>2. \E n \in Nat : DOMAIN Listed(node) = 1 .. n
  <2>1. CASE node.source = None
    <3>1. Listed(node) = <<>>
      BY <2>1 DEF Listed
    <3> QED
      BY <3>1
  <2>2. CASE node.source # None
    <3>1. Listed(node) = node.source.addrs /\ node.source.addrs \in Seq(S)
      BY <2>2, Zenon DEF Listed, SourceField
    <3> HIDE DEF S
    <3> QED
      BY <3>1
  <2> QED
    BY <2>1, <2>2
<1>3. CASE node.kind = "compose"
  <2>1. Takes(node) = <<>>
    BY <1>3 DEF Takes
  <2> QED
    BY <2>1
<1>4. CASE node.kind \in {"import", "script", "cargo-vendor"}
  <2>1. Takes(node) = Listed(node)
    BY <1>4 DEF Takes
  <2>2. ParseSources(node, given)
    BY <1>4, Zenon DEF Transform, ScriptTransform, ImportTransform, CargoVendorTransform
  <2> QED
    BY <1>2, <2>1, <2>2, Zenon DEF ParseSources, Named
<1>5. CASE node.kind = "go-vendor"
  <2>1. Takes(node) = Listed(node)
    BY <1>5 DEF Takes
  <2>2. node.source # None /\ ~node.source.list /\ Source(given[node.source.addrs[1]])
    BY <1>5 DEF Transform, GoVendorTransform
  <2>3. /\ Listed(node) = node.source.addrs
        /\ node.source.addrs \in Seq(S)
        /\ Len(node.source.addrs) = 1
    BY <2>2, Zenon DEF Listed, SourceField
  <2> HIDE DEF S
  <2>4. DOMAIN Listed(node) = 1 .. 1
    BY <2>3
  <2> QED
    BY <2>1, <2>2, <2>3, <2>4 DEF Named
<1> QED
  BY <1>1, <1>3, <1>4, <1>5

(* What a farm or a transform built from nodes that are given is right. *)
LEMMA BuildsRight ==
    ASSUME Bounded, NEW node, NEW given, Named(node) \subseteq DOMAIN given, NEW n \in Nat,
           DOMAIN Takes(node) = 1 .. n,
           \A i \in 1 .. n : Takes(node)[i] \in Named(node) /\ Source(given[Takes(node)[i]])
    PROVE  BuiltRight(node, ByName(node, given), given)
<1> DEFINE built == ByName(node, given)
<1>0. Keeps(built, Takes(node), n, given)
  BY ByNameKeeps
<1>1. \A i \in 1 .. n : given[Takes(node)[i]].name \in DOMAIN built
  BY <1>0, Zenon DEF Keeps
<1>2. \A name \in DOMAIN built :
         \E i \in 1 .. n : given[Takes(node)[i]].name = name /\ built[name] = given[Takes(node)[i]]
  BY <1>0, Zenon DEF Keeps
<1> HIDE DEF built
<1>3. \A name \in DOMAIN built : Source(built[name])
  BY <1>2, Zenon
<1>4. ASSUME NEW a \in Taken(node)
      PROVE  /\ a \in DOMAIN given
             /\ given[a].name \in DOMAIN built
             /\ \E b \in Taken(node) :
                   given[b].name = given[a].name /\ built[given[a].name] = given[b]
  <2>1. PICK i \in 1 .. n : a = Takes(node)[i]
    BY Zenon DEF Taken
  <2>2. a \in DOMAIN given /\ given[a].name \in DOMAIN built
    BY <1>1, <2>1, Zenon
  <2>3. PICK j \in 1 .. n : /\ given[Takes(node)[j]].name = given[a].name
                            /\ built[given[a].name] = given[Takes(node)[j]]
    BY <1>2, <2>2, Zenon
  <2>4. Takes(node)[j] \in Taken(node)
    BY <2>3, Zenon DEF Taken
  <2> QED
    BY <2>2, <2>3, <2>4, Zenon
<1> QED
  BY <1>3, <1>4, Zenon DEF BuiltRight, built
-----------------------------------------------------------------------------
(* The steps, as what they make of the locals                              *)

(* A process that has returned. *)
LEMMA IdleKeeps == LocalsInv(Idle)
<1>1. /\ Idle.pc = "idle" /\ ~Idle.reused
      /\ Idle.farms = Empty /\ Idle.transforms = Empty
      /\ Idle.need = Empty /\ Idle.nodes = Empty /\ Idle.db = Empty
  BY DEF Idle
<1>2. DOMAIN Empty = {}
  BY DEF Empty
<1>3. Typed(Idle)
  BY <1>1, <1>2, Zenon DEF Typed, Steps, MapOf, Users
<1> QED
  BY <1>1, <1>3 DEF LocalsInv, Walked, FromLock, Permitted, Asked, Resolving, Registered

(* The farms and transforms are those of the walk. *)
LEMMA UsersKept ==
    ASSUME NEW l, NEW m, m.farms = l.farms, m.transforms = l.transforms
    PROVE  Users(m) = Users(l)
BY Zenon DEF Users

(* Load *)
LEMMA LoadKeeps ==
    ASSUME NEW l, LocalsInv(l), l.pc = "idle", NEW locked, NEW todo
    PROVE  LocalsInv([l EXCEPT !.pc = "walk", !.locked = locked, !.todo = todo])
<1> DEFINE m == [l EXCEPT !.pc = "walk", !.locked = locked, !.todo = todo]
<1> USE DEF LocalsInv
<1>1. DOMAIN l = DOMAIN Idle
  BY DEF Typed
<1>2. /\ DOMAIN m = DOMAIN Idle /\ m.pc = "walk" /\ m.reused = l.reused
      /\ m.need = l.need /\ m.nodes = l.nodes /\ m.db = l.db
      /\ m.farms = l.farms /\ m.transforms = l.transforms
  BY <1>1, Zenon DEF Idle
<1> HIDE DEF m
<1>3. ~m.reused
  BY <1>2 DEF FromLock
<1>4. Users(m) = Users(l)
  BY <1>2, UsersKept
<1>5. Typed(m)
  BY <1>2, <1>4, Zenon DEF Typed, Steps
<1>6. LocalsInv(m)
  BY <1>2, <1>3, <1>5 DEF Walked, FromLock, Permitted, Asked, Resolving, Registered
<1> QED
  BY <1>6 DEF m

(* LoadToml with the content c of a file *)
LEMMA LoadTomlKeeps ==
    ASSUME NEW l, LocalsInv(l), l.pc = "walk", NEW f \in File, NEW c \in Variants[f]
    PROVE  LocalsInv([l EXCEPT !.todo = @ \ {f}, !.config = Over(c.config, @),
                          !.need = Over(c.requires, @), !.sources = Over(TomlDef(c.sources), @),
                          !.source_caches = Over(TomlDef(c.source_caches), @),
                          !.build_cache = c.build_cache, !.output_cache = c.output_cache,
                          !.farms = Over(TomlDef(c.farms), @),
                          !.transforms = Over(TomlDef(c.transforms), @),
                          !.vendors = Over(TomlDef(c.vendors), @)])
<1> DEFINE m == [l EXCEPT !.todo = @ \ {f}, !.config = Over(c.config, @),
                     !.need = Over(c.requires, @), !.sources = Over(TomlDef(c.sources), @),
                     !.source_caches = Over(TomlDef(c.source_caches), @),
                     !.build_cache = c.build_cache, !.output_cache = c.output_cache,
                     !.farms = Over(TomlDef(c.farms), @),
                     !.transforms = Over(TomlDef(c.transforms), @),
                     !.vendors = Over(TomlDef(c.vendors), @)]
<1> USE DEF LocalsInv
<1>1. DOMAIN l = DOMAIN Idle
  BY DEF Typed
<1>2. /\ DOMAIN m = DOMAIN Idle /\ m.pc = "walk" /\ m.reused = l.reused
      /\ m.need = Over(c.requires, l.need) /\ m.nodes = l.nodes /\ m.db = l.db
      /\ m.farms = Over(TomlDef(c.farms), l.farms)
      /\ m.transforms = Over(TomlDef(c.transforms), l.transforms)
  BY <1>1, Zenon DEF Idle
<1> HIDE DEF m
<1>3. ~m.reused
  BY <1>2 DEF FromLock
<1>4. MapOf(m.need, Addr, Require)
  <2>1. MapOf(c.requires, Addr, Require) /\ MapOf(l.need, Addr, Require)
    BY ContentAssumption, Zenon DEF Typed
  <2> QED
    BY <1>2, <2>1, OverMap
<1>5. \A node \in Users(m) : SourceField(node)
  <2>1. \A u \in DOMAIN l.farms : SourceField(l.farms[u])
    BY Zenon DEF Typed, Users
  <2>2. \A u \in DOMAIN l.transforms : SourceField(l.transforms[u])
    BY Zenon DEF Typed, Users
  <2>3. \A u \in DOMAIN TomlDef(c.farms) : SourceField(TomlDef(c.farms)[u])
    BY ContentAssumption, Zenon
  <2>4. \A u \in DOMAIN TomlDef(c.transforms) : SourceField(TomlDef(c.transforms)[u])
    BY ContentAssumption, Zenon
  <2>5. \A u \in DOMAIN m.farms : SourceField(m.farms[u])
    <3> TAKE u \in DOMAIN m.farms
    <3>1. \/ u \in DOMAIN TomlDef(c.farms) /\ m.farms[u] = TomlDef(c.farms)[u]
          \/ u \in DOMAIN l.farms /\ m.farms[u] = l.farms[u]
      BY <1>2, OverEntry
    <3> QED
      BY <2>1, <2>3, <3>1, Zenon
  <2>6. \A u \in DOMAIN m.transforms : SourceField(m.transforms[u])
    <3> TAKE u \in DOMAIN m.transforms
    <3>1. \/ u \in DOMAIN TomlDef(c.transforms) /\ m.transforms[u] = TomlDef(c.transforms)[u]
          \/ u \in DOMAIN l.transforms /\ m.transforms[u] = l.transforms[u]
      BY <1>2, OverEntry
    <3> QED
      BY <2>2, <2>4, <3>1, Zenon
  <2> QED
    BY <2>5, <2>6, Zenon DEF Users
<1>6. Typed(m)
  BY <1>2, <1>4, <1>5, Zenon DEF Typed, Steps
<1>7. LocalsInv(m)
  BY <1>2, <1>3, <1>6 DEF Walked, FromLock, Permitted, Asked, Resolving, Registered
<1> QED
  BY <1>7 DEF m

(* ResolveSources where every address that is named is defined *)
LEMMA ResolveSourcesKeeps ==
    ASSUME NEW l, LocalsInv(l), l.pc = "walk",
           \A node \in Users(l) : Named(node) \subseteq DOMAIN l.sources \cup DOMAIN l.need
    PROVE  LocalsInv([l EXCEPT !.pc = "lock", !.config = Merge(@),
                          !.nodes = [a \in DOMAIN l.need |-> None]])
<1> DEFINE m == [l EXCEPT !.pc = "lock", !.config = Merge(@),
                     !.nodes = [a \in DOMAIN l.need |-> None]]
<1> USE DEF LocalsInv
<1>1. DOMAIN l = DOMAIN Idle
  BY DEF Typed
<1>2. /\ DOMAIN m = DOMAIN Idle /\ m.pc = "lock" /\ m.reused = l.reused
      /\ m.need = l.need /\ m.nodes = [a \in DOMAIN l.need |-> None] /\ m.db = l.db
      /\ m.farms = l.farms /\ m.transforms = l.transforms /\ m.sources = l.sources
  BY <1>1, Zenon DEF Idle
<1> HIDE DEF m
<1>3. ~m.reused
  BY <1>2 DEF FromLock
<1>4. Users(m) = Users(l)
  BY <1>2, UsersKept
<1>5. m.nodes \in [DOMAIN m.need -> Node \cup {None}]
  BY <1>2
<1>6. Typed(m)
  <2>1. MapOf(m.nodes, Addr, Node \cup {None})
    BY <1>2 DEF Typed, MapOf
  <2> QED
    BY <1>2, <1>4, <2>1, Zenon DEF Typed, Steps
<1>7. Walked(m)
  BY <1>2, <1>4, <1>5, Zenon DEF Walked
<1>8. LocalsInv(m)
  BY <1>2, <1>3, <1>6, <1>7 DEF FromLock, Permitted, Asked, Resolving, Registered
<1> QED
  BY <1>8 DEF m

(* CheckLock where there is no lock, or one that update may replace *)
LEMMA RenewKeeps ==
    ASSUME NEW l, LocalsInv(l), l.pc = "lock", NEW k, l.locked => k = None
    PROVE  LocalsInv([l EXCEPT !.pc = "caches", !.seen = k])
<1> DEFINE m == [l EXCEPT !.pc = "caches", !.seen = k]
<1> USE DEF LocalsInv
<1>1. DOMAIN l = DOMAIN Idle
  BY DEF Typed
<1>2. /\ DOMAIN m = DOMAIN Idle /\ m.pc = "caches" /\ m.reused = l.reused /\ m.seen = k
      /\ m.need = l.need /\ m.nodes = l.nodes /\ m.db = l.db /\ m.locked = l.locked
      /\ m.farms = l.farms /\ m.transforms = l.transforms /\ m.sources = l.sources
  BY <1>1, Zenon DEF Idle
<1> HIDE DEF m
<1>3. ~m.reused
  BY <1>2 DEF FromLock
<1>4. Users(m) = Users(l)
  BY <1>2, UsersKept
<1>5. Typed(m) /\ Walked(m)
  BY <1>2, <1>4, Zenon DEF Typed, Walked, Steps
<1>6. Permitted(m)
  BY <1>2, Zenon DEF Permitted
<1>7. LocalsInv(m)
  BY <1>2, <1>3, <1>5, <1>6 DEF FromLock, Asked, Resolving, Registered
<1> QED
  BY <1>7 DEF m

(* CheckLock where the lock fits *)
LEMMA ReuseKeeps ==
    ASSUME NEW l, LocalsInv(l), l.pc = "lock", NEW k, LockInv(k), k \notin {None, Torn},
           k.digest = l.need
    PROVE  LocalsInv([l EXCEPT !.pc = "register", !.seen = k, !.reused = TRUE,
                          !.nodes = [a \in DOMAIN l.need |-> k.refs[a]]])
<1> DEFINE m == [l EXCEPT !.pc = "register", !.seen = k, !.reused = TRUE,
                     !.nodes = [a \in DOMAIN l.need |-> k.refs[a]]]
<1> USE DEF LocalsInv
<1>1. DOMAIN l = DOMAIN Idle
  BY DEF Typed
<1>2. /\ DOMAIN m = DOMAIN Idle /\ m.pc = "register" /\ m.reused = TRUE /\ m.seen = k
      /\ m.need = l.need /\ m.nodes = [a \in DOMAIN l.need |-> k.refs[a]] /\ m.db = l.db
      /\ m.farms = l.farms /\ m.transforms = l.transforms /\ m.sources = l.sources
  BY <1>1, Zenon DEF Idle
<1> HIDE DEF m
<1>3. Users(m) = Users(l)
  BY <1>2, UsersKept
<1>4. k.refs \in [DOMAIN l.need -> Node] /\ Pins(l.need, k.refs)
  BY Zenon DEF LockInv
<1>5. m.nodes = k.refs
  BY <1>2, <1>4
<1>6. m.nodes \in [DOMAIN m.need -> Node \cup {None}]
  BY <1>2, <1>4, <1>5
<1>7. Typed(m)
  <2>1. MapOf(m.nodes, Addr, Node \cup {None})
    BY <1>2, <1>6 DEF Typed, MapOf
  <2> QED
    BY <1>2, <1>3, <2>1, Zenon DEF Typed, Steps
<1>8. Walked(m)
  BY <1>2, <1>3, <1>6, Zenon DEF Walked
<1>9. FromLock(m)
  BY <1>2, <1>4, <1>5 DEF FromLock
<1>10. LocalsInv(m)
  BY <1>2, <1>7, <1>8, <1>9 DEF Permitted, Asked, Resolving, Registered
<1> QED
  BY <1>10 DEF m

(* AddCaches *)
LEMMA AddCachesKeeps ==
    ASSUME NEW l, LocalsInv(l), l.pc = "caches", NEW caches
    PROVE  LocalsInv([l EXCEPT !.pc = "db", !.caches = caches, !.todo = DOMAIN l.need])
<1> DEFINE m == [l EXCEPT !.pc = "db", !.caches = caches, !.todo = DOMAIN l.need]
<1> USE DEF LocalsInv
<1>1. DOMAIN l = DOMAIN Idle
  BY DEF Typed
<1>2. /\ DOMAIN m = DOMAIN Idle /\ m.pc = "db" /\ m.reused = l.reused /\ m.seen = l.seen
      /\ m.need = l.need /\ m.nodes = l.nodes /\ m.db = l.db /\ m.locked = l.locked
      /\ m.farms = l.farms /\ m.transforms = l.transforms /\ m.sources = l.sources
      /\ m.todo = DOMAIN l.need
  BY <1>1, Zenon DEF Idle
<1> HIDE DEF m
<1>3. ~m.reused
  BY <1>2 DEF FromLock
<1>4. Users(m) = Users(l)
  BY <1>2, UsersKept
<1>5. Typed(m) /\ Walked(m)
  BY <1>2, <1>4, Zenon DEF Typed, Walked, Steps
<1>6. Permitted(m)
  BY <1>2 DEF Permitted
<1>7. Asked(m)
  BY <1>2 DEF Asked
<1>8. LocalsInv(m)
  BY <1>2, <1>3, <1>5, <1>6, <1>7 DEF FromLock, Resolving, Registered
<1> QED
  BY <1>8 DEF m

(* BuildDb for the address a: one is the entry of its name. *)
LEMMA BuildDbKeeps ==
    ASSUME NEW l, LocalsInv(l), l.pc = "db", NEW a \in l.todo, NEW one,
           DOMAIN one = {l.need[a].name}, one[l.need[a].name] \in SUBSET Option
    PROVE  LocalsInv([l EXCEPT !.todo = @ \ {a}, !.db = Over(one, @)])
<1> DEFINE m == [l EXCEPT !.todo = @ \ {a}, !.db = Over(one, @)]
<1> USE DEF LocalsInv
<1>1. DOMAIN l = DOMAIN Idle
  BY DEF Typed
<1>2. /\ DOMAIN m = DOMAIN Idle /\ m.pc = "db" /\ m.reused = l.reused /\ m.seen = l.seen
      /\ m.need = l.need /\ m.nodes = l.nodes /\ m.db = Over(one, l.db) /\ m.locked = l.locked
      /\ m.farms = l.farms /\ m.transforms = l.transforms /\ m.sources = l.sources
      /\ m.todo = l.todo \ {a}
  BY <1>1, Zenon DEF Idle
<1> HIDE DEF m
<1>3. ~m.reused
  BY <1>2 DEF FromLock
<1>4. Users(m) = Users(l)
  BY <1>2, UsersKept
<1>5. MapOf(m.db, Name, SUBSET Option)
  <2>1. a \in DOMAIN l.need /\ l.need[a] \in Require
    BY DEF Asked, Typed, MapOf
  <2>2. MapOf(one, Name, SUBSET Option)
    BY <2>1 DEF MapOf, Require
  <2> QED
    BY <1>2, <2>2, OverMap DEF Typed
<1>6. Typed(m) /\ Walked(m)
  BY <1>2, <1>4, <1>5, Zenon DEF Typed, Walked, Steps
<1>7. Permitted(m)
  BY <1>2 DEF Permitted
<1>8. Asked(m)
  <2>1. DOMAIN m.db = {l.need[a].name} \cup DOMAIN l.db
    BY <1>2 DEF Over
  <2> QED
    BY <1>2, <2>1, Zenon DEF Asked
<1>9. LocalsInv(m)
  BY <1>2, <1>3, <1>6, <1>7, <1>8 DEF FromLock, Resolving, Registered
<1> QED
  BY <1>9 DEF m

(* What the solver's assignment gives is within the requirements: no address *)
(* is left out, and one name has one version.                              *)
LEMMA FoundChosen ==
    ASSUME NEW db, NEW need, MapOf(db, Name, SUBSET Option),
           \A a \in DOMAIN need : need[a].name \in DOMAIN db,
           NEW sel \in Solutions(db, need)
    PROVE  Chosen(Found(sel, need), need)
<1>1. ASSUME NEW a \in DOMAIN need
      PROVE  /\ sel[need[a].name].vendor \in Vendor /\ sel[need[a].name].version \in Version
             /\ sel[need[a].name].version \in need[a].range
             /\ need[a].vendor # None => sel[need[a].name].vendor = need[a].vendor
  <2>1. sel[need[a].name] \in Matches(db, need[a])
    BY Zenon DEF Solutions
  <2>2. db[need[a].name] \in SUBSET Option
    BY DEF MapOf
  <2>3. sel[need[a].name] \in Option
    BY <2>1, <2>2 DEF Matches
  <2> QED
    BY <2>1, <2>3 DEF Matches, Option
<1> DEFINE found == Found(sel, need)
<1>2. DOMAIN found = DOMAIN need
  BY <1>1, Zenon DEF Found
<1>3. \A a \in DOMAIN need :
         /\ found[a].name = need[a].name
         /\ found[a].vendor = sel[need[a].name].vendor
         /\ found[a].version = sel[need[a].name].version
  BY <1>2 DEF Found
<1> HIDE DEF found
<1>4. Chosen(found, need)
  BY <1>1, <1>2, <1>3 DEF Chosen, Satisfies
<1> QED
  BY <1>4 DEF found

(* Resolve with an assignment of the solver *)
LEMMA ResolveKeeps ==
    ASSUME NEW l, LocalsInv(l), l.pc = "db", l.todo = {}, NEW sel \in Solutions(l.db, l.need),
           NEW found, found = Found(sel, l.need)
    PROVE  LocalsInv([l EXCEPT !.pc = "vendor", !.db = Empty, !.found = found, !.todo = DOMAIN found])
<1> DEFINE m == [l EXCEPT !.pc = "vendor", !.db = Empty, !.found = found, !.todo = DOMAIN found]
<1> USE DEF LocalsInv
<1>1. DOMAIN l = DOMAIN Idle
  BY DEF Typed
<1>2. /\ DOMAIN m = DOMAIN Idle /\ m.pc = "vendor" /\ m.reused = l.reused /\ m.seen = l.seen
      /\ m.need = l.need /\ m.nodes = l.nodes /\ m.db = Empty /\ m.locked = l.locked
      /\ m.farms = l.farms /\ m.transforms = l.transforms /\ m.sources = l.sources
      /\ m.todo = DOMAIN found /\ m.found = found
  BY <1>1, Zenon DEF Idle
<1> HIDE DEF m
<1>3. ~m.reused
  BY <1>2 DEF FromLock
<1>4. Users(m) = Users(l)
  BY <1>2, UsersKept
<1>5. MapOf(m.db, Name, SUBSET Option)
  BY <1>2 DEF MapOf, Empty
<1>6. Typed(m) /\ Walked(m)
  BY <1>2, <1>4, <1>5, Zenon DEF Typed, Walked, Steps
<1>7. Permitted(m)
  BY <1>2 DEF Permitted
<1>8. Resolving(m)
  <2>1. MapOf(l.db, Name, SUBSET Option) /\ \A a \in DOMAIN l.need : l.need[a].name \in DOMAIN l.db
    BY Zenon DEF Typed, Asked
  <2>2. Chosen(found, l.need)
    BY <2>1, FoundChosen, Zenon
  <2>3. DOMAIN found = DOMAIN l.need
    BY <2>2, Zenon DEF Chosen
  <2> QED
    BY <1>2, <2>2, <2>3 DEF Resolving
<1>9. LocalsInv(m)
  BY <1>2, <1>3, <1>6, <1>7, <1>8 DEF FromLock, Asked, Registered
<1> QED
  BY <1>9 DEF m

(* VendorResolve of the address a to the content ref *)
LEMMA VendorResolveKeeps ==
    ASSUME NEW l, LocalsInv(l), l.pc = "vendor", NEW a \in l.todo, NEW ref \in Contents,
           NEW x, x = l.found[a]
    PROVE  LocalsInv([l EXCEPT !.todo = @ \ {a}, !.nodes = [@ EXCEPT ![a] =
               [name |-> x.name, vendor |-> x.vendor, version |-> x.version, ref |-> ref]]])
<1> DEFINE pin == [name |-> x.name, vendor |-> x.vendor, version |-> x.version, ref |-> ref]
           m == [l EXCEPT !.todo = @ \ {a}, !.nodes = [@ EXCEPT ![a] = pin]]
<1> USE DEF LocalsInv
<1>1. DOMAIN l = DOMAIN Idle
  BY DEF Typed
<1>2. /\ Chosen(l.found, l.need) /\ a \in DOMAIN l.need
      /\ l.nodes \in [DOMAIN l.need -> Node \cup {None}]
  BY DEF Resolving, Walked
<1>3. pin \in Node
  <2>1. l.need[a].name \in Name
    BY <1>2 DEF Typed, MapOf, Require
  <2> QED
    BY <1>2, <2>1 DEF Chosen, Satisfies, Node
<1>4. pin.name = x.name /\ pin.vendor = x.vendor /\ pin.version = x.version
  OBVIOUS
<1> HIDE DEF pin
<1>5. /\ DOMAIN m = DOMAIN Idle /\ m.pc = "vendor" /\ m.reused = l.reused /\ m.seen = l.seen
      /\ m.need = l.need /\ m.nodes = [l.nodes EXCEPT ![a] = pin] /\ m.db = l.db
      /\ m.locked = l.locked /\ m.found = l.found /\ m.todo = l.todo \ {a}
      /\ m.farms = l.farms /\ m.transforms = l.transforms /\ m.sources = l.sources
  BY <1>1, Zenon DEF Idle
<1> HIDE DEF m
<1>6. ~m.reused
  BY <1>5 DEF FromLock
<1>7. Users(m) = Users(l)
  BY <1>5, UsersKept
<1>8. m.nodes \in [DOMAIN m.need -> Node \cup {None}]
  BY <1>2, <1>3, <1>5
<1>9. Typed(m)
  <2>1. MapOf(m.nodes, Addr, Node \cup {None})
    BY <1>5, <1>8 DEF Typed, MapOf
  <2> QED
    BY <1>5, <1>7, <2>1, Zenon DEF Typed, Steps
<1>10. Walked(m)
  BY <1>5, <1>7, <1>8, Zenon DEF Walked
<1>11. Permitted(m)
  BY <1>5 DEF Permitted
<1>12. Resolving(m)
  <2>1. m.todo \subseteq DOMAIN m.need
    BY <1>5 DEF Resolving
  <2>2. ASSUME NEW b \in DOMAIN m.need, b \notin m.todo
        PROVE  /\ m.nodes[b] # None /\ m.nodes[b].name = m.found[b].name
               /\ m.nodes[b].vendor = m.found[b].vendor /\ m.nodes[b].version = m.found[b].version
    <3>1. CASE b = a
      <4>1. m.nodes[b] = pin
        BY <1>2, <1>5, <3>1
      <4>2. pin # None
        BY <1>3, NodeAssumption
      <4> QED
        BY <1>4, <1>5, <3>1, <4>1, <4>2
    <3>2. CASE b # a
      <4>1. m.nodes[b] = l.nodes[b] /\ b \in DOMAIN l.need /\ b \notin l.todo
        BY <1>2, <1>5, <2>2, <3>2
      <4> QED
        BY <1>5, <4>1, ZenonT(30) DEF Resolving
    <3> QED
      BY <3>1, <3>2
  <2> QED
    BY <1>2, <1>5, <2>1, <2>2, Zenon DEF Resolving
<1>13. LocalsInv(m)
  BY <1>5, <1>6, <1>9, <1>10, <1>11, <1>12 DEF FromLock, Asked, Registered
<1> QED
  BY <1>13 DEF m, pin

(* Register where every farm and every transform is built *)
LEMMA RegisterKeeps ==
    ASSUME Bounded, NEW l, LocalsInv(l), l.pc = "register" \/ (l.pc = "vendor" /\ l.todo = {}),
           FarmsBuild(l), TransformsBuild(l)
    PROVE  LocalsInv([l EXCEPT !.pc = IF l.reused THEN "loaded" ELSE "truncate",
                          !.built = [node \in Users(l) |-> ByName(node, Given(l))]])
<1> DEFINE step == IF l.reused THEN "loaded" ELSE "truncate"
           built == [node \in Users(l) |-> ByName(node, Given(l))]
           m == [l EXCEPT !.pc = step, !.built = built]
<1> USE DEF LocalsInv
<1>1. DOMAIN l = DOMAIN Idle
  BY DEF Typed
<1>2. step \in {"loaded", "truncate"} /\ (l.reused <=> step = "loaded")
  OBVIOUS
<1>3. \A node \in Users(l) : built[node] = ByName(node, Given(l))
  OBVIOUS
<1> HIDE DEF step, built
<1>4. /\ DOMAIN m = DOMAIN Idle /\ m.pc = step /\ m.reused = l.reused /\ m.seen = l.seen
      /\ m.need = l.need /\ m.nodes = l.nodes /\ m.db = l.db /\ m.locked = l.locked
      /\ m.farms = l.farms /\ m.transforms = l.transforms /\ m.sources = l.sources
      /\ m.built = built
  BY <1>1, Zenon DEF Idle
<1> HIDE DEF m
<1>5. Users(m) = Users(l)
  BY <1>4, UsersKept
<1>6. Given(m) = Given(l)
  BY <1>4, Zenon DEF Given
<1>7. Typed(m) /\ Walked(m)
  <2>1. step \in Steps /\ l.pc \notin {"idle", "walk"}
    BY <1>2 DEF Steps
  <2> QED
    BY <1>4, <1>5, <2>1, Zenon DEF Typed, Walked
<1>8. Pins(l.need, l.nodes)
  <2>1. CASE l.pc = "register"
    BY <2>1 DEF FromLock
  <2>2. CASE l.pc = "vendor" /\ l.todo = {}
    BY <2>2 DEF Resolving, Walked, Chosen, Satisfies, Pins
  <2> QED
    BY <2>1, <2>2
<1>9. FromLock(m)
  BY <1>2, <1>4, <1>8 DEF FromLock
<1>10. Permitted(m)
  <2>1. l.pc = "register" => l.reused
    BY DEF FromLock
  <2> QED
    BY <1>2, <1>4, <2>1 DEF Permitted
<1>11. \A node \in Users(l) : Named(node) \subseteq DOMAIN Given(l)
  <2>1. l.pc \notin {"idle", "walk"}
    OBVIOUS
  <2>2. l.nodes \in [DOMAIN l.need -> Node \cup {None}]
    BY <2>1, Zenon DEF Walked
  <2>3. DOMAIN Given(l) = DOMAIN l.need \cup DOMAIN l.sources
    BY <2>2 DEF Given, Over
  <2>4. \A node \in Users(l) : Named(node) \subseteq DOMAIN l.sources \cup DOMAIN l.need
    BY <2>1, Zenon DEF Walked
  <2> QED
    BY <2>3, <2>4
<1>12. ASSUME NEW node \in Users(l)
       PROVE  BuiltRight(node, ByName(node, Given(l)), Given(l))
  <2>1. SourceField(node)
    BY DEF Typed
  <2>2. \E n \in Nat :
           /\ DOMAIN Takes(node) = 1 .. n
           /\ \A i \in 1 .. n : Takes(node)[i] \in Named(node) /\ Source(Given(l)[Takes(node)[i]])
    <3>1. Farm(node, Given(l), l.config) \/ Transform(node, Given(l))
      BY Zenon DEF Users, FarmsBuild, TransformsBuild
    <3> QED
      BY <2>1, <3>1, FarmTakes, TransformTakes
  <2> QED
    BY <1>11, <2>2, BuildsRight
<1>13. Registered(m)
  BY <1>3, <1>4, <1>5, <1>6, <1>8, <1>12, Zenon DEF Registered
<1>14. LocalsInv(m)
  BY <1>2, <1>4, <1>7, <1>9, <1>10, <1>13 DEF Asked, Resolving
<1> QED
  BY <1>14 DEF m, step, built

(* Truncate and WriteLock *)
LEMMA WriteKeeps ==
    ASSUME NEW l, LocalsInv(l), NEW step \in {"write", "loaded"},
           l.pc = IF step = "write" THEN "truncate" ELSE "write"
    PROVE  LocalsInv([l EXCEPT !.pc = step])
<1> DEFINE m == [l EXCEPT !.pc = step]
<1> USE DEF LocalsInv
<1>1. DOMAIN l = DOMAIN Idle
  BY DEF Typed
<1>2. /\ DOMAIN m = DOMAIN Idle /\ m.pc = step /\ m.reused = l.reused /\ m.seen = l.seen
      /\ m.need = l.need /\ m.nodes = l.nodes /\ m.db = l.db /\ m.locked = l.locked
      /\ m.farms = l.farms /\ m.transforms = l.transforms /\ m.sources = l.sources
      /\ m.built = l.built
  BY <1>1, Zenon DEF Idle
<1> HIDE DEF m
<1>3. ~m.reused
  BY <1>2 DEF FromLock
<1>4. Users(m) = Users(l)
  BY <1>2, UsersKept
<1>5. Given(m) = Given(l)
  BY <1>2, Zenon DEF Given
<1>6. Typed(m) /\ Walked(m)
  <2>1. step \in Steps /\ l.pc \notin {"idle", "walk"}
    BY DEF Steps
  <2> QED
    BY <1>2, <1>4, <2>1, Zenon DEF Typed, Walked
<1>7. Permitted(m)
  BY <1>2 DEF Permitted
<1>8. Registered(m)
  <2>1. l.pc \in {"truncate", "write", "loaded"}
    OBVIOUS
  <2> QED
    BY <1>2, <1>4, <1>5, <2>1, Zenon DEF Registered
<1>9. LocalsInv(m)
  BY <1>2, <1>3, <1>6, <1>7, <1>8 DEF FromLock, Asked, Resolving
<1> QED
  BY <1>9 DEF m
-----------------------------------------------------------------------------
(* The invariant                                                            *)

(* No command runs and there is no lock: every invariant of a phase is void. *)
LEMMA InitInv == Init => Inv
<1> SUFFICES ASSUME Init PROVE Inv
  OBVIOUS
<1>1. DOMAIN files = File /\ \A f \in File : files[f] \in Variants[f]
  BY FileAssumption, Zenon DEF Init
<1>2. registry \in [Vendor -> [Name -> [Tag -> Contents \cup {None}]]]
  BY RegistryAssumption DEF Init
<1>3. LockInv(lock)
  BY DEF Init, LockInv
<1>4. DOMAIN proc = Proc /\ \A p \in Proc : LocalsInv(proc[p])
  BY IdleKeeps, Zenon DEF Init
<1>5. loads \in 0 .. MaxLoads /\ changes \in 0 .. MaxChanges
  BY BoundAssumption DEF Init
<1> QED
  BY <1>1, <1>2, <1>3, <1>4, <1>5, Zenon DEF Inv

(* A step of one process leaves the locals of the others. *)
LEMMA BecomesKeeps ==
    ASSUME Inv, NEW p \in Proc, NEW l, LocalsInv(l), Becomes(p, l)
    PROVE  DOMAIN proc' = Proc /\ \A q \in Proc : LocalsInv(proc'[q])
<1>1. DOMAIN proc = Proc /\ \A q \in Proc : LocalsInv(proc[q])
  BY Zenon DEF Inv
<1>2. DOMAIN proc' = Proc /\ proc'[p] = l /\ \A q \in Proc \ {p} : proc'[q] = proc[q]
  BY <1>1 DEF Becomes
<1> QED
  BY <1>1, <1>2, Zenon

(* The same where the process returns. *)
LEMMA ReturnKeeps ==
    ASSUME Inv, NEW p \in Proc, Return(p)
    PROVE  DOMAIN proc' = Proc /\ \A q \in Proc : LocalsInv(proc'[q])
BY IdleKeeps, BecomesKeeps DEF Return

(* Every step of a process keeps what the processes hold. *)
LEMMA ContinueKeeps ==
    ASSUME Bounded, Inv, NEW p \in Proc, Continue(p)
    PROVE  DOMAIN proc' = Proc /\ \A q \in Proc : LocalsInv(proc'[q])
<1>0. LocalsInv(proc[p])
  BY Zenon DEF Inv
<1>1. ASSUME NEW f \in File, LoadToml(p, f)
      PROVE  DOMAIN proc' = Proc /\ \A q \in Proc : LocalsInv(proc'[q])
  <2>1. files[f] \in Variants[f] /\ proc[p].pc = "walk"
    BY <1>1, Zenon DEF LoadToml, At, Inv
  <2> QED
    BY <1>0, <1>1, <2>1, LoadTomlKeeps, BecomesKeeps, ReturnKeeps, Zenon DEF LoadToml
<1>2. CASE ResolveSources(p)
  BY <1>0, <1>2, ResolveSourcesKeeps, BecomesKeeps, ReturnKeeps, Zenon DEF ResolveSources, At
<1>3. CASE CheckLock(p)
  <2>1. LockInv(lock) /\ proc[p].pc = "lock"
    BY <1>3, Zenon DEF CheckLock, At, Inv
  <2>2. CASE lock = None /\ Becomes(p, [proc[p] EXCEPT !.pc = "caches", !.seen = lock])
    BY <1>0, <2>1, <2>2, RenewKeeps, BecomesKeeps, Zenon
  <2>3. CASE ~proc[p].locked /\ Becomes(p, [proc[p] EXCEPT !.pc = "caches", !.seen = lock])
    BY <1>0, <2>1, <2>3, RenewKeeps, BecomesKeeps, Zenon
  <2>4. CASE /\ lock \notin {None, Torn} /\ Fits(p)
             /\ Becomes(p, [proc[p] EXCEPT !.pc = "register", !.seen = lock, !.reused = TRUE,
                                !.nodes = [a \in DOMAIN proc[p].need |-> lock.refs[a]]])
    <3>1. lock.digest = proc[p].need
      BY <2>4, Zenon DEF Fits
    <3>2. LocalsInv([proc[p] EXCEPT !.pc = "register", !.seen = lock, !.reused = TRUE,
                         !.nodes = [a \in DOMAIN proc[p].need |-> lock.refs[a]]])
      BY <1>0, <2>1, <2>4, <3>1, ReuseKeeps, Zenon
    <3> QED
      BY <2>4, <3>2, BecomesKeeps, Zenon
  <2>5. CASE Return(p)
    BY <2>5, ReturnKeeps
  <2> QED
    BY <1>3, <2>2, <2>3, <2>4, <2>5, Zenon DEF CheckLock
<1>4. CASE AddCaches(p)
  BY <1>0, <1>4, AddCachesKeeps, BecomesKeeps, ReturnKeeps, Zenon DEF AddCaches, At
<1>5. ASSUME NEW a \in Addr, BuildDb(p, a)
      PROVE  DOMAIN proc' = Proc /\ \A q \in Proc : LocalsInv(proc'[q])
  <2> DEFINE n == proc[p].need[a].name
             known == IF n \in DOMAIN proc[p].db THEN proc[p].db[n] ELSE {}
             offered == Offered(proc[p].vendors, n)
             one == [m \in {n} |-> known \cup offered]
             l == [proc[p] EXCEPT !.todo = @ \ {a}, !.db = Over(one, @)]
  <2>1. proc[p].pc = "db" /\ a \in proc[p].todo /\ Becomes(p, l)
    BY <1>5, Zenon DEF BuildDb, At
  <2>2. known \in SUBSET Option
    BY <1>0 DEF LocalsInv, Typed, MapOf
  <2>3. offered \in SUBSET Option
    BY Zenon DEF Offered
  <2>4. DOMAIN one = {n} /\ one[n] \in SUBSET Option
    <3> HIDE DEF n, known, offered
    <3> QED
      BY <2>2, <2>3
  <2>5. LocalsInv(l)
    <3> HIDE DEF one
    <3> QED
      BY <1>0, <2>1, <2>4, BuildDbKeeps, Zenon
  <2> QED
    BY <2>1, <2>5, BecomesKeeps, Zenon
<1>6. CASE Resolve(p)
  <2>1. CASE Return(p)
    BY <2>1, ReturnKeeps
  <2>2. ASSUME NEW sel \in Solutions(proc[p].db, proc[p].need), NEW found,
               found = Found(sel, proc[p].need),
               Becomes(p, [proc[p] EXCEPT !.pc = "vendor", !.db = Empty, !.found = found,
                                          !.todo = DOMAIN found])
        PROVE  DOMAIN proc' = Proc /\ \A q \in Proc : LocalsInv(proc'[q])
    <3>1. proc[p].pc = "db" /\ proc[p].todo = {}
      BY <1>6, Zenon DEF Resolve, At
    <3> QED
      BY <1>0, <2>2, <3>1, ResolveKeeps, BecomesKeeps, Zenon
  <2> QED
    BY <1>6, <2>1, <2>2, Zenon DEF Resolve
<1>7. ASSUME NEW a \in Addr, VendorResolve(p, a)
      PROVE  DOMAIN proc' = Proc /\ \A q \in Proc : LocalsInv(proc'[q])
  <2> DEFINE x == proc[p].found[a]
             ref == Fetched(x)
             l == [proc[p] EXCEPT !.todo = @ \ {a}, !.nodes = [@ EXCEPT ![a] =
                      [name |-> x.name, vendor |-> x.vendor, version |-> x.version, ref |-> ref]]]
  <2>1. proc[p].pc = "vendor" /\ a \in proc[p].todo
    BY <1>7, Zenon DEF VendorResolve, At
  <2>2. ref \in Contents \cup {None}
    <3>1. Chosen(proc[p].found, proc[p].need) /\ a \in DOMAIN proc[p].need
      BY <1>0, <2>1 DEF LocalsInv, Resolving
    <3>2. x.vendor \in Vendor /\ x.version \in Version /\ x.name = proc[p].need[a].name
      BY <3>1, Zenon DEF Chosen, Satisfies
    <3>3. x.name \in Name
      BY <1>0, <3>1, <3>2 DEF LocalsInv, Typed, MapOf, Require
    <3>4. <<x.version, "">> \in Tag /\ <<x.version, "v">> \in Tag
      BY <3>2, Zenon DEF Tag
    <3>5. registry[x.vendor][x.name] \in [Tag -> Contents \cup {None}]
      BY <3>2, <3>3, Zenon DEF Inv
    <3> HIDE DEF x
    <3> QED
      BY <3>4, <3>5, Zenon DEF Fetched
  <2>3. CASE ref = None
    <3>1. Return(p)
      BY <1>7, <2>3, Zenon DEF VendorResolve
    <3> QED
      BY <3>1, ReturnKeeps
  <2>4. CASE ref # None
    <3>1. Becomes(p, l)
      BY <1>7, <2>4, Zenon DEF VendorResolve
    <3>2. ref \in Contents
      BY <2>2, <2>4
    <3>3. LocalsInv(l)
      <4> HIDE DEF ref
      <4> QED
        BY <1>0, <2>1, <3>2, VendorResolveKeeps, Zenon
    <3> QED
      BY <3>1, <3>3, BecomesKeeps
  <2> QED
    BY <2>3, <2>4
<1>8. CASE Register(p)
  BY <1>0, <1>8, RegisterKeeps, BecomesKeeps, ReturnKeeps, Zenon DEF Register, At
<1>9. CASE Truncate(p)
  <2>0. proc[p].pc = "truncate"
    BY <1>9, Zenon DEF Truncate, At
  <2>1. LocalsInv([proc[p] EXCEPT !.pc = "write"])
    BY <1>0, <2>0, WriteKeeps, Zenon
  <2> QED
    BY <1>9, <2>1, BecomesKeeps, Zenon DEF Truncate
<1>10. CASE WriteLock(p)
  <2>1. LocalsInv([proc[p] EXCEPT !.pc = "loaded"])
    BY <1>0, <1>10, WriteKeeps, Zenon DEF WriteLock, At
  <2> QED
    BY <1>10, <2>1, BecomesKeeps, Zenon DEF WriteLock
<1> QED
  BY <1>1, <1>2, <1>3, <1>4, <1>5, <1>6, <1>7, <1>8, <1>9, <1>10 DEF Continue

(* The lock that WriteLock leaves pins what the process resolved. *)
LEMMA WriteLockSound ==
    ASSUME NEW l, LocalsInv(l), l.pc = "write"
    PROVE  LockInv([digest |-> l.need, refs |-> l.nodes])
<1>1. l.nodes \in [DOMAIN l.need -> Node \cup {None}]
  BY DEF LocalsInv, Walked
<1>2. Pins(l.need, l.nodes)
  BY DEF LocalsInv, Registered
<1>3. l.nodes \in [DOMAIN l.need -> Node]
  BY <1>1, <1>2 DEF Pins
<1> QED
  BY <1>2, <1>3 DEF LockInv

(* A lock that does not parse promises nothing. *)
LEMMA TornSound == LockInv(Torn)
BY DEF LockInv

(* Files and registries are no part of a step of a process, and the lock is  *)
(* at most truncated or written.                                           *)
LEMMA ContinueShared ==
    ASSUME Inv, NEW p \in Proc, Continue(p)
    PROVE  UNCHANGED <<files, registry, loads, changes>> /\ LockInv(lock')
<1>0. LocalsInv(proc[p]) /\ LockInv(lock)
  BY Zenon DEF Inv
<1>1. CASE Truncate(p)
  BY <1>1, TornSound, Zenon DEF Truncate
<1>2. CASE WriteLock(p)
  <2> DEFINE mine == [digest |-> proc[p].need, refs |-> proc[p].nodes]
  <2>1. lock' \in {mine, Torn}
    BY <1>2 DEF WriteLock
  <2>2. LockInv(mine)
    BY <1>0, <1>2, WriteLockSound, Zenon DEF WriteLock, At
  <2> HIDE DEF mine
  <2>3. LockInv(lock')
    BY <2>1, <2>2, TornSound, Zenon
  <2> QED
    BY <1>2, <2>3, Zenon DEF WriteLock
<1>3. CASE ~Truncate(p) /\ ~WriteLock(p)
  <2>1. UNCHANGED <<files, registry, lock, loads, changes>>
    BY <1>3, Zenon DEF Continue, LoadToml, ResolveSources, CheckLock, AddCaches, BuildDb, Resolve,
                       VendorResolve, Register
  <2> QED
    BY <1>0, <2>1
<1> QED
  BY <1>1, <1>2, <1>3

(* Every step of the commands, of a user and of a registry keeps the          *)
(* invariant.                                                              *)
LEMMA NextInv == Bounded /\ Inv /\ [Next]_vars => Inv'
<1> SUFFICES ASSUME Bounded, Inv, [Next]_vars PROVE Inv'
  OBVIOUS
<1>1. ASSUME NEW p \in Proc, Continue(p)
      PROVE  Inv'
  BY <1>1, ContinueKeeps, ContinueShared, Zenon DEF Inv
<1>2. ASSUME NEW p \in Proc, Stop(p)
      PROVE  Inv'
  <2>1. DOMAIN proc' = Proc /\ \A q \in Proc : LocalsInv(proc'[q])
    BY <1>2, ReturnKeeps, Zenon DEF Stop
  <2>2. changes' \in 0 .. MaxChanges
    BY <1>2, BoundAssumption DEF Stop, Inv
  <2> QED
    BY <1>2, <2>1, <2>2, Zenon DEF Stop, Inv
<1>3. ASSUME NEW p \in Proc, Exit(p)
      PROVE  Inv'
  <2>1. DOMAIN proc' = Proc /\ \A q \in Proc : LocalsInv(proc'[q])
    BY <1>3, ReturnKeeps, Zenon DEF Exit
  <2> QED
    BY <1>3, <2>1, Zenon DEF Exit, Inv
<1>4. ASSUME NEW p \in Proc, NEW locked \in BOOLEAN, Load(p, locked)
      PROVE  Inv'
  <2>1. LocalsInv(proc[p]) /\ proc[p].pc = "idle"
    BY <1>4, Zenon DEF Load, At, Inv
  <2>2. LocalsInv([proc[p] EXCEPT !.pc = "walk", !.locked = locked, !.todo = File])
    BY <2>1, LoadKeeps, Zenon
  <2>3. DOMAIN proc' = Proc /\ \A q \in Proc : LocalsInv(proc'[q])
    BY <1>4, <2>2, BecomesKeeps, Zenon DEF Load
  <2>4. loads' \in 0 .. MaxLoads
    BY <1>4, BoundAssumption DEF Load, Inv
  <2> QED
    BY <1>4, <2>3, <2>4, Zenon DEF Load, Inv
<1>5. ASSUME NEW f \in File, NEW c \in Variants[f], Edit(f, c)
      PROVE  Inv'
  <2>1. DOMAIN files' = File /\ \A g \in File : files'[g] \in Variants[g]
    BY <1>5 DEF Edit, Inv
  <2>2. changes' \in 0 .. MaxChanges
    BY <1>5, BoundAssumption DEF Edit, Inv
  <2> QED
    BY <1>5, <2>1, <2>2, Zenon DEF Edit, Inv
<1>6. ASSUME NEW t \in Movable, NEW k \in Contents \cup {None}, Publish(t[1], t[2], t[3], k)
      PROVE  Inv'
  <2>1. t[1] \in Vendor /\ t[2] \in Name /\ t[3] \in Tag
    BY RegistryAssumption
  <2>2. registry' \in [Vendor -> [Name -> [Tag -> Contents \cup {None}]]]
    BY <1>6, <2>1 DEF Publish, Inv
  <2>3. changes' \in 0 .. MaxChanges
    BY <1>6, BoundAssumption DEF Publish, Inv
  <2> QED
    BY <1>6, <2>2, <2>3, Zenon DEF Publish, Inv
<1>7. CASE UNCHANGED vars
  BY <1>7, Zenon DEF vars, Inv
<1> QED
  BY <1>1, <1>2, <1>3, <1>4, <1>5, <1>6, <1>7, Zenon DEF Next

INSTANCE WellFoundedInduction

(* By a minimal distance from n. *)
LEMMA Largest == Bounded
<1> SUFFICES ASSUME NEW n \in Nat, NEW T \in SUBSET (1 .. n), T # {}
             PROVE  \E i \in T : \A j \in T : j <= i
  BY Zenon DEF Bounded
<1> DEFINE D == {n - i : i \in T}
<1>1. D \in SUBSET Nat /\ D # {}
  <2>1. PICK i \in T : TRUE
    BY Zenon
  <2>2. \A j \in T : n - j \in Nat
    OBVIOUS
  <2> QED
    BY <2>1, <2>2, Zenon
<1>2. IsWellFoundedOn(OpToRel(<, Nat), Nat)
  BY NatLessThanWellFounded, Zenon
<1>3. PICK d \in D : \A e \in D : ~(<<e, d>> \in OpToRel(<, Nat))
  BY <1>1, <1>2, WFMin, Zenon
<1>4. \A e \in D : ~(e < d)
  BY <1>1, <1>3, Zenon DEF OpToRel
<1>5. PICK i \in T : d = n - i
  BY Zenon
<1>6. \A j \in T : j <= i
  <2> TAKE j \in T
  <2>1. ~(n - j < n - i)
    BY <1>4, <1>5, Zenon
  <2> QED
    BY <2>1
<1> QED
  BY <1>6, Zenon

(* What the processes hold and what the lock holds, at every step. *)
THEOREM Invariant == Spec => []Inv
<1>1. Inv /\ [Next]_vars => Inv'
  BY NextInv, Largest, Zenon
<1> QED
  BY InitInv, <1>1, PTL DEF Spec
-----------------------------------------------------------------------------
(* The locals of a load have their types at every step, whatever files,      *)
(* registries and lock the command meets.                                  *)
THEOREM TypesKept == Spec => []TypeOK
<1>1. Inv => TypeOK
  <2> SUFFICES ASSUME Inv PROVE TypeOK
    OBVIOUS
  <2>1. lock \in {None, Torn} \/ DOMAIN lock = {"digest", "refs"}
    BY Zenon DEF Inv, LockInv
  <2>2. \A p \in Proc : Typed(proc[p])
    BY Zenon DEF Inv, LocalsInv
  <2> QED
    BY <2>1, <2>2, Zenon DEF Inv, Typed, TypeOK
<1> QED
  BY <1>1, Invariant, PTL

(* The lock file pins every requirement it was made for, at every moment at  *)
(* which it parses, with any number of commands writing it.                *)
THEOREM LockPins == Spec => []LockSound
<1>1. Inv => LockSound
  BY Zenon DEF Inv, LockInv, LockSound
<1> QED
  BY <1>1, Invariant, PTL

(* A loaded project has every source that a farm or a transform takes, the   *)
(* resolved one where it is a requirement.                                 *)
THEOREM LoadsResolved == Spec => []SourcesResolved
<1>1. Inv => SourcesResolved
  <2> SUFFICES ASSUME Inv, NEW p \in Proc, proc[p].pc = "loaded"
               PROVE  /\ Pins(proc[p].need, proc[p].nodes)
                      /\ proc[p].reused => proc[p].nodes = proc[p].seen.refs
                      /\ \A node \in Users(proc[p]) :
                            BuiltRight(node, proc[p].built[node], Given(proc[p]))
    BY Zenon DEF SourcesResolved, At
  <2>1. FromLock(proc[p]) /\ Registered(proc[p])
    BY Zenon DEF Inv, LocalsInv
  <2> QED
    BY <2>1 DEF FromLock, Registered
<1> QED
  BY <1>1, Invariant, PTL

(* Only update replaces a lock that it found. *)
THEOREM LockedLeavesLock == Spec => NoSilentResolution
<1>1. ASSUME Inv
      PROVE  \A p \in Proc : proc[p].locked /\ proc[p].pc \in {"truncate", "write"}
                                => proc[p].seen = None
  <2>1. \A p \in Proc : Permitted(proc[p])
    BY <1>1, Zenon DEF Inv, LocalsInv
  <2> QED
    BY <2>1 DEF Permitted
<1>2. Inv => [\A p \in Proc :
              proc[p].locked /\ proc[p].pc \in {"truncate", "write"} /\ lock' # lock /\ proc'[p] # proc[p]
                    => proc[p].seen = None]_vars
  BY <1>1, Zenon
<1> QED
  BY <1>2, Invariant, PTL DEF NoSilentResolution
=============================================================================
