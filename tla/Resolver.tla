------------------------------- MODULE Resolver -------------------------------
(***************************************************************************)
(* Resolver: the requirements of a project, the versions the vendors offer *)
(* and the assignment of versions to addresses that build writes into the  *)
(* lock.  resolvo itself is external: any assignment that satisfies what   *)
(* the DependencyProvider tells it may come back.                          *)
(***************************************************************************)
EXTENDS Integers, FiniteSets

CONSTANTS
    Addr,       \* the addresses of requires nodes
    Name,       \* package names
    Vendor, Version,
    Depends,    \* <<vendor, name, version>> -> requirements of that package
    None

(* EdoVersion, and the Dependency that a requires node stands for; range is *)
(* the set of versions that its VersionReq accepts.                        *)
Option == [vendor : Vendor, version : Version]
Require == [name : Name, range : SUBSET Version, vendor : Vendor \cup {None}]

(* A map from some of S to T, as the BTreeMaps and HashMaps of the code are. *)
MapOf(f, S, T) == DOMAIN f \subseteq S /\ \A x \in DOMAIN f : f[x] \in T

(* Faulty variant: the vendor of a requirement is not looked at. *)
AnyVendor(db, r) == {o \in db[r.name] : o.version \in r.range}

(* build_requirement: what a requirement leaves of a name's candidates. *)
Matches(db, r) ==
    {o \in db[r.name] : o.version \in r.range /\ (r.vendor # None => o.vendor = r.vendor)}

(* get_dependencies: a name without a database makes the candidate unusable; *)
(* a requirement that no known version meets is dropped.                   *)
Allowed(db, sel, n) ==
    \A d \in Depends[<<sel[n].vendor, n, sel[n].version>>] :
        /\ d.name \in DOMAIN db
        /\ LET meets == {o \in db[d.name] : o.version \in d.range}
           IN meets # {} => sel[d.name] \in meets

(* The solver picks one candidate per name.  Only names that some node       *)
(* requires have a database.                                               *)
Solutions(db, need) ==
    {sel \in [DOMAIN db -> Option] :
        /\ \A n \in DOMAIN db : sel[n] \in db[n] /\ Allowed(db, sel, n)
        /\ \A a \in DOMAIN need : sel[need[a].name] \in Matches(db, need[a])}

(* resolve: targets keeps the addresses by name and vendor hint; an address  *)
(* is found under the chosen vendor or under no vendor.                    *)
Found(sel, need) ==
    [a \in {b \in DOMAIN need : need[b].vendor \in {None, sel[need[b].name].vendor}} |->
        [name |-> need[a].name, vendor |-> sel[need[a].name].vendor,
         version |-> sel[need[a].name].version]]

Satisfies(r, x) ==
    /\ x.name = r.name
    /\ x.version \in r.range
    /\ r.vendor # None => x.vendor = r.vendor
=============================================================================
