------------------------------- MODULE Prepare -------------------------------
(***************************************************************************)
(* What Inner::run does before Graph::run: Graph::add, which walks the     *)
(* declared dependencies into a DAG and precomputes the dispatcher's       *)
(* counters, and Graph::fetch, which gives every node its id, probes the   *)
(* build cache and prepares the misses in tasks throttled by a semaphore.  *)
(*                                                                         *)
(* add_recursive is an ordinary depth-first recursion; stack is its call   *)
(* stack, one frame per address with the number of dependencies already    *)
(* linked.                                                                 *)
(***************************************************************************)
EXTENDS Integers, Sequences, FiniteSets

CONSTANTS
    Addr,         \* every address a transform can name
    Registered,   \* the addresses with a transform in the registry
    Projects,     \* the projects considered: functions Registered -> Seq(Addr)
    Root,         \* the address the user asked for
    workers       \* the [scheduler] workers key: an integer, or anything else

ASSUME AddrAssumption == IsFiniteSet(Addr) /\ Registered \subseteq Addr /\ Root \in Addr
ASSUME ProjectAssumption == Projects \subseteq [Registered -> Seq(Addr)]

(* Scheduler::new; a negative integer would wrap to a huge u64 and is left  *)
(* out.                                                                    *)
batch_size == IF workers \in Nat THEN workers ELSE 8

VARIABLES
    depends,      \* Transform::depends of every registered transform
    stack,        \* frames of add_recursive: [addr, linked]
    nodes,        \* the DAG's nodes in insertion order; index is its inverse
    edges,        \* <<dep, dependent, position in the dependency list>>
    queue, subgraph, indegrees,   \* the walk over parents and its result
    phase,        \* where Inner::run is
    result,
    next,         \* fetch: position of the node under inspection
    ids, hits,    \* nodes whose id is set, nodes found in the build cache
    permits,
    task          \* node -> state of its prepare task

graphVars == <<depends, stack, nodes, edges>>
slice == <<queue, subgraph, indegrees>>
fetchVars == <<next, ids, hits, permits, task>>
vars == <<graphVars, slice, phase, result, fetchVars>>

Known == {nodes[i] : i \in 1 .. Len(nodes)}
-----------------------------------------------------------------------------
Init ==
    /\ depends \in Projects
    /\ stack = <<>>
    /\ nodes = <<>>
    /\ edges = {}
    /\ queue = {}
    /\ subgraph = {}
    /\ indegrees = [n \in {} |-> 0]
    /\ phase = "start"
    /\ result = "none"
    /\ next = 1
    /\ ids = {}
    /\ hits = {}
    /\ permits = batch_size
    /\ task = [n \in Addr |-> "none"]

Return(r) == phase' = "returned" /\ result' = r
-----------------------------------------------------------------------------
(* Graph::add_recursive                                                     *)

(* A new node and a frame for it, or ProjectTransform if the address has no *)
(* transform.                                                              *)
Visit(addr) ==
    \/ /\ addr \in Registered
       /\ nodes' = Append(nodes, addr)
       /\ stack' = Append(stack, [addr |-> addr, linked |-> 0])
       /\ phase' = "add"
       /\ UNCHANGED result
    \/ /\ addr \notin Registered
       /\ Return("missing")
       /\ UNCHANGED <<nodes, stack>>

Top == stack[Len(stack)]
Pending == Top.linked < Len(depends[Top.addr])
Dependency == depends[Top.addr][Top.linked + 1]

(* daggy's add_edge: WouldCycle if the new edge's source is reachable from  *)
(* its target.                                                             *)
Reaches(E, a, b) ==
    \A S \in SUBSET Addr : a \in S /\ (\A e \in E : e[1] \in S => e[2] \in S) => b \in S

(* Faulty variant: only an edge from a node to itself is refused. *)
AddEdgeUnchecked(frames, dep) ==
    LET frame == frames[Len(frames)] IN
    \/ /\ dep # frame.addr
       /\ edges' = edges \cup {<<dep, frame.addr, frame.linked + 1>>}
       /\ stack' = [frames EXCEPT ![Len(frames)].linked = @ + 1]
       /\ UNCHANGED <<phase, result>>
    \/ /\ dep = frame.addr
       /\ Return("cycle")
       /\ UNCHANGED <<edges, stack>>

(* Faulty variant: the path is looked for in the wrong direction. *)
AddEdgeReversed(frames, dep) ==
    LET frame == frames[Len(frames)] IN
    \/ /\ ~Reaches(edges, dep, frame.addr)
       /\ edges' = edges \cup {<<dep, frame.addr, frame.linked + 1>>}
       /\ stack' = [frames EXCEPT ![Len(frames)].linked = @ + 1]
       /\ UNCHANGED <<phase, result>>
    \/ /\ Reaches(edges, dep, frame.addr)
       /\ Return("cycle")
       /\ UNCHANGED <<edges, stack>>

(* The edge from a dependency into the address of the innermost frame. *)
AddEdge(frames, dep) ==
    LET frame == frames[Len(frames)] IN
    \/ /\ ~Reaches(edges, frame.addr, dep)
       /\ edges' = edges \cup {<<dep, frame.addr, frame.linked + 1>>}
       /\ stack' = [frames EXCEPT ![Len(frames)].linked = @ + 1]
       /\ UNCHANGED <<phase, result>>
    \/ /\ Reaches(edges, frame.addr, dep)
       /\ Return("cycle")
       /\ UNCHANGED <<edges, stack>>

Start ==
    /\ phase = "start"
    /\ Visit(Root)
    /\ UNCHANGED <<depends, edges, slice, fetchVars>>

Descend ==
    /\ phase = "add"
    /\ stack # <<>>
    /\ Pending
    /\ Dependency \notin Known
    /\ Visit(Dependency)
    /\ UNCHANGED <<depends, edges, slice, fetchVars>>

(* The fast path: the dependency has a node already, possibly one that is   *)
(* still being visited.                                                    *)
LinkKnown ==
    /\ phase = "add"
    /\ stack # <<>>
    /\ Pending
    /\ Dependency \in Known
    /\ AddEdge(stack, Dependency)
    /\ UNCHANGED <<depends, nodes, slice, fetchVars>>

(* The recursive call for Top.addr returns and its caller links it. *)
LinkVisited ==
    /\ phase = "add"
    /\ Len(stack) > 1
    /\ ~Pending
    /\ AddEdge(SubSeq(stack, 1, Len(stack) - 1), Top.addr)
    /\ UNCHANGED <<depends, nodes, slice, fetchVars>>

(* Transform::depends itself fails. *)
DependsFails ==
    /\ phase = "add"
    /\ stack # <<>>
    /\ Top.linked = 0
    /\ Return("error")
    /\ UNCHANGED <<graphVars, slice, fetchVars>>
-----------------------------------------------------------------------------
(* The rest of Graph::add: the walk over parents from the target, and the   *)
(* indegree template.  queue is a VecDeque whose order does not matter.     *)

StartWalk ==
    /\ phase = "add"
    /\ Len(stack) = 1
    /\ ~Pending
    /\ stack' = <<>>
    /\ queue' = {Root}
    /\ phase' = "walk"
    /\ UNCHANGED <<depends, nodes, edges, subgraph, indegrees, result, fetchVars>>

Walk(n) ==
    /\ phase = "walk"
    /\ n \in queue
    /\ subgraph' = subgraph \cup {n}
    /\ queue' = (queue \ {n}) \cup
                (IF n \in subgraph THEN {} ELSE {e[1] : e \in {f \in edges : f[2] = n}})
    /\ UNCHANGED <<graphVars, indegrees, phase, result, fetchVars>>

(* Faulty variant: one per parent instead of one per edge. *)
CountParents ==
    /\ phase = "walk"
    /\ queue = {}
    /\ indegrees' = [n \in subgraph |->
                        Cardinality({e[1] : e \in {f \in edges : f[2] = n /\ f[1] \in subgraph}})]
    /\ phase' = "probe"
    /\ UNCHANGED <<graphVars, queue, subgraph, result, fetchVars>>

CountIndegrees ==
    /\ phase = "walk"
    /\ queue = {}
    /\ indegrees' = [n \in subgraph |->
                        Cardinality({e \in edges : e[2] = n /\ e[1] \in subgraph})]
    /\ phase' = "probe"
    /\ UNCHANGED <<graphVars, queue, subgraph, result, fetchVars>>
-----------------------------------------------------------------------------
(* Graph::fetch                                                             *)

Node == nodes[next]

(* get_unique_id or find_build fails: fetch returns and the tasks already   *)
(* spawned are left to themselves.                                         *)
ProbeFails ==
    /\ phase = "probe"
    /\ next <= Len(nodes)
    /\ ids' \in {ids, ids \cup {Node}}
    /\ Return("error")
    /\ UNCHANGED <<graphVars, slice, next, hits, permits, task>>

Hit ==
    /\ phase = "probe"
    /\ next <= Len(nodes)
    /\ ids' = ids \cup {Node}
    /\ hits' = hits \cup {Node}
    /\ next' = next + 1
    /\ UNCHANGED <<graphVars, slice, phase, result, permits, task>>

Miss ==
    /\ phase = "probe"
    /\ next <= Len(nodes)
    /\ ids' = ids \cup {Node}
    /\ phase' = "acquire"
    /\ UNCHANGED <<graphVars, slice, result, next, hits, permits, task>>

(* Faulty variant: the loop does not wait for a permit. *)
SpawnUnthrottled ==
    /\ phase = "acquire"
    /\ permits' = permits - 1
    /\ task' = [task EXCEPT ![Node] = "running"]
    /\ next' = next + 1
    /\ phase' = "probe"
    /\ UNCHANGED <<graphVars, slice, result, ids, hits>>

(* The permit is taken before the task is spawned, so the loop blocks here. *)
Spawn ==
    /\ phase = "acquire"
    /\ permits > 0
    /\ permits' = permits - 1
    /\ task' = [task EXCEPT ![Node] = "running"]
    /\ next' = next + 1
    /\ phase' = "probe"
    /\ UNCHANGED <<graphVars, slice, result, ids, hits>>

(* A prepare task ends; its permit is dropped with it, however it ends. *)
Finish(n) ==
    /\ task[n] = "running"
    /\ \E o \in {"ok", "error", "panicked"} : task' = [task EXCEPT ![n] = o]
    /\ permits' = permits + 1
    /\ UNCHANGED <<graphVars, slice, phase, result, next, ids, hits>>

AllProbed == phase = "probe" /\ next > Len(nodes)

(* Faulty variant: fetch returns Ok as soon as one task has ended well. *)
WaitFirst ==
    /\ AllProbed
    /\ (\A n \in Addr : task[n] = "none") \/ (\E n \in Addr : task[n] = "ok")
    /\ Return("ok")
    /\ UNCHANGED <<graphVars, slice, fetchVars>>

(* Faulty variant: fetch waits for as many successes as it spawned tasks. *)
WaitForSuccess ==
    /\ AllProbed
    /\ \A n \in Addr : task[n] \in {"none", "ok"}
    /\ Return("ok")
    /\ UNCHANGED <<graphVars, slice, fetchVars>>

(* wait: every handle is joined, then the failures are counted ... *)
Wait ==
    /\ AllProbed
    /\ \A n \in Addr : task[n] \in {"none", "ok", "error"}
    /\ Return(IF \E n \in Addr : task[n] = "error" THEN "error" ELSE "ok")
    /\ UNCHANGED <<graphVars, slice, fetchVars>>

(* ... but try_join_all gives up at the first panic. *)
WaitPanics ==
    /\ AllProbed
    /\ \E n \in Addr : task[n] = "panicked"
    /\ Return("error")
    /\ UNCHANGED <<graphVars, slice, fetchVars>>
-----------------------------------------------------------------------------
Step ==
    \/ Start \/ Descend \/ LinkKnown \/ LinkVisited \/ DependsFails
    \/ StartWalk \/ (\E n \in Addr : Walk(n)) \/ CountIndegrees
    \/ ProbeFails \/ Hit \/ Miss \/ Spawn \/ Wait \/ WaitPanics

Next == Step \/ \E n \in Addr : Finish(n)

(* The caller's task and every prepare task keep being polled, and the      *)
(* downloads end.                                                          *)
Fairness == WF_vars(Step) /\ \A n \in Addr : WF_vars(Finish(n))

Spec == Init /\ [][Next]_vars
FairSpec == Spec /\ Fairness
-----------------------------------------------------------------------------
(* Properties                                                               *)

Running == {n \in Addr : task[n] = "running"}

TypeOK ==
    /\ depends \in Projects
    /\ stack \in Seq([addr : Registered, linked : Nat])
    /\ nodes \in Seq(Registered)
    /\ edges \subseteq Addr \X Registered \X Nat
    /\ queue \subseteq Addr
    /\ subgraph \subseteq Addr
    /\ DOMAIN indegrees \subseteq subgraph
    /\ \A n \in DOMAIN indegrees : indegrees[n] \in Nat
    /\ phase \in {"start", "add", "walk", "probe", "acquire", "returned"}
    /\ result \in {"none", "ok", "error", "missing", "cycle"}
    /\ next \in 1 .. Len(nodes) + 1
    /\ ids \subseteq Registered
    /\ hits \subseteq ids
    /\ permits \in 0 .. batch_size
    /\ permits + Cardinality(Running) = batch_size  \* however tasks end
    /\ task \in [Addr -> {"none", "running", "ok", "error", "panicked"}]

(* What the project declares: the addresses the target needs, and the       *)
(* declared dependencies among them, one per list position.                *)
Needed ==
    {n \in Addr : \A S \in SUBSET Addr :
        Root \in S /\ (\A m \in S \cap Registered : \A i \in 1 .. Len(depends[m]) :
                           depends[m][i] \in S) => n \in S}
Declared ==
    UNION {{<<depends[n][i], n, i>> : i \in 1 .. Len(depends[n])} : n \in Needed \cap Registered}
Acyclic(E) == \A n \in Addr : ~ \E e \in E : e[2] = n /\ Reaches(E, n, e[1])

(* When add is done, the graph is the declared one: no node and no edge is  *)
(* lost to the fast path, a dependency listed twice is two edges, no node   *)
(* is duplicated and the edges form no cycle, which is what Graph::run      *)
(* takes for granted.                                                      *)
GraphExact ==
    phase \in {"walk", "probe", "acquire"} \/ result = "ok" =>
        /\ Known = Needed
        /\ Len(nodes) = Cardinality(Known)
        /\ edges = Declared
        /\ Acyclic(edges)

(* A project is refused for a reason: a cycle only if the needed part has   *)
(* one, a missing transform only if it is needed.  (GraphExact is the       *)
(* converse: what has a cycle never gets past add.)                        *)
RefusalJustified ==
    /\ result = "cycle" => ~Acyclic(Declared)
    /\ result = "missing" => ~(Needed \subseteq Registered)

(* The template counts, for every node of the slice, one per declared       *)
(* dependency: the driver subtracts one per edge, so anything less makes it *)
(* dispatch early and anything more makes it wait for ever.                *)
TemplateExact ==
    phase \in {"probe", "acquire"} \/ result = "ok" =>
        /\ subgraph = Needed
        /\ indegrees = [n \in Needed |-> Len(depends[n])]

(* fetch returns Ok only if every node has its id and was either found in   *)
(* the build cache or prepared, and nothing is still being prepared: what   *)
(* Graph::run's workers rely on.                                           *)
FetchComplete ==
    result = "ok" =>
        \A n \in Known : n \in ids /\ (n \in hits <=> task[n] = "none") /\ task[n] \in {"none", "ok"}

(* add and fetch come to an end, whatever fails. *)
Returns == <>(phase = "returned")
=============================================================================
