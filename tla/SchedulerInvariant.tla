------------------------- MODULE SchedulerInvariant --------------------------
(***************************************************************************)
(* The inductive invariant of Graph::run, the facts about the graph and the*)
(* edge walks that its proof rests on, and the proof that every step of the*)
(* driver task but a completion preserves it.                              *)
(***************************************************************************)
EXTENDS Scheduler, FiniteSetTheorems, TLAPS

(* The active slice contains the target and is closed under dependencies.  *)
LEMMA SubgraphFacts ==
    /\ subgraph \subseteq Node
    /\ IsFiniteSet(subgraph)
    /\ Root \in subgraph
    /\ \A e \in Edge : e[2] \in subgraph => e[1] \in subgraph
<1>1. subgraph \subseteq Node
  BY DEF subgraph
<1>2. IsFiniteSet(subgraph)
  BY <1>1, FS_Subset, GraphAssumption
<1>3. Root \in subgraph
  BY RootAssumption DEF subgraph
<1>4. ASSUME NEW e \in Edge, e[2] \in subgraph
      PROVE  e[1] \in subgraph
  <2>1. e[1] \in Node
    BY GraphAssumption
  <2>2. ASSUME NEW S \in SUBSET Node, Root \in S, ClosedUnderDeps(S)
        PROVE  e[1] \in S
    BY <1>4, <2>2 DEF subgraph, ClosedUnderDeps
  <2> QED
    BY <2>1, <2>2 DEF subgraph
<1> QED
  BY <1>1, <1>2, <1>3, <1>4

(* The pool is not empty: Scheduler::new is given at least one worker.     *)
LEMMA BatchSizeFacts == batch_size \in Nat /\ batch_size > 0
BY WorkerAssumption, FS_CardinalityType, FS_EmptySet DEF batch_size

(* No edge leads from a node to itself.                                    *)
LEMMA NoSelfEdge == \A n \in Node : Between(n, n) = {}
<1> SUFFICES ASSUME NEW n \in Node, NEW e \in Edge, e[1] = n, e[2] = n
             PROVE  FALSE
  BY DEF Between
<1>1. {n} \in SUBSET Node /\ {n} # {}
  OBVIOUS
<1>2. \E m \in {n} : \A f \in Edge : f[2] = m => f[1] \notin {n}
  BY <1>1, GraphAssumption, Zenon
<1> QED
  BY <1>2

(* The incoming edges of c whose source is not built yet, under status st. *)
Open(st, c) == {e \in Incoming(c) : st[e[1]] # "Success"}

(* What a node waits for is finite, so that its counter can be compared     *)
(* with it.                                                                 *)
LEMMA OpenFinite ==
    ASSUME NEW st, NEW c
    PROVE  /\ IsFiniteSet(Open(st, c))
           /\ Cardinality(Open(st, c)) \in Nat
           /\ Cardinality(Open(st, c)) = 0 <=> Open(st, c) = {}
<1>1. Open(st, c) \subseteq Edge
  BY DEF Open, Incoming
<1>2. IsFiniteSet(Open(st, c))
  BY <1>1, FS_Subset, GraphAssumption
<1> QED
  BY <1>2, FS_CardinalityType, FS_EmptySet

(* m edges walked one after the other push a child with counter d >= m     *)
(* once if they bring the counter to zero, and not at all otherwise.       *)
LEMMA PushCount ==
    ASSUME NEW m \in Nat, NEW d \in Nat, m <= d
    PROVE  Cardinality({k \in 1 .. m : SaturatingSub(d, k) = 0})
               = IF m > 0 /\ m = d THEN 1 ELSE 0
<1> DEFINE K == {k \in 1 .. m : SaturatingSub(d, k) = 0}
<1>1. CASE m > 0 /\ m = d
  <2>1. K = {m}
    BY <1>1 DEF SaturatingSub
  <2> QED
    BY <1>1, <2>1, FS_Singleton
<1>2. CASE ~(m > 0 /\ m = d)
  <2>1. K = {}
    BY <1>2 DEF SaturatingSub
  <2> QED
    BY <1>2, <2>1, FS_EmptySet
<1> QED
  BY <1>1, <1>2

(* Walking the outgoing edges of a node that has just been built: the      *)
(* counter of a child again counts its open edges, and the child is pushed *)
(* exactly once, by the edge that closes the last of them.                 *)
LEMMA EdgeWalk ==
    ASSUME status \in [Node -> {"Pending", "Running", "Success", "Failed"}],
           NEW n \in subgraph, NEW c \in subgraph,
           status[n] # "Success",
           indegree[c] = Cardinality(Open(status, c)),
           status' = [status EXCEPT ![n] = "Success"]
    PROVE  /\ Between(n, c) \subseteq Open(status, c)
           /\ Open(status', c) = Open(status, c) \ Between(n, c)
           /\ SaturatingSub(indegree[c], Cardinality(Between(n, c))) = Cardinality(Open(status', c))
           /\ Pushed(n, c) = IF Between(n, c) # {} /\ Open(status', c) = {} THEN 1 ELSE 0
<1> DEFINE B == Between(n, c)
           m == Cardinality(B)
           d == Cardinality(Open(status, c))
<1>1. B \subseteq Open(status, c)
  BY DEF Between, Open, Incoming
<1>2. Open(status', c) = Open(status, c) \ B
  BY SubgraphFacts DEF Between, Open, Incoming
<1>3. IsFiniteSet(Open(status, c)) /\ d \in Nat
  BY OpenFinite
<1>4. IsFiniteSet(B) /\ m \in Nat /\ m <= d /\ (m = 0 <=> B = {})
  BY <1>1, <1>3, FS_Subset, FS_CardinalityType, FS_EmptySet
<1>5. Cardinality(Open(status', c)) = d - m
  <2>1. Open(status, c) \cap B = B
    BY <1>1
  <2>2. Cardinality(Open(status, c) \ B) = d - Cardinality(Open(status, c) \cap B)
    BY <1>3, FS_Difference, Zenon
  <2> QED
    BY <1>2, <2>1, <2>2, Zenon
<1>6. Cardinality(Open(status', c)) = 0 <=> Open(status', c) = {}
  BY OpenFinite, Zenon
<1>7. SaturatingSub(indegree[c], m) = Cardinality(Open(status', c))
  BY <1>3, <1>4, <1>5 DEF SaturatingSub
<1>8. Pushed(n, c) = IF m > 0 /\ m = d THEN 1 ELSE 0
  <2> HIDE DEF B
  <2> SUFFICES Cardinality({k \in 1 .. m : SaturatingSub(d, k) = 0})
                   = IF m > 0 /\ m = d THEN 1 ELSE 0
    BY DEF Pushed, B
  <2>1. m \in Nat /\ d \in Nat /\ m <= d
    BY <1>3, <1>4
  <2> HIDE DEF m, d
  <2> QED
    BY <2>1, PushCount
<1>9. m > 0 /\ m = d <=> B # {} /\ Open(status', c) = {}
  <2>1. m \in Nat /\ d \in Nat /\ m <= d
    BY <1>3, <1>4
  <2>2. m > 0 /\ m = d <=> m # 0 /\ d - m = 0
    <3> HIDE DEF m, d
    <3> QED BY <2>1
  <2> QED
    BY <2>2, <1>4, <1>5, <1>6, Zenon
<1> QED
  BY <1>1, <1>2, <1>7, <1>8, <1>9, Zenon
-----------------------------------------------------------------------------
(* The inductive invariant, one conjunct per idea.                          *)

(* Before the pool is spawned nothing has been handed out. *)
Quiet ==
    driver \in {"start", "cascade"} =>
        /\ work = <<>> /\ done = <<>> /\ inflight = 0
        /\ ~failed /\ ~cancelled
        /\ \A w \in Worker : pc[w] = "gone"

(* A queued node is queued once, in one queue, is Pending and has no open   *)
(* edge.                                                                   *)
Queues ==
    /\ driver # "cascade" => cascade = Nothing
    /\ driver = "start" => ready = Nothing /\ \A n \in subgraph : status[n] = "Pending"
    /\ \A n \in subgraph :
          /\ cascade[n] + ready[n] <= 1
          /\ cascade[n] + ready[n] > 0 => status[n] = "Pending" /\ Open(status, n) = {}

(* Until the run winds down, the counters count the open edges ... *)
Counters ==
    ~failed /\ ~cancelled =>
        \A n \in subgraph : indegree[n] = Cardinality(Open(status, n))

(* ... and every Pending node without one is queued. *)
Queued ==
    driver \in {"cascade", "drive"} /\ ~failed /\ ~cancelled =>
        \A n \in subgraph :
            status[n] = "Pending" /\ Open(status, n) = {} => cascade[n] + ready[n] = 1

Built == \A n \in subgraph : status[n] # "Pending" => Open(status, n) = {}

RunningNodes == {n \in subgraph : status[n] = "Running"}
RunningCount == inflight = Cardinality(RunningNodes)

(* A node on its way from the driver through a worker and back is Running   *)
(* and is in one place only.                                               *)
Tokens ==
    /\ \A i \in 1 .. Len(work) : status[work[i]] = "Running"
    /\ \A i \in 1 .. Len(done) : status[done[i][1]] = "Running"
    /\ \A w \in Worker : node[w] # None => status[node[w]] = "Running"
    /\ \A i, j \in 1 .. Len(work) : i # j => work[i] # work[j]
    /\ \A i, j \in 1 .. Len(done) : i # j => done[i][1] # done[j][1]
    /\ \A i \in 1 .. Len(work), j \in 1 .. Len(done) : work[i] # done[j][1]
    /\ \A w \in Worker, i \in 1 .. Len(work) : node[w] # work[i]
    /\ \A w \in Worker, j \in 1 .. Len(done) : node[w] # done[j][1]
    /\ \A v, w \in Worker : v # w /\ node[v] # None => node[v] # node[w]

Errors ==
    /\ first_error = "none" <=> ~failed
    /\ \A n \in subgraph : status[n] = "Failed" => failed

Joining ==
    driver = "join" =>
        inflight = 0 /\ (failed \/ cancelled \/ \A n \in subgraph : status[n] = "Success")

Final == {"ok", "error", "cancelled"}
Workers ==
    \A w \in Worker :
        /\ pc[w] \in Lifecycle \cup {"panicked"} <=> node[w] # None
        /\ pc[w] \in {"down", "clean", "report"} => outcome[w] \in Final
        /\ pc[w] \in {"idle", "gone", "create", "setup", "up", "report"} => env[w] = "none"

Verdict ==
    /\ driver = "returned" <=> result # "none"
    /\ driver = "returned" => \A w \in Worker : pc[w] \in {"gone", "panicked"}

IInv ==
    /\ TypeOK /\ Quiet /\ Queues /\ Counters /\ Queued /\ Built /\ RunningCount /\ Tokens
    /\ Errors /\ Joining /\ Workers /\ Verdict /\ InflightExact /\ OkMeansBuilt
-----------------------------------------------------------------------------
(* An empty queue holds nothing.                                           *)
LEMMA NothingFacts ==
    /\ Nothing \in [subgraph -> Nat]
    /\ \A n \in subgraph : Nothing[n] = 0
BY DEF Nothing

(* Initially nothing is handed out and every counter is the template's.    *)
LEMMA InitIInv == Init => IInv
<1> SUFFICES ASSUME Init PROVE IInv
  OBVIOUS
<1>1. TypeOK
  <2>1. \A n \in subgraph : Incoming(n) \in SUBSET Edge
    BY DEF Incoming
  <2>2. \A n \in subgraph : Cardinality(Incoming(n)) \in Nat
    BY <2>1, FS_Subset, FS_CardinalityType, GraphAssumption
  <2>3. indegree \in [subgraph -> Nat]
    BY <2>2 DEF Init, IndegreeTemplate
  <2>4. cascade \in [subgraph -> Nat] /\ ready \in [subgraph -> Nat]
    BY NothingFacts DEF Init
  <2>5. work \in Seq(subgraph) /\ done \in Seq(subgraph \X {"ok", "error", "cancelled"})
    BY DEF Init
  <2>6. retries \in 0 .. MaxRetry /\ inflight \in Nat
    BY RetryAssumption DEF Init
  <2>7. /\ pc \in [Worker -> Lifecycle \cup {"idle", "gone", "panicked"}]
        /\ node \in [Worker -> subgraph \cup {None}]
        /\ env \in [Worker -> {"none", "up", "down"}]
        /\ outcome \in [Worker -> {"none", "ok", "error", "cancelled", "retryable", "failed"}]
    BY DEF Init
  <2>8. status \in [Node -> {"Pending", "Running", "Success", "Failed"}]
    BY DEF Init
  <2>9. failed \in BOOLEAN /\ cancelled \in BOOLEAN
    BY Zenon DEF Init
  <2> QED
    BY <2>3, <2>4, <2>5, <2>6, <2>7, <2>8, <2>9 DEF Init, TypeOK
<1>2. Quiet /\ Errors /\ Joining /\ Workers /\ Verdict /\ OkMeansBuilt
  BY SubgraphFacts DEF Init, Quiet, Errors, Joining, Workers, Verdict, OkMeansBuilt, Lifecycle
<1>3. Queues /\ Built /\ Queued
  BY NothingFacts, SubgraphFacts DEF Init, Queues, Built, Queued
<1>4. Counters
  <2>1. \A n \in subgraph : Open(status, n) = Incoming(n)
    BY SubgraphFacts DEF Init, Open, Incoming
  <2> QED
    BY <2>1 DEF Init, Counters, IndegreeTemplate
<1>5. RunningCount
  <2>1. RunningNodes = {}
    BY SubgraphFacts DEF Init, RunningNodes
  <2> QED
    BY <2>1, FS_EmptySet DEF Init, RunningCount
<1>6. InflightExact
  <2>1. Busy = {}
    BY DEF Init, Busy, Lifecycle
  <2> QED
    BY <2>1, FS_EmptySet, BatchSizeFacts DEF Init, InflightExact
<1>7. Tokens
  BY DEF Init, Tokens
<1> QED
  BY <1>1, <1>2, <1>3, <1>4, <1>5, <1>6, <1>7 DEF IInv

(* The pool is finite, so the busy workers can be counted.                  *)
LEMMA BusyFinite == IsFiniteSet(Busy) /\ Cardinality(Busy) \in Nat
<1>1. IsFiniteSet(Busy)
  BY WorkerAssumption, FS_Subset DEF Busy
<1> QED
  BY <1>1, FS_CardinalityType
-----------------------------------------------------------------------------
(* What the walk over the outgoing edges of n does to a node c: its counter *)
(* counts its open edges again, and it is pushed exactly when the last of   *)
(* them closes; at that moment it is Pending and in no queue.              *)
Walked(n, c) ==
    /\ Open(status', c) \subseteq Open(status, c)
    /\ Decremented(n)[c] = Cardinality(Open(status', c))
    /\ Pushed(n, c) \in {0, 1}
    /\ c = n => Pushed(n, c) = 0
    /\ Pushed(n, c) = 1 => /\ c # n /\ status[c] = "Pending"
                           /\ cascade[c] + ready[c] = 0
                           /\ Open(status', c) = {}
    /\ c # n /\ status[c] = "Pending" /\ Open(status', c) = {}
           => cascade[c] + ready[c] + Pushed(n, c) = 1

(* A node that becomes built, by promotion or by a worker, while the run is *)
(* not winding down, walks its edges that way.                             *)
LEMMA NodeBuilt ==
    ASSUME IInv, driver \in {"cascade", "drive"}, ~failed, ~cancelled,
           NEW n \in subgraph, status[n] # "Success",
           status' = [status EXCEPT ![n] = "Success"],
           NEW c \in subgraph
    PROVE  Walked(n, c)
<1>1. /\ status \in [Node -> {"Pending", "Running", "Success", "Failed"}]
      /\ cascade[c] \in Nat /\ ready[c] \in Nat
  BY DEF IInv, TypeOK
<1>2. indegree[c] = Cardinality(Open(status, c))
  BY DEF IInv, Counters
<1>3. /\ Between(n, c) \subseteq Open(status, c)
      /\ Open(status', c) = Open(status, c) \ Between(n, c)
      /\ SaturatingSub(indegree[c], Cardinality(Between(n, c))) = Cardinality(Open(status', c))
      /\ Pushed(n, c) = IF Between(n, c) # {} /\ Open(status', c) = {} THEN 1 ELSE 0
  BY <1>1, <1>2, EdgeWalk, Zenon
<1>4. Decremented(n)[c] = Cardinality(Open(status', c))
  BY <1>3 DEF Decremented
<1>5. c = n => Pushed(n, c) = 0
  BY <1>3, NoSelfEdge, SubgraphFacts
<1>6. Open(status, c) # {} => status[c] = "Pending" /\ cascade[c] + ready[c] = 0
  BY <1>1 DEF IInv, Built, Queues
<1>7. status[c] = "Pending" /\ Open(status, c) = {} => cascade[c] + ready[c] = 1
  BY DEF IInv, Queued
<1>8. ASSUME c # n, status[c] = "Pending", Open(status', c) = {}
      PROVE  cascade[c] + ready[c] + Pushed(n, c) = 1
  <2>1. CASE Open(status, c) = {}
    <3>1. Pushed(n, c) = 0
      BY <1>3, <2>1
    <3> QED
      BY <1>1, <1>7, <1>8, <2>1, <3>1
  <2>2. CASE Open(status, c) # {}
    <3>1. Pushed(n, c) = 1
      BY <1>3, <1>8, <2>2, Zenon
    <3> QED
      BY <1>1, <1>6, <2>2, <3>1
  <2> QED
    BY <2>1, <2>2
<1>9. ASSUME Pushed(n, c) = 1
      PROVE  Open(status, c) # {} /\ Open(status', c) = {} /\ c # n
  <2>1. Pushed(n, c) # 0
    BY <1>9
  <2>2. Between(n, c) # {} /\ Open(status', c) = {}
    BY <1>3, <2>1, Zenon
  <2>3. Open(status, c) # {}
    BY <1>3, <2>2
  <2> QED
    BY <1>5, <2>1, <2>2, <2>3, Zenon
<1>10. Pushed(n, c) \in {0, 1} /\ Open(status', c) \subseteq Open(status, c)
  BY <1>3, Zenon
<1> QED
  BY <1>4, <1>5, <1>6, <1>8, <1>9, <1>10, Zenon DEF Walked

(* The counters stay natural numbers.                                      *)
LEMMA DecrementedType ==
    ASSUME NEW n \in subgraph, \A c \in subgraph : Walked(n, c)
    PROVE  Decremented(n) \in [subgraph -> Nat]
<1>1. ASSUME NEW c \in subgraph
      PROVE  Decremented(n)[c] \in Nat
  <2>1. Decremented(n)[c] = Cardinality(Open(status', c))
    BY DEF Walked
  <2>2. Cardinality(Open(status', c)) \in Nat
    BY OpenFinite
  <2> QED
    BY <2>1, <2>2
<1>2. Decremented(n) = [c \in subgraph |-> Decremented(n)[c]]
  BY DEF Decremented
<1> QED
  BY <1>1, <1>2
-----------------------------------------------------------------------------
(* The driver before the pool exists.                                      *)

(* A target that is built already returns at once.                          *)
LEMMA RootIsBuiltKeeps == ASSUME IInv, RootIsBuilt PROVE IInv'
<1> USE DEF IInv, RootIsBuilt, workerVars
<1>1. TypeOK' /\ Quiet' /\ Queues' /\ Counters' /\ Queued' /\ Built'
  BY DEF TypeOK, Quiet, Queues, Counters, Queued, Built, Nothing
<1>2. Errors' /\ Joining' /\ Workers' /\ Verdict' /\ OkMeansBuilt'
  BY DEF Quiet, Errors, Joining, Workers, Verdict, OkMeansBuilt
<1>3. RunningCount' /\ Tokens' /\ InflightExact'
  BY DEF RunningCount, RunningNodes, Tokens, InflightExact, Busy
<1> QED
  BY <1>1, <1>2, <1>3

(* The cascade starts with the nodes that wait for nothing.                 *)
LEMMA SeedCascadeKeeps == ASSUME IInv, SeedCascade PROVE IInv'
<1> USE DEF IInv, SeedCascade, workerVars
<1>1. TypeOK'
  BY DEF TypeOK
<1>2. ASSUME NEW n \in subgraph
      PROVE  /\ status[n] = "Pending"
             /\ ready[n] = 0
             /\ cascade'[n] = IF Open(status, n) = {} THEN 1 ELSE 0
  <2>1. indegree[n] = Cardinality(Open(status, n))
    BY DEF Quiet, Counters
  <2>2. indegree[n] = 0 <=> Open(status, n) = {}
    BY <2>1, OpenFinite
  <2> QED
    BY <2>2, NothingFacts DEF Queues
<1>3. Queues' /\ Queued'
  <2>1. status' = status /\ ready' = ready /\ driver' = "cascade"
    OBVIOUS
  <2> QED
    BY <1>2, <2>1 DEF Queues, Queued
<1>4. Quiet' /\ Counters' /\ Built' /\ Errors' /\ Joining' /\ Workers' /\ Verdict' /\ OkMeansBuilt'
  BY DEF Quiet, Counters, Built, Errors, Joining, Workers, Verdict, OkMeansBuilt
<1>5. RunningCount' /\ Tokens' /\ InflightExact'
  BY DEF RunningCount, RunningNodes, Tokens, InflightExact, Busy
<1> QED
  BY <1>1, <1>3, <1>4, <1>5

(* The cascade meets a node that must be built.                             *)
LEMMA EnqueueKeeps == ASSUME IInv, NEW n \in subgraph, Enqueue(n) PROVE IInv'
<1> USE DEF IInv, Enqueue, workerVars
<1>1. TypeOK'
  BY DEF TypeOK
<1>2. \A c \in subgraph : cascade'[c] + ready'[c] = cascade[c] + ready[c]
  BY DEF TypeOK
<1>3. Queues' /\ Queued'
  BY <1>1, <1>2 DEF Queues, Queued
<1>4. Quiet' /\ Counters' /\ Built' /\ Errors' /\ Joining' /\ Workers' /\ Verdict' /\ OkMeansBuilt'
  BY DEF Quiet, Counters, Built, Errors, Joining, Workers, Verdict, OkMeansBuilt
<1>5. RunningCount' /\ Tokens' /\ InflightExact'
  BY DEF RunningCount, RunningNodes, Tokens, InflightExact, Busy
<1> QED
  BY <1>1, <1>3, <1>4, <1>5

(* The cascade has run dry and the pool starts.                             *)
LEMMA SpawnWorkersKeeps == ASSUME IInv, SpawnWorkers PROVE IInv'
<1> USE DEF IInv, SpawnWorkers
<1>1. TypeOK'
  <2>1. pc' \in [Worker -> Lifecycle \cup {"idle", "gone", "panicked"}]
    OBVIOUS
  <2> QED
    BY <2>1 DEF TypeOK
<1>2. Queues'
  <2>1. cascade' = cascade /\ ready' = ready /\ status' = status /\ driver' = "drive"
    OBVIOUS
  <2> QED
    BY <2>1 DEF Queues, Nothing
<1>3. Quiet' /\ Counters' /\ Queued' /\ Built' /\ Errors' /\ Joining'
  BY DEF Quiet, Counters, Queued, Built, Errors, Joining
<1>4. Workers' /\ Verdict' /\ OkMeansBuilt'
  BY DEF Workers, Verdict, OkMeansBuilt, Quiet, Lifecycle
<1>5. RunningCount' /\ Tokens'
  BY DEF RunningCount, RunningNodes, Tokens
<1>6. Busy' = Busy
  BY DEF Busy, Quiet, Lifecycle
<1>7. InflightExact'
  BY <1>6 DEF InflightExact
<1> QED
  BY <1>1, <1>2, <1>3, <1>4, <1>5, <1>7
-----------------------------------------------------------------------------
(* The end of the run.                                                      *)

(* Nothing is Running, nothing is queued and nothing has gone wrong: then   *)
(* everything is built.  A dependency-minimal unbuilt node would be Pending *)
(* without an open edge, hence queued.                                     *)
LEMMA AllBuilt ==
    ASSUME IInv, driver = "drive", inflight = 0, ready = Nothing, ~failed, ~cancelled
    PROVE  \A n \in subgraph : status[n] = "Success"
<1> DEFINE S == {n \in subgraph : status[n] # "Success"}
<1> SUFFICES ASSUME S # {} PROVE FALSE
  OBVIOUS
<1>1. PICK n \in S : \A e \in Edge : e[2] = n => e[1] \notin S
  BY SubgraphFacts, GraphAssumption, Zenon
<1>2. Open(status, n) = {}
  BY <1>1 DEF Open, Incoming
<1>3. RunningNodes = {}
  <2>1. IsFiniteSet(RunningNodes)
    BY SubgraphFacts, FS_Subset DEF RunningNodes
  <2> QED
    BY <2>1, FS_EmptySet, Zenon DEF IInv, RunningCount
<1>4. status[n] = "Pending"
  BY <1>1, <1>3, SubgraphFacts DEF IInv, TypeOK, Errors, RunningNodes
<1>5. cascade[n] + ready[n] = 1
  BY <1>1, <1>2, <1>4 DEF IInv, Queued
<1> QED
  BY <1>1, <1>5, NothingFacts DEF IInv, Queues

(* Nothing in flight and nothing to dispatch: the work channel closes.      *)
LEMMA CloseWorkKeeps == ASSUME IInv, CloseWork PROVE IInv'
<1> USE DEF IInv, CloseWork, workerVars
<1>1. TypeOK' /\ Quiet' /\ Queues' /\ Counters' /\ Queued' /\ Built'
  BY DEF TypeOK, Quiet, Queues, Counters, Queued, Built, Nothing
<1>2. Errors' /\ Workers' /\ Verdict' /\ OkMeansBuilt'
  BY DEF Errors, Workers, Verdict, OkMeansBuilt
<1>3. Joining'
  BY AllBuilt, BatchSizeFacts DEF Joining, CanDispatch
<1>4. RunningCount' /\ Tokens' /\ InflightExact'
  BY SMTT(30) DEF RunningCount, RunningNodes, Tokens, InflightExact, Busy
<1> QED
  BY <1>1, <1>2, <1>3, <1>4

(* The done channel closes because all workers panicked.                    *)
LEMMA LoseWorkersKeeps == ASSUME IInv, LoseWorkers PROVE IInv'
<1> USE DEF IInv, LoseWorkers, workerVars
<1>1. TypeOK' /\ Quiet' /\ Queues' /\ Counters' /\ Queued' /\ Built'
  BY DEF TypeOK, Quiet, Queues, Counters, Queued, Built, Nothing
<1>2. Errors' /\ Joining' /\ Workers' /\ Verdict' /\ OkMeansBuilt'
  BY DEF Errors, Joining, Workers, Verdict, OkMeansBuilt
<1>3. RunningCount' /\ Tokens' /\ InflightExact'
  BY DEF RunningCount, RunningNodes, Tokens, InflightExact, Busy
<1> QED
  BY <1>1, <1>2, <1>3

(* The workers are gone and run returns its verdict.                        *)
LEMMA JoinKeeps == ASSUME IInv, Join PROVE IInv'
<1> USE DEF IInv, Join, workerVars
<1>1. TypeOK' /\ Quiet' /\ Queues' /\ Counters' /\ Queued' /\ Built'
  BY SMTT(30) DEF TypeOK, Quiet, Queues, Counters, Queued, Built, Nothing
<1>2. Errors' /\ Joining' /\ Workers' /\ Verdict' /\ OkMeansBuilt'
  BY DEF TypeOK, Errors, Joining, Workers, Verdict, OkMeansBuilt
<1>3. RunningCount' /\ Tokens' /\ InflightExact'
  BY DEF RunningCount, RunningNodes, Tokens, InflightExact, Busy
<1> QED
  BY <1>1, <1>2, <1>3
-----------------------------------------------------------------------------
(* Building a node.                                                         *)

(* The cascade meets a cache hit: the node is built, its successors wait    *)
(* for one node less, and those that wait for none are queued.              *)
LEMMA PromoteKeeps == ASSUME IInv, NEW n \in subgraph, Promote(n) PROVE IInv'
<1>1. /\ ~failed /\ ~cancelled /\ driver = "cascade" /\ n \in Node
      /\ cascade[n] = 1 /\ ready[n] = 0
      /\ status[n] = "Pending" /\ Open(status, n) = {}
  <2>1. driver = "cascade" /\ cascade[n] > 0
    BY DEF Promote
  <2>2. ~failed /\ ~cancelled
    BY <2>1 DEF IInv, Quiet
  <2>3. cascade[n] \in Nat /\ ready[n] \in Nat
    BY DEF IInv, TypeOK
  <2>4. /\ cascade[n] + ready[n] <= 1
        /\ cascade[n] + ready[n] > 0 => status[n] = "Pending" /\ Open(status, n) = {}
    BY DEF IInv, Queues
  <2> QED
    BY <2>1, <2>2, <2>3, <2>4, SubgraphFacts
<1>2. status' = [status EXCEPT ![n] = "Success"]
  BY DEF Promote
<1>3. \A c \in subgraph : Walked(n, c)
  BY <1>1, <1>2, NodeBuilt, Zenon
<1>4. \A c \in subgraph : Pushed(n, c) \in {0, 1} /\ (c = n => Pushed(n, c) = 0)
  BY <1>3 DEF Walked
<1>5. ASSUME NEW c \in subgraph
      PROVE  /\ cascade[c] \in Nat /\ ready[c] \in Nat
             /\ ready'[c] = ready[c]
             /\ cascade'[c] = IF c = n THEN 0 ELSE cascade[c] + Pushed(n, c)
  <2>1. ready'[c] = ready[c] /\ cascade'[c] = cascade[c] - One(n)[c] + Pushed(n, c)
    BY DEF Promote
  <2>2. One(n)[c] = IF c = n THEN 1 ELSE 0
    BY DEF One
  <2>3. cascade[c] \in Nat /\ ready[c] \in Nat
    BY DEF IInv, TypeOK
  <2> QED
    BY <1>1, <1>4, <2>1, <2>2, <2>3
<1>6. \A c \in subgraph : status'[c] = IF c = n THEN "Success" ELSE status[c]
  <2>1. status \in [Node -> {"Pending", "Running", "Success", "Failed"}]
    BY DEF IInv, TypeOK
  <2> QED
    BY <1>2, <2>1, SubgraphFacts
<1>7. TypeOK'
  <2>1. cascade' \in [subgraph -> Nat]
    <3>1. \A c \in subgraph : cascade'[c] \in Nat
      BY <1>4, <1>5
    <3>2. cascade' = [c \in subgraph |-> cascade'[c]]
      BY DEF Promote
    <3> QED
      BY <3>1, <3>2
  <2>2. indegree' \in [subgraph -> Nat]
    BY <1>3, DecrementedType DEF Promote
  <2>3. status' \in [Node -> {"Pending", "Running", "Success", "Failed"}]
    BY <1>2, Zenon DEF IInv, TypeOK
  <2> QED
    BY <2>1, <2>2, <2>3 DEF IInv, TypeOK, Promote, workerVars
<1>8. Queues'
  <2>1. ASSUME NEW c \in subgraph
        PROVE  /\ cascade'[c] + ready'[c] <= 1
               /\ cascade'[c] + ready'[c] > 0 => status'[c] = "Pending" /\ Open(status', c) = {}
    <3>1. CASE c = n
      BY <1>1, <1>5, <3>1
    <3>2. CASE c # n
      <4>1. /\ cascade[c] \in Nat /\ ready[c] \in Nat
            /\ ready'[c] = ready[c] /\ cascade'[c] = cascade[c] + Pushed(n, c)
            /\ status'[c] = status[c]
        BY <1>5, <1>6, <3>2
      <4>2. /\ cascade[c] + ready[c] <= 1
            /\ cascade[c] + ready[c] > 0 => status[c] = "Pending" /\ Open(status, c) = {}
        BY DEF IInv, Queues
      <4>3. CASE Pushed(n, c) = 1
        <5>1. status[c] = "Pending" /\ cascade[c] + ready[c] = 0 /\ Open(status', c) = {}
          BY <1>3, <4>3 DEF Walked
        <5> QED
          BY <4>1, <4>3, <5>1
      <4>4. CASE Pushed(n, c) = 0
        <5>1. Open(status', c) \subseteq Open(status, c)
          BY <1>3 DEF Walked
        <5> QED
          BY <4>1, <4>2, <4>4, <5>1
      <4> QED
        BY <1>4, <4>3, <4>4
    <3> QED
      BY <3>1, <3>2
  <2>2. driver' = "cascade"
    BY DEF Promote
  <2> QED
    BY <2>1, <2>2 DEF Queues
<1>9. Queued'
  <2>1. ASSUME NEW c \in subgraph, status'[c] = "Pending", Open(status', c) = {}
        PROVE  cascade'[c] + ready'[c] = 1
    <3>1. c # n /\ status[c] = "Pending"
      BY <1>6, <2>1
    <3>2. cascade[c] + ready[c] + Pushed(n, c) = 1
      BY <1>3, <2>1, <3>1 DEF Walked
    <3> QED
      BY <1>4, <1>5, <3>1, <3>2
  <2> QED
    BY <2>1 DEF Queued
<1>10. Counters'
  <2>1. \A c \in subgraph : Decremented(n)[c] = Cardinality(Open(status', c))
    BY <1>3 DEF Walked
  <2>2. indegree' = Decremented(n)
    BY DEF Promote
  <2> QED
    BY <2>1, <2>2 DEF Counters
<1>11. Built'
  <2>1. \A c \in subgraph : Open(status', c) \subseteq Open(status, c)
    BY <1>3 DEF Walked
  <2> QED
    BY <1>1, <1>6, <2>1 DEF IInv, Built
<1>12. RunningCount'
  <2>1. RunningNodes' = RunningNodes
    BY <1>1, <1>6 DEF RunningNodes
  <2> QED
    BY <2>1 DEF IInv, RunningCount, Promote
<1>13. Quiet'
  BY DEF IInv, Quiet, Promote, workerVars
<1>14. Tokens'
  <2>1. \A w \in Worker : node'[w] = None
    BY <1>1, SMTT(30) DEF IInv, Quiet, Workers, Lifecycle, Promote, workerVars
  <2>2. work' = <<>> /\ done' = <<>>
    BY <1>1 DEF IInv, Quiet, Promote
  <2>3. Len(work') = 0 /\ Len(done') = 0
    BY <2>2
  <2> QED
    BY <2>1, <2>3 DEF Tokens
<1>15. Joining' /\ Workers' /\ Verdict'
  <2>1. Joining'
    <3>1. driver' = "cascade"
      BY DEF Promote
    <3> QED BY <3>1 DEF Joining
  <2>2. Workers'
    BY ZenonT(30) DEF IInv, Workers, Promote, workerVars
  <2>3. Verdict'
    BY <1>1 DEF IInv, Verdict, Promote
  <2> QED
    BY <2>1, <2>2, <2>3, SMTT(30)
<1>16. OkMeansBuilt'
  BY <1>1 DEF IInv, Verdict, OkMeansBuilt, Promote
<1>17. Errors'
  <2>1. /\ first_error = "none" <=> ~failed
        /\ \A c \in subgraph : status[c] = "Failed" => failed
    BY DEF IInv, Errors
  <2>2. first_error' = first_error /\ failed' = failed
    BY DEF Promote
  <2>3. \A c \in subgraph : status'[c] = "Failed" => status[c] = "Failed"
    BY <1>6, SMTT(30)
  <2> QED
    BY <2>1, <2>2, <2>3 DEF Errors
<1>18. InflightExact'
  BY DEF IInv, InflightExact, Promote, Busy, workerVars
<1> QED
  BY <1>7, <1>8, <1>9, <1>10, <1>11, <1>12, <1>13, <1>14, <1>15, <1>16, <1>17, <1>18 DEF IInv

(* A ready node goes to the work channel, which has room for it.            *)
LEMMA DispatchKeeps == ASSUME IInv, NEW n \in subgraph, Dispatch(n) PROVE IInv'
<1> USE DEF workerVars
<1>1. /\ ~failed /\ ~cancelled /\ driver = "drive" /\ n \in Node
      /\ cascade[n] = 0 /\ ready[n] = 1
      /\ status[n] = "Pending" /\ Open(status, n) = {}
  <2>1. ~failed /\ ~cancelled /\ driver = "drive" /\ ready[n] > 0
    BY DEF Dispatch, CanDispatch
  <2>2. cascade[n] \in Nat /\ ready[n] \in Nat
    BY DEF IInv, TypeOK
  <2>3. /\ cascade[n] + ready[n] <= 1
        /\ cascade[n] + ready[n] > 0 => status[n] = "Pending" /\ Open(status, n) = {}
    BY DEF IInv, Queues
  <2> QED
    BY <2>1, <2>2, <2>3, SubgraphFacts
<1>2. \A c \in subgraph : status'[c] = IF c = n THEN "Running" ELSE status[c]
  BY SubgraphFacts DEF IInv, TypeOK, Dispatch
<1>3. \A c \in subgraph : Open(status', c) = Open(status, c)
  BY <1>1, <1>2 DEF Open, Incoming
<1>4. \A c \in subgraph : ready'[c] = IF c = n THEN 0 ELSE ready[c]
  BY <1>1 DEF IInv, TypeOK, Dispatch
<1>5. TypeOK'
  <2>1. work' \in Seq(subgraph) /\ inflight' \in Nat
    BY DEF IInv, TypeOK, Dispatch
  <2>2. ready' \in [subgraph -> Nat]
    BY <1>4 DEF IInv, TypeOK, Dispatch
  <2>3. status' \in [Node -> {"Pending", "Running", "Success", "Failed"}]
    BY Zenon DEF IInv, TypeOK, Dispatch
  <2> QED
    BY <2>1, <2>2, <2>3 DEF IInv, TypeOK, Dispatch
<1>6. Queues'
  <2>1. \A c \in subgraph :
          /\ cascade'[c] + ready'[c] <= 1
          /\ cascade'[c] + ready'[c] > 0 => status'[c] = "Pending" /\ Open(status', c) = {}
    <3>1. \A c \in subgraph : cascade[c] \in Nat /\ ready[c] \in Nat /\ cascade'[c] = cascade[c]
      BY DEF IInv, TypeOK, Dispatch
    <3>2. \A c \in subgraph :
            /\ cascade[c] + ready[c] <= 1
            /\ cascade[c] + ready[c] > 0 => status[c] = "Pending" /\ Open(status, c) = {}
      BY DEF IInv, Queues
    <3> QED
      BY <1>1, <1>2, <1>3, <1>4, <3>1, <3>2, SMTT(30)
  <2>2. cascade' = Nothing /\ driver' = "drive"
    BY <1>1, SMTT(30) DEF IInv, Queues, Dispatch
  <2> QED
    BY <2>1, <2>2 DEF Queues, Nothing
<1>7. Queued'
  <2>1. \A c \in subgraph :
          status[c] = "Pending" /\ Open(status, c) = {} => cascade[c] + ready[c] = 1
    BY <1>1 DEF IInv, Queued
  <2>2. cascade' = cascade
    BY DEF Dispatch
  <2> QED
    BY <1>2, <1>3, <1>4, <2>1, <2>2 DEF Queued
<1>8. Counters' /\ Built'
  BY <1>1, <1>2, <1>3, Zenon DEF IInv, Counters, Built, Dispatch
<1>9. RunningCount'
  <2>1. RunningNodes' = RunningNodes \cup {n} /\ n \notin RunningNodes
    BY <1>1, <1>2 DEF RunningNodes
  <2>2. IsFiniteSet(RunningNodes)
    BY SubgraphFacts, FS_Subset DEF RunningNodes
  <2> QED
    BY <2>1, <2>2, FS_AddElement, Zenon DEF IInv, RunningCount, Dispatch
<1>10. InflightExact'
  <2>1. Len(work') = Len(work) + 1 /\ Len(work) \in Nat /\ Len(done) \in Nat
    BY DEF IInv, TypeOK, Dispatch
  <2>2. Busy' = Busy /\ Cardinality(Busy) \in Nat
    <3>1. IsFiniteSet(Busy)
      BY WorkerAssumption, FS_Subset DEF Busy
    <3> QED
      BY <3>1, FS_CardinalityType DEF Busy, Dispatch
  <2>3. inflight' = inflight + 1 /\ inflight < batch_size /\ inflight \in Nat /\ done' = done
    BY DEF IInv, TypeOK, Dispatch, CanDispatch
  <2> QED
    BY <2>1, <2>2, <2>3, BatchSizeFacts DEF IInv, InflightExact
<1>11. Tokens'
  <2>1. /\ work \in Seq(subgraph) /\ done \in Seq(subgraph \X {"ok", "error", "cancelled"})
        /\ node \in [Worker -> subgraph \cup {None}]
        /\ work' = Append(work, n) /\ done' = done /\ node' = node
    BY DEF IInv, TypeOK, Dispatch
  <2>2. /\ \A i \in 1 .. Len(work) : work[i] \in subgraph /\ work[i] # n
        /\ \A i \in 1 .. Len(done) : done[i][1] \in subgraph /\ done[i][1] # n
        /\ \A w \in Worker : node[w] # n
    <3>1. /\ \A i \in 1 .. Len(work) : status[work[i]] = "Running"
          /\ \A i \in 1 .. Len(done) : status[done[i][1]] = "Running"
          /\ \A w \in Worker : node[w] # None => status[node[w]] = "Running"
      BY DEF IInv, Tokens
    <3>2. n # None
      BY <1>1, NoneAssumption
    <3>3. \A i \in 1 .. Len(work) : work[i] \in subgraph
      BY <2>1
    <3>4. \A i \in 1 .. Len(done) : done[i][1] \in subgraph
      BY <2>1
    <3> QED
      BY <1>1, <3>1, <3>2, <3>3, <3>4, SMTT(30)
  <2>3. Len(work) \in Nat /\ Len(work') = Len(work) + 1
    BY <2>1
  <2>4. \A i \in 1 .. Len(work') :
          IF i = Len(work) + 1 THEN work'[i] = n
          ELSE i \in 1 .. Len(work) /\ work'[i] = work[i]
    BY <2>1, <2>3
  <2>5. \A i, j \in 1 .. Len(work') : i # j => work'[i] # work'[j]
    BY <2>2, <2>4 DEF IInv, Tokens
  <2>6. /\ \A i \in 1 .. Len(work') : status'[work'[i]] = "Running"
        /\ \A i \in 1 .. Len(work'), j \in 1 .. Len(done') : work'[i] # done'[j][1]
        /\ \A w \in Worker, i \in 1 .. Len(work') : node'[w] # work'[i]
    <3>1. ASSUME NEW i \in 1 .. Len(work')
          PROVE  work'[i] \in subgraph /\ status'[work'[i]] = "Running"
      BY <1>2, <2>2, <2>4 DEF IInv, Tokens
    <3>2. ASSUME NEW i \in 1 .. Len(work'), NEW j \in 1 .. Len(done)
          PROVE  work'[i] # done[j][1]
      BY <2>2, <2>4 DEF IInv, Tokens
    <3>3. ASSUME NEW w \in Worker, NEW i \in 1 .. Len(work')
          PROVE  node[w] # work'[i]
      BY <2>2, <2>4 DEF IInv, Tokens
    <3> QED
      BY <2>1, <3>1, <3>2, <3>3, Zenon
  <2>7. /\ \A i \in 1 .. Len(done') : status'[done'[i][1]] = "Running"
        /\ \A w \in Worker : node'[w] # None => status'[node'[w]] = "Running"
    BY <1>2, <2>1, <2>2, ZenonT(30) DEF IInv, Tokens
  <2>8. /\ \A i, j \in 1 .. Len(done') : i # j => done'[i][1] # done'[j][1]
        /\ \A w \in Worker, j \in 1 .. Len(done') : node'[w] # done'[j][1]
        /\ \A v, w \in Worker : v # w /\ node'[v] # None => node'[v] # node'[w]
    BY <2>1, ZenonT(30) DEF IInv, Tokens
  <2> QED
    BY <2>5, <2>6, <2>7, <2>8 DEF Tokens
<1>12. Quiet' /\ Errors' /\ Joining' /\ Workers' /\ Verdict' /\ OkMeansBuilt'
  <2>1. Quiet' /\ Joining'
    BY <1>1 DEF Dispatch, Quiet, Joining
  <2>2. Errors'
    <3>1. /\ first_error = "none" <=> ~failed
          /\ \A c \in subgraph : status[c] = "Failed" => failed
      BY DEF IInv, Errors
    <3>2. first_error' = first_error /\ failed' = failed
      BY DEF Dispatch
    <3>3. \A c \in subgraph : status'[c] = "Failed" => status[c] = "Failed"
      BY <1>2
    <3> QED
      BY <3>1, <3>2, <3>3 DEF Errors
  <2>3. Workers'
    BY DEF IInv, Dispatch, Workers
  <2>4. Verdict' /\ OkMeansBuilt'
    BY <1>1 DEF IInv, Dispatch, Verdict, OkMeansBuilt
  <2> QED
    BY <2>1, <2>2, <2>3, <2>4
<1> QED
  BY <1>5, <1>6, <1>7, <1>8, <1>9, <1>10, <1>11, <1>12, SMTT(30) DEF IInv
==============================================================================
