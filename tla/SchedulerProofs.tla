--------------------------- MODULE SchedulerProofs ---------------------------
(***************************************************************************)
(* Proofs about Graph::run for every graph, every pool size, every set of  *)
(* cache hits and every number of retries.                                 *)
(***************************************************************************)
EXTENDS SchedulerWorkerProofs

(* The driver hears back.                                                   *)

(* What both outcomes of a completion share: the node is Running and leaves *)
(* the done channel and the set of running nodes.                          *)
LEMMA CompleteCommon ==
    ASSUME IInv, Complete, NEW t \in {"Success", "Failed"},
           status' = [status EXCEPT ![Head(done)[1]] = t]
    PROVE  /\ Head(done)[1] \in subgraph /\ Head(done)[2] \in Final
           /\ status[Head(done)[1]] = "Running"
           /\ \A c \in subgraph : status'[c] = IF c = Head(done)[1] THEN t ELSE status[c]
           /\ status' \in [Node -> {"Pending", "Running", "Success", "Failed"}]
           /\ done' \in Seq(subgraph \X {"ok", "error", "cancelled"}) /\ inflight' \in Nat
           /\ RunningCount' /\ InflightExact' /\ Tokens'
<1> DEFINE n == Head(done)[1]
<1>1. /\ done \in Seq(subgraph \X {"ok", "error", "cancelled"}) /\ Len(done) > 0 /\ Len(done) \in Nat
      /\ 1 \in 1 .. Len(done)
      /\ Head(done) = done[1] /\ done[1] \in subgraph \X {"ok", "error", "cancelled"}
      /\ done' = Tail(done) /\ done' \in Seq(subgraph \X {"ok", "error", "cancelled"})
      /\ Len(done') = Len(done) - 1
      /\ \A i \in 1 .. Len(done') : done'[i] = done[i + 1] /\ i + 1 \in 1 .. Len(done)
  BY DEF IInv, TypeOK, Complete
<1>2. n \in subgraph /\ Head(done)[2] \in Final /\ n = done[1][1]
  BY <1>1 DEF Final
<1>3. status[n] = "Running"
  BY <1>1, <1>2 DEF IInv, Tokens
<1>4. /\ \A c \in Node : status'[c] = IF c = n THEN t ELSE status[c]
      /\ status' \in [Node -> {"Pending", "Running", "Success", "Failed"}]
  BY <1>2, SubgraphFacts DEF IInv, TypeOK
<1>5. inflight' = inflight - 1 /\ inflight' \in Nat /\ inflight \in Nat
  BY DEF IInv, TypeOK, Complete
<1>6. RunningCount'
  <2>1. RunningNodes' = RunningNodes \ {n} /\ n \in RunningNodes
    BY <1>2, <1>3, <1>4, SubgraphFacts DEF RunningNodes
  <2>2. IsFiniteSet(RunningNodes)
    BY SubgraphFacts, FS_Subset DEF RunningNodes
  <2>3. Cardinality(RunningNodes') = Cardinality(RunningNodes) - 1
    BY <2>1, <2>2, FS_RemoveElement, SMTT(30)
  <2> QED
    BY <1>5, <2>3 DEF IInv, RunningCount
<1>7. InflightExact'
  <2>1. Busy' = Busy /\ work' = work /\ Len(work) \in Nat
    BY DEF Busy, Complete, workerVars, IInv, TypeOK
  <2> QED
    BY <1>1, <1>5, <2>1, BusyFinite, BatchSizeFacts DEF IInv, InflightExact
<1>8. Tokens'
  <2>1. /\ work' = work /\ node' = node /\ work \in Seq(subgraph)
        /\ node \in [Worker -> subgraph \cup {None}]
    BY DEF Complete, workerVars, IInv, TypeOK
  <2>2. /\ \A i \in 1 .. Len(work) : work[i] # n /\ work[i] \in Node
        /\ \A w \in Worker : node[w] # n /\ (node[w] # None => node[w] \in Node)
    BY <1>1, <1>2, <2>1, SubgraphFacts DEF IInv, Tokens
  <2>3. \A i \in 1 .. Len(done') : done'[i][1] # n /\ done'[i][1] \in Node
    <3>1. \A i \in 1 .. Len(done') : done'[i][1] \in subgraph
      BY <1>1
    <3>2. \A i \in 1 .. Len(done') : i + 1 # 1
      BY <1>1
    <3> QED
      BY <1>1, <1>2, <3>1, <3>2, SubgraphFacts DEF IInv, Tokens
  <2>4. /\ \A i \in 1 .. Len(work') : status'[work'[i]] = "Running"
        /\ \A w \in Worker : node'[w] # None => status'[node'[w]] = "Running"
    BY <1>4, <2>1, <2>2 DEF IInv, Tokens
  <2>5. \A i \in 1 .. Len(done') : status'[done'[i][1]] = "Running"
    BY <1>1, <1>4, <2>3 DEF IInv, Tokens
  <2>6. \A i, j \in 1 .. Len(done') : i # j => done'[i][1] # done'[j][1]
    <3>1. \A i, j \in 1 .. Len(done') : i # j => i + 1 # j + 1
      BY <1>1
    <3> QED
      BY <1>1, <3>1 DEF IInv, Tokens
  <2>7. /\ \A i \in 1 .. Len(work'), j \in 1 .. Len(done') : work'[i] # done'[j][1]
        /\ \A w \in Worker, j \in 1 .. Len(done') : node'[w] # done'[j][1]
    BY <1>1, <2>1 DEF IInv, Tokens
  <2>8. /\ \A i, j \in 1 .. Len(work') : i # j => work'[i] # work'[j]
        /\ \A w \in Worker, i \in 1 .. Len(work') : node'[w] # work'[i]
        /\ \A v, w \in Worker : v # w /\ node'[v] # None => node'[v] # node'[w]
    BY <2>1 DEF IInv, Tokens
  <2> QED
    BY <2>4, <2>5, <2>6, <2>7, <2>8 DEF Tokens
<1> QED
  BY <1>1, <1>2, <1>3, <1>4, <1>5, <1>6, <1>7, <1>8, SubgraphFacts

(* A failed node empties the ready queue and wakes nobody.                  *)
LEMMA FailKeeps ==
    ASSUME IInv, Complete, Head(done)[2] # "ok", Fail(Head(done)[1], Head(done)[2])
    PROVE  IInv'
<1> DEFINE n == Head(done)[1]
<1>1. /\ n \in subgraph /\ Head(done)[2] \in Final /\ status[n] = "Running"
      /\ \A c \in subgraph : status'[c] = IF c = n THEN "Failed" ELSE status[c]
      /\ status' \in [Node -> {"Pending", "Running", "Success", "Failed"}]
      /\ done' \in Seq(subgraph \X {"ok", "error", "cancelled"}) /\ inflight' \in Nat
      /\ RunningCount' /\ InflightExact' /\ Tokens'
  BY CompleteCommon DEF Fail
<1>2. \A c \in subgraph : Open(status', c) = Open(status, c)
  BY <1>1 DEF Open, Incoming
<1>3. TypeOK'
  <2>1. ready' \in [subgraph -> Nat] /\ failed' \in BOOLEAN /\ first_error' \in {"none", "error", "cancelled"}
    BY <1>1, NothingFacts, Zenon DEF IInv, TypeOK, Fail, Final
  <2> QED
    BY <1>1, <2>1, Zenon DEF IInv, TypeOK, Complete, Fail, workerVars
<1>4. Queues'
  <2>1. cascade' = Nothing /\ ready' = Nothing /\ driver' = "drive"
    BY DEF IInv, Queues, Complete, Fail
  <2> QED
    BY <2>1, NothingFacts DEF Queues, Nothing
<1>5. Counters' /\ Queued'
  BY DEF Counters, Queued, Fail
<1>6. Built'
  BY <1>1, <1>2 DEF IInv, Built
<1>7. Errors'
  BY <1>1 DEF IInv, TypeOK, Errors, Fail, Final
<1>8. Quiet' /\ Joining' /\ Workers' /\ Verdict' /\ OkMeansBuilt'
  BY DEF IInv, Complete, Quiet, Joining, Workers, Verdict, OkMeansBuilt, workerVars
<1> QED
  BY <1>1, <1>3, <1>4, <1>5, <1>6, <1>7, <1>8 DEF IInv

(* A built node decrements the counters of its successors, and those that   *)
(* reach zero become ready.                                                 *)
LEMMA SucceedKeeps ==
    ASSUME IInv, Complete, Head(done)[2] = "ok", Succeed(Head(done)[1])
    PROVE  IInv'
<1> DEFINE n == Head(done)[1]
<1>1. /\ n \in subgraph /\ status[n] = "Running"
      /\ \A c \in subgraph : status'[c] = IF c = n THEN "Success" ELSE status[c]
      /\ status' \in [Node -> {"Pending", "Running", "Success", "Failed"}]
      /\ done' \in Seq(subgraph \X {"ok", "error", "cancelled"}) /\ inflight' \in Nat
      /\ RunningCount' /\ InflightExact' /\ Tokens'
  BY CompleteCommon DEF Succeed
<1>2. /\ \A c \in subgraph : cascade[c] = 0 /\ ready[c] \in Nat
      /\ cascade = Nothing /\ cascade' = cascade /\ driver = "drive" /\ driver' = driver
  BY NothingFacts DEF IInv, TypeOK, Queues, Complete
<1>3. \A c \in subgraph : Open(status', c) \subseteq Open(status, c)
  BY <1>1 DEF Open, Incoming
<1>4. Built' /\ Errors'
  <2>1. \A c \in subgraph : status[c] # "Pending" => Open(status, c) = {}
    BY DEF IInv, Built
  <2>2. Built'
    BY <1>1, <1>3, <2>1 DEF Built
  <2>3. /\ first_error = "none" <=> ~failed
        /\ \A c \in subgraph : status[c] = "Failed" => failed
    BY DEF IInv, Errors
  <2>4. first_error' = first_error /\ failed' = failed
    BY DEF Succeed
  <2>5. \A c \in subgraph : status'[c] = "Failed" => status[c] = "Failed"
    BY <1>1
  <2>6. Errors'
    BY <2>3, <2>4, <2>5 DEF Errors
  <2> QED
    BY <2>2, <2>6
<1>5. Quiet' /\ Joining' /\ Workers' /\ Verdict' /\ OkMeansBuilt'
  BY DEF IInv, Complete, Quiet, Joining, Workers, Verdict, OkMeansBuilt, workerVars
<1>6. \A c \in subgraph :
        /\ ready[c] <= 1
        /\ ready[c] > 0 => status[c] = "Pending" /\ Open(status, c) = {}
  BY <1>2 DEF IInv, Queues
<1>7. ASSUME ready' \in [subgraph -> Nat], indegree' \in [subgraph -> Nat]
      PROVE  TypeOK'
  <2>1. /\ cascade' \in [subgraph -> Nat] /\ hit' \in SUBSET Node /\ work' \in Seq(subgraph)
        /\ failed' \in BOOLEAN /\ first_error' \in {"none", "error", "cancelled"}
        /\ driver' \in {"start", "cascade", "drive", "join", "returned"}
        /\ result' \in {"none", "ok", "error", "cancelled"}
    BY DEF IInv, TypeOK, Complete, Succeed
  <2>2. UNCHANGED workerVars
    BY DEF Complete
  <2>3. /\ pc' \in [Worker -> Lifecycle \cup {"idle", "gone", "panicked"}]
        /\ node' \in [Worker -> subgraph \cup {None}]
        /\ env' \in [Worker -> {"none", "up", "down"}]
        /\ outcome' \in [Worker -> {"none", "ok", "error", "cancelled", "retryable", "failed"}]
        /\ cancelled' \in BOOLEAN /\ console' \in Worker \cup {None} /\ retries' \in 0 .. MaxRetry
    BY <2>2 DEF IInv, TypeOK, workerVars
  <2> QED
    BY <1>1, <1>7, <2>1, <2>3 DEF TypeOK
<1>8. CASE failed \/ cancelled
  <2>1. ready' \in {Nothing, ready} /\ indegree' = indegree
    BY <1>8 DEF Succeed
  <2>2. ready' \in [subgraph -> Nat] /\ indegree' \in [subgraph -> Nat]
    BY <2>1, NothingFacts, SMTT(30) DEF IInv, TypeOK
  <2>3. TypeOK'
    BY <1>7, <2>2
  <2>4. Counters' /\ Queued'
    BY <1>8 DEF Counters, Queued, Complete, Succeed, workerVars
  <2>5. \A c \in subgraph : ready'[c] \in {0, ready[c]}
    BY <2>1, NothingFacts
  <2>6. Queues'
    <3>1. ASSUME NEW c \in subgraph
          PROVE  /\ cascade'[c] + ready'[c] <= 1
                 /\ cascade'[c] + ready'[c] > 0 => status'[c] = "Pending" /\ Open(status', c) = {}
      <4>1. cascade'[c] = 0 /\ ready[c] \in Nat /\ ready[c] <= 1
        BY <1>2, <1>6
      <4>2. CASE ready'[c] = 0
        BY <4>1, <4>2
      <4>3. CASE ready'[c] = ready[c] /\ ready[c] > 0
        <5>1. status[c] = "Pending" /\ Open(status, c) = {}
          BY <1>6, <4>3
        <5>2. status'[c] = "Pending"
          BY <1>1, <5>1
        <5>3. Open(status', c) = {}
          BY <1>3, <5>1
        <5> QED
          BY <4>1, <4>3, <5>2, <5>3
      <4> QED
        BY <2>5, <4>1, <4>2, <4>3
    <3> QED
      BY <1>2, <3>1 DEF Queues, Nothing
  <2> QED
    BY <1>1, <1>4, <1>5, <2>3, <2>4, <2>6 DEF IInv
<1>9. CASE ~failed /\ ~cancelled
  <2>1. \A c \in subgraph : Walked(n, c)
    <3>1. status' = [status EXCEPT ![n] = "Success"] /\ status[n] # "Success"
      BY <1>1 DEF Succeed
    <3>2. n \in subgraph /\ driver \in {"cascade", "drive"}
      BY <1>1, <1>2
    <3> HIDE DEF n
    <3> QED
      BY <1>9, <3>1, <3>2, NodeBuilt, Zenon
  <2>2. /\ indegree' = Decremented(n)
        /\ ready' = [c \in subgraph |-> ready[c] + Pushed(n, c)]
    BY <1>9 DEF Succeed
  <2>3. n \in subgraph /\ status[n] = "Running"
    BY <1>1
  <2>4. \A c \in subgraph : Pushed(n, c) \in {0, 1}
    BY <2>1 DEF Walked
  <2> HIDE DEF n
  <2>5. TypeOK'
    <3>1. indegree' \in [subgraph -> Nat]
      BY <2>1, <2>2, <2>3, DecrementedType
    <3>2. \A c \in subgraph : ready[c] + Pushed(n, c) \in Nat
      BY <1>2, <2>4
    <3>3. ready' \in [subgraph -> Nat]
      BY <2>2, <3>2
    <3> QED
      BY <1>7, <3>1, <3>3
  <2>6. Counters'
    <3>1. \A c \in subgraph : Decremented(n)[c] = Cardinality(Open(status', c))
      BY <2>1 DEF Walked
    <3> QED
      BY <2>2, <3>1 DEF Counters
  <2>7. \A c \in subgraph : ready'[c] = ready[c] + Pushed(n, c) /\ cascade'[c] = 0
    BY <1>2, <2>2
  <2>8. \A c \in subgraph : c # n => status'[c] = status[c]
    BY <1>1 DEF n
  <2>9. Queues'
    <3>1. ASSUME NEW c \in subgraph
          PROVE  /\ cascade'[c] + ready'[c] <= 1
                 /\ cascade'[c] + ready'[c] > 0 => status'[c] = "Pending" /\ Open(status', c) = {}
      <4>1. /\ ready[c] \in Nat /\ ready[c] <= 1 /\ cascade[c] = 0
            /\ ready'[c] = ready[c] + Pushed(n, c) /\ cascade'[c] = 0
        BY <1>2, <1>6, <2>7
      <4>2. CASE Pushed(n, c) = 1
        <5>1. c # n /\ status[c] = "Pending" /\ cascade[c] + ready[c] = 0 /\ Open(status', c) = {}
          BY <2>1, <4>2 DEF Walked
        <5>2. status'[c] = "Pending"
          BY <2>8, <5>1
        <5> QED
          BY <4>1, <4>2, <5>1, <5>2
      <4>3. CASE Pushed(n, c) = 0 /\ ready[c] = 0
        BY <4>1, <4>3
      <4>4. CASE Pushed(n, c) = 0 /\ ready[c] > 0
        <5>1. status[c] = "Pending" /\ Open(status, c) = {}
          BY <1>6, <4>4
        <5>2. status'[c] = "Pending"
          BY <2>3, <2>8, <5>1
        <5>3. Open(status', c) = {}
          BY <1>3, <5>1
        <5> QED
          BY <4>1, <4>4, <5>2, <5>3
      <4> QED
        BY <2>4, <4>1, <4>2, <4>3, <4>4
    <3> QED
      BY <1>2, <3>1 DEF Queues, Nothing
  <2>10. Queued'
    <3>1. ASSUME NEW c \in subgraph, status'[c] = "Pending", Open(status', c) = {}
          PROVE  cascade'[c] + ready'[c] = 1
      <4>1. c # n
        BY <1>1, <3>1 DEF n
      <4>2. status[c] = "Pending"
        BY <2>8, <3>1, <4>1
      <4>3. cascade[c] + ready[c] + Pushed(n, c) = 1
        BY <2>1, <3>1, <4>1, <4>2 DEF Walked
      <4> QED
        BY <1>2, <2>4, <2>7, <4>3
    <3> QED
      BY <3>1 DEF Queued
  <2> QED
    BY <1>1, <1>4, <1>5, <2>5, <2>6, <2>9, <2>10 DEF IInv
<1> QED
  BY <1>8, <1>9
-----------------------------------------------------------------------------

(* Every step of the scheduler preserves the invariant.                    *)
LEMMA NextIInv == IInv /\ [Next]_vars => IInv'
<1> SUFFICES ASSUME IInv, [Next]_vars PROVE IInv'
  OBVIOUS
<1>1. CASE UNCHANGED vars
  <2>1. TypeOK' /\ Quiet' /\ Queues' /\ Counters' /\ Queued' /\ Built'
    BY <1>1, SMTT(30) DEF IInv, vars, driverVars, workerVars, TypeOK, Quiet, Queues, Counters, Queued,
                Built, Nothing
  <2>2. Errors' /\ Joining' /\ Workers' /\ Verdict' /\ OkMeansBuilt'
    BY <1>1 DEF IInv, vars, driverVars, workerVars, Errors, Joining, Workers, Verdict, OkMeansBuilt
  <2>3. RunningCount' /\ Tokens' /\ InflightExact'
    BY <1>1 DEF IInv, vars, driverVars, workerVars, RunningCount, RunningNodes, Tokens,
                InflightExact, Busy
  <2> QED
    BY <2>1, <2>2, <2>3 DEF IInv
<1>2. CASE DriverStep
  <2>1. CASE RootIsBuilt \/ SeedCascade \/ SpawnWorkers \/ CloseWork \/ LoseWorkers \/ Join
    BY <2>1, RootIsBuiltKeeps, SeedCascadeKeeps, SpawnWorkersKeeps, CloseWorkKeeps,
       LoseWorkersKeeps, JoinKeeps
  <2>2. CASE \E n \in subgraph : Promote(n) \/ Enqueue(n) \/ Dispatch(n)
    BY <2>2, PromoteKeeps, EnqueueKeeps, DispatchKeeps
  <2>3. CASE Complete
    <3>1. \/ Head(done)[2] = "ok" /\ Succeed(Head(done)[1])
          \/ Head(done)[2] # "ok" /\ Fail(Head(done)[1], Head(done)[2])
      BY <2>3 DEF Complete
    <3> QED
      BY <2>3, <3>1, SucceedKeeps, FailKeeps
  <2> QED
    BY <1>2, <2>1, <2>2, <2>3 DEF DriverStep
<1>3. ASSUME NEW w \in Worker, WorkerStep(w) \/ Panic(w)
      PROVE  IInv'
  <2>1. CASE Receive(w) \/ Exit(w) \/ Report(w)
    BY <2>1, ReceiveKeeps, ExitKeeps, ReportKeeps
  <2>2. CASE \/ CreateEnvironment(w) \/ Setup(w) \/ Up(w) \/ Stage(w) \/ Execute(w)
             \/ Transform(w) \/ AcquireConsole(w) \/ AnswerRetry(w) \/ AnswerQuit(w)
             \/ AnswerFails(w) \/ UploadBuild(w) \/ Down(w) \/ Clean(w) \/ Panic(w)
    BY <2>2, LocalSteps, LocalKeeps
  <2> QED
    BY <1>3, <2>1, <2>2 DEF WorkerStep
<1> QED
  BY <1>1, <1>2, <1>3 DEF Next

(* The inductive invariant holds throughout every run.                     *)
THEOREM Invariance == Spec => []IInv
BY InitIInv, NextIInv, PTL DEF Spec

(* Every variable of Graph::run and of its workers stays in its range.     *)
THEOREM TypeCorrect == Spec => []TypeOK
<1>1. IInv => TypeOK
  BY DEF IInv
<1> QED
  BY <1>1, Invariance, PTL

(* For every graph and pool: no node is dispatched or promoted before all   *)
(* its dependencies are built.                                             *)
THEOREM DependenciesFirst == Spec => []DepsFirst
<1>1. IInv => DepsFirst
  <2> SUFFICES ASSUME IInv, NEW n \in subgraph, status[n] # "Pending", NEW m \in Deps(n)
               PROVE  status[m] = "Success"
    BY DEF DepsFirst
  <2>1. Open(status, n) = {}
    BY DEF IInv, Built
  <2>2. PICK e \in Incoming(n) : m = e[1]
    BY DEF Deps
  <2> QED
    BY <2>1, <2>2 DEF Open
<1> QED
  BY <1>1, Invariance, PTL

(* inflight is exact and neither channel can overflow.                     *)
THEOREM ChannelsNeverFull == Spec => []InflightExact
<1>1. IInv => InflightExact
  BY DEF IInv
<1> QED
  BY <1>1, Invariance, PTL

(* Graph::run returns Ok only when the target is cached or all is built.   *)
THEOREM OkIsSound == Spec => []OkMeansBuilt
<1>1. IInv => OkMeansBuilt
  BY DEF IInv
<1> QED
  BY <1>1, Invariance, PTL

(* Graph::run returns only after its workers, and no environment of a       *)
(* worker that did not panic outlives it.                                  *)
THEOREM CleanReturn == Spec => []NothingLeftBehind
<1>1. IInv => NothingLeftBehind
  BY DEF IInv, Verdict, Workers, NothingLeftBehind
<1> QED
  BY <1>1, Invariance, PTL
-----------------------------------------------------------------------------
(* The steps that touch a status, and what they do to it.                  *)
LEMMA StatusSteps ==
    ASSUME IInv, [Next]_vars
    PROVE  \/ status' = status /\ result' = result
           \/ status' = status /\ driver' = "returned"
           \/ \E n \in subgraph : Promote(n)
           \/ \E n \in subgraph : Dispatch(n)
           \/ Complete
<1>1. CASE UNCHANGED vars
  BY <1>1 DEF vars, driverVars
<1>2. CASE DriverStep
  BY <1>2, SMTT(30) DEF DriverStep, RootIsBuilt, SeedCascade, SpawnWorkers, CloseWork, LoseWorkers, Join, Enqueue
<1>3. ASSUME NEW w \in Worker, WorkerStep(w) \/ Panic(w)
      PROVE  status' = status /\ result' = result
  BY <1>3, Zenon DEF WorkerStep, Receive, Exit, CreateEnvironment, Setup, Up, Stage, Execute, Transform,
     AcquireConsole, AnswerRetry, AnswerQuit, AnswerFails, UploadBuild, Down, Clean, Report, Panic,
     driverVars
<1> QED
  BY <1>1, <1>2, <1>3 DEF Next

(* The node at the head of the done channel is Running when the driver      *)
(* takes it, and becomes Success or Failed.                                *)
LEMMA CompletionStep ==
    ASSUME IInv, Complete
    PROVE  \E n \in subgraph, t \in {"Success", "Failed"} :
               status[n] = "Running" /\ status' = [status EXCEPT ![n] = t]
<1>1. \E t \in {"Success", "Failed"} : status' = [status EXCEPT ![Head(done)[1]] = t]
  BY DEF Complete, Succeed, Fail
<1>2. PICK t \in {"Success", "Failed"} : status' = [status EXCEPT ![Head(done)[1]] = t]
  BY <1>1, Zenon
<1>3. Head(done)[1] \in subgraph /\ status[Head(done)[1]] = "Running"
  BY <1>2, CompleteCommon, Zenon
<1> QED
  BY <1>2, <1>3, Zenon

(* A queued node that is taken from its queue is Pending.                  *)
LEMMA QueuedIsPending ==
    ASSUME IInv, NEW n \in subgraph, Promote(n) \/ Dispatch(n)
    PROVE  status[n] = "Pending" /\ Open(status, n) = {}
<1>1. cascade[n] \in Nat /\ ready[n] \in Nat
  BY DEF IInv, TypeOK
<1>2. cascade[n] + ready[n] > 0
  BY <1>1 DEF Promote, Dispatch
<1> QED
  BY <1>2 DEF IInv, Queues

(* No node is dispatched twice and no verdict on a node is revised.        *)
THEOREM StatusForwardOnly == Spec => ForwardOnly
<1>1. IInv /\ [Next]_vars => \A n \in Node : ForwardStep(n)
  <2> SUFFICES ASSUME IInv, [Next]_vars, NEW n \in Node PROVE ForwardStep(n)
    OBVIOUS
  <2>1. CASE status' = status
    BY <2>1 DEF ForwardStep
  <2>2. CASE \E m \in subgraph : Promote(m)
    <3>1. PICK m \in subgraph : Promote(m)
      BY <2>2
    <3>2. /\ status[m] = "Pending" /\ m \in hit
          /\ status' = [status EXCEPT ![m] = "Success"]
      BY <3>1, QueuedIsPending, Zenon DEF Promote
    <3> QED
      BY <3>2, SubgraphFacts DEF IInv, TypeOK, ForwardStep
  <2>3. CASE \E m \in subgraph : Dispatch(m)
    <3>1. PICK m \in subgraph : Dispatch(m)
      BY <2>3
    <3>2. status[m] = "Pending" /\ status' = [status EXCEPT ![m] = "Running"]
      BY <3>1, QueuedIsPending, Zenon DEF Dispatch
    <3> QED
      BY <3>2, SubgraphFacts DEF IInv, TypeOK, ForwardStep
  <2>4. CASE Complete
    <3>1. PICK m \in subgraph, t \in {"Success", "Failed"} :
               status[m] = "Running" /\ status' = [status EXCEPT ![m] = t]
      BY <2>4, CompletionStep
    <3> QED
      BY <3>1, SubgraphFacts DEF IInv, TypeOK, ForwardStep
  <2> QED
    BY <2>1, <2>2, <2>3, <2>4, StatusSteps
<1> QED
  BY <1>1, Invariance, PTL DEF Spec, ForwardOnly
-----------------------------------------------------------------------------
(* Graph::run implements BuildOrder: a promotion is a Reuse, a dispatch a   *)
(* Begin, a completion a Finish, a return a verdict, and every other step   *)
(* is invisible.                                                           *)

(* The statuses of the subgraph, as BuildOrder sees them.                  *)
LEMMA MappedStatus ==
    ASSUME IInv, NEW n \in subgraph, NEW t, status' = [status EXCEPT ![n] = t]
    PROVE  [c \in subgraph |-> status'[c]] = [[c \in subgraph |-> status[c]] EXCEPT ![n] = t]
BY SubgraphFacts, Zenon DEF IInv, TypeOK

(* fetch decided what is a hit; Graph::run only reads it.                  *)
LEMMA HitIsConstant ==
    ASSUME [Next]_vars PROVE hit' = hit
<1>1. CASE UNCHANGED vars
  BY <1>1 DEF vars, driverVars
<1>2. CASE DriverStep
  BY <1>2 DEF DriverStep, RootIsBuilt, SeedCascade, Promote, Enqueue, Dispatch, SpawnWorkers,
     Complete, CloseWork, LoseWorkers, Join
<1>3. ASSUME NEW w \in Worker, WorkerStep(w) \/ Panic(w)
      PROVE  hit' = hit
  BY <1>3, Zenon DEF WorkerStep, Receive, Exit, CreateEnvironment, Setup, Up, Stage, Execute, Transform,
     AcquireConsole, AnswerRetry, AnswerQuit, AnswerFails, UploadBuild, Down, Clean, Report, Panic,
     driverVars
<1> QED
  BY <1>1, <1>2, <1>3 DEF Next

(* A run returns once.                                                     *)
LEMMA VerdictOnce ==
    ASSUME IInv, [Next]_vars, result' # result PROVE result = "none"
<1>1. CASE UNCHANGED vars
  BY <1>1, SMTT(30) DEF vars, driverVars
<1>2. CASE DriverStep
  BY <1>2, ZenonT(30) DEF DriverStep, RootIsBuilt, SeedCascade, Promote, Enqueue, Dispatch, SpawnWorkers,
     Complete, CloseWork, LoseWorkers, Join, IInv, Verdict
<1>3. ASSUME NEW w \in Worker, WorkerStep(w) \/ Panic(w)
      PROVE  result' = result
  BY <1>3, Zenon DEF WorkerStep, Receive, Exit, CreateEnvironment, Setup, Up, Stage, Execute, Transform,
     AcquireConsole, AnswerRetry, AnswerQuit, AnswerFails, UploadBuild, Down, Clean, Report, Panic,
     driverVars
<1> QED
  BY <1>1, <1>2, <1>3 DEF Next

(* A node that waits for nothing has all that the abstract order asks for.  *)
LEMMA NeedsAreMet ==
    ASSUME NEW n \in subgraph, Open(status, n) = {}
    PROVE  Order!NeedsMet(n)
<1> SUFFICES ASSUME NEW p \in subgraph, NEW e \in Edge, <<p, n>> = <<e[1], e[2]>>
             PROVE  status[p] = "Success"
  BY DEF Order!NeedsMet, Order!Built
<1>1. e \in Incoming(n)
  BY DEF Incoming
<1> QED
  BY <1>1 DEF Open

(* Graph::run implements BuildOrder for every graph and every pool size.   *)
THEOREM Refinement == Spec => ImplementsBuildOrder
<1>1. Init => Order!Init
  <2> SUFFICES ASSUME Init PROVE Order!Init
    OBVIOUS
  <2>1. hit \cap subgraph \in SUBSET subgraph
    OBVIOUS
  <2>2. [n \in subgraph |-> status[n]] = [n \in subgraph |-> "Pending"]
    BY SubgraphFacts DEF Init
  <2> QED
    BY <2>1, <2>2 DEF Init, Order!Init
<1>2. IInv /\ IInv' /\ [Next]_vars =>
        [Order!Next]_<<hit \cap subgraph, [n \in subgraph |-> status[n]], result>>
  <2> SUFFICES ASSUME IInv, IInv', [Next]_vars
               PROVE  \/ Order!Next
                      \/ UNCHANGED <<hit \cap subgraph, [n \in subgraph |-> status[n]], result>>
    OBVIOUS
  <2>1. hit' = hit
    BY HitIsConstant
  <2>2. CASE status' = status /\ result' = result
    BY <2>1, <2>2
  <2>3. CASE status' = status /\ result' # result /\ driver' = "returned"
    <3>1. result = "none"
      BY <2>3, VerdictOnce
    <3>2. result' \in Final
      BY <2>3, <3>1 DEF IInv, TypeOK, Final
    <3>3. [n \in subgraph |-> status[n]]' = [n \in subgraph |-> status[n]]
      BY <2>3
    <3>4. CASE result' = "ok"
      <4>1. Root \in hit \/ \A n \in subgraph : status'[n] = "Success"
        BY <2>1, <3>4 DEF IInv, OkMeansBuilt
      <4>2. Root \in subgraph
        BY SubgraphFacts
      <4>3. Order!DeclareGood
        BY <2>1, <2>3, <3>1, <3>3, <3>4, <4>1, <4>2, SMTT(30) DEF Order!DeclareGood, Order!Built
      <4> QED
        BY <4>3 DEF Order!Next
    <3>5. CASE result' \in {"error", "cancelled"}
      <4>1. Order!DeclareBad
        BY <2>1, <3>1, <3>3, <3>5 DEF Order!DeclareBad
      <4> QED
        BY <4>1 DEF Order!Next
    <3> QED
      BY <3>2, <3>4, <3>5 DEF Final
  <2>4. CASE \E n \in subgraph : Promote(n)
    <3>1. PICK n \in subgraph : Promote(n)
      BY <2>4
    <3>2. status[n] = "Pending" /\ Open(status, n) = {} /\ n \in hit
      BY <3>1, QueuedIsPending, Zenon DEF Promote
    <3>3. /\ status' = [status EXCEPT ![n] = "Success"]
          /\ result = "none" /\ result' = result
      BY <3>1 DEF Promote, IInv, Verdict
    <3>4. Order!Move(n, "Pending", "Success")
      BY <2>1, <3>2, <3>3, MappedStatus, Zenon DEF Order!Move
    <3>5. Order!Reuse(n)
      BY <3>2, <3>4, NeedsAreMet DEF Order!Reuse
    <3> QED
      BY <3>5 DEF Order!Next
  <2>5. CASE \E n \in subgraph : Dispatch(n)
    <3>1. PICK n \in subgraph : Dispatch(n)
      BY <2>5
    <3>2. status[n] = "Pending" /\ Open(status, n) = {}
      BY <3>1, QueuedIsPending
    <3>3. /\ status' = [status EXCEPT ![n] = "Running"]
          /\ result = "none" /\ result' = result
          /\ ~failed /\ inflight < batch_size
      BY <3>1 DEF Dispatch, CanDispatch, IInv, Verdict
    <3>4. Order!Move(n, "Pending", "Running")
      BY <2>1, <3>2, <3>3, MappedStatus, ZenonT(30) DEF Order!Move
    <3>5. Order!Building = RunningNodes
      BY DEF Order!Building, RunningNodes
    <3>6. Order!Cardinality(Order!Building) < batch_size
      BY <3>3, <3>5, Zenon DEF IInv, RunningCount, Order!Cardinality, Cardinality
    <3>7. Order!NoneBroken
      BY <3>3 DEF Order!NoneBroken, IInv, Errors
    <3>8. Order!Begin(n)
      BY <3>2, <3>4, <3>6, <3>7, NeedsAreMet DEF Order!Begin
    <3> QED
      BY <3>8 DEF Order!Next
  <2>6. CASE Complete
    <3>1. PICK n \in subgraph, t \in {"Success", "Failed"} :
               status[n] = "Running" /\ status' = [status EXCEPT ![n] = t]
      BY <2>6, CompletionStep
    <3>2. result = "none" /\ result' = result
      BY <2>6 DEF IInv, Verdict, Complete
    <3>3. Order!Move(n, "Running", t)
      BY <2>1, <3>1, <3>2, MappedStatus, Zenon DEF Order!Move
    <3>4. Order!Finish(n)
      BY <3>3 DEF Order!Finish
    <3> QED
      BY <3>4 DEF Order!Next
  <2> QED
    BY <2>2, <2>3, <2>4, <2>5, <2>6, StatusSteps, SMTT(30)
<1> QED
  BY <1>1, <1>2, Invariance, PTL DEF Spec, ImplementsBuildOrder, Order!Spec
-----------------------------------------------------------------------------
(* What is in the build cache is not built again.                           *)

(* A node is upstream of itself, and what is upstream of a dependency is    *)
(* upstream of the dependent.                                              *)
LEMMA UpstreamFacts ==
    /\ \A n \in Node : n \in Upstream(n)
    /\ \A e \in Edge : Upstream(e[1]) \subseteq Upstream(e[2])
<1>1. \A n \in Node : n \in Upstream(n)
  BY DEF Upstream
<1>2. ASSUME NEW e \in Edge PROVE Upstream(e[1]) \subseteq Upstream(e[2])
  BY DEF Upstream, ClosedUnderDeps
<1> QED
  BY <1>1, <1>2

(* The strengthening NoNeedlessBuild needs: the cascade puts no hit into    *)
(* ready, and once it has run dry every fully cached subtree is built.     *)
Thrifty ==
    /\ driver = "cascade" => \A n \in subgraph : ready[n] > 0 => n \notin hit
    /\ driver = "drive" =>
          \A n \in subgraph : Upstream(n) \subseteq hit => status[n] = "Success"
    /\ NoNeedlessBuild

(* The cascade ends only when every fully cached subtree is promoted: a     *)
(* node of it that is not, and whose dependencies all are, would still be   *)
(* queued.                                                                 *)
LEMMA CascadeRunsDry ==
    ASSUME IInv, Thrifty, SpawnWorkers
    PROVE  \A n \in subgraph : Upstream(n) \subseteq hit => status[n] = "Success"
<1> DEFINE Left == {n \in subgraph : Upstream(n) \subseteq hit /\ status[n] # "Success"}
<1>1. SUFFICES ASSUME Left # {} PROVE FALSE
  OBVIOUS
<1>2. PICK n \in Left : \A e \in Edge : e[2] = n => e[1] \notin Left
  <2>1. Left \in SUBSET Node
    BY SubgraphFacts
  <2> QED
    BY <1>1, <2>1, GraphAssumption, Zenon
<1>3. n \in subgraph /\ n \in Node /\ Upstream(n) \subseteq hit /\ status[n] # "Success"
  BY SubgraphFacts
<1>4. Open(status, n) = {}
  <2> SUFFICES ASSUME NEW e \in Edge, e[2] = n, e[1] \in subgraph, status[e[1]] # "Success"
               PROVE  FALSE
    BY DEF Open, Incoming
  <2>1. Upstream(e[1]) \subseteq hit
    BY <1>3, UpstreamFacts
  <2> QED
    BY <1>2, <2>1
<1>5. status[n] = "Pending"
  <2>1. status[n] \in {"Pending", "Running", "Success", "Failed"}
    BY <1>3 DEF IInv, TypeOK
  <2> QED
    BY <1>3, <2>1 DEF Thrifty, NoNeedlessBuild
<1>6. cascade[n] + ready[n] = 1
  BY <1>3, <1>4, <1>5 DEF IInv, Queued, Quiet, SpawnWorkers
<1>7. cascade[n] = 0 /\ ready[n] \in Nat
  BY <1>3, NothingFacts DEF SpawnWorkers, IInv, TypeOK
<1>8. n \in hit
  BY <1>3, UpstreamFacts
<1> QED
  BY <1>3, <1>6, <1>7, <1>8 DEF Thrifty, SpawnWorkers

(* Only the driver touches ready, and only while it cascades or drives.     *)
LEMMA ThriftyStep == ASSUME IInv, Thrifty, [Next]_vars PROVE Thrifty'
<1> USE DEF Thrifty
<1>1. hit' = hit
  BY HitIsConstant
<1>2. CASE UNCHANGED <<driver, ready, status>>
  BY <1>1, <1>2 DEF NoNeedlessBuild
<1>3. CASE RootIsBuilt
  BY <1>1, <1>3 DEF RootIsBuilt, NoNeedlessBuild
<1>4. CASE SeedCascade
  <2>1. ready' = Nothing
    BY <1>4 DEF SeedCascade, IInv, Queues
  <2> QED
    BY <1>1, <1>4, <2>1, NothingFacts DEF SeedCascade, NoNeedlessBuild
<1>5. ASSUME NEW n \in subgraph, Promote(n) PROVE Thrifty'
  BY <1>1, <1>5, SubgraphFacts DEF Promote, NoNeedlessBuild, IInv, TypeOK
<1>6. ASSUME NEW n \in subgraph, Enqueue(n) PROVE Thrifty'
  BY <1>1, <1>6 DEF Enqueue, NoNeedlessBuild, IInv, TypeOK
<1>7. CASE SpawnWorkers
  BY <1>1, <1>7, CascadeRunsDry DEF SpawnWorkers, NoNeedlessBuild
<1>8. ASSUME NEW n \in subgraph, Dispatch(n) PROVE Thrifty'
  <2>1. status[n] = "Pending" /\ driver = "drive" /\ driver' = "drive"
        /\ status' = [status EXCEPT ![n] = "Running"]
    BY <1>8, QueuedIsPending, Zenon DEF Dispatch
  <2>2. ~(Upstream(n) \subseteq hit)
    BY <2>1
  <2> QED
    BY <1>1, <2>1, <2>2, SubgraphFacts, SMTT(30) DEF NoNeedlessBuild, IInv, TypeOK
<1>9. CASE Complete
  <2>1. PICK n \in subgraph, t \in {"Success", "Failed"} :
             status[n] = "Running" /\ status' = [status EXCEPT ![n] = t]
    BY <1>9, CompletionStep
  <2>2. driver = "drive" /\ driver' = "drive"
    BY <1>9 DEF Complete
  <2>3. ~(Upstream(n) \subseteq hit)
    BY <2>1 DEF NoNeedlessBuild
  <2> QED
    BY <1>1, <2>1, <2>2, <2>3, SubgraphFacts, SMTT(30) DEF NoNeedlessBuild, IInv, TypeOK
<1>10. CASE CloseWork \/ LoseWorkers \/ Join
  BY <1>1, <1>10 DEF CloseWork, LoseWorkers, Join, NoNeedlessBuild
<1>11. ASSUME NEW w \in Worker, WorkerStep(w) \/ Panic(w) PROVE UNCHANGED <<driver, ready, status>>
  BY <1>11, Zenon DEF WorkerStep, driverVars, Receive, Exit, CreateEnvironment, Setup, Up, Stage,
     Execute, Transform, AcquireConsole, AnswerRetry, AnswerQuit, AnswerFails, UploadBuild,
     Down, Clean, Report, Panic
<1>12. CASE UNCHANGED vars
  BY <1>2, <1>12 DEF vars, driverVars
<1> QED
  BY <1>2, <1>3, <1>4, <1>5, <1>6, <1>7, <1>8, <1>9, <1>10, <1>11, <1>12 DEF Next, DriverStep

(* Graph::run never builds a node whose whole subtree fetch found in the    *)
(* build cache, in any order of the HashMap and whatever fails or is        *)
(* cancelled.                                                              *)
THEOREM CacheIsUsed == Spec => []NoNeedlessBuild
<1>1. Init => Thrifty
  BY SubgraphFacts DEF Init, Thrifty, NoNeedlessBuild
<1>2. IInv /\ Thrifty /\ [Next]_vars => Thrifty'
  BY ThriftyStep
<1>3. Thrifty => NoNeedlessBuild
  BY DEF Thrifty
<1> QED
  BY <1>1, <1>2, <1>3, Invariance, PTL DEF Spec
==============================================================================
