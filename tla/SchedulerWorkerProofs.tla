------------------------ MODULE SchedulerWorkerProofs ------------------------
(***************************************************************************)
(* Every step of a worker task preserves the invariant of Graph::run.      *)
(***************************************************************************)
EXTENDS SchedulerInvariant

(* A step of a worker inside the lifecycle, seen from the driver: one       *)
(* worker that holds a node moves on and still holds it; at most the token  *)
(* fires.                                                                  *)
Local(w) ==
    /\ pc[w] \in Lifecycle
    /\ pc'[w] \in Lifecycle \cup {"panicked"}
    /\ pc' = [pc EXCEPT ![w] = pc'[w]]
    /\ UNCHANGED <<driverVars, status, work, done, node>>
    /\ cancelled => cancelled'

(* The driver does not notice such a step.                                  *)
LEMMA LocalKeeps ==
    ASSUME IInv, NEW w \in Worker, Local(w), TypeOK', Workers'
    PROVE  IInv'
<1> USE DEF Local, driverVars
<1>1. Busy' = Busy
  BY Zenon DEF IInv, TypeOK, Busy
<1>2. driver \notin {"start", "cascade", "returned"}
  BY DEF IInv, Quiet, Verdict, Lifecycle
<1>3. Quiet' /\ Verdict' /\ OkMeansBuilt' /\ Errors' /\ Built' /\ Queues'
  BY <1>2 DEF IInv, TypeOK, Quiet, Verdict, OkMeansBuilt, Errors, Built, Queues, Nothing
<1>4. Counters' /\ Queued' /\ Joining'
  BY DEF IInv, Counters, Queued, Joining
<1>5. RunningCount'
  BY DEF IInv, RunningCount, RunningNodes
<1>6. Tokens'
  BY DEF IInv, Tokens
<1>7. InflightExact'
  BY <1>1 DEF IInv, InflightExact
<1> QED
  BY <1>3, <1>4, <1>5, <1>6, <1>7 DEF IInv

(* Such a step takes worker w to stage p with environment e and outcome o;  *)
(* only a final Result reaches the teardown, and no environment is left     *)
(* before up or at the report.                                             *)
Moved(w, p, e, o) ==
    /\ pc' = [pc EXCEPT ![w] = p]
    /\ env' = [env EXCEPT ![w] = e]
    /\ outcome' = [outcome EXCEPT ![w] = o]
Legal(p, e, o) ==
    /\ p \in Lifecycle \cup {"panicked"} /\ e \in {"none", "up", "down"}
    /\ o \in {"none", "ok", "error", "cancelled", "retryable", "failed"}
    /\ p \in {"down", "clean", "report"} => o \in Final
    /\ p \in {"create", "setup", "up", "report"} => e = "none"
Elsewhere ==
    /\ UNCHANGED <<driverVars, status, work, done, node>>
    /\ cancelled' \in BOOLEAN /\ (cancelled => cancelled')
    /\ console' \in Worker \cup {None} /\ retries' \in 0 .. MaxRetry

(* The steps of the lifecycle are of that kind.                             *)
LEMMA MovedIsLocal ==
    ASSUME IInv, NEW w \in Worker, pc[w] \in Lifecycle, Elsewhere,
           NEW p, NEW e, NEW o, Legal(p, e, o), Moved(w, p, e, o)
    PROVE  Local(w) /\ TypeOK' /\ Workers'
<1>1. /\ pc \in [Worker -> Lifecycle \cup {"idle", "gone", "panicked"}]
      /\ env \in [Worker -> {"none", "up", "down"}]
      /\ outcome \in [Worker -> {"none", "ok", "error", "cancelled", "retryable", "failed"}]
  BY DEF IInv, TypeOK
<1>2. \A v \in Worker : /\ pc'[v] = IF v = w THEN p ELSE pc[v]
                        /\ env'[v] = IF v = w THEN e ELSE env[v]
                        /\ outcome'[v] = IF v = w THEN o ELSE outcome[v]
  BY <1>1, Zenon DEF Moved
<1>3. Local(w)
  <2>1. pc'[w] = p
    BY <1>2
  <2> QED
    BY <2>1, Zenon DEF Local, Moved, Legal, Elsewhere
<1>4. /\ pc' \in [Worker -> Lifecycle \cup {"idle", "gone", "panicked"}]
      /\ env' \in [Worker -> {"none", "up", "down"}]
      /\ outcome' \in [Worker -> {"none", "ok", "error", "cancelled", "retryable", "failed"}]
  BY <1>1 DEF Moved, Legal
<1>5. TypeOK'
  <2>1. /\ hit' = hit /\ status' = status /\ indegree' = indegree /\ cascade' = cascade
        /\ ready' = ready /\ inflight' = inflight /\ failed' = failed
        /\ first_error' = first_error /\ driver' = driver /\ result' = result
        /\ work' = work /\ done' = done /\ node' = node
    BY DEF Elsewhere, driverVars
  <2> QED
    BY <1>4, <2>1 DEF IInv, TypeOK, Elsewhere
<1>6. Workers'
  <2>1. ASSUME NEW v \in Worker
        PROVE  /\ pc'[v] \in Lifecycle \cup {"panicked"} <=> node'[v] # None
               /\ pc'[v] \in {"down", "clean", "report"} => outcome'[v] \in Final
               /\ pc'[v] \in {"idle", "gone", "create", "setup", "up", "report"} => env'[v] = "none"
    <3>1. /\ pc[v] \in Lifecycle \cup {"panicked"} <=> node[v] # None
          /\ pc[v] \in {"down", "clean", "report"} => outcome[v] \in Final
          /\ pc[v] \in {"idle", "gone", "create", "setup", "up", "report"} => env[v] = "none"
      BY DEF IInv, Workers
    <3>2. node' = node
      BY DEF Elsewhere
    <3>3. CASE v = w
      <4>1. pc'[v] = p /\ env'[v] = e /\ outcome'[v] = o
        BY <1>2, <3>3
      <4>2. p \notin {"idle", "gone"}
        BY DEF Legal, Lifecycle
      <4> QED
        BY <3>1, <3>2, <3>3, <4>1, <4>2 DEF Legal
    <3>4. CASE v # w
      BY <1>2, <3>1, <3>2, <3>4
    <3> QED
      BY <3>3, <3>4
  <2> QED
    BY <2>1 DEF Workers
<1> QED
  BY <1>3, <1>5, <1>6

(* Every stage of run_transform_lifecycle and execute is such a step.      *)
LEMMA LocalSteps ==
    ASSUME IInv, NEW w \in Worker,
           \/ CreateEnvironment(w) \/ Setup(w) \/ Up(w) \/ Stage(w) \/ Execute(w)
           \/ Transform(w) \/ AcquireConsole(w) \/ AnswerRetry(w) \/ AnswerQuit(w)
           \/ AnswerFails(w) \/ UploadBuild(w) \/ Down(w) \/ Clean(w) \/ Panic(w)
    PROVE  Local(w) /\ TypeOK' /\ Workers'
<1> DEFINE Goal == Local(w) /\ TypeOK' /\ Workers'
           Go(p, e, o) == Legal(p, e, o) /\ Moved(w, p, e, o)
<1>1. /\ cancelled \in BOOLEAN /\ console \in Worker \cup {None} /\ retries \in 0 .. MaxRetry
      /\ env[w] \in {"none", "up", "down"}
      /\ outcome[w] \in {"none", "ok", "error", "cancelled", "retryable", "failed"}
      /\ env = [env EXCEPT ![w] = env[w]] /\ outcome = [outcome EXCEPT ![w] = outcome[w]]
  BY DEF IInv, TypeOK
<1>2. /\ pc[w] \in {"down", "clean", "report"} => outcome[w] \in Final
      /\ pc[w] \in {"create", "setup", "up", "report"} => env[w] = "none"
  BY DEF IInv, Workers
<1>3. ASSUME pc[w] \in Lifecycle, Elsewhere, NEW p, NEW e, NEW o, Go(p, e, o)
      PROVE  Goal
  BY <1>3, MovedIsLocal
<1> SUFFICES Goal
  OBVIOUS
<1> HIDE DEF Goal
<1>4. CASE CreateEnvironment(w)
  <2>1. pc[w] \in Lifecycle /\ Elsewhere
    BY <1>1, <1>4 DEF CreateEnvironment, Lifecycle, Elsewhere, Teardown
  <2>2. Go("setup", env[w], outcome[w]) \/ Go("report", env[w], "error")
    BY <1>1, <1>2, <1>4 DEF CreateEnvironment, Moved, Legal, Lifecycle, Final, Goto, Outcome, Abort, Teardown
  <2> HIDE DEF Go
  <2> QED
    BY <1>3, <2>1, <2>2
<1>5. CASE Setup(w)
  <2>1. pc[w] \in Lifecycle /\ Elsewhere
    BY <1>1, <1>5 DEF Setup, Lifecycle, Elsewhere, Teardown
  <2>2. \/ Go("up", env[w], outcome[w])
        \/ Go("report", env[w], "error")
        \/ Go("report", env[w], "cancelled")
    BY <1>1, <1>2, <1>5 DEF Setup, Moved, Legal, Lifecycle, Final, Goto, Outcome, Abort, Teardown
  <2> HIDE DEF Go
  <2> QED
    BY <1>3, <2>1, <2>2
<1>6. CASE Up(w)
  <2>1. pc[w] \in Lifecycle /\ Elsewhere
    BY <1>1, <1>6 DEF Up, Lifecycle, Elsewhere, Teardown
  <2>2. \/ Go("stage", "up", outcome[w])
        \/ Go("report", env[w], "error")
        \/ Go("report", env[w], "cancelled")
    BY <1>1, <1>2, <1>6 DEF Up, Moved, Legal, Lifecycle, Final, Goto, Outcome, Abort, Teardown
  <2> HIDE DEF Go
  <2> QED
    BY <1>3, <2>1, <2>2
<1>7. CASE Stage(w)
  <2>1. pc[w] \in Lifecycle /\ Elsewhere
    BY <1>1, <1>7 DEF Stage, Lifecycle, Elsewhere, Teardown
  <2>2. \/ Go("execute", env[w], outcome[w])
        \/ Go("down", env[w], "error")
        \/ Go("down", env[w], "cancelled")
    BY <1>1, <1>2, <1>7 DEF Stage, Moved, Legal, Lifecycle, Final, Goto, Outcome, Abort, Teardown
  <2> HIDE DEF Go
  <2> QED
    BY <1>3, <2>1, <2>2
<1>8. CASE Execute(w)
  <2>1. pc[w] \in Lifecycle /\ Elsewhere
    BY <1>1, <1>8 DEF Execute, Lifecycle, Elsewhere, Teardown
  <2>2. Go("transform", env[w], outcome[w]) \/ Go("down", env[w], "cancelled")
    BY <1>1, <1>2, <1>8 DEF Execute, Moved, Legal, Lifecycle, Final, Goto, Outcome, Abort, Teardown
  <2> HIDE DEF Go
  <2> QED
    BY <1>3, <2>1, <2>2
<1>9. CASE Transform(w)
  <2>1. pc[w] \in Lifecycle /\ Elsewhere
    BY <1>1, <1>9 DEF Transform, Lifecycle, Elsewhere, Teardown
  <2>2. \/ Go("upload", env[w], outcome[w])
        \/ \E o \in {"retryable", "failed"} : Go("prompt", env[w], o)
    BY <1>1, <1>2, <1>9 DEF Transform, Moved, Legal, Lifecycle, Final, Goto, Outcome, Abort, Teardown
  <2> HIDE DEF Go
  <2> QED
    BY <1>3, <2>1, <2>2
<1>10. CASE AcquireConsole(w)
  <2>1. pc[w] \in Lifecycle /\ Elsewhere
    BY <1>1, <1>10 DEF AcquireConsole, Lifecycle, Elsewhere, Teardown
  <2>2. Go("ask", env[w], outcome[w])
    BY <1>1, <1>2, <1>10 DEF AcquireConsole, Moved, Legal, Lifecycle, Final, Goto, Outcome, Abort, Teardown
  <2> HIDE DEF Go
  <2> QED
    BY <1>3, <2>1, <2>2
<1>11. CASE AnswerRetry(w)
  <2>1. pc[w] \in Lifecycle /\ Elsewhere
    BY <1>1, <1>11, RetryAssumption DEF AnswerRetry, Lifecycle, Elsewhere, Teardown
  <2>2. Go("transform", env[w], "none")
    BY <1>1, <1>2, <1>11 DEF AnswerRetry, Moved, Legal, Lifecycle, Final, Goto, Outcome, Abort, Teardown
  <2> HIDE DEF Go
  <2> QED
    BY <1>3, <2>1, <2>2
<1>12. CASE AnswerQuit(w)
  <2>1. pc[w] \in Lifecycle /\ Elsewhere
    BY <1>1, <1>12 DEF AnswerQuit, Lifecycle, Elsewhere, Teardown
  <2>2. Go("down", env[w], "error")
    BY <1>1, <1>2, <1>12 DEF AnswerQuit, Moved, Legal, Lifecycle, Final, Goto, Outcome, Abort, Teardown
  <2> HIDE DEF Go
  <2> QED
    BY <1>3, <2>1, <2>2
<1>13. CASE AnswerFails(w)
  <2>1. pc[w] \in Lifecycle /\ Elsewhere
    BY <1>1, <1>13 DEF AnswerFails, Lifecycle, Elsewhere, Teardown
  <2>2. Go("down", env[w], "error")
    BY <1>1, <1>2, <1>13 DEF AnswerFails, Moved, Legal, Lifecycle, Final, Goto, Outcome, Abort, Teardown
  <2> HIDE DEF Go
  <2> QED
    BY <1>3, <2>1, <2>2
<1>14. CASE UploadBuild(w)
  <2>1. pc[w] \in Lifecycle /\ Elsewhere
    BY <1>1, <1>14 DEF UploadBuild, Lifecycle, Elsewhere, Teardown
  <2>2. \E o \in {"ok", "error"} : Go("down", env[w], o)
    BY <1>1, <1>2, <1>14, Zenon DEF UploadBuild, Moved, Legal, Lifecycle, Final, Goto, Outcome, Abort, Teardown
  <2> HIDE DEF Go
  <2> QED
    BY <1>3, <2>1, <2>2
<1>15. CASE Down(w)
  <2>1. pc[w] \in Lifecycle /\ Elsewhere
    BY <1>1, <1>15 DEF Down, Lifecycle, Elsewhere, Teardown
  <2>2. Go("clean", "down", outcome[w])
    BY <1>1, <1>2, <1>15 DEF Down, Moved, Legal, Lifecycle, Final, Goto, Outcome, Abort, Teardown
  <2> HIDE DEF Go
  <2> QED
    BY <1>3, <2>1, <2>2
<1>16. CASE Clean(w)
  <2>1. pc[w] \in Lifecycle /\ Elsewhere
    BY <1>1, <1>16 DEF Clean, Lifecycle, Elsewhere, Teardown
  <2>2. Go("report", "none", outcome[w])
    BY <1>1, <1>2, <1>16 DEF Clean, Moved, Legal, Lifecycle, Final, Goto, Outcome, Abort, Teardown
  <2> HIDE DEF Go
  <2> QED
    BY <1>3, <2>1, <2>2
<1>17. CASE Panic(w)
  <2>1. pc[w] \in Lifecycle /\ Elsewhere
    BY <1>1, <1>17 DEF Panic, Lifecycle, Elsewhere, Teardown
  <2>2. Go("panicked", env[w], outcome[w])
    BY <1>1, <1>2, <1>17 DEF Panic, Moved, Legal, Lifecycle, Final, Goto, Outcome, Abort, Teardown
  <2> HIDE DEF Go
  <2> QED
    BY <1>3, <2>1, <2>2
<1> QED
  BY <1>4, <1>5, <1>6, <1>7, <1>8, <1>9, <1>10, <1>11, <1>12, <1>13, <1>14, <1>15, <1>16, <1>17, SMTT(30)
-----------------------------------------------------------------------------
(* A worker takes a node, leaves, or reports.                               *)

(* A worker takes a node from the work channel.                             *)
LEMMA ReceiveKeeps == ASSUME IInv, NEW w \in Worker, Receive(w) PROVE IInv'
<1> USE DEF Receive, driverVars, Goto
<1>1. /\ work \in Seq(subgraph) /\ Len(work) > 0
      /\ Head(work) \in subgraph /\ Head(work) = work[1]
      /\ work' = Tail(work) /\ work' \in Seq(subgraph) /\ Len(work') = Len(work) - 1
      /\ \A i \in 1 .. Len(work') : work'[i] = work[i + 1] /\ i + 1 \in 1 .. Len(work)
  BY DEF IInv, TypeOK
<1>2. /\ node[w] = None /\ node' = [node EXCEPT ![w] = work[1]]
      /\ node' \in [Worker -> subgraph \cup {None}]
      /\ pc' \in [Worker -> Lifecycle \cup {"idle", "gone", "panicked"}]
  BY <1>1, Zenon DEF IInv, TypeOK, Workers, Lifecycle
<1>3. TypeOK'
  BY <1>1, <1>2 DEF IInv, TypeOK
<1>4. driver \notin {"start", "cascade", "returned"}
  BY DEF IInv, Quiet, Verdict
<1>5. Quiet' /\ Verdict' /\ OkMeansBuilt' /\ Errors' /\ Built' /\ Queues'
  BY <1>4 DEF IInv, Quiet, Verdict, OkMeansBuilt, Errors, Built, Queues, Nothing
<1>6. Counters' /\ Queued' /\ Joining' /\ RunningCount'
  BY DEF IInv, Counters, Queued, Joining, RunningCount, RunningNodes
<1>7. Workers'
  BY <1>1, <1>2, NoneAssumption, SubgraphFacts DEF IInv, TypeOK, Workers, Lifecycle
<1>8. Tokens'
  <2>1. /\ \A v \in Worker : node'[v] = IF v = w THEN work[1] ELSE node[v]
        /\ 1 \in 1 .. Len(work) /\ work[1] # None
        /\ status' = status /\ done' = done
    BY <1>1, <1>2, NoneAssumption, SubgraphFacts DEF IInv, TypeOK
  <2>2. /\ \A i \in 1 .. Len(work') : status'[work'[i]] = "Running"
        /\ \A i \in 1 .. Len(done') : status'[done'[i][1]] = "Running"
        /\ \A v \in Worker : node'[v] # None => status'[node'[v]] = "Running"
    BY <1>1, <2>1 DEF IInv, Tokens
  <2>3. /\ \A i, j \in 1 .. Len(work') : i # j => work'[i] # work'[j]
        /\ \A i \in 1 .. Len(work') : work'[i] # work[1]
    BY <1>1, <2>1 DEF IInv, Tokens
  <2>4. /\ \A i, j \in 1 .. Len(done') : i # j => done'[i][1] # done'[j][1]
        /\ \A i \in 1 .. Len(work'), j \in 1 .. Len(done') : work'[i] # done'[j][1]
        /\ \A v \in Worker, i \in 1 .. Len(work') : node'[v] # work'[i]
        /\ \A v \in Worker, j \in 1 .. Len(done') : node'[v] # done'[j][1]
        /\ \A u, v \in Worker : u # v /\ node'[u] # None => node'[u] # node'[v]
    BY <1>1, <2>1, <2>3 DEF IInv, Tokens
  <2> QED
    BY <2>2, <2>3, <2>4 DEF Tokens
<1>9. InflightExact'
  <2>1. Busy' = Busy \cup {w} /\ w \notin Busy
    BY DEF IInv, TypeOK, Busy, Lifecycle
  <2>2. Cardinality(Busy') = Cardinality(Busy) + 1
    BY <2>1, BusyFinite, FS_AddElement, Zenon
  <2>3. Len(work) \in Nat /\ Len(done) \in Nat
    BY DEF IInv, TypeOK
  <2> QED
    BY <1>1, <2>2, <2>3, BusyFinite DEF IInv, InflightExact
<1> QED
  BY <1>3, <1>5, <1>6, <1>7, <1>8, <1>9 DEF IInv

(* A worker leaves when the channel is closed.                              *)
LEMMA ExitKeeps == ASSUME IInv, NEW w \in Worker, Exit(w) PROVE IInv'
<1> USE DEF Exit, driverVars, Goto
<1>1. TypeOK' /\ Workers'
  BY DEF IInv, TypeOK, Workers, Lifecycle
<1>2. Quiet' /\ Verdict' /\ OkMeansBuilt' /\ Errors' /\ Built' /\ Queues'
  BY DEF IInv, Quiet, Verdict, OkMeansBuilt, Errors, Built, Queues, Nothing
<1>3. Counters' /\ Queued' /\ Joining' /\ RunningCount' /\ Tokens'
  <2>1. Counters' /\ Queued' /\ Joining'
    BY DEF IInv, Counters, Queued, Joining
  <2>2. RunningCount'
    BY DEF IInv, RunningCount, RunningNodes
  <2>3. Tokens'
    BY DEF IInv, Tokens
  <2> QED
    BY <2>1, <2>2, <2>3
<1>4. Busy' = Busy
  BY DEF IInv, TypeOK, Busy, Lifecycle
<1>5. InflightExact'
  BY <1>4 DEF IInv, InflightExact
<1> QED
  BY <1>1, <1>2, <1>3, <1>5 DEF IInv

(* A worker hands its outcome to the done channel.                          *)
LEMMA ReportKeeps == ASSUME IInv, NEW w \in Worker, Report(w) PROVE IInv'
<1> USE DEF Report, driverVars, Goto, Outcome
<1>1. /\ node[w] \in subgraph /\ node[w] # None /\ outcome[w] \in Final
      /\ node' = [node EXCEPT ![w] = None] /\ env[w] = "none"
  BY DEF IInv, TypeOK, Workers, Lifecycle
<1>2. /\ done \in Seq(subgraph \X {"ok", "error", "cancelled"})
      /\ done' = Append(done, <<node[w], outcome[w]>>)
      /\ done' \in Seq(subgraph \X {"ok", "error", "cancelled"})
      /\ Len(done') = Len(done) + 1 /\ Len(done) \in Nat
      /\ done'[Len(done) + 1] = <<node[w], outcome[w]>>
      /\ \A i \in 1 .. Len(done) : done'[i] = done[i]
  BY <1>1 DEF IInv, TypeOK, Final
<1>3. TypeOK'
  BY <1>2, SMTT(30) DEF IInv, TypeOK
<1>4. driver \notin {"start", "cascade", "returned"}
  BY DEF IInv, Quiet, Verdict
<1>5. Quiet' /\ Verdict' /\ OkMeansBuilt' /\ Errors' /\ Built' /\ Queues'
  BY <1>4, SMTT(30) DEF IInv, Quiet, Verdict, OkMeansBuilt, Errors, Built, Queues, Nothing
<1>6. Counters' /\ Queued' /\ Joining' /\ RunningCount'
  BY DEF IInv, Counters, Queued, Joining, RunningCount, RunningNodes
<1>7. Workers'
  BY <1>1 DEF IInv, TypeOK, Workers, Lifecycle
<1>8. Tokens'
  <2>1. \A i \in 1 .. Len(done') : \/ i \in 1 .. Len(done) /\ done'[i][1] = done[i][1]
                                   \/ i = Len(done) + 1 /\ done'[i][1] = node[w]
    BY <1>2
  <2>2. None \notin subgraph
    BY NoneAssumption, SubgraphFacts
  <2>3. \A v \in Worker : node'[v] = IF v = w THEN None ELSE node[v]
    <3>1. node \in [Worker -> subgraph \cup {None}]
      BY DEF IInv, TypeOK
    <3> QED
      BY <1>1, <3>1
  <2>4. status' = status /\ work' = work
    OBVIOUS
  <2>5. \A i \in 1 .. Len(work) : work[i] # None
    <3>1. work \in Seq(subgraph)
      BY DEF IInv, TypeOK
    <3>2. \A i \in 1 .. Len(work) : work[i] \in subgraph
      BY <3>1
    <3> QED
      BY <2>2, <3>2
  <2>6. \A i \in 1 .. Len(done') : done'[i][1] # None
    <3>1. \A i \in 1 .. Len(done') : done'[i][1] \in subgraph
      BY <1>2, SMTT(30)
    <3> QED
      BY <2>2, <3>1
  <2> DEFINE R(n) == status[n] = "Running"
  <2>7. /\ \A i \in 1 .. Len(work) : R(work[i])
        /\ \A i \in 1 .. Len(done) : R(done[i][1])
        /\ \A v \in Worker : node[v] # None => R(node[v])
        /\ \A i, j \in 1 .. Len(work) : i # j => work[i] # work[j]
        /\ \A i, j \in 1 .. Len(done) : i # j => done[i][1] # done[j][1]
        /\ \A i \in 1 .. Len(work), j \in 1 .. Len(done) : work[i] # done[j][1]
        /\ \A v \in Worker, i \in 1 .. Len(work) : node[v] # work[i]
        /\ \A v \in Worker, j \in 1 .. Len(done) : node[v] # done[j][1]
        /\ \A u, v \in Worker : u # v /\ node[u] # None => node[u] # node[v]
    BY SMTT(30) DEF IInv, Tokens
  <2> HIDE DEF R, Report
  <2>8. /\ \A i \in 1 .. Len(work') : R(work'[i])
        /\ \A i, j \in 1 .. Len(work') : i # j => work'[i] # work'[j]
    BY <2>4, <2>7
  <2>9. \A i \in 1 .. Len(done') : R(done'[i][1])
    BY <1>1, <2>1, <2>7, SMTT(30)
  <2>10. \A v \in Worker : node'[v] # None => R(node'[v])
    BY <2>3, <2>7
  <2>11. \A i, j \in 1 .. Len(done') : i # j => done'[i][1] # done'[j][1]
    BY <2>1, <2>7
  <2>12. \A i \in 1 .. Len(work'), j \in 1 .. Len(done') : work'[i] # done'[j][1]
    BY <2>1, <2>4, <2>7
  <2>13. \A v \in Worker, i \in 1 .. Len(work') : node'[v] # work'[i]
    BY <2>3, <2>4, <2>5, <2>7
  <2>14. \A v \in Worker, j \in 1 .. Len(done') : node'[v] # done'[j][1]
    <3> SUFFICES ASSUME NEW v \in Worker, NEW j \in 1 .. Len(done')
                 PROVE  node'[v] # done'[j][1]
      OBVIOUS
    <3>1. CASE v = w
      BY <2>3, <2>6, <3>1, SMTT(30)
    <3>2. CASE v # w
      BY <1>1, <2>1, <2>3, <2>7, <3>2, SMTT(30)
    <3> QED
      BY <3>1, <3>2
  <2>15. \A u, v \in Worker : u # v /\ node'[u] # None => node'[u] # node'[v]
    BY <2>3, <2>7
  <2> QED
    BY <2>4, <2>8, <2>9, <2>10, <2>11, <2>12, <2>13, <2>14, <2>15, SMTT(30) DEF Tokens, R
<1>9. InflightExact'
  <2>1. Busy' = Busy \ {w} /\ w \in Busy
    BY DEF IInv, TypeOK, Busy, Lifecycle
  <2>2. Cardinality(Busy') = Cardinality(Busy) - 1
    BY <2>1, BusyFinite, FS_RemoveElement, Zenon
  <2>3. Len(work) \in Nat
    BY DEF IInv, TypeOK
  <2>4. inflight' = inflight /\ work' = work
    OBVIOUS
  <2>5. inflight = Len(work) + Cardinality(Busy) + Len(done) /\ inflight <= batch_size
    BY DEF IInv, InflightExact
  <2>6. Len(done') = Len(done) + 1 /\ Len(done) \in Nat
    BY <1>2
  <2> HIDE DEF Report
  <2> QED
    BY <2>2, <2>3, <2>4, <2>5, <2>6, BusyFinite, SMTT(30) DEF InflightExact
<1> QED
  BY <1>3, <1>5, <1>6, <1>7, <1>8, <1>9 DEF IInv
==============================================================================
