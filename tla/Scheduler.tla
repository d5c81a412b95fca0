------------------------------ MODULE Scheduler ------------------------------
(***************************************************************************)
(* Graph::run of the scheduler: one driver task, a pool of worker tasks,   *)
(* two bounded channels between them and one cancellation token.           *)
(*                                                                         *)
(* The driver owns every scheduling decision: it promotes the cache hits   *)
(* it can reach from the leaves (the cascade), dispatches nodes whose      *)
(* dependencies are built, and stops dispatching at the first failure.     *)
(* A worker takes a node, walks it through the environment lifecycle       *)
(* (run_transform_lifecycle) and the interactive executor (execute) and    *)
(* posts the outcome.                                                      *)
(*                                                                         *)
(* cascade and ready are VecDeques filled in the iteration order of a      *)
(* HashMap; they are kept here as bags (node -> multiplicity), so every    *)
(* order is explored.  The two channels keep their FIFO order.             *)
(***************************************************************************)
EXTENDS Integers, Sequences, FiniteSets

CONSTANTS
    Node,       \* every transform in the graph
    Edge,       \* <<dep, dependent, k>>; k tells parallel edges apart
    Root,       \* the transform the user asked for
    Worker,     \* the worker tasks; batch_size of them
    MaxRetry,   \* bound: how often the user answers "retry" in one run
    None        \* no node, no worker

(* daggy's add_edge refuses an edge that would close a cycle, so every     *)
(* non-empty set of nodes has one without a dependency inside the set.     *)
ASSUME GraphAssumption ==
    /\ IsFiniteSet(Node) /\ IsFiniteSet(Edge)
    /\ \A e \in Edge : e[1] \in Node /\ e[2] \in Node
    /\ \A S \in SUBSET Node :
          S # {} => \E n \in S : \A e \in Edge : e[2] = n => e[1] \notin S
ASSUME RootAssumption == Root \in Node
ASSUME WorkerAssumption == IsFiniteSet(Worker) /\ Worker # {}
ASSUME NoneAssumption == None \notin Node /\ None \notin Worker
ASSUME RetryAssumption == MaxRetry \in Nat

VARIABLES
    hit,          \* nodes fetch found in the build cache (Node::cache_hit)
    status,       \* Node::status
    indegree,     \* the driver's copy of the indegree template
    cascade, ready,
    inflight, failed, first_error,
    driver,       \* where Graph::run is
    result,       \* what Graph::run returned
    work, done,   \* the two channels
    pc, node, env, outcome, \* per worker: stage, node held, environment, Result
    cancelled,    \* the CancellationToken
    console,      \* holder of the log manager's console lock
    retries       \* number of "retry" answers so far

driverVars == <<hit, indegree, cascade, ready, inflight, failed, first_error,
                driver, result>>
workerVars == <<pc, node, env, outcome, cancelled, console, retries>>
vars == <<driverVars, status, work, done, workerVars>>
-----------------------------------------------------------------------------
batch_size == Cardinality(Worker)

(* The nodes reachable from Root against the edges: the active slice that   *)
(* Graph::add collects breadth first.                                      *)
ClosedUnderDeps(S) == \A e \in Edge : e[2] \in S => e[1] \in S
subgraph ==
    {n \in Node : \A S \in SUBSET Node : Root \in S /\ ClosedUnderDeps(S) => n \in S}

(* One element per incoming edge that starts inside the subgraph; a         *)
(* dependency listed twice is two edges.                                   *)
Incoming(n) == {e \in Edge : e[2] = n /\ e[1] \in subgraph}
Deps(n) == {e[1] : e \in Incoming(n)}
Between(n, c) == {e \in Edge : e[1] = n /\ e[2] = c}

(* Faulty variant: one per parent, although the walks below go edge by edge. *)
TemplateByParent == [n \in subgraph |-> Cardinality(Deps(n))]

IndegreeTemplate == [n \in subgraph |-> Cardinality(Incoming(n))]

SaturatingSub(a, b) == IF a > b THEN a - b ELSE 0

(* The walk over the outgoing edges of n: each edge takes one from its      *)
(* child's counter and pushes the child when the counter is then zero.     *)
Decremented(n) ==
    [c \in subgraph |-> SaturatingSub(indegree[c], Cardinality(Between(n, c)))]
Pushed(n, c) ==
    Cardinality({k \in 1 .. Cardinality(Between(n, c)) : SaturatingSub(indegree[c], k) = 0})

One(n) == [c \in subgraph |-> IF c = n THEN 1 ELSE 0]
Nothing == [c \in subgraph |-> 0]
-----------------------------------------------------------------------------
Init ==
    /\ hit \in SUBSET Node
    /\ status = [n \in Node |-> "Pending"]
    /\ indegree = IndegreeTemplate
    /\ cascade = Nothing
    /\ ready = Nothing
    /\ inflight = 0
    /\ failed = FALSE
    /\ first_error = "none"
    /\ driver = "start"
    /\ result = "none"
    /\ work = <<>>
    /\ done = <<>>
    /\ pc = [w \in Worker |-> "gone"]
    /\ node = [w \in Worker |-> None]
    /\ env = [w \in Worker |-> "none"]
    /\ outcome = [w \in Worker |-> "none"]
    /\ cancelled = FALSE
    /\ console = None
    /\ retries = 0
-----------------------------------------------------------------------------
(* The driver, before the pool exists.                                      *)

(* The target itself is in the build cache: nothing to run. *)
RootIsBuilt ==
    /\ driver = "start"
    /\ Root \in hit
    /\ driver' = "returned"
    /\ result' = "ok"
    /\ UNCHANGED <<hit, indegree, cascade, ready, inflight, failed, first_error>>
    /\ UNCHANGED <<status, work, done, workerVars>>

(* The initial frontier: every node without an unbuilt dependency. *)
SeedCascade ==
    /\ driver = "start"
    /\ Root \notin hit
    /\ cascade' = [n \in subgraph |-> IF indegree[n] = 0 THEN 1 ELSE 0]
    /\ driver' = "cascade"
    /\ UNCHANGED <<hit, indegree, ready, inflight, failed, first_error, result>>
    /\ UNCHANGED <<status, work, done, workerVars>>

(* Faulty variant: the children a hit unblocks skip the cascade. *)
PromoteOneLevel(n) ==
    /\ driver = "cascade"
    /\ cascade[n] > 0
    /\ n \in hit
    /\ status' = [status EXCEPT ![n] = "Success"]
    /\ indegree' = Decremented(n)
    /\ cascade' = [cascade EXCEPT ![n] = @ - 1]
    /\ ready' = [c \in subgraph |-> ready[c] + Pushed(n, c)]
    /\ UNCHANGED <<hit, inflight, failed, first_error, driver, result>>
    /\ UNCHANGED <<work, done, workerVars>>

(* A cache hit is promoted to Success and unblocks its children, which join *)
(* the cascade.                                                            *)
Promote(n) ==
    /\ driver = "cascade"
    /\ cascade[n] > 0
    /\ n \in hit
    /\ status' = [status EXCEPT ![n] = "Success"]
    /\ indegree' = Decremented(n)
    /\ cascade' = [c \in subgraph |-> cascade[c] - One(n)[c] + Pushed(n, c)]
    /\ UNCHANGED <<hit, ready, inflight, failed, first_error, driver, result>>
    /\ UNCHANGED <<work, done, workerVars>>

(* Anything else the cascade reaches is real work. *)
Enqueue(n) ==
    /\ driver = "cascade"
    /\ cascade[n] > 0
    /\ n \notin hit
    /\ cascade' = [cascade EXCEPT ![n] = @ - 1]
    /\ ready' = [ready EXCEPT ![n] = @ + 1]
    /\ UNCHANGED <<hit, indegree, inflight, failed, first_error, driver, result>>
    /\ UNCHANGED <<status, work, done, workerVars>>

SpawnWorkers ==
    /\ driver = "cascade"
    /\ cascade = Nothing
    /\ pc' = [w \in Worker |-> "idle"]
    /\ driver' = "drive"
    /\ UNCHANGED <<hit, indegree, cascade, ready, inflight, failed, first_error, result>>
    /\ UNCHANGED <<status, work, done, node, env, outcome, cancelled, console, retries>>
-----------------------------------------------------------------------------
(* The driver loop.                                                         *)

CanDispatch ==
    /\ ready # Nothing
    /\ inflight < batch_size
    /\ ~failed
    /\ ~cancelled

(* Faulty variant: the node stays at the front of ready. *)
DispatchPeek(n) ==
    /\ driver = "drive"
    /\ CanDispatch
    /\ ready[n] > 0
    /\ status' = [status EXCEPT ![n] = "Running"]
    /\ work' = Append(work, n)
    /\ inflight' = inflight + 1
    /\ UNCHANGED <<hit, indegree, cascade, ready, failed, first_error, driver, result>>
    /\ UNCHANGED <<done, workerVars>>

Dispatch(n) ==
    /\ driver = "drive"
    /\ CanDispatch
    /\ ready[n] > 0
    /\ ready' = [ready EXCEPT ![n] = @ - 1]
    /\ status' = [status EXCEPT ![n] = "Running"]
    /\ work' = Append(work, n)
    /\ inflight' = inflight + 1
    /\ UNCHANGED <<hit, indegree, cascade, failed, first_error, driver, result>>
    /\ UNCHANGED <<done, workerVars>>

(* One completion.  A success unblocks the children unless the run is       *)
(* already winding down; an error is latched.  Both end by emptying ready   *)
(* when nothing more is to be dispatched.                                  *)
Succeed(n) ==
    /\ status' = [status EXCEPT ![n] = "Success"]
    /\ indegree' = IF failed \/ cancelled THEN indegree ELSE Decremented(n)
    /\ ready' = IF cancelled THEN Nothing
                ELSE IF failed THEN ready
                ELSE [c \in subgraph |-> ready[c] + Pushed(n, c)]
    /\ UNCHANGED <<failed, first_error>>

(* Faulty variant: dispatching stops but the error itself is dropped. *)
FailUnlatched(n, e) ==
    /\ status' = [status EXCEPT ![n] = "Failed"]
    /\ failed' = TRUE
    /\ ready' = Nothing
    /\ UNCHANGED <<indegree, first_error>>

(* Faulty variant: the error is kept but the rest of the build goes on. *)
FailSlow(n, e) ==
    /\ status' = [status EXCEPT ![n] = "Failed"]
    /\ first_error' = IF first_error = "none" THEN e ELSE first_error
    /\ UNCHANGED <<indegree, ready, failed>>

Fail(n, e) ==
    /\ status' = [status EXCEPT ![n] = "Failed"]
    /\ first_error' = IF first_error = "none" THEN e ELSE first_error
    /\ failed' = TRUE
    /\ ready' = Nothing
    /\ UNCHANGED indegree

(* Faulty variant: only a success gives its slot back. *)
CompleteKeepingSlot ==
    /\ driver = "drive"
    /\ ~CanDispatch
    /\ inflight > 0
    /\ done # <<>>
    /\ done' = Tail(done)
    /\ \/ Head(done)[2] = "ok" /\ Succeed(Head(done)[1]) /\ inflight' = inflight - 1
       \/ Head(done)[2] # "ok" /\ Fail(Head(done)[1], Head(done)[2]) /\ UNCHANGED inflight
    /\ UNCHANGED <<hit, cascade, driver, result>>
    /\ UNCHANGED <<work, workerVars>>

Complete ==
    /\ driver = "drive"
    /\ ~CanDispatch
    /\ inflight > 0
    /\ done # <<>>
    /\ done' = Tail(done)
    /\ inflight' = inflight - 1
    /\ \/ Head(done)[2] = "ok" /\ Succeed(Head(done)[1])
       \/ Head(done)[2] # "ok" /\ Fail(Head(done)[1], Head(done)[2])
    /\ UNCHANGED <<hit, cascade, driver, result>>
    /\ UNCHANGED <<work, workerVars>>

(* Nothing in flight: the loop ends and work_tx is dropped. *)
CloseWork ==
    /\ driver = "drive"
    /\ ~CanDispatch
    /\ inflight = 0
    /\ driver' = "join"
    /\ UNCHANGED <<hit, indegree, cascade, ready, inflight, failed, first_error, result>>
    /\ UNCHANGED <<status, work, done, workerVars>>

(* Every done_tx is gone while the driver still waits: recv yields None. *)
LoseWorkers ==
    /\ driver = "drive"
    /\ ~CanDispatch
    /\ inflight > 0
    /\ done = <<>>
    /\ \A w \in Worker : pc[w] = "panicked"
    /\ driver' = "returned"
    /\ result' = "error"
    /\ UNCHANGED <<hit, indegree, cascade, ready, inflight, failed, first_error>>
    /\ UNCHANGED <<status, work, done, workerVars>>

(* Every worker handle is awaited; a JoinError goes before the latched      *)
(* error, and that one before the generic cancellation.                    *)
Join ==
    /\ driver = "join"
    /\ \A w \in Worker : pc[w] \in {"gone", "panicked"}
    /\ driver' = "returned"
    /\ result' = IF \E w \in Worker : pc[w] = "panicked" THEN "error"
                 ELSE IF first_error # "none" THEN first_error
                 ELSE IF cancelled THEN "cancelled" ELSE "ok"
    /\ UNCHANGED <<hit, indegree, cascade, ready, inflight, failed, first_error>>
    /\ UNCHANGED <<status, work, done, workerVars>>

DriverStep ==
    \/ RootIsBuilt \/ SeedCascade
    \/ \E n \in subgraph : Promote(n) \/ Enqueue(n) \/ Dispatch(n)
    \/ SpawnWorkers \/ Complete \/ CloseWork \/ LoseWorkers \/ Join
-----------------------------------------------------------------------------
(* A worker task.                                                           *)

Goto(w, stage) == pc' = [pc EXCEPT ![w] = stage]
Outcome(w, o) == outcome' = [outcome EXCEPT ![w] = o]

(* Leaving the lifecycle before the environment is up skips the teardown;   *)
(* leaving it afterwards goes through down and clean.                      *)
Abort(w, o) == Goto(w, "report") /\ Outcome(w, o) /\ UNCHANGED env
(* Faulty variant: an early return out of the inner block. *)
SkipTeardown(w, o) == Goto(w, "report") /\ Outcome(w, o) /\ UNCHANGED env

Teardown(w, o) == Goto(w, "down") /\ Outcome(w, o) /\ UNCHANGED env

Receive(w) ==
    /\ pc[w] = "idle"
    /\ work # <<>>
    /\ node' = [node EXCEPT ![w] = Head(work)]
    /\ work' = Tail(work)
    /\ Goto(w, "create")
    /\ UNCHANGED <<driverVars, status, done, env, outcome, cancelled, console, retries>>

(* Faulty variant: the worker only leaves once the driver is gone. *)
ExitLate(w) ==
    /\ pc[w] = "idle"
    /\ work = <<>>
    /\ driver = "returned"
    /\ Goto(w, "gone")
    /\ UNCHANGED <<driverVars, status, work, done, node, env, outcome, cancelled,
                   console, retries>>

Exit(w) ==
    /\ pc[w] = "idle"
    /\ work = <<>>
    /\ driver = "join"
    /\ Goto(w, "gone")
    /\ UNCHANGED <<driverVars, status, work, done, node, env, outcome, cancelled,
                   console, retries>>

(* The registry lookup, the scratch directory, the log and                  *)
(* create_environment; each of them can fail.                              *)
CreateEnvironment(w) ==
    /\ pc[w] = "create"
    /\ \/ Goto(w, "setup") /\ UNCHANGED <<env, outcome>>
       \/ Abort(w, "error")
    /\ UNCHANGED <<driverVars, status, work, done, node, cancelled, console, retries>>

Setup(w) ==
    /\ pc[w] = "setup"
    /\ \/ ~cancelled /\ Goto(w, "up") /\ UNCHANGED <<env, outcome>>
       \/ ~cancelled /\ Abort(w, "error")
       \/ cancelled /\ Abort(w, "cancelled")
    /\ UNCHANGED <<driverVars, status, work, done, node, cancelled, console, retries>>

Up(w) ==
    /\ pc[w] = "up"
    /\ \/ ~cancelled /\ Goto(w, "stage") /\ env' = [env EXCEPT ![w] = "up"]
          /\ UNCHANGED outcome
       \/ ~cancelled /\ Abort(w, "error")
       \/ cancelled /\ Abort(w, "cancelled")
    /\ UNCHANGED <<driverVars, status, work, done, node, cancelled, console, retries>>

Stage(w) ==
    /\ pc[w] = "stage"
    /\ \/ ~cancelled /\ Goto(w, "execute") /\ UNCHANGED <<env, outcome>>
       \/ ~cancelled /\ Teardown(w, "error")
       \/ cancelled /\ Teardown(w, "cancelled")
    /\ UNCHANGED <<driverVars, status, work, done, node, cancelled, console, retries>>

(* The last look at the token before execute; its loop never looks again. *)
Execute(w) ==
    /\ pc[w] = "execute"
    /\ \/ ~cancelled /\ Goto(w, "transform") /\ UNCHANGED <<env, outcome>>
       \/ cancelled /\ Teardown(w, "cancelled")
    /\ UNCHANGED <<driverVars, status, work, done, node, cancelled, console, retries>>

(* One attempt: Success, or Retryable / Failed and a question to the user. *)
Transform(w) ==
    /\ pc[w] = "transform"
    /\ \/ Goto(w, "upload") /\ UNCHANGED outcome
       \/ Goto(w, "prompt") /\ \E o \in {"retryable", "failed"} : Outcome(w, o)
    /\ UNCHANGED <<driverVars, status, work, done, node, env, cancelled, console, retries>>

AcquireConsole(w) ==
    /\ pc[w] = "prompt"
    /\ console = None
    /\ console' = w
    /\ Goto(w, "ask")
    /\ UNCHANGED <<driverVars, status, work, done, node, env, outcome, cancelled, retries>>

(* "retry" is offered after a Retryable attempt only. *)
AnswerRetry(w) ==
    /\ pc[w] = "ask"
    /\ outcome[w] = "retryable"
    /\ retries < MaxRetry
    /\ retries' = retries + 1
    /\ console' = None
    /\ Goto(w, "transform")
    /\ Outcome(w, "none")
    /\ UNCHANGED <<driverVars, status, work, done, node, env, cancelled>>

AnswerQuit(w) ==
    /\ pc[w] = "ask"
    /\ cancelled' = TRUE
    /\ console' = None
    /\ Teardown(w, "error")
    /\ UNCHANGED <<driverVars, status, work, done, node, retries>>

(* Faulty variant: the attempt's own status leaves execute as it is. *)
AnswerFailsBare(w) ==
    /\ pc[w] = "ask"
    /\ console' = None
    /\ Goto(w, "down")
    /\ UNCHANGED <<driverVars, status, work, done, node, env, outcome, cancelled, retries>>

(* The prompt, the editor or the shell fails: an error without a quit. *)
AnswerFails(w) ==
    /\ pc[w] = "ask"
    /\ console' = None
    /\ Teardown(w, "error")
    /\ UNCHANGED <<driverVars, status, work, done, node, cancelled, retries>>

UploadBuild(w) ==
    /\ pc[w] = "upload"
    /\ \E o \in {"ok", "error"} : Teardown(w, o)
    /\ UNCHANGED <<driverVars, status, work, done, node, cancelled, console, retries>>

(* Errors of down and clean are swallowed. *)
Down(w) ==
    /\ pc[w] = "down"
    /\ env' = [env EXCEPT ![w] = "down"]
    /\ Goto(w, "clean")
    /\ UNCHANGED <<driverVars, status, work, done, node, outcome, cancelled, console, retries>>

Clean(w) ==
    /\ pc[w] = "clean"
    /\ env' = [env EXCEPT ![w] = "none"]
    /\ Goto(w, "report")
    /\ UNCHANGED <<driverVars, status, work, done, node, outcome, cancelled, console, retries>>

Report(w) ==
    /\ pc[w] = "report"
    /\ Len(done) < batch_size
    /\ done' = Append(done, <<node[w], outcome[w]>>)
    /\ node' = [node EXCEPT ![w] = None]
    /\ Outcome(w, "none")
    /\ Goto(w, "idle")
    /\ UNCHANGED <<driverVars, status, work, env, cancelled, console, retries>>

(* A panic anywhere in farm, environment, transform or storage code ends    *)
(* the task without a word on done_tx.                                     *)
Panic(w) ==
    /\ pc[w] \in {"create", "setup", "up", "stage", "transform", "upload", "down", "clean"}
    /\ Goto(w, "panicked")
    /\ UNCHANGED <<driverVars, status, work, done, node, env, outcome, cancelled,
                   console, retries>>

WorkerStep(w) ==
    \/ Receive(w) \/ Exit(w)
    \/ CreateEnvironment(w) \/ Setup(w) \/ Up(w) \/ Stage(w)
    \/ Execute(w) \/ Transform(w) \/ AcquireConsole(w)
    \/ AnswerRetry(w) \/ AnswerQuit(w) \/ AnswerFails(w)
    \/ UploadBuild(w) \/ Down(w) \/ Clean(w) \/ Report(w)

Next == DriverStep \/ \E w \in Worker : WorkerStep(w) \/ Panic(w)

(* tokio polls every runnable task and the user answers every question;     *)
(* nothing forces a panic.                                                 *)
Fairness == WF_vars(DriverStep) /\ \A w \in Worker : WF_vars(WorkerStep(w))

Spec == Init /\ [][Next]_vars
FairSpec == Spec /\ Fairness
-----------------------------------------------------------------------------
(* Properties                                                               *)

Lifecycle == {"create", "setup", "up", "stage", "execute", "transform", "prompt", "ask",
              "upload", "down", "clean", "report"}
Busy == {w \in Worker : pc[w] \in Lifecycle \cup {"panicked"}}

(* Every variable stays in the range the Rust types give it; in particular  *)
(* only a final Result travels on the done channel.                        *)
TypeOK ==
    /\ hit \in SUBSET Node
    /\ status \in [Node -> {"Pending", "Running", "Success", "Failed"}]
    /\ indegree \in [subgraph -> Nat]
    /\ cascade \in [subgraph -> Nat]
    /\ ready \in [subgraph -> Nat]
    /\ inflight \in Nat
    /\ failed \in BOOLEAN
    /\ first_error \in {"none", "error", "cancelled"}
    /\ driver \in {"start", "cascade", "drive", "join", "returned"}
    /\ result \in {"none", "ok", "error", "cancelled"}
    /\ work \in Seq(subgraph)
    /\ done \in Seq(subgraph \X {"ok", "error", "cancelled"})
    /\ pc \in [Worker -> Lifecycle \cup {"idle", "gone", "panicked"}]
    /\ node \in [Worker -> subgraph \cup {None}]
    /\ env \in [Worker -> {"none", "up", "down"}]
    /\ outcome \in [Worker -> {"none", "ok", "error", "cancelled", "retryable", "failed"}]
    /\ cancelled \in BOOLEAN
    /\ console \in Worker \cup {None}
    /\ retries \in 0 .. MaxRetry

(* A node that was ever dispatched or promoted has all its dependencies     *)
(* built, whatever the order of completions and however often a dependency  *)
(* is listed: the counters of Graph::add and the edge walks of Graph::run   *)
(* agree.                                                                  *)
DepsFirst ==
    \A n \in subgraph :
        status[n] # "Pending" => \A m \in Deps(n) : status[m] = "Success"

(* The status of a node only moves forward, from Pending through Running to *)
(* one terminal state; only a cache hit skips Running.  No node is          *)
(* dispatched twice and no verdict on a node is revised.                   *)
ForwardStep(n) ==
    \/ status'[n] = status[n]
    \/ status[n] = "Pending" /\ status'[n] = "Running"
    \/ status[n] = "Pending" /\ status'[n] = "Success" /\ n \in hit
    \/ status[n] = "Running" /\ status'[n] \in {"Success", "Failed"}
ForwardOnly == [][\A n \in Node : ForwardStep(n)]_vars

(* inflight is the number of nodes the driver handed out and has not heard  *)
(* back from, and never exceeds the pool: neither channel can be full when  *)
(* someone sends (the try_send of the driver is infallible).               *)
InflightExact ==
    /\ inflight = Len(work) + Cardinality(Busy) + Len(done)
    /\ inflight <= batch_size

(* Graph::run returns Ok only if the target was in the build cache or every *)
(* node of its subgraph is built, and never after a quit.                  *)
OkMeansBuilt ==
    result = "ok" =>
        \/ Root \in hit
        \/ ~cancelled /\ \A n \in subgraph : status[n] = "Success"

(* When Graph::run returns, no worker is left behind and no environment     *)
(* that came up is still up, a panicked worker's excepted.                 *)
NothingLeftBehind ==
    driver = "returned" =>
        \A w \in Worker : pc[w] # "panicked" => pc[w] = "gone" /\ env[w] = "none"

(* A subtree that is entirely in the build cache is never built: a node     *)
(* only runs if it, or something it transitively depends on, was no hit.   *)
Upstream(n) ==
    {m \in Node : \A S \in SUBSET Node : n \in S /\ ClosedUnderDeps(S) => m \in S}
NoNeedlessBuild ==
    \A n \in subgraph : status[n] \in {"Running", "Failed"} => ~(Upstream(n) \subseteq hit)

(* Graph::run is an implementation of BuildOrder. *)
Order == INSTANCE BuildOrder WITH
    Task <- subgraph, Needs <- {<<e[1], e[2]>> : e \in Edge}, Goal <- Root,
    Limit <- batch_size, cached <- hit \cap subgraph,
    state <- [n \in subgraph |-> status[n]], verdict <- result
ImplementsBuildOrder == Order!Spec

(* Graph::run returns, whatever fails and whatever the user answers, unless *)
(* a worker panics.                                                        *)
RunReturns == <>(driver = "returned" \/ \E w \in Worker : pc[w] = "panicked")
-----------------------------------------------------------------------------
(* What a comment of the code says and the code does not do.                *)

(* The comment where work_tx is dropped: workers are awaited "so panics     *)
(* surface as `JoinError`".  A run in which a worker panicked returns.     *)
PanicsSurface == (\E w \in Worker : pc[w] = "panicked") ~> driver = "returned"
=============================================================================
