----------------------------- MODULE BuildOrder -----------------------------
(***************************************************************************)
(* What a build promises, without drivers, workers, queues or counters:    *)
(* a task is built once, after everything it needs, at most Limit at a     *)
(* time; after the first broken task nothing new is begun; and the build   *)
(* is declared good only when the goal was cached or everything is built.  *)
(***************************************************************************)
EXTENDS Naturals, FiniteSets

CONSTANTS Task, Needs, Goal, Limit   \* Needs: <<prerequisite, task>> pairs

VARIABLES cached, state, verdict

Built(n) == state[n] = "Success"
NeedsMet(n) == \A p \in Task : <<p, n>> \in Needs => Built(p)
Building == {n \in Task : state[n] = "Running"}
NoneBroken == \A n \in Task : state[n] # "Failed"

Init ==
    /\ cached \in SUBSET Task
    /\ state = [n \in Task |-> "Pending"]
    /\ verdict = "none"

Move(n, from, to) ==
    /\ verdict = "none"
    /\ state[n] = from
    /\ state' = [state EXCEPT ![n] = to]
    /\ UNCHANGED <<cached, verdict>>

Reuse(n) == n \in cached /\ NeedsMet(n) /\ Move(n, "Pending", "Success")

Begin(n) ==
    /\ NeedsMet(n)
    /\ NoneBroken
    /\ Cardinality(Building) < Limit
    /\ Move(n, "Pending", "Running")

Finish(n) == Move(n, "Running", "Success") \/ Move(n, "Running", "Failed")

DeclareGood ==
    /\ verdict = "none"
    /\ Goal \in cached \/ \A n \in Task : Built(n)
    /\ verdict' = "ok"
    /\ UNCHANGED <<cached, state>>

DeclareBad ==
    /\ verdict = "none"
    /\ verdict' \in {"error", "cancelled"}
    /\ UNCHANGED <<cached, state>>

Next == DeclareGood \/ DeclareBad \/ \E n \in Task : Reuse(n) \/ Begin(n) \/ Finish(n)

Spec == Init /\ [][Next]_<<cached, state, verdict>>
=============================================================================
