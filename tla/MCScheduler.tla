---------------------------- MODULE MCScheduler ----------------------------
(* A diamond below the target a, with its last edge doubled (a dependency   *)
(* listed twice); a leaf e beside it, so that more nodes can be ready than  *)
(* there are workers; and a node x that another target brought in.          *)
EXTENDS Scheduler
CONSTANTS a, b, c, d, e, x
MCEdge == {<<d, b, 1>>, <<d, c, 1>>, <<b, a, 1>>, <<c, a, 1>>, <<c, a, 2>>, 
           <<e, a, 1>>, <<d, x, 1>>}
=============================================================================
