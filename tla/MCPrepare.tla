------------------------------ MODULE MCPrepare ------------------------------
(* Every project over three transforms that list up to two dependencies,    *)
(* one of the possible names being unregistered: self dependencies, cycles, *)
(* diamonds, doubled and missing dependencies are all among them.          *)
EXTENDS Prepare

CONSTANTS a, b, c, m

MCAddr == {a, b, c, m}
MCRegistered == {a, b, c}
Lists == UNION {[1 .. k -> MCAddr] : k \in 0 .. 2}
MCProjects == [MCRegistered -> Lists]
=============================================================================
