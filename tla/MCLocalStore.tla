---------------------------- MODULE MCLocalStore ----------------------------
(* Two builder tasks and a pruner over two ids that share a prefix and two   *)
(* blobs.  The outputs share a blob, and one id has two possible contents   *)
(* (a build that is not reproducible).                                     *)
EXTENDS LocalStore

CONSTANTS i1, i2, d1, d2

MCPrefix == [i \in {i1, i2} |-> "p"]
MCOutput == {[id |-> i1, layers |-> {d1, d2}], [id |-> i1, layers |-> {d1}],
             [id |-> i2, layers |-> {d1}]}
=============================================================================
