----------------------------- MODULE MCS3Store -----------------------------
(* Two clients of one bucket, two ids of one prefix that share a blob.       *)
EXTENDS S3Store

CONSTANTS i1, i2, d1, d2

MCPrefix == [i \in {i1, i2} |-> "p"]
MCOutput == {[id |-> i1, layers |-> {d1, d2}], [id |-> i2, layers |-> {d1}]}
=============================================================================
