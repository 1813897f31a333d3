------------------------------ MODULE MCBatchJob ------------------------------
(* Two replicas and a job of three items; the second does not read back.   *)
EXTENDS BatchJob

CONSTANTS w1, w2

MCWorkers == {w1, w2}
MCItems == 0..2
MCUndecodable == {1}
=============================================================================
