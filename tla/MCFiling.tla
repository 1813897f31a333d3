------------------------------ MODULE MCFiling ------------------------------
(* Two people who may both prepare and review, one obligation, two figures *)
(* and two attempts: enough for every answer to meet a second submission.  *)
EXTENDS Filing
=============================================================================
