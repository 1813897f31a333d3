---------------------------- MODULE MCIdempotency ----------------------------
(* Three calls on one key: a request, its retry, and a request with        *)
(* another body that reuses the key.                                       *)
EXTENDS Idempotency

CONSTANTS k1, c1, c2, c3, d1, d2

MCKey == {k1}
MCCall == {c1, c2, c3}
MCDigest == {d1, d2}
MCKeyOf == [c \in MCCall |-> k1]
MCDigestOf == [c \in MCCall |-> IF c = c3 THEN d2 ELSE d1]
=============================================================================
