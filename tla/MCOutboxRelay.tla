---------------------------- MODULE MCOutboxRelay ----------------------------
(* Three events, two of them of one aggregate, two relays and one          *)
(* subscription.                                                           *)
EXTENDS OutboxRelay

CONSTANTS r1, r2, w1, a1, a2

MCEvents == 1..3
MCAggregates == {a1, a2}
MCAggregateOf == [e \in Event |-> IF e = 3 THEN a2 ELSE a1]
MCWebhooks == {w1}
MCRelays == {r1, r2}
MCPoison == {1}
=============================================================================
