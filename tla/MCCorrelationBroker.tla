------------------------- MODULE MCCorrelationBroker -------------------------
(* Model values and bounds for checking CorrelationBroker with TLC. *)
EXTENDS CorrelationBroker

CONSTANTS w1, w2, m1, m2, c1

MCWaits == {w1, w2}
MCMessages == {m1, m2}
MCCalls == {c1}
=============================================================================
