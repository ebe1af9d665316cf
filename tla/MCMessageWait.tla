--------------------------- MODULE MCMessageWait ---------------------------
(* A process for checking MessageWait with TLC: a receive task with a boundary *)
(* timer and then one without.                                                 *)
EXTENDS MessageWait

CONSTANTS v1, v2, remind, confirm

\* A reminder that may time out leads to the confirmation.
ChainElement == [v \in {v1, v2} |-> IF v = v1 THEN remind ELSE confirm]
\* Either flow of a visit leads to the next.
NextVisit == [v \in {v1, v2} |-> IF v = v1 THEN v2 ELSE End]
=============================================================================
