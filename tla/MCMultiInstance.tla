--------------------------- MODULE MCMultiInstance ---------------------------
(* Activities for TLC: every kind, and those of the finding. *)
EXTENDS MultiInstance

MCHosts ==
  [body : {"task", "sub", "call"}, sequential : BOOLEAN, condition : BOOLEAN,
   timed : BOOLEAN, caught : BOOLEAN]

Timed == {h \in MCHosts : h.timed /\ h.body = "task" /\ h.caught /\ ~h.condition}
=============================================================================
