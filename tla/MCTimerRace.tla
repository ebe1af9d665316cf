---------------------------- MODULE MCTimerRace ----------------------------
(* Processes for TLC: each host on its own, with a fault, a cancel and a retry, and pairs in  *)
(* a region: one of an operator's calls each, without faults.                                 *)
EXTENDS TimerRace

MCKind == [h \in Hosts |-> IF h = "choice" THEN "gate" ELSE h]
MCArmsOf ==
  [h \in Hosts |-> CASE h = "gate" -> {"m1", "m2"} [] h = "choice" -> {"m3"} [] OTHER -> {}]
MCProcesses ==
  {<<"task">>, <<"scope">>, <<"gate">>, <<"scope", "catch">>, <<"catch", "scope">>,
   <<"choice", "catch">>}
OneTask == {<<"task">>}
Bounds ==
  [p \in Processes |->
     [cancel |-> IF Len(p) = 1 \/ p[1] = "catch" THEN 1 ELSE 0,
      retry |-> IF Len(p) = 1 \/ p[1] # "catch" THEN 1 ELSE 0]]
Retry == [p \in Processes |-> [cancel |-> 0, retry |-> 1]]
Faults == [p \in Processes |-> IF Len(p) = 1 THEN 1 ELSE 0]
NoFaults == [p \in Processes |-> 0]
=============================================================================
