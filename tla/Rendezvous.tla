------------------------------ MODULE Rendezvous ------------------------------
(***************************************************************************)
(* What a message key promises, with the storage, the clocks and the       *)
(* multi-step expiry of CorrelationBroker abstracted away: every message   *)
(* is either met by one waiting instance, held until one comes or until it *)
(* lapses, or late; at most one instance waits at a time; and no message   *)
(* is met twice.                                                           *)
(***************************************************************************)
CONSTANTS Waits, Messages, None

VARIABLES
  waiting,  \* the instance that waits on the key, or None
  fate,     \* what became of each message
  taker     \* the instance a message was handed to, or None

rvars == <<waiting, fate, taker>>

Fates == {"unknown", "held", "taken", "late", "lapsed"}

RTypeOK ==
  /\ waiting \in Waits \cup {None}
  /\ fate \in [Messages -> Fates]
  /\ taker \in [Messages -> Waits \cup {None}]

RInit ==
  /\ waiting = None
  /\ fate = [m \in Messages |-> "unknown"]
  /\ taker = [m \in Messages |-> None]

Take(m, w) ==
  /\ fate' = [fate EXCEPT ![m] = "taken"]
  /\ taker' = [taker EXCEPT ![m] = w]

\* A new message meets the instance that waits.
Meet(m) ==
  /\ fate[m] = "unknown"
  /\ waiting # None
  /\ Take(m, waiting)
  /\ waiting' = None

\* An instance comes and finds a message held for it; it does not wait.
Collect(m, w) ==
  /\ fate[m] = "held"
  /\ waiting = None
  /\ Take(m, w)
  /\ UNCHANGED waiting

\* A new message finds nobody it can be given to, now or (late) any more.
Hold(m) ==
  /\ fate[m] = "unknown"
  /\ fate' = [fate EXCEPT ![m] = "held"]
  /\ UNCHANGED <<waiting, taker>>

Refuse(m) ==
  /\ fate[m] = "unknown"
  /\ waiting = None
  /\ fate' = [fate EXCEPT ![m] = "late"]
  /\ UNCHANGED <<waiting, taker>>

Lapse(m) ==
  /\ fate[m] = "held"
  /\ fate' = [fate EXCEPT ![m] = "lapsed"]
  /\ UNCHANGED <<waiting, taker>>

\* An instance starts to wait, or gives up.
Wait(w) ==
  /\ waiting = None
  /\ waiting' = w
  /\ UNCHANGED <<fate, taker>>

GiveUp ==
  /\ waiting # None
  /\ waiting' = None
  /\ UNCHANGED <<fate, taker>>

RNext ==
  \/ \E m \in Messages : Meet(m) \/ Hold(m) \/ Refuse(m) \/ Lapse(m)
  \/ \E m \in Messages, w \in Waits : Collect(m, w)
  \/ \E w \in Waits : Wait(w)
  \/ GiveUp

RSpec == RInit /\ [][RNext]_rvars
=============================================================================
