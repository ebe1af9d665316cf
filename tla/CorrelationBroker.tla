-------------------------- MODULE CorrelationBroker --------------------------
(***************************************************************************)
(* One CorrelationBroker Durable Object: the serialization point of one    *)
(* (workspace, messageName, correlationKey).  It holds at most one active  *)
(* subscription, the messages that arrived early, what it answered to each *)
(* messageId, and the marker of a consumed key.                            *)
(*                                                                         *)
(* The object is single threaded and its input gate stays shut across      *)
(* storage operations, so the code between two awaits of D1 is one step.   *)
(* Only expireDue awaits D1 (an UPDATE and an INSERT per lapsed message):  *)
(* there the gate opens and another call may run.  The `now` of a call is  *)
(* the clock of its caller, read before the call was sent.                 *)
(***************************************************************************)
EXTENDS Integers, FiniteSets

CONSTANTS
  Waits,      \* the (instanceId, elementId) pairs that may wait on this key
  Messages,   \* the messageIds that may be published to this key
  Calls,      \* slots for calls in flight to the object at the same time
  AlarmCall,  \* the slot of the object's own alarm handler
  None,       \* absent from storage
  TTL,        \* ONE_HOUR_MS, in ticks: lifetime of a subscription or a buffered message
  LastSend,   \* bound: no call is sent after this time
  MaxTime,    \* bound: the clock stops here
  MaxFaults   \* bound: D1 writes of expireDue that fail

ASSUME DistinctSlots == AlarmCall \notin Calls
ASSUME NoneIsFresh == None \notin Waits \cup Messages /\ None \notin Int
ASSUME ClockBounds == TTL \in Nat \ {0} /\ LastSend \in Nat /\ MaxTime \in Nat
ASSUME FaultBound == MaxFaults \in Nat

VARIABLES
  sub,       \* SUB_KEY: the waiting pair and when its subscription lapses
  consumed,  \* CONSUMED_KEY: the pair that last took a message, or None
  buffer,    \* buffer:<messageId>: when the message was received, or None
  dedup,     \* dedup:<messageId>: the outcome answered for the messageId
  alarm,     \* the object's alarm, or None
  calls,     \* per slot, the call being executed
  marked,    \* D1: messages whose row was set to final_outcome 'expired'
  recorded,  \* D1: number of messageExpired history rows per message
  handed,    \* history: the waits a message was answered "correlated" for
  now,       \* wall clock
  faults     \* D1 failures so far

storage == <<sub, consumed, buffer, dedup, handed>>
d1 == <<marked, recorded>>
vars == <<storage, alarm, calls, d1, now, faults>>

Slots == Calls \cup {AlarmCall}
Outcomes == {"none", "buffered", "correlated", "late", "expired"}
Ops == {"register", "publish", "supersede", "sweep", "alarm"}
Statuses == {"waiting", "rejected", "correlated", "buffered", "late",
             "duplicate", "done", "error"}

NoSub == [holder |-> None, expiresAt |-> 0]
Idle == [phase |-> "idle", op |-> "sweep", arg |-> None, at |-> 0,
         due |-> {}, lapsing |-> None, status |-> "done"]

Buffered == {m \in Messages : buffer[m] # None}
LapsesAt(m) == buffer[m] + TTL                         \* of a buffered message
Due(t) == {m \in Buffered : LapsesAt(m) <= t}
Live(t) == Buffered \ Due(t)
EarliestLive(t) == {m \in Live(t) : \A n \in Live(t) : buffer[m] <= buffer[n]}

-----------------------------------------------------------------------------
(* The bodies of the calls, each one block of storage operations. *)

Answer(c, req, status) ==
  calls' = [calls EXCEPT ![c] = [req EXCEPT !.phase = "answered", !.due = {},
                                            !.lapsing = None, !.status = status]]

\* registerSubscription after expireDue: a registration repeated by the holder,
\* one refused because another wait holds the key, one that takes the earliest
\* buffered message, one that opens the key.
Reregister(c, req) ==
  /\ sub.holder = req.arg
  /\ Answer(c, req, "waiting")
  /\ UNCHANGED storage

RefuseRegistration(c, req) ==
  /\ sub.holder \notin {None, req.arg}
  /\ Answer(c, req, "rejected")
  /\ UNCHANGED storage

KeepsTakenMessage(c, req) ==            \* mutant: the buffer entry is not deleted
  /\ sub.holder = None
  /\ \E m \in EarliestLive(req.at) :
       /\ dedup' = [dedup EXCEPT ![m] = "correlated"]
       /\ handed' = [handed EXCEPT ![m] = @ \cup {req.arg}]
  /\ consumed' = req.arg
  /\ Answer(c, req, "correlated")
  /\ UNCHANGED <<sub, buffer>>

ConsumeBuffered(c, req) ==
  /\ sub.holder = None
  /\ \E m \in EarliestLive(req.at) :
       /\ buffer' = [buffer EXCEPT ![m] = None]
       /\ dedup' = [dedup EXCEPT ![m] = "correlated"]
       /\ handed' = [handed EXCEPT ![m] = @ \cup {req.arg}]
  /\ consumed' = req.arg
  /\ Answer(c, req, "correlated")
  /\ UNCHANGED sub

SubscribesBlindly(c, req) ==            \* mutant: the buffer is not looked at
  /\ sub.holder = None
  /\ consumed' = None
  /\ sub' = [holder |-> req.arg, expiresAt |-> req.at + TTL]
  /\ Answer(c, req, "waiting")
  /\ UNCHANGED <<buffer, dedup, handed>>

Subscribe(c, req) ==
  /\ sub.holder = None
  /\ Live(req.at) = {}
  /\ consumed' = None
  /\ sub' = [holder |-> req.arg, expiresAt |-> req.at + TTL]
  /\ Answer(c, req, "waiting")
  /\ UNCHANGED <<buffer, dedup, handed>>

Register(c, req) ==
  /\ UNCHANGED d1
  /\ \/ Reregister(c, req)
     \/ RefuseRegistration(c, req)
     \/ ConsumeBuffered(c, req)
     \/ Subscribe(c, req)

\* scheduleAlarm: keep the earlier of the armed alarm and t.
EarlierAlarm(armed, t) == IF armed = None \/ armed > t THEN t ELSE armed

\* publishMessage after expireDue: a repeated messageId, a message for the wait
\* that holds the key, one for a key already consumed, an early one.
LiveSub(t) == sub.holder # None /\ sub.expiresAt > t

AnswerDuplicate(c, req) ==
  /\ dedup[req.arg] # "none"
  /\ Answer(c, req, "duplicate")
  /\ UNCHANGED storage

MeetsAgain(c, req) ==                   \* mutant: only "correlated" is a duplicate
  /\ dedup[req.arg] # "correlated"
  /\ LiveSub(req.at)
  /\ sub' = NoSub
  /\ consumed' = sub.holder
  /\ dedup' = [dedup EXCEPT ![req.arg] = "correlated"]
  /\ handed' = [handed EXCEPT ![req.arg] = @ \cup {sub.holder}]
  /\ Answer(c, req, "correlated")
  /\ UNCHANGED buffer

KeepsSubscription(c, req) ==            \* mutant: the subscription is not deleted
  /\ dedup[req.arg] = "none"
  /\ LiveSub(req.at)
  /\ consumed' = sub.holder
  /\ dedup' = [dedup EXCEPT ![req.arg] = "correlated"]
  /\ handed' = [handed EXCEPT ![req.arg] = @ \cup {sub.holder}]
  /\ Answer(c, req, "correlated")
  /\ UNCHANGED <<sub, buffer>>

MeetSubscription(c, req) ==
  /\ dedup[req.arg] = "none"
  /\ LiveSub(req.at)
  /\ sub' = NoSub
  /\ consumed' = sub.holder
  /\ dedup' = [dedup EXCEPT ![req.arg] = "correlated"]
  /\ handed' = [handed EXCEPT ![req.arg] = @ \cup {sub.holder}]
  /\ Answer(c, req, "correlated")
  /\ UNCHANGED buffer

RecordLate(c, req) ==
  /\ dedup[req.arg] = "none"
  /\ ~LiveSub(req.at)
  /\ consumed # None
  /\ dedup' = [dedup EXCEPT ![req.arg] = "late"]
  /\ Answer(c, req, "late")
  /\ UNCHANGED <<sub, consumed, buffer, handed>>

BufferMessage(c, req) ==
  /\ dedup[req.arg] = "none"
  /\ ~LiveSub(req.at)
  /\ consumed = None
  /\ buffer' = [buffer EXCEPT ![req.arg] = req.at]
  /\ dedup' = [dedup EXCEPT ![req.arg] = "buffered"]
  /\ Answer(c, req, "buffered")
  /\ UNCHANGED <<sub, consumed, handed>>

Publish(c, req, armed) ==
  /\ UNCHANGED d1
  /\ \/ /\ \/ AnswerDuplicate(c, req)
           \/ MeetSubscription(c, req)
           \/ RecordLate(c, req)
        /\ alarm' = armed
     \/ /\ BufferMessage(c, req)
        /\ alarm' = EarlierAlarm(armed, req.at + TTL)

NeverRearms(c, armed) ==                \* mutant: the alarm is armed once only
  /\ alarm' = armed
  /\ calls' = [calls EXCEPT ![c] = Idle]
  /\ UNCHANGED <<storage, d1>>

\* rearmAlarm, and the end of the alarm handler.
Rearm(c, armed) ==
  /\ \/ /\ Buffered = {}
        /\ alarm' = armed
     \/ \E m \in Buffered :
          /\ \A n \in Buffered : buffer[m] <= buffer[n]
          /\ alarm' = LapsesAt(m)
  /\ calls' = [calls EXCEPT ![c] = Idle]
  /\ UNCHANGED <<storage, d1>>

\* What a call does once nothing is left to expire.
Serve(c, req, armed) ==
  \/ req.op = "register" /\ Register(c, req) /\ alarm' = armed
  \/ req.op = "publish" /\ Publish(c, req, armed)
  \/ req.op = "sweep" /\ Answer(c, req, "done") /\ alarm' = armed
                      /\ UNCHANGED <<storage, d1>>
  \/ req.op = "alarm" /\ Rearm(c, armed)

-----------------------------------------------------------------------------
(* expireDue: a snapshot of the buffered messages, then one at a time. *)

\* Storage part of one lapsed message; the code then awaits its UPDATE in D1.
ExpireOne(c, req, armed) ==
  \E m \in req.due :
    /\ buffer' = [buffer EXCEPT ![m] = None]
    /\ dedup' = [dedup EXCEPT ![m] = "expired"]
    /\ calls' = [calls EXCEPT ![c] = [req EXCEPT !.phase = "marking",
                                                 !.due = @ \ {m},
                                                 !.lapsing = m]]
    /\ alarm' = armed
    /\ UNCHANGED <<sub, consumed, handed, d1>>

\* From the head of the loop to the next await of D1, or to the answer.
RunBlock(c, req, armed) ==
  IF req.due = {} THEN Serve(c, req, armed) ELSE ExpireOne(c, req, armed)

LosesMessage(c) ==                      \* mutant: the row is marked, its message let go
  /\ calls[c].phase = "marking"
  /\ marked' = marked \cup {calls[c].lapsing}
  /\ calls' = [calls EXCEPT ![c].phase = "recording", ![c].lapsing = None]
  /\ UNCHANGED <<storage, alarm, recorded, now, faults>>

SkipsRow(c) ==                          \* mutant: only history learns of the expiry
  /\ calls[c].phase = "marking"
  /\ calls' = [calls EXCEPT ![c].phase = "recording"]
  /\ UNCHANGED <<storage, alarm, d1, now, faults>>

\* The UPDATE of external_messages returned; the history INSERT is sent.
RowMarked(c) ==
  /\ calls[c].phase = "marking"
  /\ marked' = marked \cup {calls[c].lapsing}
  /\ calls' = [calls EXCEPT ![c].phase = "recording"]
  /\ UNCHANGED <<storage, alarm, recorded, now, faults>>

\* The history INSERT returned: on to the next lapsed message.
HistoryRecorded(c) ==
  /\ calls[c].phase = "recording"
  /\ recorded' = [recorded EXCEPT ![calls[c].lapsing] = @ + 1]
  /\ calls' = [calls EXCEPT ![c].phase = "resuming"]
  /\ UNCHANGED <<storage, alarm, marked, now, faults>>

\* The object runs on after the INSERT (other calls may have run meanwhile).
Resume(c) ==
  /\ calls[c].phase = "resuming"
  /\ RunBlock(c, calls[c], alarm)
  /\ UNCHANGED <<now, faults>>

\* A D1 write fails, or the object is reset: the call throws.  The runtime
\* fires a failed alarm again.
Fail(c) ==
  /\ calls[c].phase \in {"marking", "recording", "resuming"}
  /\ faults < MaxFaults
  /\ faults' = faults + 1
  /\ IF c = AlarmCall
     THEN /\ calls' = [calls EXCEPT ![c] = Idle]
          /\ alarm' = IF alarm = None THEN now ELSE alarm
     ELSE /\ Answer(c, calls[c], "error")
          /\ UNCHANGED alarm
  /\ UNCHANGED <<storage, d1, now>>

-----------------------------------------------------------------------------
(* Callers, the alarm and the clock. *)

\* A caller reads its clock and sends a call.
Send(c, op, arg) ==
  /\ calls[c].phase = "idle"
  /\ now <= LastSend
  /\ calls' = [calls EXCEPT ![c] = [Idle EXCEPT !.phase = "sent", !.op = op,
                                                !.arg = arg, !.at = now]]
  /\ UNCHANGED <<storage, alarm, d1, now, faults>>

\* The call reaches the object, which snapshots the due messages.
Arrive(c) ==
  /\ calls[c].phase = "sent"
  /\ calls[c].op # "supersede"
  /\ RunBlock(c, [calls[c] EXCEPT !.due = Due(calls[c].at)], alarm)
  /\ UNCHANGED <<now, faults>>

\* supersedeSubscription: drop the subscription if it is still the caller's.
Supersede(c) ==
  /\ calls[c].phase = "sent"
  /\ calls[c].op = "supersede"
  /\ sub' = IF sub.holder = calls[c].arg THEN NoSub ELSE sub
  /\ Answer(c, calls[c], "done")
  /\ UNCHANGED <<consumed, buffer, dedup, handed, alarm, d1, now, faults>>

\* The caller has its answer.
Receive(c) ==
  /\ calls[c].phase = "answered"
  /\ calls' = [calls EXCEPT ![c] = Idle]
  /\ UNCHANGED <<storage, alarm, d1, now, faults>>

\* The alarm fires; getAlarm reads null while its handler runs.
AlarmFires ==
  /\ alarm # None
  /\ alarm <= now
  /\ calls[AlarmCall].phase = "idle"
  /\ RunBlock(AlarmCall, [Idle EXCEPT !.op = "alarm", !.at = now, !.due = Due(now)], None)
  /\ UNCHANGED <<now, faults>>

Tick ==
  /\ now < MaxTime
  /\ now' = now + 1
  /\ UNCHANGED <<storage, alarm, calls, d1, faults>>

Init ==
  /\ sub = NoSub
  /\ consumed = None
  /\ buffer = [m \in Messages |-> None]
  /\ dedup = [m \in Messages |-> "none"]
  /\ alarm = None
  /\ calls = [c \in Slots |-> Idle]
  /\ marked = {}
  /\ recorded = [m \in Messages |-> 0]
  /\ handed = [m \in Messages |-> {}]
  /\ now = 0
  /\ faults = 0

Next ==
  \/ \E c \in Calls, w \in Waits : Send(c, "register", w) \/ Send(c, "supersede", w)
  \/ \E c \in Calls, m \in Messages : Send(c, "publish", m)
  \/ \E c \in Calls : Send(c, "sweep", None)
  \/ \E c \in Calls : Arrive(c) \/ Supersede(c) \/ Receive(c)
  \/ \E c \in Slots : RowMarked(c) \/ HistoryRecorded(c) \/ Resume(c) \/ Fail(c)
  \/ AlarmFires
  \/ Tick

\* The runtime keeps running a call it accepted, fires a due alarm, and time passes.
Fairness ==
  /\ \A c \in Slots : WF_vars(RowMarked(c) \/ HistoryRecorded(c) \/ Resume(c))
  /\ WF_vars(AlarmFires)
  /\ WF_vars(Tick)

Spec == Init /\ [][Next]_vars
FairSpec == Spec /\ Fairness

-----------------------------------------------------------------------------
(* What the object promises. *)

CallRecord == [phase: {"idle", "sent", "marking", "recording", "resuming", "answered"},
               op: Ops, arg: Waits \cup Messages \cup {None}, at: Nat,
               due: SUBSET Messages, lapsing: Messages \cup {None}, status: Statuses]

\* A call in flight carries what its operation needs, and no time to come.
WellFormed(req) ==
  /\ req.op \in {"register", "supersede"} => req.arg \in Waits
  /\ req.op = "publish" => req.arg \in Messages
  /\ req.phase \in {"marking", "recording", "resuming"} => req.lapsing \in Messages
  /\ req.at <= now

\* Every stored value, and every call in flight, has the shape the object gives it.
TypeOK ==
  /\ sub \in [holder: Waits \cup {None}, expiresAt: Nat]
  /\ consumed \in Waits \cup {None}
  /\ buffer \in [Messages -> Nat \cup {None}]
  /\ dedup \in [Messages -> Outcomes]
  /\ alarm \in Nat \cup {None}
  /\ calls \in [Slots -> CallRecord]
  /\ \A c \in Slots : WellFormed(calls[c])
  /\ marked \in SUBSET Messages
  /\ recorded \in [Messages -> Nat]
  /\ handed \in [Messages -> SUBSET Waits]
  /\ now \in Nat
  /\ faults \in Nat

\* A publisher is told "buffered" exactly while the message really waits in
\* the object: publish, register and a concurrent expireDue keep the buffer
\* entry and the deduplication record in step.
BufferedIffKept == \A m \in Messages : dedup[m] = "buffered" <=> m \in Buffered

\* A message is handed to at most one waiting instance, however often it is
\* published and however registrations, publishes and expiries interleave.
HandedOnce == \A m \in Messages : \A v, w \in handed[m] : v = w

\* The consumed marker, which turns a publish into a late one, never coexists
\* with a subscription: a fresh registration re-opens the key.
ConsumedExcludesSub == sub.holder # None => consumed = None

\* The rendezvous is complete: a subscription that has not lapsed never waits
\* beside a buffered message that has not lapsed.
NoMissedRendezvous ==
  sub.holder # None /\ sub.expiresAt > now => Live(now) = {}

\* A buffered message is never forgotten by the alarm: one is armed, or its
\* handler is running and will arm one.
AlarmCoversBuffer ==
  Buffered # {} => alarm # None \/ calls[AlarmCall].phase # "idle"

\* Only a message answered "correlated" was handed to a wait; an expiry that ran
\* on from an old snapshot may overwrite that answer, never one of these.
UnhandedOutcome ==
  \A m \in Messages : dedup[m] \in {"none", "buffered", "late"} => handed[m] = {}

\* A message recorded late or expired is never handed to a wait afterwards,
\* whatever snapshot a call of expireDue still holds.
NoResurrection ==
  [][\A m \in Messages : dedup[m] \in {"late", "expired"} => handed'[m] = handed[m]]_vars

\* Every buffered message is eventually handed to a wait or expired: the alarm
\* is armed for it and armed again after each run of its handler.
BufferDrains == \A m \in Messages : m \in Buffered ~> m \notin Buffered

\* As long as D1 answers, every message the object expires is eventually
\* reported expired there, in the operator's source of record.
ExpiryReachesD1 ==
  \A m \in Messages : dedup[m] = "expired" ~> m \in marked \/ faults > 0

\* The conjunction of the above that every step preserves.
IInv ==
  /\ TypeOK
  /\ BufferedIffKept
  /\ HandedOnce
  /\ UnhandedOutcome
  /\ ConsumedExcludesSub
  /\ NoMissedRendezvous
  /\ AlarmCoversBuffer

\* The object implements the abstract rendezvous: seen through what it answers
\* "correlated" for, its blocks of storage operations are single steps of it.
A == INSTANCE Rendezvous WITH
  waiting <- sub.holder,
  fate <- [m \in Messages |->
             IF handed[m] # {} THEN "taken"
             ELSE CASE dedup[m] = "none" -> "unknown"
                    [] dedup[m] = "buffered" -> "held"
                    [] dedup[m] = "late" -> "late"
                    [] OTHER -> "lapsed"],
  taker <- [m \in Messages |->
              IF handed[m] = {} THEN None ELSE CHOOSE w \in Waits : w \in handed[m]]

ImplementsRendezvous == A!RSpec

=============================================================================
