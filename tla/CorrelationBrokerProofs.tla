----------------------- MODULE CorrelationBrokerProofs -----------------------
(***************************************************************************)
(* Theorems about CorrelationBroker for any number of instances, messages  *)
(* and concurrent calls, any TTL, any clock bound and any number of D1     *)
(* failures.                                                               *)
(***************************************************************************)
EXTENDS CorrelationBroker, TLAPS

USE DistinctSlots, NoneIsFresh, ClockBounds, FaultBound

\* A call as Arrive, Resume and AlarmFires hand it to RunBlock.
GoodCall(c, req) ==
  /\ c \in Slots
  /\ req \in CallRecord
  /\ WellFormed(req)

\* The only calls RunBlock is given: the stored call, with or without a fresh
\* snapshot, and the alarm handler's.
LEMMA GoodCalls ==
  ASSUME TypeOK
  PROVE  /\ \A c \in Slots : GoodCall(c, calls[c])
         /\ \A c \in Slots : GoodCall(c, [calls[c] EXCEPT !.due = Due(calls[c].at)])
         /\ GoodCall(AlarmCall, [Idle EXCEPT !.op = "alarm", !.at = now, !.due = Due(now)])
<1> DEFINE fresh(c) == [calls[c] EXCEPT !.due = Due(calls[c].at)]
           alarming == [Idle EXCEPT !.op = "alarm", !.at = now, !.due = Due(now)]
<1>1. \A t : Due(t) \subseteq Messages
  BY DEF Due, Buffered
<1>2. \A c \in Slots : GoodCall(c, calls[c])
  BY DEF TypeOK, GoodCall
<1>3. \A c \in Slots : GoodCall(c, fresh(c))
  <2> SUFFICES ASSUME NEW c \in Slots PROVE GoodCall(c, fresh(c))
    OBVIOUS
  <2>1. calls[c] \in CallRecord /\ WellFormed(calls[c])
    BY DEF TypeOK
  <2>2. fresh(c) \in CallRecord
    BY <1>1, <2>1 DEF CallRecord
  <2>3. WellFormed(fresh(c))
    BY <2>1 DEF WellFormed, CallRecord
  <2> QED BY <2>2, <2>3 DEF GoodCall
<1>4. GoodCall(AlarmCall, alarming)
  <2>1. Idle \in CallRecord /\ now \in Nat
    BY DEF Idle, CallRecord, Ops, Statuses, TypeOK
  <2>2. alarming \in CallRecord
    BY <1>1, <2>1 DEF CallRecord, Ops
  <2>3. WellFormed(alarming)
    BY <2>1 DEF WellFormed, Idle
  <2> QED BY <2>2, <2>3 DEF GoodCall, Slots
<1> QED BY <1>2, <1>3, <1>4

\* An answer leaves every call well formed.
LEMMA AnswerType ==
  ASSUME TypeOK, NEW c, NEW req, GoodCall(c, req), NEW status \in Statuses,
         now' = now, Answer(c, req, status)
  PROVE  /\ calls' \in [Slots -> CallRecord]
         /\ \A s \in Slots : WellFormed(calls[s])'
  BY DEF TypeOK, GoodCall, CallRecord, WellFormed, Answer

\* One block of the object's code keeps every stored value in its type.
LEMMA RunBlockType ==
  ASSUME TypeOK, NEW c, NEW req, GoodCall(c, req), NEW armed \in Nat \cup {None},
         RunBlock(c, req, armed), UNCHANGED <<now, faults>>
  PROVE  TypeOK'
<1>1. CASE req.due # {}
  <2>1. ExpireOne(c, req, armed)
    BY <1>1 DEF RunBlock
  <2>2. PICK m \in req.due :
          /\ buffer' = [buffer EXCEPT ![m] = None]
          /\ dedup' = [dedup EXCEPT ![m] = "expired"]
          /\ calls' = [calls EXCEPT ![c] = [req EXCEPT !.phase = "marking",
                                                       !.due = @ \ {m}, !.lapsing = m]]
    BY <2>1 DEF ExpireOne
  <2>3. m \in Messages
    BY DEF GoodCall, CallRecord
  <2>4. /\ calls' \in [Slots -> CallRecord]
        /\ \A s \in Slots : WellFormed(calls[s])'
    BY <2>2, <2>3 DEF TypeOK, GoodCall, CallRecord, WellFormed
  <2> QED BY <2>1, <2>2, <2>3, <2>4 DEF ExpireOne, TypeOK, Outcomes, d1
<1>2. CASE req.due = {} /\ req.op = "register"
  <2>1. Register(c, req) /\ alarm' = armed
    BY <1>2 DEF RunBlock, Serve
  <2>2. req.arg \in Waits /\ req.at \in Nat
    BY <1>2 DEF GoodCall, WellFormed, CallRecord
  <2>3. \E status \in Statuses : Answer(c, req, status)
    BY <2>1 DEF Register, Reregister, RefuseRegistration, ConsumeBuffered, Subscribe, Statuses
  <2>4. /\ calls' \in [Slots -> CallRecord]
        /\ \A s \in Slots : WellFormed(calls[s])'
    BY <2>3, AnswerType
  <2>5. /\ sub' \in [holder: Waits \cup {None}, expiresAt: Nat]
        /\ consumed' \in Waits \cup {None}
        /\ buffer' \in [Messages -> Nat \cup {None}]
        /\ dedup' \in [Messages -> Outcomes]
        /\ handed' \in [Messages -> SUBSET Waits]
    BY <2>1, <2>2 DEF Register, Reregister, RefuseRegistration, ConsumeBuffered,
        Subscribe, TypeOK, storage, Outcomes, EarliestLive, Live, Buffered
  <2> QED BY <2>1, <2>4, <2>5 DEF Register, Reregister, RefuseRegistration,
      ConsumeBuffered, Subscribe, TypeOK, d1
<1>3. CASE req.due = {} /\ req.op = "publish"
  <2>1. Publish(c, req, armed)
    BY <1>3 DEF RunBlock, Serve
  <2>2. req.arg \in Messages /\ req.at \in Nat
    BY <1>3 DEF GoodCall, WellFormed, CallRecord
  <2>3. \E status \in Statuses : Answer(c, req, status)
    BY <2>1 DEF Publish, AnswerDuplicate, MeetSubscription, RecordLate, BufferMessage,
        LiveSub, Statuses
  <2>4. /\ calls' \in [Slots -> CallRecord]
        /\ \A s \in Slots : WellFormed(calls[s])'
    BY <2>3, AnswerType
  <2>5. /\ sub' \in [holder: Waits \cup {None}, expiresAt: Nat]
        /\ consumed' \in Waits \cup {None}
        /\ buffer' \in [Messages -> Nat \cup {None}]
        /\ dedup' \in [Messages -> Outcomes]
        /\ handed' \in [Messages -> SUBSET Waits]
        /\ alarm' \in Nat \cup {None}
    BY <2>1, <2>2 DEF Publish, AnswerDuplicate, MeetSubscription, RecordLate,
        BufferMessage, LiveSub, TypeOK, storage, Outcomes, NoSub, EarlierAlarm
  <2> QED BY <2>1, <2>4, <2>5 DEF Publish, AnswerDuplicate, MeetSubscription,
      RecordLate, BufferMessage, LiveSub, TypeOK, d1
<1>4. CASE req.due = {} /\ req.op = "sweep"
  <2>1. /\ Answer(c, req, "done") /\ alarm' = armed
        /\ UNCHANGED <<storage, d1>>
    BY <1>4 DEF RunBlock, Serve
  <2>2. /\ calls' \in [Slots -> CallRecord]
        /\ \A s \in Slots : WellFormed(calls[s])'
    BY <2>1, AnswerType DEF Statuses
  <2> QED BY <2>1, <2>2 DEF TypeOK, storage, d1
<1>5. CASE req.due = {} /\ req.op = "alarm"
  <2>1. Rearm(c, armed)
    BY <1>5 DEF RunBlock, Serve
  <2>2. alarm' \in Nat \cup {None}
    BY <2>1 DEF Rearm, TypeOK, Buffered, LapsesAt
  <2>3. /\ calls' \in [Slots -> CallRecord]
        /\ \A s \in Slots : WellFormed(calls[s])'
    BY <2>1 DEF Rearm, TypeOK, CallRecord, WellFormed, Idle, Ops, Statuses, GoodCall
  <2> QED BY <2>1, <2>2, <2>3 DEF Rearm, TypeOK, storage, d1
<1>6. CASE req.due = {} /\ req.op \notin {"register", "publish", "sweep", "alarm"}
  BY <1>6 DEF RunBlock, Serve
<1> QED BY <1>1, <1>2, <1>3, <1>4, <1>5, <1>6

\* Init establishes the types.
LEMMA InitType == Init => TypeOK
<1> SUFFICES ASSUME Init PROVE TypeOK
  OBVIOUS
<1>1. Idle \in CallRecord /\ (now = 0 => WellFormed(Idle))
  BY DEF Idle, CallRecord, Ops, Statuses, WellFormed
<1> QED BY <1>1 DEF Init, TypeOK, NoSub, Outcomes

\* Every step of the object, its callers and the clock keeps the types.
LEMMA NextType == TypeOK /\ [Next]_vars => TypeOK'
<1> SUFFICES ASSUME TypeOK, [Next]_vars PROVE TypeOK'
  OBVIOUS
<1> USE DEF storage, d1
<1>1. ASSUME NEW c \in Calls, NEW op \in Ops, NEW arg \in Waits \cup Messages \cup {None},
             Send(c, op, arg),
             op \in {"register", "supersede"} => arg \in Waits,
             op = "publish" => arg \in Messages
      PROVE  TypeOK'
  <2> DEFINE req == [Idle EXCEPT !.phase = "sent", !.op = op, !.arg = arg, !.at = now]
  <2>1. Idle \in CallRecord /\ now \in Nat
    BY DEF Idle, CallRecord, Ops, Statuses, TypeOK
  <2>2. req \in CallRecord
    BY <2>1 DEF CallRecord
  <2>3. req.phase = "sent" /\ req.op = op /\ req.arg = arg /\ req.at = now
    BY DEF Idle
  <2>4. WellFormed(req)
    BY <1>1, <2>1, <2>3 DEF WellFormed
  <2> HIDE DEF req
  <2>5. calls' = [calls EXCEPT ![c] = req] /\ now' = now
    BY <1>1 DEF Send, req
  <2>6. \A s \in Slots : WellFormed(calls[s])'
    BY <2>4, <2>5 DEF WellFormed, TypeOK
  <2>7. calls' \in [Slots -> CallRecord]
    BY <2>2, <2>5 DEF TypeOK
  <2>8. UNCHANGED <<storage, alarm, d1, now, faults>>
    BY <1>1 DEF Send
  <2> QED BY <2>6, <2>7, <2>8 DEF TypeOK
<1>2. ASSUME NEW c \in Calls, Arrive(c) PROVE TypeOK'
  BY <1>2, GoodCalls, RunBlockType DEF Arrive, TypeOK, Slots
<1>3. ASSUME NEW c \in Calls, Supersede(c) PROVE TypeOK'
  <2>1. Answer(c, calls[c], "done") /\ UNCHANGED <<now, faults>>
    BY <1>3 DEF Supersede
  <2>2. /\ calls' \in [Slots -> CallRecord]
        /\ \A s \in Slots : WellFormed(calls[s])'
    BY <2>1, GoodCalls, AnswerType DEF Slots, Statuses
  <2> QED BY <1>3, <2>2 DEF Supersede, TypeOK, NoSub
<1>4. ASSUME NEW c \in Calls, Receive(c) PROVE TypeOK'
  <2>1. Idle \in CallRecord /\ WellFormed(Idle)'
    BY <1>4 DEF Idle, CallRecord, Ops, Statuses, TypeOK, WellFormed, Receive
  <2> QED BY <1>4, <2>1 DEF Receive, TypeOK, WellFormed
<1>5. ASSUME NEW c \in Slots, RowMarked(c) PROVE TypeOK'
  <2>1. calls[c].lapsing \in Messages
    BY <1>5 DEF RowMarked, TypeOK, WellFormed
  <2> QED BY <1>5, <2>1 DEF RowMarked, TypeOK, WellFormed, CallRecord
<1>6. ASSUME NEW c \in Slots, HistoryRecorded(c) PROVE TypeOK'
  BY <1>6 DEF HistoryRecorded, TypeOK, WellFormed, CallRecord
<1>7. ASSUME NEW c \in Slots, Resume(c) PROVE TypeOK'
  BY <1>7, GoodCalls, RunBlockType DEF Resume, TypeOK
<1>8. ASSUME NEW c \in Slots, Fail(c) PROVE TypeOK'
  <2>1. CASE c = AlarmCall
    <3>1. Idle \in CallRecord /\ WellFormed(Idle)'
      BY <1>8 DEF Idle, CallRecord, Ops, Statuses, TypeOK, WellFormed, Fail, d1
    <3>2. calls' = [calls EXCEPT ![c] = Idle] /\ alarm' \in Nat \cup {None} /\ now' = now
      BY <1>8, <2>1 DEF Fail, TypeOK, d1, storage
    <3>3. \A s \in Slots : WellFormed(calls[s])'
      BY <3>1, <3>2 DEF TypeOK, WellFormed
    <3> QED BY <1>8, <3>1, <3>2, <3>3 DEF Fail, TypeOK
  <2>2. CASE c # AlarmCall
    <3>1. Answer(c, calls[c], "error") /\ UNCHANGED <<alarm, now>>
      BY <1>8, <2>2 DEF Fail
    <3>2. /\ calls' \in [Slots -> CallRecord]
          /\ \A s \in Slots : WellFormed(calls[s])'
      BY <3>1, GoodCalls, AnswerType DEF Statuses
    <3> QED BY <1>8, <3>1, <3>2 DEF Fail, TypeOK
  <2> QED BY <2>1, <2>2
<1>9. CASE AlarmFires
  BY <1>9, GoodCalls, RunBlockType DEF AlarmFires, TypeOK
<1>10. CASE Tick
  BY <1>10 DEF Tick, TypeOK, WellFormed, CallRecord
<1>11. CASE UNCHANGED vars
  BY <1>11 DEF vars, TypeOK, WellFormed
<1> QED BY <1>1, <1>2, <1>3, <1>4, <1>5, <1>6, <1>7, <1>8, <1>9, <1>10, <1>11 DEF Next, Ops

\* TypeOK holds in every reachable state.
THEOREM TypeCorrect == Spec => []TypeOK
  BY InitType, NextType, PTL DEF Spec

-----------------------------------------------------------------------------
(* Safety: the inductive invariant. *)

\* The conjuncts of IInv about the object's storage alone.
StorageInv ==
  /\ BufferedIffKept
  /\ HandedOnce
  /\ UnhandedOutcome
  /\ ConsumedExcludesSub
  /\ NoMissedRendezvous

\* They read nothing but the storage and the clock.
LEMMA StorageInvUnchanged ==
  ASSUME StorageInv, UNCHANGED <<storage, now>>
  PROVE  StorageInv'
  BY DEF StorageInv, storage, BufferedIffKept, HandedOnce, UnhandedOutcome, ConsumedExcludesSub,
         NoMissedRendezvous, Buffered, Live, Due, LapsesAt

\* Removing a lapsed message in expireDue preserves them, however old the snapshot.
LEMMA ExpireOneSafe ==
  ASSUME TypeOK, StorageInv, NEW c, NEW req, GoodCall(c, req), NEW armed,
         ExpireOne(c, req, armed), now' = now
  PROVE  StorageInv'
<1>1. PICK m \in req.due :
        /\ buffer' = [buffer EXCEPT ![m] = None]
        /\ dedup' = [dedup EXCEPT ![m] = "expired"]
  BY DEF ExpireOne
<1>2. m \in Messages
  BY DEF GoodCall, CallRecord
<1>3. UNCHANGED <<sub, consumed, handed>>
  BY DEF ExpireOne
<1>4. BufferedIffKept'
  BY <1>1, <1>2 DEF TypeOK, StorageInv, BufferedIffKept, Buffered
<1>5. UnhandedOutcome'
  BY <1>1, <1>2, <1>3 DEF TypeOK, StorageInv, UnhandedOutcome
<1>6. NoMissedRendezvous'
  BY <1>1, <1>2, <1>3 DEF TypeOK, StorageInv, NoMissedRendezvous, Live, Due, Buffered, LapsesAt
<1> QED BY <1>3, <1>4, <1>5, <1>6 DEF StorageInv, HandedOnce, ConsumedExcludesSub

\* A registration preserves them: the clock of its caller may be old, never ahead.
LEMMA RegisterSafe ==
  ASSUME TypeOK, StorageInv, NEW c, NEW req, GoodCall(c, req), req.op = "register",
         Register(c, req), now' = now
  PROVE  StorageInv'
<1>1. req.arg \in Waits /\ req.at \in Nat /\ req.at <= now /\ now \in Nat
  BY DEF GoodCall, WellFormed, CallRecord, TypeOK
<1>2. CASE UNCHANGED storage
  BY <1>2, StorageInvUnchanged DEF storage
<1>3. ASSUME NEW m \in EarliestLive(req.at),
             sub.holder = None,
             buffer' = [buffer EXCEPT ![m] = None],
             dedup' = [dedup EXCEPT ![m] = "correlated"],
             handed' = [handed EXCEPT ![m] = @ \cup {req.arg}],
             consumed' = req.arg,
             UNCHANGED sub
      PROVE  StorageInv'
  <2>1. m \in Messages /\ m \in Buffered
    BY DEF EarliestLive, Live, Buffered
  <2>2. dedup[m] = "buffered" /\ handed[m] = {}
    BY <2>1 DEF StorageInv, BufferedIffKept, UnhandedOutcome
  <2>3. BufferedIffKept'
    BY <1>3, <2>1 DEF TypeOK, StorageInv, BufferedIffKept, Buffered
  <2>4. HandedOnce'
    BY <1>3, <2>1, <2>2 DEF TypeOK, StorageInv, HandedOnce
  <2>5. UnhandedOutcome'
    BY <1>3, <2>1 DEF TypeOK, StorageInv, UnhandedOutcome
  <2> QED BY <1>3, <2>3, <2>4, <2>5 DEF StorageInv, ConsumedExcludesSub, NoMissedRendezvous
<1>4. CASE /\ Live(req.at) = {}
           /\ consumed' = None
           /\ sub' = [holder |-> req.arg, expiresAt |-> req.at + TTL]
           /\ UNCHANGED <<buffer, dedup, handed>>
  <2>1. Live(now) = {}
    BY <1>1, <1>4 DEF Live, Due, Buffered, LapsesAt, TypeOK
  <2>2. NoMissedRendezvous'
    BY <1>4, <2>1 DEF NoMissedRendezvous, Live, Due, Buffered, LapsesAt
  <2> QED BY <1>4, <2>2 DEF StorageInv, BufferedIffKept, Buffered, HandedOnce, UnhandedOutcome,
                            ConsumedExcludesSub
<1> QED BY <1>2, <1>3, <1>4 DEF Register, Reregister, RefuseRegistration,
    ConsumeBuffered, Subscribe

\* A publish preserves them.
LEMMA PublishSafe ==
  ASSUME TypeOK, StorageInv, NEW c, NEW req, GoodCall(c, req), req.op = "publish", NEW armed,
         Publish(c, req, armed), now' = now
  PROVE  StorageInv'
<1> DEFINE m == req.arg
<1>1. m \in Messages /\ req.at \in Nat /\ req.at <= now /\ now \in Nat
  BY DEF GoodCall, WellFormed, CallRecord, TypeOK
<1>2. CASE UNCHANGED storage
  BY <1>2, StorageInvUnchanged DEF storage
<1>3. ASSUME dedup[m] = "none"
      PROVE  m \notin Buffered /\ handed[m] = {}
  BY <1>1, <1>3 DEF StorageInv, BufferedIffKept, UnhandedOutcome
<1>4. CASE /\ dedup[m] = "none"
           /\ sub.holder # None
           /\ sub' = NoSub
           /\ consumed' = sub.holder
           /\ dedup' = [dedup EXCEPT ![m] = "correlated"]
           /\ handed' = [handed EXCEPT ![m] = @ \cup {sub.holder}]
           /\ UNCHANGED buffer
  <2>1. BufferedIffKept'
    BY <1>1, <1>3, <1>4 DEF TypeOK, StorageInv, BufferedIffKept, Buffered
  <2>2. HandedOnce'
    BY <1>1, <1>3, <1>4 DEF TypeOK, StorageInv, HandedOnce
  <2>3. UnhandedOutcome'
    BY <1>1, <1>4 DEF TypeOK, StorageInv, UnhandedOutcome
  <2> QED BY <1>4, <2>1, <2>2, <2>3 DEF StorageInv, NoSub, ConsumedExcludesSub, NoMissedRendezvous
<1>5. CASE /\ dedup[m] = "none"
           /\ dedup' = [dedup EXCEPT ![m] = "late"]
           /\ UNCHANGED <<sub, consumed, buffer, handed>>
  <2>1. BufferedIffKept'
    BY <1>1, <1>3, <1>5 DEF TypeOK, StorageInv, BufferedIffKept, Buffered
  <2>2. UnhandedOutcome'
    BY <1>1, <1>3, <1>5 DEF TypeOK, StorageInv, UnhandedOutcome
  <2> QED BY <1>5, <2>1, <2>2 DEF StorageInv, HandedOnce, ConsumedExcludesSub,
                                  NoMissedRendezvous, Live, Due, Buffered, LapsesAt
<1>6. CASE /\ dedup[m] = "none"
           /\ ~(sub.holder # None /\ sub.expiresAt > req.at)
           /\ buffer' = [buffer EXCEPT ![m] = req.at]
           /\ dedup' = [dedup EXCEPT ![m] = "buffered"]
           /\ UNCHANGED <<sub, consumed, handed>>
  <2>1. BufferedIffKept'
    BY <1>1, <1>6 DEF TypeOK, StorageInv, BufferedIffKept, Buffered
  <2>2. UnhandedOutcome'
    BY <1>1, <1>3, <1>6 DEF TypeOK, StorageInv, UnhandedOutcome
  <2>3. NoMissedRendezvous'
    BY <1>1, <1>6 DEF TypeOK, NoMissedRendezvous
  <2> QED BY <1>6, <2>1, <2>2, <2>3 DEF StorageInv, HandedOnce, ConsumedExcludesSub
<1> QED BY <1>2, <1>4, <1>5, <1>6 DEF Publish, AnswerDuplicate, MeetSubscription,
    RecordLate, BufferMessage, LiveSub

\* So does every block of the object's code.
LEMMA RunBlockSafe ==
  ASSUME TypeOK, StorageInv, NEW c, NEW req, GoodCall(c, req), NEW armed,
         RunBlock(c, req, armed), now' = now
  PROVE  StorageInv'
<1>1. CASE req.due # {}
  BY <1>1, ExpireOneSafe DEF RunBlock
<1>2. CASE req.op = "register" /\ Register(c, req)
  BY <1>2, RegisterSafe
<1>3. CASE req.op = "publish" /\ Publish(c, req, armed)
  BY <1>3, PublishSafe
<1>4. CASE UNCHANGED storage
  BY <1>4, StorageInvUnchanged DEF storage
<1> QED BY <1>1, <1>2, <1>3, <1>4 DEF RunBlock, Serve, Rearm

\* Every step preserves the storage invariants; time alone only lapses things.
LEMMA StorageInvStep == TypeOK /\ StorageInv /\ [Next]_vars => StorageInv'
<1> SUFFICES ASSUME TypeOK, StorageInv, [Next]_vars PROVE StorageInv'
  OBVIOUS
<1>1. CASE UNCHANGED <<storage, now>>
  BY <1>1, StorageInvUnchanged
<1>2. ASSUME NEW c \in Calls, Arrive(c) PROVE StorageInv'
  BY <1>2, GoodCalls, RunBlockSafe DEF Arrive, Slots
<1>3. ASSUME NEW c \in Calls, Supersede(c) PROVE StorageInv'
  BY <1>3 DEF Supersede, StorageInv, NoSub, BufferedIffKept, HandedOnce, UnhandedOutcome,
              ConsumedExcludesSub, NoMissedRendezvous, Buffered, Live, Due, LapsesAt
<1>4. ASSUME NEW c \in Slots, Resume(c) PROVE StorageInv'
  BY <1>4, GoodCalls, RunBlockSafe DEF Resume
<1>5. CASE AlarmFires
  BY <1>5, GoodCalls, RunBlockSafe DEF AlarmFires
<1>6. CASE Tick
  <2>1. now \in Nat /\ now' = now + 1 /\ UNCHANGED storage
    BY <1>6 DEF Tick, TypeOK
  <2>2. NoMissedRendezvous'
    BY <2>1 DEF storage, TypeOK, StorageInv, NoMissedRendezvous, Live, Due, Buffered, LapsesAt
  <2> QED BY <2>1, <2>2 DEF storage, StorageInv, BufferedIffKept, Buffered, HandedOnce,
                            UnhandedOutcome, ConsumedExcludesSub
<1>7. CASE \E c \in Slots : RowMarked(c) \/ HistoryRecorded(c) \/ Fail(c)
  BY <1>7, <1>1 DEF RowMarked, HistoryRecorded, Fail
<1>8. CASE \/ \E c \in Calls, op \in Ops, arg \in Waits \cup Messages \cup {None} : Send(c, op, arg)
           \/ \E c \in Calls : Receive(c)
           \/ UNCHANGED vars
  BY <1>8, <1>1 DEF Send, Receive, vars
<1> QED BY <1>2, <1>3, <1>4, <1>5, <1>6, <1>7, <1>8 DEF Next, Ops

\* A block of the object's code never leaves a buffered message without an alarm,
\* except while the alarm's handler is still running.
LEMMA RunBlockAlarm ==
  ASSUME TypeOK, AlarmCoversBuffer, NEW c, NEW req, GoodCall(c, req), NEW armed,
         RunBlock(c, req, armed), c # AlarmCall => armed = alarm
  PROVE  AlarmCoversBuffer'
<1>1. AlarmCall \in Slots /\ c \in Slots
  BY DEF GoodCall, Slots
<1>2. CASE c # AlarmCall
  <2>1. calls'[AlarmCall] = calls[AlarmCall]
    BY <1>1, <1>2 DEF RunBlock, Serve, Register, Reregister, RefuseRegistration,
        ConsumeBuffered, Subscribe, Publish, AnswerDuplicate, MeetSubscription,
        RecordLate, BufferMessage, LiveSub, Rearm, ExpireOne, Answer, TypeOK
  <2>2. CASE alarm' = alarm /\ Buffered' \subseteq Buffered
    BY <2>1, <2>2 DEF AlarmCoversBuffer
  <2>3. CASE alarm' # None
    BY <2>3 DEF AlarmCoversBuffer
  <2>4. CASE ExpireOne(c, req, armed)
    <3>1. Buffered' \subseteq Buffered
      BY <2>4 DEF ExpireOne, Buffered, TypeOK
    <3> QED BY <1>2, <2>2, <2>4, <3>1 DEF ExpireOne
  <2>5. CASE Register(c, req) /\ alarm' = armed
    <3>1. Buffered' \subseteq Buffered
      BY <2>5 DEF Register, Reregister, RefuseRegistration, ConsumeBuffered, Subscribe,
          Buffered, TypeOK, storage
    <3> QED BY <1>2, <2>2, <2>5, <3>1
  <2>6. CASE Publish(c, req, armed) /\ req.op = "publish"
    <3>1. CASE buffer' = buffer /\ alarm' = armed
      BY <1>2, <2>2, <3>1 DEF Buffered
    <3>2. CASE alarm' = EarlierAlarm(armed, req.at + TTL)
      <4>1. req.at + TTL \in Nat
        BY DEF GoodCall, CallRecord
      <4>2. alarm' # None
        BY <3>2, <4>1, <1>2 DEF EarlierAlarm, TypeOK
      <4> QED BY <2>3, <4>2
    <3> QED BY <2>6, <3>1, <3>2 DEF Publish, AnswerDuplicate, MeetSubscription,
        RecordLate, BufferMessage, LiveSub, storage
  <2>7. CASE UNCHANGED storage /\ alarm' = armed
    BY <1>2, <2>2, <2>7 DEF storage, Buffered
  <2>8. CASE Rearm(c, armed)
    <3>1. Buffered' = Buffered
      BY <2>8 DEF Rearm, storage, Buffered
    <3>2. \A m \in Buffered : LapsesAt(m) # None
      BY DEF Buffered, LapsesAt, TypeOK
    <3> QED BY <2>3, <2>8, <3>1, <3>2 DEF Rearm, AlarmCoversBuffer
  <2> QED BY <2>4, <2>5, <2>6, <2>7, <2>8 DEF RunBlock, Serve
<1>3. CASE c = AlarmCall
  <2>1. CASE calls'[c].phase # "idle"
    BY <1>3, <2>1 DEF AlarmCoversBuffer
  <2>2. CASE ExpireOne(c, req, armed)
    <3>1. calls'[c].phase = "marking"
      BY <1>1, <2>2 DEF ExpireOne, TypeOK, GoodCall, CallRecord
    <3> QED BY <2>1, <3>1
  <2>3. ASSUME NEW status, Answer(c, req, status) PROVE AlarmCoversBuffer'
    <3>1. calls'[c].phase = "answered"
      BY <1>1, <2>3 DEF Answer, TypeOK, GoodCall, CallRecord
    <3> QED BY <2>1, <3>1
  <2>4. CASE Rearm(c, armed)
    <3>1. Buffered' = Buffered
      BY <2>4 DEF Rearm, storage, Buffered
    <3>2. \A m \in Buffered : LapsesAt(m) # None
      BY DEF Buffered, LapsesAt, TypeOK
    <3> QED BY <2>4, <3>1, <3>2 DEF Rearm, AlarmCoversBuffer
  <2> QED BY <2>2, <2>3, <2>4 DEF RunBlock, Serve, Register, Reregister,
      RefuseRegistration, ConsumeBuffered, Subscribe, Publish, AnswerDuplicate,
      MeetSubscription, RecordLate, BufferMessage, LiveSub
<1> QED BY <1>2, <1>3

\* Every step preserves the cover of the buffer by the alarm.
LEMMA AlarmStep == TypeOK /\ AlarmCoversBuffer /\ [Next]_vars => AlarmCoversBuffer'
<1> SUFFICES ASSUME TypeOK, AlarmCoversBuffer, [Next]_vars PROVE AlarmCoversBuffer'
  OBVIOUS
<1>1. AlarmCall \in Slots /\ \A c \in Calls : c \in Slots /\ c # AlarmCall
  BY DEF Slots
<1>2. ASSUME NEW c \in Slots, UNCHANGED <<buffer, alarm>>,
             calls'[AlarmCall] = calls[AlarmCall] \/ calls'[AlarmCall].phase # "idle"
      PROVE  AlarmCoversBuffer'
  BY <1>2 DEF AlarmCoversBuffer, Buffered
<1>3. ASSUME NEW c \in Calls, Arrive(c) PROVE AlarmCoversBuffer'
  BY <1>1, <1>3, GoodCalls, RunBlockAlarm DEF Arrive
<1>4. ASSUME NEW c \in Slots, Resume(c) PROVE AlarmCoversBuffer'
  BY <1>4, GoodCalls, RunBlockAlarm DEF Resume
<1>5. CASE AlarmFires
  BY <1>5, GoodCalls, RunBlockAlarm DEF AlarmFires
<1>6. ASSUME NEW c \in Calls, Supersede(c) PROVE AlarmCoversBuffer'
  BY <1>1, <1>2, <1>6 DEF Supersede, Answer, TypeOK
<1>7. ASSUME NEW c \in Calls, Receive(c) PROVE AlarmCoversBuffer'
  BY <1>1, <1>2, <1>7 DEF Receive, TypeOK, storage
<1>8. ASSUME NEW c \in Slots, RowMarked(c) \/ HistoryRecorded(c) PROVE AlarmCoversBuffer'
  BY <1>1, <1>2, <1>8 DEF RowMarked, HistoryRecorded, TypeOK, CallRecord, storage
<1>9. ASSUME NEW c \in Slots, Fail(c) PROVE AlarmCoversBuffer'
  <2>1. CASE c = AlarmCall
    BY <1>9, <2>1 DEF Fail, AlarmCoversBuffer, TypeOK
  <2>2. CASE c # AlarmCall
    BY <1>1, <1>2, <1>9, <2>2 DEF Fail, Answer, TypeOK, storage
  <2> QED BY <2>1, <2>2
<1>10. ASSUME NEW c \in Calls, NEW op, NEW arg, Send(c, op, arg) PROVE AlarmCoversBuffer'
  BY <1>1, <1>2, <1>10 DEF Send, TypeOK, storage
<1>11. CASE Tick \/ UNCHANGED vars
  BY <1>11 DEF Tick, vars, storage, AlarmCoversBuffer, Buffered
<1> QED BY <1>3, <1>4, <1>5, <1>6, <1>7, <1>8, <1>9, <1>10, <1>11 DEF Next

\* The inductive invariant holds in every reachable state.
THEOREM Invariance == Spec => []IInv
<1>1. Init => IInv
  <2> SUFFICES ASSUME Init PROVE IInv
    OBVIOUS
  <2>1. TypeOK
    BY InitType
  <2>2. Buffered = {}
    BY DEF Init, Buffered
  <2> QED BY <2>1, <2>2 DEF Init, IInv, NoSub, BufferedIffKept, HandedOnce, UnhandedOutcome,
                            ConsumedExcludesSub, NoMissedRendezvous, AlarmCoversBuffer
<1>2. IInv /\ [Next]_vars => IInv'
  BY NextType, StorageInvStep, AlarmStep DEF IInv, StorageInv
<1> QED BY <1>1, <1>2, PTL DEF Spec

\* A publisher told "buffered" has its message in the object, and conversely.
THEOREM BufferedIffKeptAlways == Spec => []BufferedIffKept
<1>1. IInv => BufferedIffKept
  BY DEF IInv
<1> QED BY <1>1, Invariance, PTL

\* No message is ever handed to two waiting instances.
THEOREM HandedOnceAlways == Spec => []HandedOnce
<1>1. IInv => HandedOnce
  BY DEF IInv
<1> QED BY <1>1, Invariance, PTL

\* No unlapsed subscription ever waits beside an unlapsed buffered message.
THEOREM NoMissedRendezvousAlways == Spec => []NoMissedRendezvous
<1>1. IInv => NoMissedRendezvous
  BY DEF IInv
<1> QED BY <1>1, Invariance, PTL

\* A buffered message always has an alarm to come, or the handler running.
THEOREM AlarmCoversBufferAlways == Spec => []AlarmCoversBuffer
<1>1. IInv => AlarmCoversBuffer
  BY DEF IInv
<1> QED BY <1>1, Invariance, PTL

-----------------------------------------------------------------------------
(* Action properties. *)

\* One step never hands over a message recorded late or expired.
LEMMA NoResurrectionStep ==
  ASSUME IInv, [Next]_vars
  PROVE  \A m \in Messages : dedup[m] \in {"late", "expired"} => handed'[m] = handed[m]
<1>1. CASE UNCHANGED handed
  BY <1>1
<1>2. ASSUME NEW c, NEW req, GoodCall(c, req), req.op = "register", Register(c, req)
      PROVE  \A m \in Messages : dedup[m] \in {"late", "expired"} => handed'[m] = handed[m]
  <2>1. CASE \E m \in EarliestLive(req.at) : handed' = [handed EXCEPT ![m] = @ \cup {req.arg}]
    <3>1. PICK m \in EarliestLive(req.at) : handed' = [handed EXCEPT ![m] = @ \cup {req.arg}]
      BY <2>1
    <3>2. dedup[m] = "buffered"
      BY DEF IInv, BufferedIffKept, EarliestLive, Live, Buffered
    <3> QED BY <3>1, <3>2 DEF IInv, TypeOK
  <2> QED BY <1>1, <1>2, <2>1 DEF Register, Reregister, RefuseRegistration,
      ConsumeBuffered, Subscribe, storage
<1>3. ASSUME NEW c, NEW req, NEW armed, Publish(c, req, armed)
      PROVE  \A m \in Messages : dedup[m] \in {"late", "expired"} => handed'[m] = handed[m]
  <2>1. CASE dedup[req.arg] = "none" /\ handed' = [handed EXCEPT ![req.arg] = @ \cup {sub.holder}]
    BY <2>1 DEF IInv, TypeOK
  <2> QED BY <1>1, <1>3, <2>1 DEF Publish, AnswerDuplicate, MeetSubscription,
      RecordLate, BufferMessage, LiveSub, storage
<1>4. ASSUME NEW c, NEW req, NEW armed, GoodCall(c, req), RunBlock(c, req, armed)
      PROVE  \A m \in Messages : dedup[m] \in {"late", "expired"} => handed'[m] = handed[m]
  BY <1>1, <1>2, <1>3, <1>4 DEF RunBlock, Serve, ExpireOne, Rearm, storage
<1>5. TypeOK
  BY DEF IInv
<1>6. ASSUME NEW c \in Calls, Arrive(c)
      PROVE  \A m \in Messages : dedup[m] \in {"late", "expired"} => handed'[m] = handed[m]
  BY <1>4, <1>5, <1>6, GoodCalls DEF Arrive, Slots
<1>7. ASSUME NEW c \in Slots, Resume(c)
      PROVE  \A m \in Messages : dedup[m] \in {"late", "expired"} => handed'[m] = handed[m]
  BY <1>4, <1>5, <1>7, GoodCalls DEF Resume
<1>8. CASE AlarmFires
  BY <1>4, <1>5, <1>8, GoodCalls DEF AlarmFires
<1> QED BY <1>1, <1>6, <1>7, <1>8
        DEF Next, Send, Supersede, Receive, RowMarked, HistoryRecorded, Fail, Tick, vars, storage

\* A message recorded late or expired is never handed to a wait afterwards.
THEOREM NoResurrectionAlways == Spec => NoResurrection
<1>1. IInv /\ [Next]_vars
        => [\A m \in Messages : dedup[m] \in {"late", "expired"} => handed'[m] = handed[m]]_vars
  BY NoResurrectionStep
<1> QED BY <1>1, Invariance, PTL DEF Spec, NoResurrection

-----------------------------------------------------------------------------
(* CorrelationBroker implements Rendezvous: what every call was answered, in  *)
(* whatever order calls, expiries and failures interleave, is a behaviour of  *)
(* the abstract key.                                                          *)

\* The refinement mapping of A, by name.
Fate == [m \in Messages |->
           IF handed[m] # {} THEN "taken"
           ELSE CASE dedup[m] = "none" -> "unknown"
                  [] dedup[m] = "buffered" -> "held"
                  [] dedup[m] = "late" -> "late"
                  [] OTHER -> "lapsed"]

Taker == [m \in Messages |->
            IF handed[m] = {} THEN None ELSE CHOOSE w \in Waits : w \in handed[m]]

\* What the mapping rests on besides IInv: a snapshot of expireDue names messages
\* that were buffered once, and "correlated" is only answered to hand over.
SnapshotsKnown ==
  \A c \in Slots : \A m \in calls[c].due : dedup[m] \notin {"none", "late"}

CorrelatedHanded == \A m \in Messages : dedup[m] = "correlated" => handed[m] # {}

MapInv == IInv /\ SnapshotsKnown /\ CorrelatedHanded

\* A call as RunBlock is given it, with a snapshot of known messages.
KnownCall(c, req) ==
  /\ GoodCall(c, req)
  /\ \A m \in req.due : dedup[m] \notin {"none", "late"}

\* The calls RunBlock is given have such snapshots.
LEMMA KnownCalls ==
  ASSUME MapInv
  PROVE  /\ \A c \in Slots : KnownCall(c, calls[c])
         /\ \A c \in Slots : KnownCall(c, [calls[c] EXCEPT !.due = Due(calls[c].at)])
         /\ KnownCall(AlarmCall, [Idle EXCEPT !.op = "alarm", !.at = now, !.due = Due(now)])
<1>1. TypeOK
  BY DEF MapInv, IInv
<1>2. \A t : \A m \in Due(t) : dedup[m] \notin {"none", "late"}
  BY DEF MapInv, IInv, BufferedIffKept, Due, Buffered
<1>3. \A c \in Slots : KnownCall(c, calls[c])
  BY <1>1, GoodCalls DEF MapInv, SnapshotsKnown, KnownCall
<1>4. \A c \in Slots : KnownCall(c, [calls[c] EXCEPT !.due = Due(calls[c].at)])
  <2> SUFFICES ASSUME NEW c \in Slots
               PROVE  KnownCall(c, [calls[c] EXCEPT !.due = Due(calls[c].at)])
    OBVIOUS
  <2>1. calls[c] \in CallRecord
    BY <1>1 DEF TypeOK
  <2>2. [calls[c] EXCEPT !.due = Due(calls[c].at)].due = Due(calls[c].at)
    BY <2>1 DEF CallRecord
  <2> QED BY <1>1, <1>2, <2>2, GoodCalls DEF KnownCall
<1>5. KnownCall(AlarmCall, [Idle EXCEPT !.op = "alarm", !.at = now, !.due = Due(now)])
  BY <1>1, <1>2, GoodCalls DEF KnownCall, Idle
<1> QED BY <1>3, <1>4, <1>5

-----------------------------------------------------------------------------
(* What may happen to the storage, as the mapping sees it. *)

\* One block of storage operations: a registration or a publish hands over, a message is
\* recorded or lapses, a subscription opens or closes, or nothing changes.
Consumes(m, w) ==
  /\ m \in Buffered /\ sub.holder = None /\ w \in Waits
  /\ dedup' = [dedup EXCEPT ![m] = "correlated"]
  /\ handed' = [handed EXCEPT ![m] = @ \cup {w}]
  /\ UNCHANGED sub

Meets(m) ==
  /\ m \in Messages /\ dedup[m] = "none" /\ sub.holder # None
  /\ sub' = NoSub
  /\ dedup' = [dedup EXCEPT ![m] = "correlated"]
  /\ handed' = [handed EXCEPT ![m] = @ \cup {sub.holder}]

Answers(m, outcome) ==
  /\ m \in Messages /\ dedup[m] = "none"
  /\ outcome = "late" \/ outcome = "buffered"
  /\ outcome = "late" => consumed # None
  /\ dedup' = [dedup EXCEPT ![m] = outcome]
  /\ UNCHANGED <<sub, handed>>

Expires(m) ==
  /\ m \in Messages /\ dedup[m] \notin {"none", "late"}
  /\ dedup' = [dedup EXCEPT ![m] = "expired"]
  /\ UNCHANGED <<sub, handed>>

Opens(w) ==
  /\ w \in Waits /\ sub.holder = None /\ sub'.holder = w
  /\ UNCHANGED <<dedup, handed>>

Closes == sub' = NoSub /\ UNCHANGED <<dedup, handed>>

Stays == UNCHANGED <<sub, dedup, handed>>

StorageStep ==
  \/ \E m \in Messages : Meets(m) \/ Expires(m) \/ Answers(m, "late") \/ Answers(m, "buffered")
  \/ \E m \in Messages, w \in Waits : Consumes(m, w)
  \/ \E w \in Waits : Opens(w)
  \/ Closes
  \/ Stays

\* A block of the object's code is one of them.
LEMMA RunBlockStep ==
  ASSUME TypeOK, NEW c, NEW req, KnownCall(c, req), NEW armed, RunBlock(c, req, armed)
  PROVE  StorageStep
<1>1. CASE req.due # {}
  <2>1. PICK m \in req.due : /\ dedup' = [dedup EXCEPT ![m] = "expired"]
                             /\ UNCHANGED <<sub, handed>>
    BY <1>1 DEF RunBlock, ExpireOne
  <2>2. Expires(m) /\ m \in Messages
    BY <2>1 DEF Expires, KnownCall, GoodCall, CallRecord
  <2> QED BY <2>2 DEF StorageStep
<1>2. CASE req.op = "register" /\ Register(c, req)
  <2>1. req.arg \in Waits
    BY <1>2 DEF KnownCall, GoodCall, WellFormed
  <2>2. CASE Reregister(c, req) \/ RefuseRegistration(c, req)
    BY <2>2 DEF Reregister, RefuseRegistration, storage, StorageStep, Stays
  <2>3. CASE ConsumeBuffered(c, req)
    <3>1. PICK m \in EarliestLive(req.at) :
            /\ dedup' = [dedup EXCEPT ![m] = "correlated"]
            /\ handed' = [handed EXCEPT ![m] = @ \cup {req.arg}]
      BY <2>3 DEF ConsumeBuffered
    <3>2. m \in Messages /\ Consumes(m, req.arg)
      BY <2>1, <2>3, <3>1 DEF ConsumeBuffered, Consumes, EarliestLive, Live, Buffered
    <3> QED BY <2>1, <3>2 DEF StorageStep
  <2>4. CASE Subscribe(c, req)
    BY <2>1, <2>4 DEF Subscribe, StorageStep, Opens
  <2> QED BY <1>2, <2>2, <2>3, <2>4 DEF Register
<1>3. CASE req.op = "publish" /\ Publish(c, req, armed)
  <2>1. req.arg \in Messages
    BY <1>3 DEF KnownCall, GoodCall, WellFormed
  <2>2. CASE AnswerDuplicate(c, req)
    BY <2>2 DEF AnswerDuplicate, storage, StorageStep, Stays
  <2>3. CASE MeetSubscription(c, req)
    BY <2>1, <2>3 DEF MeetSubscription, LiveSub, StorageStep, Meets
  <2>4. CASE RecordLate(c, req)
    BY <2>1, <2>4 DEF RecordLate, StorageStep, Answers
  <2>5. CASE BufferMessage(c, req)
    BY <2>1, <2>5 DEF BufferMessage, StorageStep, Answers
  <2> QED BY <1>3, <2>2, <2>3, <2>4, <2>5 DEF Publish
<1>4. CASE UNCHANGED storage
  BY <1>4 DEF storage, StorageStep, Stays
<1> QED BY <1>1, <1>2, <1>3, <1>4 DEF RunBlock, Serve, Rearm

\* So is every step of the system.
LEMMA EveryStep == MapInv /\ [Next]_vars => StorageStep
<1> SUFFICES ASSUME MapInv, [Next]_vars PROVE StorageStep
  OBVIOUS
<1>1. TypeOK
  BY DEF MapInv, IInv
<1>2. ASSUME NEW c \in Calls, Arrive(c) PROVE StorageStep
  BY <1>1, <1>2, KnownCalls, RunBlockStep DEF Arrive, Slots
<1>3. ASSUME NEW c \in Calls, Supersede(c) PROVE StorageStep
  BY <1>3 DEF Supersede, StorageStep, Closes, Stays
<1>4. ASSUME NEW c \in Slots, Resume(c) PROVE StorageStep
  BY <1>1, <1>4, KnownCalls, RunBlockStep DEF Resume
<1>5. CASE AlarmFires
  BY <1>1, <1>5, KnownCalls, RunBlockStep DEF AlarmFires
<1>6. CASE UNCHANGED storage
  BY <1>6 DEF storage, StorageStep, Stays
<1> QED BY <1>2, <1>3, <1>4, <1>5, <1>6
        DEF Next, Send, Receive, RowMarked, HistoryRecorded, Fail, Tick, vars

-----------------------------------------------------------------------------
(* The strengthened invariant. *)

\* What was buffered once is never "none" or "late" again, and an answer
\* "correlated" comes with its taker.
LEMMA KnownStays ==
  ASSUME MapInv, StorageStep
  PROVE  /\ \A m \in Messages : dedup[m] \notin {"none", "late"} => dedup'[m] \notin {"none", "late"}
         /\ CorrelatedHanded'
<1> USE DEF MapInv, IInv, TypeOK, CorrelatedHanded
<1>1. ASSUME NEW m \in Messages, NEW o \in {"correlated", "expired", "late", "buffered"},
             dedup' = [dedup EXCEPT ![m] = o],
             o = "late" => dedup[m] = "none"
      PROVE  \A n \in Messages : dedup[n] \notin {"none", "late"} => dedup'[n] \notin {"none", "late"}
  BY <1>1
<1>2. ASSUME NEW m \in Messages, NEW w, w \in Waits,
             dedup' = [dedup EXCEPT ![m] = "correlated"],
             handed' = [handed EXCEPT ![m] = @ \cup {w}]
      PROVE  CorrelatedHanded'
  BY <1>2
<1>3. ASSUME NEW m \in Messages, NEW o \in {"expired", "late", "buffered"},
             dedup' = [dedup EXCEPT ![m] = o], UNCHANGED handed
      PROVE  CorrelatedHanded'
  BY <1>3
<1>4. CASE UNCHANGED <<dedup, handed>>
  BY <1>4
<1>5. sub.holder # None => sub.holder \in Waits
  OBVIOUS
<1> QED BY <1>1, <1>2, <1>3, <1>4, <1>5
        DEF StorageStep, Meets, Expires, Answers, Consumes, Opens, Closes, Stays

\* A call's snapshot after a step is part of the one before it, a fresh one, or empty.
SnapshotStep ==
  \A s \in Slots : \A m \in calls'[s].due :
    m \in Messages /\ (m \in calls[s].due \/ m \in Buffered)

\* A block of the object's code only shrinks the snapshot it is given.
LEMMA RunBlockSnapshots ==
  ASSUME TypeOK, NEW c, NEW req, GoodCall(c, req), NEW armed, RunBlock(c, req, armed)
  PROVE  \A s \in Slots : calls'[s].due \subseteq (IF s = c THEN req.due ELSE calls[s].due)
<1>1. c \in Slots /\ req \in CallRecord /\ calls \in [Slots -> CallRecord]
  BY DEF GoodCall, TypeOK
<1>2. ASSUME NEW status, Answer(c, req, status)
      PROVE  \A s \in Slots : calls'[s].due \subseteq (IF s = c THEN req.due ELSE calls[s].due)
  BY <1>1, <1>2 DEF Answer, CallRecord
<1>3. CASE calls' = [calls EXCEPT ![c] = Idle]
  BY <1>1, <1>3 DEF Idle
<1>4. CASE ExpireOne(c, req, armed)
  <2>1. PICK m \in req.due :
          calls' = [calls EXCEPT ![c] = [req EXCEPT !.phase = "marking",
                                                    !.due = @ \ {m}, !.lapsing = m]]
    BY <1>4 DEF ExpireOne
  <2> QED BY <1>1, <2>1 DEF CallRecord
<1> QED BY <1>2, <1>3, <1>4 DEF RunBlock, Serve, Register, Reregister, RefuseRegistration,
    ConsumeBuffered, Subscribe, Publish, AnswerDuplicate, MeetSubscription, RecordLate,
    BufferMessage, Rearm

\* Every step takes its snapshots from what is known.
LEMMA SnapshotsStep == TypeOK /\ [Next]_vars => SnapshotStep
<1> SUFFICES ASSUME TypeOK, [Next]_vars PROVE SnapshotStep
  OBVIOUS
<1>1. calls \in [Slots -> CallRecord] /\ AlarmCall \in Slots /\ Calls \subseteq Slots
  BY DEF TypeOK, Slots
<1>2. \A s \in Slots : calls[s].due \subseteq Messages
  BY <1>1 DEF CallRecord
<1>3. \A t : Due(t) \subseteq Buffered /\ Buffered \subseteq Messages
  BY DEF Due, Buffered
<1>4. ASSUME NEW c \in Slots, \A s \in Slots : s # c => calls'[s] = calls[s],
             calls'[c].due \subseteq calls[c].due
      PROVE  SnapshotStep
  BY <1>2, <1>4 DEF SnapshotStep
<1>5. ASSUME NEW c \in Calls, Arrive(c) PROVE SnapshotStep
  <2> DEFINE req == [calls[c] EXCEPT !.due = Due(calls[c].at)]
  <2>1. GoodCall(c, req)
    BY <1>1, GoodCalls
  <2>2. req.due = Due(calls[c].at)
    BY <1>1 DEF CallRecord
  <2>3. RunBlock(c, req, alarm)
    BY <1>5 DEF Arrive
  <2> HIDE DEF req
  <2>4. \A s \in Slots : calls'[s].due \subseteq (IF s = c THEN req.due ELSE calls[s].due)
    BY <2>1, <2>3, RunBlockSnapshots
  <2> QED BY <1>2, <1>3, <2>2, <2>4 DEF SnapshotStep
<1>6. ASSUME NEW c \in Slots, Resume(c) PROVE SnapshotStep
  <2>1. \A s \in Slots : calls'[s].due \subseteq (IF s = c THEN calls[c].due ELSE calls[s].due)
    BY <1>6, GoodCalls, RunBlockSnapshots DEF Resume
  <2> QED BY <1>2, <2>1 DEF SnapshotStep
<1>7. CASE AlarmFires
  <2> DEFINE req == [Idle EXCEPT !.op = "alarm", !.at = now, !.due = Due(now)]
  <2>1. GoodCall(AlarmCall, req) /\ req.due = Due(now)
    BY GoodCalls DEF Idle
  <2>2. RunBlock(AlarmCall, req, None)
    BY <1>7 DEF AlarmFires
  <2> HIDE DEF req
  <2>3. \A s \in Slots : calls'[s].due \subseteq (IF s = AlarmCall THEN req.due ELSE calls[s].due)
    BY <2>1, <2>2, RunBlockSnapshots
  <2> QED BY <1>2, <1>3, <2>1, <2>3 DEF SnapshotStep
<1>8. ASSUME NEW c \in Calls, Supersede(c) PROVE SnapshotStep
  <2>1. calls' = [calls EXCEPT ![c] = [calls[c] EXCEPT !.phase = "answered", !.due = {},
                                              !.lapsing = None, !.status = "done"]]
    BY <1>8 DEF Supersede, Answer
  <2> QED BY <1>1, <1>4, <2>1 DEF CallRecord
<1>9. ASSUME NEW c \in Calls, NEW op, NEW arg, Send(c, op, arg) PROVE SnapshotStep
  <2>1. calls' = [calls EXCEPT ![c] = [Idle EXCEPT !.phase = "sent", !.op = op,
                                                   !.arg = arg, !.at = now]]
    BY <1>9 DEF Send
  <2> QED BY <1>1, <1>4, <2>1 DEF Idle
<1>10. ASSUME NEW c \in Calls, Receive(c) PROVE SnapshotStep
  BY <1>1, <1>4, <1>10 DEF Receive, Idle
<1>11. ASSUME NEW c \in Slots, RowMarked(c) \/ HistoryRecorded(c) PROVE SnapshotStep
  BY <1>1, <1>4, <1>11 DEF RowMarked, HistoryRecorded, CallRecord
<1>12. ASSUME NEW c \in Slots, Fail(c) PROVE SnapshotStep
  <2>1. CASE calls' = [calls EXCEPT ![c] = Idle]
    BY <1>1, <1>4, <2>1 DEF Idle
  <2>2. CASE calls' = [calls EXCEPT ![c] = [calls[c] EXCEPT !.phase = "answered", !.due = {},
                                              !.lapsing = None, !.status = "error"]]
    BY <1>1, <1>4, <2>2 DEF CallRecord
  <2> QED BY <1>12, <2>1, <2>2 DEF Fail, Answer
<1>13. CASE UNCHANGED calls
  BY <1>2, <1>13 DEF SnapshotStep
<1> QED BY <1>5, <1>6, <1>7, <1>8, <1>9, <1>10, <1>11, <1>12, <1>13 DEF Next, Tick, vars

\* The strengthened invariant holds in every reachable state.
LEMMA MapInvariance == Spec => []MapInv
<1>1. Init => SnapshotsKnown /\ CorrelatedHanded
  BY DEF Init, Idle, SnapshotsKnown, CorrelatedHanded
<1>2. ASSUME MapInv, IInv', [Next]_vars PROVE MapInv'
  <2>1. SnapshotStep
    BY <1>2, SnapshotsStep DEF MapInv, IInv
  <2>2. /\ \A m \in Messages :
              dedup[m] \notin {"none", "late"} => dedup'[m] \notin {"none", "late"}
        /\ CorrelatedHanded'
    BY <1>2, EveryStep, KnownStays
  <2>3. \A m \in Buffered : dedup[m] \notin {"none", "late"}
    BY <1>2 DEF MapInv, IInv, BufferedIffKept, Buffered
  <2>4. SnapshotsKnown'
    BY <1>2, <2>1, <2>2, <2>3 DEF MapInv, SnapshotsKnown, SnapshotStep
  <2> QED BY <1>2, <2>2, <2>4 DEF MapInv
<1> QED BY <1>1, <1>2, Invariance, PTL DEF Spec, MapInv

-----------------------------------------------------------------------------
(* The refinement. *)

\* A state where the object holds nothing is an initial state of the abstract key.
LEMMA InitMaps == Init => A!RInit
  BY DEF Init, NoSub, A!RInit

\* Handing an unhanded message over sets its fate and its taker in the mapping.
LEMMA HandingMaps ==
  ASSUME handed \in [Messages -> SUBSET Waits], dedup \in [Messages -> Outcomes],
         NEW m \in Messages, NEW w \in Waits, handed[m] = {},
         dedup' = [dedup EXCEPT ![m] = "correlated"],
         handed' = [handed EXCEPT ![m] = @ \cup {w}]
  PROVE  Fate' = [Fate EXCEPT ![m] = "taken"] /\ Taker' = [Taker EXCEPT ![m] = w]
<1>1. handed'[m] = {w} /\ \A n \in Messages : n # m => handed'[n] = handed[n]
  OBVIOUS
<1>2. Fate' = [Fate EXCEPT ![m] = "taken"]
  BY <1>1 DEF Fate
<1>3. (CHOOSE v \in Waits : v \in handed'[m]) = w
  BY <1>1
<1>4. Taker'[m] = w
  BY <1>1, <1>3 DEF Taker
<1>5. \A n \in Messages : n # m => Taker'[n] = Taker[n]
  BY <1>1 DEF Taker
<1>6. Taker' = [n \in Messages |-> Taker'[n]] /\ Taker = [n \in Messages |-> Taker[n]]
  BY DEF Taker
<1>7. Taker' = [Taker EXCEPT ![m] = w]
  BY <1>4, <1>5, <1>6
<1> QED BY <1>2, <1>7

\* Recording an outcome for an unhanded message changes its fate only.
LEMMA RecordingMaps ==
  ASSUME dedup \in [Messages -> Outcomes], NEW m \in Messages, handed[m] = {},
         NEW outcome, dedup' = [dedup EXCEPT ![m] = outcome], UNCHANGED handed
  PROVE  /\ Taker' = Taker
         /\ outcome = "late" => Fate' = [Fate EXCEPT ![m] = "late"]
         /\ outcome = "buffered" => Fate' = [Fate EXCEPT ![m] = "held"]
<1>1. dedup'[m] = outcome /\ \A n \in Messages : n # m => dedup'[n] = dedup[n]
  OBVIOUS
<1>2. Taker' = Taker
  BY DEF Taker
<1>3. \A n \in Messages : n # m => Fate'[n] = Fate[n]
  BY <1>1 DEF Fate
<1>4. Fate' = [n \in Messages |-> Fate'[n]] /\ Fate = [n \in Messages |-> Fate[n]]
  BY DEF Fate
<1>5. ASSUME outcome = "late" PROVE Fate' = [Fate EXCEPT ![m] = "late"]
  <2>1. Fate'[m] = "late"
    BY <1>1, <1>5 DEF Fate
  <2> QED BY <1>3, <1>4, <2>1
<1>6. ASSUME outcome = "buffered" PROVE Fate' = [Fate EXCEPT ![m] = "held"]
  <2>1. Fate'[m] = "held"
    BY <1>1, <1>6 DEF Fate
  <2> QED BY <1>3, <1>4, <2>1
<1> QED BY <1>2, <1>5, <1>6

\* One thing that happens to the storage is one step of the abstract key, or none.
LEMMA StepMaps ==
  ASSUME MapInv, MapInv', StorageStep
  PROVE  [A!RNext]_(A!rvars)
<1> USE DEF Fate, Taker
<1>1. /\ handed \in [Messages -> SUBSET Waits] /\ dedup \in [Messages -> Outcomes]
      /\ sub.holder \in Waits \cup {None}
      /\ UnhandedOutcome /\ CorrelatedHanded /\ BufferedIffKept /\ ConsumedExcludesSub
  BY DEF MapInv, IInv, TypeOK
<1>2. ASSUME NEW m \in Messages, Meets(m) PROVE A!Meet(m)
  <2>1. handed[m] = {} /\ sub.holder \in Waits
    BY <1>1, <1>2 DEF Meets, UnhandedOutcome
  <2>2. Fate' = [Fate EXCEPT ![m] = "taken"] /\ Taker' = [Taker EXCEPT ![m] = sub.holder]
    BY <1>1, <1>2, <2>1, HandingMaps DEF Meets
  <2>3. Fate[m] = "unknown"
    BY <1>2, <2>1 DEF Meets
  <2> QED BY <1>2, <2>2, <2>3 DEF Meets, NoSub, A!Meet, A!Take
<1>3. ASSUME NEW m \in Messages, NEW w \in Waits, Consumes(m, w) PROVE A!Collect(m, w)
  <2>1. dedup[m] = "buffered" /\ handed[m] = {}
    BY <1>1, <1>3 DEF Consumes, BufferedIffKept, UnhandedOutcome
  <2>2. Fate' = [Fate EXCEPT ![m] = "taken"] /\ Taker' = [Taker EXCEPT ![m] = w]
    BY <1>1, <1>3, <2>1, HandingMaps DEF Consumes
  <2>3. Fate[m] = "held"
    BY <2>1
  <2> QED BY <1>3, <2>2, <2>3 DEF Consumes, A!Collect, A!Take
<1>4. ASSUME NEW m \in Messages, Answers(m, "late") PROVE A!Refuse(m)
  <2>1. handed[m] = {} /\ sub.holder = None
    BY <1>1, <1>4 DEF Answers, UnhandedOutcome, ConsumedExcludesSub
  <2>2. Fate' = [Fate EXCEPT ![m] = "late"] /\ Taker' = Taker
    BY <1>1, <1>4, <2>1, RecordingMaps DEF Answers
  <2>3. Fate[m] = "unknown"
    BY <1>4, <2>1 DEF Answers
  <2> QED BY <1>4, <2>1, <2>2, <2>3 DEF Answers, A!Refuse
<1>5. ASSUME NEW m \in Messages, Answers(m, "buffered") PROVE A!Hold(m)
  <2>1. handed[m] = {}
    BY <1>1, <1>5 DEF Answers, UnhandedOutcome
  <2>2. Fate' = [Fate EXCEPT ![m] = "held"] /\ Taker' = Taker
    BY <1>1, <1>5, <2>1, RecordingMaps DEF Answers
  <2>3. Fate[m] = "unknown"
    BY <1>5, <2>1 DEF Answers
  <2> QED BY <1>5, <2>2, <2>3 DEF Answers, A!Hold
<1>6. ASSUME NEW m \in Messages, Expires(m) PROVE A!Lapse(m) \/ UNCHANGED A!rvars
  <2>1. Taker' = Taker /\ UNCHANGED sub
    BY <1>6 DEF Expires
  <2>2. CASE dedup[m] = "buffered"
    <3>1. handed[m] = {}
      BY <1>1, <2>2 DEF UnhandedOutcome
    <3>2. Fate' = [Fate EXCEPT ![m] = "lapsed"] /\ Fate[m] = "held"
      BY <1>1, <1>6, <2>2, <3>1 DEF Expires
    <3> QED BY <2>1, <3>2 DEF A!Lapse
  <2>3. CASE dedup[m] = "correlated" \/ dedup[m] = "expired"
    <3>1. Fate' = Fate
      BY <1>1, <1>6, <2>3 DEF Expires, CorrelatedHanded
    <3> QED BY <2>1, <3>1 DEF A!rvars
  <2> QED BY <1>1, <1>6, <2>2, <2>3 DEF Expires, Outcomes
<1>7. ASSUME NEW w \in Waits, Opens(w) PROVE A!Wait(w)
  BY <1>7 DEF Opens, A!Wait
<1>8. ASSUME Closes PROVE A!GiveUp \/ UNCHANGED A!rvars
  BY <1>8 DEF Closes, NoSub, A!GiveUp, A!rvars
<1>9. CASE Stays
  BY <1>9 DEF Stays, A!rvars
<1> QED BY <1>2, <1>3, <1>4, <1>5, <1>6, <1>7, <1>8, <1>9 DEF StorageStep, A!RNext

\* The object implements the abstract rendezvous, for every value of the constants.
THEOREM Refinement == Spec => ImplementsRendezvous
<1>1. MapInv /\ MapInv' /\ [Next]_vars => [A!RNext]_(A!rvars)
  BY EveryStep, StepMaps
<1> QED BY <1>1, InitMaps, MapInvariance, PTL DEF Spec, ImplementsRendezvous, A!RSpec
=============================================================================
