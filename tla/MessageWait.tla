---------------------------- MODULE MessageWait ----------------------------
(***************************************************************************)
(* One process instance on its way through message waits (receive tasks,   *)
(* some with an interrupting boundary timer) that share one broker key,    *)
(* and the four parties that meet there: drives, publishers, timer alarms  *)
(* and the correlation broker.  Two stores are involved, D1 and the        *)
(* broker's, and no step spans both.                                       *)
(*                                                                         *)
(* A step is one D1 statement or batch, or one call to the broker, with    *)
(* the reads just before it.  The broker's calls are atomic here, and its  *)
(* hour of patience never runs out: CorrelationBroker has both.            *)
(***************************************************************************)
EXTENDS Naturals, Sequences, FiniteSets

CONSTANTS
  Visits,       \* visits of receive tasks: an element and an occurrence
  First, End,   \* where the process starts, and its end event
  Element,      \* per visit, its element
  Timed,        \* elements with a boundary timer
  OnMessage,    \* per visit, where its outgoing flow leads
  OnTimeout,    \* per visit, where the flow of its boundary timer leads
  Messages,     \* messages published under the key
  NoMessage, NoId,
  Modes,        \* values of EXECUTION_MODE considered
  MaxFaults     \* bound: processes that die and calls that fail

Places == Visits \cup {End}
Guarded == {v \in Visits : Element[v] \in Timed}
Ids == [visit : Visits, n : Nat]    \* subscription ids: the n-th made for a visit

ASSUME Flows ==
  /\ First \in Visits /\ End \notin Visits
  /\ OnMessage \in [Visits -> Places] /\ OnTimeout \in [Visits -> Places]
ASSUME Fresh == NoMessage \notin Messages /\ NoId \notin Ids
ASSUME ModesKnown == Modes \subseteq {"direct", "workflow"}
ASSUME FaultsAreNat == MaxFaults \in Nat

VARIABLES
  mode,      \* EXECUTION_MODE
  status,    \* process_instances.status; "active" is running or waiting
  row,       \* message_subscriptions: the latest row per visit
  timer,     \* timers.status per visit
  outcome,   \* timer_outcomes.outcome per visit
  ext,       \* external_messages.outcome
  link,      \* external_messages.matched_subscription_id
  holder,    \* broker: the id stored under "sub"
  buffer,    \* broker: the messages under "buffer:", oldest first
  consumed,  \* broker: the marker under "consumed" is set
  drive,     \* the drive that walks the instance
  wanted,    \* drives asked for: the message they deliver, or NoMessage
  pub,       \* publishers, one per message
  alarm,     \* per visit, the alarm of the timer's JobScheduler object is set
  fire,      \* per visit, the alarm handler
  made,      \* subscription ids made per visit
  merged,    \* history: the visits at which a message's payload was merged
  exits,     \* history: the flows on which drives left a visit
  faults     \* faults so far

d1 == <<status, row, timer, outcome, ext, link>>
broker == <<holder, buffer, consumed>>
history == <<merged, exits>>
vars == <<mode, d1, broker, drive, wanted, pub, alarm, fire, made, history, faults>>

NoRow == [st |-> "none", id |-> NoId, msg |-> NoMessage]
Idle == [pc |-> "idle", at |-> First, pending |-> NoMessage, event |-> NoMessage,
         id |-> NoId, fresh |-> FALSE]
Unsent == [pc |-> "unsent", ans |-> "none", id |-> NoId]
Asleep == [pc |-> "idle", id |-> NoId]

Pcs == {"idle", "timer", "sub", "lookup", "register", "call", "reject", "link", "create",
        "arm", "alarm", "apply", "commit"}

Rows == [st : {"none", "active", "consumed", "superseded"}, id : Ids \cup {NoId},
         msg : Messages \cup {NoMessage}]
Drives == [pc : Pcs, at : Places, pending : Messages \cup {NoMessage},
           event : Messages \cup {NoMessage}, id : Ids \cup {NoId}, fresh : BOOLEAN]
Answers == {"none", "buffered", "correlated", "late"}
Publishers == [pc : {"unsent", "answered", "recorded", "done"}, ans : Answers,
               id : Ids \cup {NoId}]
Handlers == [pc : {"idle", "planned", "fired", "superseded"}, id : Ids \cup {NoId}]

(* Every row, every call and every process keeps its shape. *)
TypeOK ==
  /\ mode \in Modes
  /\ status \in {"active", "incident", "completed"}
  /\ row \in [Visits -> Rows]
  /\ timer \in [Visits -> {"none", "armed", "fired", "cancelled"}]
  /\ outcome \in [Visits -> {"none", "fired", "cancelled"}]
  /\ ext \in [Messages -> Answers]
  /\ link \in [Messages -> Ids \cup {NoId}]
  /\ holder \in Ids \cup {NoId} /\ buffer \in Seq(Messages) /\ consumed \in BOOLEAN
  /\ drive \in Drives
  /\ wanted \subseteq Messages \cup {NoMessage}
  /\ pub \in [Messages -> Publishers]
  /\ alarm \in [Visits -> BOOLEAN]
  /\ fire \in [Visits -> Handlers]
  /\ made \in [Visits -> Nat]
  /\ merged \in [Messages -> SUBSET Visits]
  /\ exits \in [Visits -> SUBSET {"message", "timeout"}]
  /\ faults \in 0..MaxFaults

Init ==
  /\ mode \in Modes /\ status = "active"
  /\ row = [v \in Visits |-> NoRow]
  /\ timer = [v \in Visits |-> "none"] /\ outcome = [v \in Visits |-> "none"]
  /\ ext = [m \in Messages |-> "none"] /\ link = [m \in Messages |-> NoId]
  /\ holder = NoId /\ buffer = <<>> /\ consumed = FALSE
  /\ drive = Idle /\ wanted = {NoMessage}
  /\ pub = [m \in Messages |-> Unsent]
  /\ alarm = [v \in Visits |-> FALSE] /\ fire = [v \in Visits |-> Asleep]
  /\ made = [v \in Visits |-> 0]
  /\ merged = [m \in Messages |-> {}] /\ exits = [v \in Visits |-> {}]
  /\ faults = 0

-----------------------------------------------------------------------------
(* Drives.  A walk starts at the start event every time and passes over the   *)
(* visits that D1 says are behind it.                                         *)

At(pc) == drive.pc = pc /\ drive.at \in Visits
Go(pc) == drive' = [drive EXCEPT !.pc = pc]
Park == drive' = Idle

\* The walk leaves its visit by its outgoing flow or by its boundary timer's.
Leave(path, pending) ==
  LET next == IF path = "timeout" THEN OnTimeout[drive.at] ELSE OnMessage[drive.at]
  IN /\ drive' = [Idle EXCEPT !.pc = "timer", !.at = next, !.pending = pending]
     /\ exits' = [exits EXCEPT ![drive.at] = @ \cup {path}]

NextId == [visit |-> drive.at, n |-> made[drive.at] + 1]

\* messageCorrelatedStmt: an UPDATE, which finds no row before the publisher's INSERT.
Correlate(m, id) ==
  /\ ext' = IF ext[m] = "none" THEN ext ELSE [ext EXCEPT ![m] = "correlated"]
  /\ link' = IF ext[m] = "none" THEN link ELSE [link EXCEPT ![m] = id]

\* A settled instance, or one with an incident, is not walked.
StartDrive(p) ==
  /\ drive.pc = "idle" /\ p \in wanted
  /\ wanted' = wanted \ {p}
  /\ drive' = IF status = "active" THEN [Idle EXCEPT !.pc = "timer", !.pending = p] ELSE Idle
  /\ UNCHANGED <<mode, d1, broker, pub, alarm, fire, made, history, faults>>

Finish ==
  /\ drive.pc = "timer" /\ drive.at = End
  /\ status' = IF status = "active" THEN "completed" ELSE status
  /\ Park
  /\ UNCHANGED <<mode, row, timer, outcome, ext, link, broker, wanted, pub, alarm, fire, made,
                 history, faults>>

ReadTimer ==
  /\ At("timer")
  /\ IF drive.at \in Guarded /\ outcome[drive.at] = "fired"
     THEN Leave("timeout", drive.pending)
     ELSE Go("sub") /\ UNCHANGED exits
  /\ UNCHANGED <<mode, d1, broker, wanted, pub, alarm, fire, made, merged, faults>>

\* A consumed visit is behind the walk; the delivery is dropped if it is the message
\* that visit took.  A delivery is applied at the first visit still open.
ReadSub ==
  /\ At("sub")
  /\ LET r == row[drive.at] IN
       \/ /\ r.st = "consumed"
          /\ Leave("message", IF r.msg = drive.pending THEN NoMessage ELSE drive.pending)
       \/ /\ r.st # "consumed" /\ drive.pending # NoMessage
          /\ drive' = [drive EXCEPT !.pc = "apply", !.event = drive.pending]
          /\ UNCHANGED exits
       \/ /\ r.st = "active" /\ drive.pending = NoMessage
          /\ drive' = [drive EXCEPT !.pc = "lookup", !.id = r.id]
          /\ UNCHANGED exits
       \/ /\ r.st \in {"none", "superseded"} /\ drive.pending = NoMessage
          /\ Go("register") /\ UNCHANGED exits
  /\ UNCHANGED <<mode, d1, broker, wanted, pub, alarm, fire, made, merged, faults>>

Linked(id) == {m \in Messages : ext[m] = "correlated" /\ link[m] = id}

ReadsNoMessage ==                        \* mutant: a wake registers again and looks no further
  /\ At("lookup") /\ Go("register")
  /\ UNCHANGED <<mode, d1, broker, wanted, pub, alarm, fire, made, history, faults>>

\* Apply-from-D1: the message linked to the subscription, if there is one.
LookUp ==
  /\ At("lookup")
  /\ \/ \E m \in Linked(drive.id) : drive' = [drive EXCEPT !.pc = "apply", !.event = m]
     \/ Linked(drive.id) = {} /\ Go("register")
  /\ UNCHANGED <<mode, d1, broker, wanted, pub, alarm, fire, made, history, faults>>

\* registerReceive up to its call of the broker: an active row keeps its id.
ReadRegistration ==
  /\ At("register") /\ row[drive.at].st # "consumed"
  /\ LET active == row[drive.at].st = "active" IN
       /\ drive' = [drive EXCEPT !.pc = "call", !.fresh = ~active,
                                 !.id = IF active THEN row[drive.at].id ELSE NextId]
       /\ made' = IF active THEN made ELSE [made EXCEPT ![drive.at] = @ + 1]
  /\ UNCHANGED <<mode, d1, broker, wanted, pub, alarm, fire, history, faults>>

\* registerSubscription as the drive sees it.  The broker tells waits apart by instance
\* and element, and keeps the id it has.
Waiting == IF drive.fresh THEN Go("create") ELSE Park

CallBroker ==
  /\ At("call")
  /\ \/ /\ holder # NoId /\ Element[holder.visit] = Element[drive.at]
        /\ Waiting /\ UNCHANGED broker
     \/ /\ holder # NoId /\ Element[holder.visit] # Element[drive.at]
        /\ Go("reject") /\ UNCHANGED broker
     \/ /\ holder = NoId /\ buffer # <<>>
        /\ buffer' = Tail(buffer) /\ consumed' = TRUE
        /\ drive' = [drive EXCEPT !.pc = "link", !.event = Head(buffer)]
        /\ UNCHANGED holder
     \/ /\ holder = NoId /\ buffer = <<>>
        /\ holder' = drive.id /\ consumed' = FALSE
        /\ Waiting /\ UNCHANGED buffer
  /\ UNCHANGED <<mode, d1, wanted, pub, alarm, fire, made, history, faults>>

Reject ==
  /\ At("reject")
  /\ status' = IF status = "active" THEN "incident" ELSE status
  /\ Park
  /\ UNCHANGED <<mode, row, timer, outcome, ext, link, broker, wanted, pub, alarm, fire, made,
                 history, faults>>

\* The row and the link of a message that was buffered, in one batch.
LinkBuffered ==
  /\ At("link")
  /\ row' = IF drive.fresh
            THEN [row EXCEPT ![drive.at] = [NoRow EXCEPT !.st = "active", !.id = drive.id]]
            ELSE row
  /\ Correlate(drive.event, drive.id)
  /\ Go("apply")
  /\ UNCHANGED <<mode, status, timer, outcome, broker, wanted, pub, alarm, fire, made, history,
                 faults>>

CreateRow ==
  /\ At("create")
  /\ row' = [row EXCEPT ![drive.at] = [NoRow EXCEPT !.st = "active", !.id = drive.id]]
  /\ Go("arm")
  /\ UNCHANGED <<mode, status, timer, outcome, ext, link, broker, wanted, pub, alarm, fire, made,
                 history, faults>>

\* INSERT OR IGNORE of the timer with the transition to waiting.
ArmTimer ==
  /\ At("arm")
  /\ status' = "active"
  /\ IF drive.at \in Guarded
     THEN /\ timer' = [timer EXCEPT ![drive.at] = IF @ = "none" THEN "armed" ELSE @]
          /\ Go("alarm")
     ELSE Park /\ UNCHANGED timer
  /\ UNCHANGED <<mode, row, outcome, ext, link, broker, wanted, pub, alarm, fire, made, history,
                 faults>>

SetAlarm ==
  /\ At("alarm")
  /\ alarm' = [alarm EXCEPT ![drive.at] = TRUE]
  /\ Park
  /\ UNCHANGED <<mode, d1, broker, wanted, pub, fire, made, history, faults>>

\* applyMessage up to its batch: a wait without an active row gets a consumed one.
\* Only drives consume, so its guard against a consumed row cannot hold here.
ReadBeforeApply ==
  /\ At("apply") /\ row[drive.at].st # "consumed"
  /\ LET r == row[drive.at] IN
       \/ /\ r.st = "active"
          /\ drive' = [drive EXCEPT !.pc = "commit", !.fresh = FALSE, !.id = r.id]
          /\ UNCHANGED <<row, made>>
       \/ /\ r.st # "active"
          /\ row' = [row EXCEPT ![drive.at] =
                       [st |-> "consumed", id |-> NextId, msg |-> drive.event]]
          /\ made' = [made EXCEPT ![drive.at] = @ + 1]
          /\ drive' = [drive EXCEPT !.pc = "commit", !.fresh = TRUE, !.id = NextId]
  /\ UNCHANGED <<mode, status, timer, outcome, ext, link, broker, wanted, pub, alarm, fire,
                 history, faults>>

ClaimsOrIgnores ==                       \* mutant: the claim is an INSERT OR IGNORE
  /\ At("commit")
  /\ merged' = [merged EXCEPT ![drive.event] = @ \cup {drive.at}]
  /\ row' = [row EXCEPT ![drive.at] = [@ EXCEPT !.st = "consumed", !.msg = drive.event]]
  /\ outcome' = [outcome EXCEPT ![drive.at] = IF @ = "none" THEN "cancelled" ELSE @]
  /\ timer' = [timer EXCEPT ![drive.at] = IF @ = "armed" THEN "cancelled" ELSE @]
  /\ Correlate(drive.event, drive.id)
  /\ status' = "active"
  /\ Leave("message", NoMessage)
  /\ UNCHANGED <<mode, broker, wanted, pub, alarm, fire, made, faults>>

LeavesInFlight ==                        \* mutant: the delivery goes on with the walk
  /\ At("commit") /\ (drive.at \in Guarded => outcome[drive.at] = "none")
  /\ merged' = [merged EXCEPT ![drive.event] = @ \cup {drive.at}]
  /\ row' = IF drive.fresh THEN row
            ELSE [row EXCEPT ![drive.at] = [@ EXCEPT !.st = "consumed", !.msg = drive.event]]
  /\ IF drive.at \in Guarded
     THEN /\ outcome' = [outcome EXCEPT ![drive.at] = "cancelled"]
          /\ timer' = [timer EXCEPT ![drive.at] = IF @ = "armed" THEN "cancelled" ELSE @]
     ELSE UNCHANGED <<outcome, timer>>
  /\ Correlate(drive.event, drive.id)
  /\ status' = "active"
  /\ Leave("message", drive.pending)
  /\ UNCHANGED <<mode, broker, wanted, pub, alarm, fire, made, faults>>

\* The batch of applyMessage, which claims 'cancelled' for a guarded visit.
CommitMessage ==
  /\ At("commit") /\ (drive.at \in Guarded => outcome[drive.at] = "none")
  /\ merged' = [merged EXCEPT ![drive.event] = @ \cup {drive.at}]
  /\ row' = IF drive.fresh THEN row
            ELSE [row EXCEPT ![drive.at] = [@ EXCEPT !.st = "consumed", !.msg = drive.event]]
  /\ IF drive.at \in Guarded
     THEN /\ outcome' = [outcome EXCEPT ![drive.at] = "cancelled"]
          /\ timer' = [timer EXCEPT ![drive.at] = IF @ = "armed" THEN "cancelled" ELSE @]
     ELSE UNCHANGED <<outcome, timer>>
  /\ Correlate(drive.event, drive.id)
  /\ status' = "active"
  /\ Leave("message", NoMessage)
  /\ UNCHANGED <<mode, broker, wanted, pub, alarm, fire, made, faults>>

\* The claim is taken by a fire: nothing of the batch happens, and the walk converts.
ConvertOnFire ==
  /\ At("commit") /\ drive.at \in Guarded /\ outcome[drive.at] = "fired"
  /\ Leave("timeout", NoMessage)
  /\ UNCHANGED <<mode, d1, broker, wanted, pub, alarm, fire, made, merged, faults>>

DriveStep ==
  \/ Finish \/ ReadTimer \/ ReadSub \/ LookUp \/ ReadRegistration \/ CallBroker \/ Reject
  \/ LinkBuffered \/ CreateRow \/ ArmTimer \/ SetAlarm
  \/ ReadBeforeApply \/ CommitMessage \/ ConvertOnFire

\* In workflow mode a wait times out and the walk is repeated; timeouts settle no timer.
Backstop ==
  /\ mode = "workflow" /\ drive.pc = "idle" /\ status = "active" /\ wanted = {}
  /\ wanted' = {NoMessage}
  /\ UNCHANGED <<mode, d1, broker, drive, pub, alarm, fire, made, history, faults>>

-----------------------------------------------------------------------------
(* Publishers: handlePublishMessage calls the broker, records the outcome and *)
(* then resumes the instance.                                                 *)

Publish(m) ==
  /\ pub[m].pc = "unsent"
  /\ LET answer(a) == pub' = [pub EXCEPT ![m] = [pc |-> "answered", ans |-> a, id |-> holder]] IN
       \/ /\ holder # NoId
          /\ holder' = NoId /\ consumed' = TRUE /\ answer("correlated") /\ UNCHANGED buffer
       \/ holder = NoId /\ consumed /\ answer("late") /\ UNCHANGED broker
       \/ /\ holder = NoId /\ ~consumed
          /\ buffer' = Append(buffer, m) /\ answer("buffered") /\ UNCHANGED <<holder, consumed>>
  /\ UNCHANGED <<mode, d1, drive, wanted, alarm, fire, made, history, faults>>

Record(m) ==
  /\ pub[m].pc = "answered"
  /\ ext' = [ext EXCEPT ![m] = pub[m].ans]
  /\ link' = [link EXCEPT ![m] = pub[m].id]
  /\ pub' = [pub EXCEPT ![m].pc = IF pub[m].ans = "correlated" THEN "recorded" ELSE "done"]
  /\ UNCHANGED <<mode, status, row, timer, outcome, broker, drive, wanted, alarm, fire, made,
                 history, faults>>

\* deliver: the direct executor hands the message to the drive, the other one only wakes it.
Deliver(m) ==
  /\ pub[m].pc = "recorded"
  /\ wanted' = wanted \cup {IF mode = "direct" THEN m ELSE NoMessage}
  /\ pub' = [pub EXCEPT ![m].pc = "done"]
  /\ UNCHANGED <<mode, d1, broker, drive, alarm, fire, made, history, faults>>

-----------------------------------------------------------------------------
(* Alarms: fireTimer for a boundary timer on a receive task. *)

Due(v) == alarm[v] /\ fire[v].pc = "idle"

MayFire(v) ==
  /\ timer[v] = "armed" /\ outcome[v] = "none"
  /\ status = "active" /\ row[v].st = "active"

PlanFire(v) ==
  /\ Due(v) /\ MayFire(v)
  /\ fire' = [fire EXCEPT ![v] = [pc |-> "planned", id |-> row[v].id]]
  /\ UNCHANGED <<mode, d1, broker, drive, wanted, pub, alarm, made, history, faults>>

\* The guards fail and the object deletes itself; with an incident it tries again later.
DropAlarm(v) ==
  /\ Due(v) /\ ~MayFire(v)
  /\ status = "incident" => timer[v] # "armed" \/ outcome[v] # "none"
  /\ alarm' = [alarm EXCEPT ![v] = FALSE]
  /\ UNCHANGED <<mode, d1, broker, drive, wanted, pub, fire, made, history, faults>>

\* The winning batch, or nothing when the claim is taken.
FireBatch(v) ==
  /\ fire[v].pc = "planned"
  /\ IF outcome[v] = "none"
     THEN /\ outcome' = [outcome EXCEPT ![v] = "fired"]
          /\ timer' = [timer EXCEPT ![v] = "fired"]
          /\ row' = IF row[v].st = "active" /\ row[v].id = fire[v].id
                    THEN [row EXCEPT ![v].st = "superseded"] ELSE row
          /\ status' = "active"
          /\ fire' = [fire EXCEPT ![v].pc = "fired"]
          /\ UNCHANGED alarm
     ELSE /\ fire' = [fire EXCEPT ![v] = Asleep]
          /\ alarm' = [alarm EXCEPT ![v] = FALSE]
          /\ UNCHANGED <<outcome, timer, row, status>>
  /\ UNCHANGED <<mode, ext, link, broker, drive, wanted, pub, made, history, faults>>

\* supersedeSubscription: the broker drops what the element holds.
Supersede(v) ==
  /\ fire[v].pc = "fired"
  /\ holder' = IF holder # NoId /\ Element[holder.visit] = Element[v] THEN NoId ELSE holder
  /\ fire' = [fire EXCEPT ![v].pc = "superseded"]
  /\ UNCHANGED <<mode, d1, buffer, consumed, drive, wanted, pub, alarm, made, history, faults>>

Wake(v) ==
  /\ fire[v].pc = "superseded"
  /\ wanted' = wanted \cup {NoMessage}
  /\ fire' = [fire EXCEPT ![v] = Asleep]
  /\ alarm' = [alarm EXCEPT ![v] = FALSE]
  /\ UNCHANGED <<mode, d1, broker, drive, pub, made, history, faults>>

-----------------------------------------------------------------------------
(* Faults.  A Workflow that dies is run again, a drive of a request is not;   *)
(* an alarm handler that dies is called again.                                *)

Fault == faults < MaxFaults /\ faults' = faults + 1

DriveDies ==
  /\ Fault /\ drive.pc # "idle"
  /\ Park
  /\ wanted' = IF mode = "workflow" THEN wanted \cup {NoMessage} ELSE wanted
  /\ UNCHANGED <<mode, d1, broker, pub, alarm, fire, made, history>>

PublisherDies(m) ==
  /\ Fault /\ pub[m].pc \in {"answered", "recorded"}
  /\ pub' = [pub EXCEPT ![m].pc = "done"]
  /\ UNCHANGED <<mode, d1, broker, drive, wanted, alarm, fire, made, history>>

HandlerDies(v) ==
  /\ Fault /\ fire[v].pc # "idle"
  /\ fire' = [fire EXCEPT ![v] = Asleep]
  /\ UNCHANGED <<mode, d1, broker, drive, wanted, pub, alarm, made, history>>

\* armTimerDO and supersedeBrokerSubscription log a failed call and go on.
ArmFails ==
  /\ Fault /\ At("alarm")
  /\ Park
  /\ UNCHANGED <<mode, d1, broker, wanted, pub, alarm, fire, made, history>>

SupersedeFails(v) ==
  /\ Fault /\ fire[v].pc = "fired"
  /\ fire' = [fire EXCEPT ![v].pc = "superseded"]
  /\ UNCHANGED <<mode, d1, broker, drive, wanted, pub, alarm, made, history>>

Next ==
  \/ \E p \in Messages \cup {NoMessage} : StartDrive(p)
  \/ DriveStep
  \/ Backstop
  \/ \E m \in Messages : Publish(m) \/ Record(m) \/ Deliver(m) \/ PublisherDies(m)
  \/ \E v \in Visits : PlanFire(v) \/ DropAlarm(v) \/ FireBatch(v) \/ Supersede(v) \/ Wake(v)
  \/ \E v \in Visits : HandlerDies(v) \/ SupersedeFails(v)
  \/ DriveDies \/ ArmFails

\* What has been started goes on; nobody has to publish, and no timer has to be due.
Fairness ==
  /\ \A p \in Messages \cup {NoMessage} : WF_vars(StartDrive(p))
  /\ WF_vars(DriveStep) /\ WF_vars(Backstop)
  /\ \A m \in Messages : WF_vars(Record(m)) /\ WF_vars(Deliver(m))
  /\ \A v \in Visits : WF_vars(FireBatch(v)) /\ WF_vars(Supersede(v)) /\ WF_vars(Wake(v))

Spec == Init /\ [][Next]_vars
FairSpec == Spec /\ Fairness

-----------------------------------------------------------------------------
(* Properties. *)

(* A visit is left on one path only, at most one message's payload is merged  *)
(* there, and only if that path is the message's: however a fire, a delivery, *)
(* a lookup in D1 and the re-walks after a crash meet, the claim in           *)
(* timer_outcomes decides.                                                    *)
OneOutcome ==
  \A v \in Visits :
    /\ exits[v] # {"message", "timeout"}
    /\ \A m \in Messages : v \in merged[m] =>
         /\ "timeout" \notin exits[v] /\ outcome[v] # "fired"
         /\ \A n \in Messages : v \in merged[n] => m = n

(* A message advances the instance once: neither its delivery beside a walk   *)
(* that found it in D1, nor a walk that passes the visit again, applies it at *)
(* a second visit.                                                            *)
AppliedOnce == \A m \in Messages, v, w \in Visits : {v, w} \subseteq merged[m] => v = w

Ended == status \in {"incident", "completed"}
WaitOver(id) == id # NoId /\ (row[id.visit].st = "consumed" \/ outcome[id.visit] = "fired")

(* A message the broker answered "correlated" does not leave the wait it was  *)
(* matched with standing: unless a process dies, it is applied, or that wait  *)
(* has ended by its timer or by another message.                              *)
CorrelatedSettles ==
  [](faults = 0) =>
    \A m \in Messages :
      (pub[m].ans = "correlated") ~>
        (merged[m] # {} \/ Ended \/ WaitOver(pub[m].id))
=============================================================================
