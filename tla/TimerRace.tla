----------------------------- MODULE TimerRace -----------------------------
(***************************************************************************)
(* The races around a deadline.  One process instance reaches its hosts,   *)
(* side by side in a parallel region when there are several: service tasks *)
(* and scopes with an interrupting boundary timer, intermediate timer      *)
(* catches, and event-based gateways whose branches wait for a message or  *)
(* for a timer.  Drives, workers, publishers, the operator and the alarms  *)
(* of the timers' JobScheduler objects meet in D1, where one row decides   *)
(* each race: a timer_outcomes row, or a gateway_decisions row.            *)
(*                                                                         *)
(* A step is one D1 statement or batch, or one call to a broker or an      *)
(* object, with the reads just before it.  An alarm's handler reads, plans *)
(* and commits in three steps.  Every drive walks all hosts from the       *)
(* start.  Each host is visited once, a scope holds one task, a message    *)
(* has a broker key of its own, and no host lies in a transaction.         *)
(***************************************************************************)
EXTENDS Naturals, Sequences, FiniteSets

CONSTANTS
  Hosts,
  Processes,    \* processes considered: their hosts, in the order of the walk
  Kind,         \* per host: "task", "scope", "catch" or "gate"
  Messages,     \* messages the gateways' branches wait for
  ArmsOf,       \* per host, the messages of its branches
  Fallible,     \* hosts whose job may exhaust its retries
  Modes,        \* values of EXECUTION_MODE considered
  MaxCalls,     \* bounds: calls of an operator, by process and kind
  MaxFaults     \* bounds: alarms that get lost and handlers that die, by process

Working == {h \in Hosts : Kind[h] \in {"task", "scope"}}
Gates == {h \in Hosts : Kind[h] = "gate"}
CallKinds == {"cancel", "retry"}

ASSUME Shape ==
  /\ \A p \in Processes : p \in Seq(Hosts) /\ p # <<>>
  /\ \A p \in Processes : \A k, l \in DOMAIN p : p[k] = p[l] => k = l
  /\ Kind \in [Hosts -> {"task", "scope", "catch", "gate"}]
  /\ ArmsOf \in [Hosts -> SUBSET Messages] /\ Fallible \subseteq Working
  /\ \A h \in Hosts : ArmsOf[h] # {} <=> h \in Gates
  /\ \A h, g \in Gates : h # g => ArmsOf[h] \cap ArmsOf[g] = {}
  /\ {"none", "normal", "fired", "cancelled"} \cap Messages = {}
ASSUME Limits ==
  /\ Modes \subseteq {"direct", "workflow"}
  /\ MaxCalls \in [Processes -> [CallKinds -> Nat]] /\ MaxFaults \in [Processes -> Nat]

VARIABLES
  mode,
  order,      \* the process of the instance
  status,     \* process_instances.status
  broken,     \* the element of the latest incident
  job,        \* per host, its forward job
  timer,      \* timers.status
  decided,    \* timer_outcomes.outcome; of a gateway, the branch gateway_decisions names
  ended,      \* scopes whose inner end event has its marker
  sub,        \* message_subscriptions.status, per message
  ext,        \* how far each message has come
  holder,     \* messages whose broker holds a subscription
  due,        \* hosts whose deadline has passed
  alarm,      \* hosts whose timer has an alarm set
  fire,       \* per host, the handler of its alarm
  drive,      \* the drive that walks the instance
  wanted,     \* drives asked for, by whom
  alive,      \* the instance has a Workflow that has not ended
  op,         \* the operator's call in progress
  exits,      \* history: the flows on which drives left a host
  calls, faults

inst == <<status, broken>>
rows == <<job, timer, decided, ended>>
msgs == <<sub, ext, holder>>
clock == <<due, alarm>>
bounds == <<mode, order, calls, faults>>
vars == <<inst, rows, msgs, clock, fire, drive, wanted, alive, op, exits, bounds>>

Region == Len(order) > 1
Statuses == {"running", "waiting", "incident", "completed", "cancelled", "compensating",
             "compensated"}
Done == {"completed", "cancelled", "compensated"}
Stopped == Done \cup {"incident"}
Outcomes == {"none", "fired", "cancelled"} \cup Messages
Idle == [pc |-> "idle", at |-> 1, by |-> "wake", arm |-> "none", todo |-> {},
         again |-> FALSE, parked |-> FALSE]
Drives == [pc : {"idle", "walk", "inner", "raise", "look", "register", "apply", "release"},
           at : 1..(Len(order) + 1), by : {"wake", "operator"},
           arm : Messages \cup {"none"}, todo : SUBSET Messages,
           again : BOOLEAN, parked : BOOLEAN]
Fires == [pc : {"idle", "plan", "frozen", "commit", "release", "wake", "missed"},
          subs : SUBSET Messages]
Ops == [pc : {"idle", "clear", "sweep", "close", "reset"}, todo : SUBSET Hosts]

(* Every row, object and process keeps its shape. *)
TypeOK ==
  /\ mode \in Modes /\ order \in Processes /\ status \in Statuses /\ broken \in Hosts
  /\ job \in [Hosts -> {"none", "created", "locked", "completed", "applied", "failed"}]
  /\ timer \in [Hosts -> {"none", "armed", "fired", "cancelled"}]
  /\ decided \in [Hosts -> Outcomes] /\ ended \subseteq Hosts
  /\ sub \in [Messages -> {"none", "active", "consumed", "superseded"}]
  /\ ext \in [Messages -> {"new", "buffered", "matched", "correlated", "claimed", "applied"}]
  /\ holder \subseteq Messages /\ due \subseteq Hosts /\ alarm \subseteq Hosts
  /\ fire \in [Hosts -> Fires] /\ drive \in Drives /\ op \in Ops
  /\ wanted \subseteq {"wake", "operator"} /\ alive \in BOOLEAN
  /\ exits \in [Hosts -> SUBSET (Outcomes \cup {"normal"})]
  /\ calls \in [CallKinds -> Nat] /\ \A c \in CallKinds : calls[c] <= MaxCalls[order][c]
  /\ faults \in 0..MaxFaults[order]

Init ==
  /\ mode \in Modes /\ order \in Processes
  /\ status = "running" /\ broken = order[1]
  /\ job = [h \in Hosts |-> "none"] /\ timer = [h \in Hosts |-> "none"]
  /\ decided = [h \in Hosts |-> "none"] /\ ended = {}
  /\ sub = [m \in Messages |-> "none"] /\ ext = [m \in Messages |-> "new"] /\ holder = {}
  /\ due = {} /\ alarm = {}
  /\ fire = [h \in Hosts |-> [pc |-> "idle", subs |-> {}]]
  /\ drive = Idle /\ wanted = {"wake"} /\ alive = (mode = "workflow")
  /\ op = [pc |-> "idle", todo |-> {}]
  /\ exits = [h \in Hosts |-> {}]
  /\ calls = [c \in CallKinds |-> 0] /\ faults = 0

-----------------------------------------------------------------------------
(* Claims. *)

\* The plain INSERT of the row that decides the race of h: once, or not at all.
Claimable(h) == decided[h] = "none"
Claim(h, outcome) == decided' = [decided EXCEPT ![h] = outcome]
\* The same of a gateway: gateway_decisions names the branch.
Decide(h, branch) == decided' = [decided EXCEPT ![h] = branch]
Flip(h, to) == timer' = [timer EXCEPT ![h] = IF @ = "armed" THEN to ELSE @]
\* The statements a host's normal exit carries in its batch.
CancelSettle(h) == Claim(h, "cancelled") /\ Flip(h, "cancelled")
\* settleBoundaryTimerCancel: a batch of its own, unless the race is decided.
SettleCancel(h) == IF Claimable(h) THEN CancelSettle(h) ELSE UNCHANGED <<decided, timer>>

\* mutant: a leased job is not abandoned.
AbandonedIdle(state) == IF state = "created" THEN "failed" ELSE state

\* abandonJobOnTimerFireStmt.
Abandoned(state) == IF state \in {"created", "locked"} THEN "failed" ELSE state

\* subscriptionSupersededStmt: subscriptions of `losers` that are still active.
Superseded(losers) ==
  [m \in Messages |-> IF m \in losers /\ sub[m] = "active" THEN "superseded" ELSE sub[m]]

\* releaseActiveSubscriptionsForInstance: the brokers let go, and the rows are superseded.
ReleaseActive == holder' = holder \ {m \in Messages : sub[m] = "active"} /\ sub' = Superseded(Messages)

Created(h) == job' = [job EXCEPT ![h] = "created"]
ArmedRow(h) == timer' = [timer EXCEPT ![h] = "armed"]
Arm(h) == ArmedRow(h) /\ alarm' = alarm \cup {h}
\* A walk past a wait sets the alarm of its timer again, except at a scope.
Rearm(h) == alarm' = IF timer[h] = "armed" THEN alarm \cup {h} ELSE alarm

-----------------------------------------------------------------------------
(* A drive. *)

here == order[drive.at]
Walking(pc, kind) == drive.pc = pc /\ drive.at <= Len(order) /\ Kind[here] = kind

\* The walk leaves the host it is at, or parks there and turns to the next branch.
Leave(path) ==
  /\ exits' = [exits EXCEPT ![here] = @ \cup {path}]
  /\ drive' = [drive EXCEPT !.pc = "walk", !.at = @ + 1, !.todo = {}]
Pass == drive' = [drive EXCEPT !.pc = "walk", !.at = @ + 1, !.todo = {}, !.parked = TRUE]

\* A drive starts.  The Workflow walks on whatever the status is; others read it first.
Begin(by) ==
  /\ drive.pc = "idle" /\ by \in wanted
  /\ wanted' = wanted \ {by}
  /\ \/ /\ alive \/ status \notin Stopped \cup {"compensating"}
        /\ drive' = [Idle EXCEPT !.pc = "walk", !.by = by]
        /\ UNCHANGED status
     \/ /\ ~alive /\ status \in Stopped \cup {"compensating"}
        \* The straggler scan waits for jobs in flight, and then settles.
        /\ status' = IF status = "compensating" /\ \A h \in Hosts : job[h] \notin {"created", "locked"}
                     THEN "compensated" ELSE status
        /\ UNCHANGED drive
  /\ UNCHANGED <<broken, rows, msgs, clock, fire, alive, op, exits, bounds>>

\* An exception ends the drive; all but an operator's call record it as an incident.
Throw ==
  /\ drive' = Idle /\ alive' = FALSE
  /\ IF drive.by = "wake" /\ status \notin Stopped \cup {"compensating"}
     THEN status' = "incident" /\ broken' = here
     ELSE UNCHANGED inst

\* parkWaiting.
Parked == status' = "waiting" /\ Pass

TaskStep ==
  /\ Walking("walk", "task")
  /\ \/ /\ decided[here] = "fired"
        /\ Leave("fired") /\ UNCHANGED <<inst, rows, alarm, alive>>
     \/ /\ decided[here] # "fired" /\ job[here] = "applied"
        /\ Leave("normal") /\ UNCHANGED <<inst, rows, alarm, alive>>
     \/ /\ decided[here] # "fired" /\ job[here] = "none"
        /\ Created(here) /\ Arm(here) /\ Parked
        /\ UNCHANGED <<broken, decided, ended, exits, alive>>
     \/ /\ decided[here] # "fired" /\ job[here] \in {"created", "locked"}
        /\ Rearm(here) /\ Parked
        /\ UNCHANGED <<broken, rows, exits, alive>>
     \/ /\ Claimable(here) /\ job[here] = "completed"
        /\ CancelSettle(here)
        /\ job' = [job EXCEPT ![here] = "applied"]
        /\ status' = "running" /\ Leave("normal")
        /\ UNCHANGED <<broken, ended, alarm, alive>>
     \/ \* The claim fails for a row that is not 'fired': nothing to convert to.
        /\ decided[here] = "cancelled" /\ job[here] = "completed"
        /\ Throw /\ UNCHANGED <<rows, alarm, exits>>
     \/ /\ decided[here] # "fired" /\ job[here] = "failed"
        /\ SettleCancel(here)
        /\ drive' = [drive EXCEPT !.pc = "raise"]
        /\ UNCHANGED <<inst, job, ended, alarm, exits, alive>>
  /\ UNCHANGED <<msgs, due, fire, wanted, op, bounds>>

\* createIncident, which leaves a stopped or compensating instance alone, ends the drive.
Raise ==
  /\ drive.pc = "raise"
  /\ IF status \in Stopped \cup {"compensating"} THEN UNCHANGED inst
     ELSE status' = "incident" /\ broken' = here
  /\ drive' = Idle /\ alive' = FALSE
  /\ UNCHANGED <<rows, msgs, clock, fire, wanted, op, exits, bounds>>

CatchStep ==
  /\ Walking("walk", "catch")
  /\ \/ /\ decided[here] = "fired"
        /\ Leave("fired") /\ UNCHANGED <<status, timer, alarm>>
     \/ /\ decided[here] # "fired" /\ timer[here] = "none"
        /\ Arm(here) /\ Parked /\ UNCHANGED exits
     \/ /\ decided[here] # "fired" /\ timer[here] # "none"
        /\ Rearm(here) /\ Pass /\ UNCHANGED <<status, timer, exits>>
  /\ UNCHANGED <<broken, job, decided, ended, msgs, due, fire, wanted, alive, op, bounds>>

\* The drain of a scope whose timer has fired: its task in flight is abandoned.
Drained(h) == job' = [job EXCEPT ![h] = Abandoned(@)]

\* enterScope: the timer of a scope is armed with the marker of its entry, once.
EnterScope(h) ==
  IF timer[h] = "none" THEN Arm(h) /\ status' = "running" ELSE UNCHANGED <<timer, alarm, status>>

ScopeStep ==
  /\ Walking("walk", "scope")
  /\ \/ /\ decided[here] = "fired"
        /\ Drained(here) /\ Leave("fired") /\ UNCHANGED <<status, timer, alarm>>
     \/ /\ decided[here] # "fired"
        /\ EnterScope(here)
        /\ drive' = [drive EXCEPT !.pc = "inner"]
        /\ UNCHANGED <<job, exits>>
  /\ UNCHANGED <<broken, decided, ended, msgs, due, fire, wanted, alive, op, bounds>>

\* The task of a scope, and the end of the scope behind it.
InnerStep ==
  /\ Walking("inner", "scope")
  /\ \/ /\ job[here] = "none"
        /\ Created(here) /\ Parked
        /\ UNCHANGED <<broken, timer, decided, ended, exits, alive>>
     \/ /\ job[here] \in {"created", "locked"}
        /\ Parked /\ UNCHANGED <<broken, rows, exits, alive>>
     \/ /\ job[here] = "completed"
        /\ job' = [job EXCEPT ![here] = "applied"] /\ status' = "running"
        /\ UNCHANGED <<broken, timer, decided, ended, drive, exits, alive>>
     \/ /\ job[here] = "failed"
        /\ drive' = [drive EXCEPT !.pc = "raise"]
        /\ UNCHANGED <<inst, rows, exits, alive>>
     \/ /\ job[here] = "applied" /\ here \in ended
        /\ Leave("normal") /\ UNCHANGED <<inst, rows, alive>>
     \/ /\ job[here] = "applied" /\ here \notin ended /\ Claimable(here)
        /\ CancelSettle(here)
        /\ ended' = ended \cup {here} /\ status' = "running" /\ Leave("normal")
        /\ UNCHANGED <<broken, job, alive>>
     \/ \* convertOnFire: the timer was first.
        /\ job[here] = "applied" /\ here \notin ended /\ decided[here] = "fired"
        /\ Leave("fired") /\ UNCHANGED <<inst, rows, alive>>
     \/ /\ job[here] = "applied" /\ here \notin ended /\ decided[here] = "cancelled"
        /\ Throw /\ UNCHANGED <<rows, exits>>
  /\ UNCHANGED <<msgs, clock, fire, wanted, op, bounds>>

\* applyEbgMessage: one batch with the plain INSERT of the decision, or the branch it lost to.
Apply(m) ==
  IF Claimable(here)
  THEN /\ Decide(here, m) /\ Flip(here, "cancelled")
       /\ sub' = [Superseded(ArmsOf[here] \ {m}) EXCEPT ![m] = IF @ = "active" THEN "consumed" ELSE @]
       /\ ext' = [ext EXCEPT ![m] = "applied"] /\ status' = "running"
       /\ drive' = [drive EXCEPT !.pc = "release",
                                 !.todo = {l \in ArmsOf[here] \ {m} : sub[l] = "active"}]
       /\ UNCHANGED exits
  ELSE Leave(decided[here]) /\ UNCHANGED <<decided, timer, sub, ext, status>>

\* parkEventBasedGateway up to the registrations: rows and timer at the first visit, and the
\* alarm set again afterwards.
ParkGate ==
  /\ IF timer[here] = "none"
     THEN /\ Arm(here) /\ status' = "waiting"
          /\ sub' = [m \in Messages |-> IF m \in ArmsOf[here] THEN "active" ELSE sub[m]]
     ELSE Rearm(here) /\ UNCHANGED <<timer, status, sub>>
  /\ drive' = [drive EXCEPT !.pc = "look", !.todo = ArmsOf[here], !.again = (timer[here] # "none")]

GateStep ==
  /\ Walking("walk", "gate")
  /\ \/ /\ ~Claimable(here)
        /\ Leave(decided[here]) /\ UNCHANGED <<status, decided, timer, sub, ext, alarm>>
     \/ /\ Claimable(here)
        /\ \E m \in ArmsOf[here] : ext[m] = "correlated" /\ Apply(m)
        /\ UNCHANGED alarm
     \/ /\ Claimable(here) /\ \A m \in ArmsOf[here] : ext[m] # "correlated"
        /\ ParkGate /\ UNCHANGED <<decided, ext, exits>>
  /\ UNCHANGED <<broken, job, ended, holder, due, fire, wanted, alive, op, bounds>>

\* The branches register one after the other; a drive that has not parked the gate itself
\* looks at the row first.
Look ==
  /\ drive.pc = "look"
  /\ \/ \E m \in drive.todo :
          drive' = IF drive.again /\ sub[m] # "active"
                   THEN [drive EXCEPT !.todo = @ \ {m}]
                   ELSE [drive EXCEPT !.pc = "register", !.arm = m, !.todo = @ \ {m}]
     \/ drive.todo = {} /\ Pass
  /\ UNCHANGED <<inst, rows, msgs, clock, fire, wanted, alive, op, exits, bounds>>

\* registerSubscription: a buffered message is handed over at once.
Register ==
  /\ drive.pc = "register"
  /\ IF ext[drive.arm] = "buffered"
     THEN /\ ext' = [ext EXCEPT ![drive.arm] = "claimed"]
          /\ drive' = [drive EXCEPT !.pc = "apply"] /\ UNCHANGED holder
     ELSE /\ holder' = holder \cup {drive.arm}
          /\ drive' = [drive EXCEPT !.pc = "look"] /\ UNCHANGED ext
  /\ UNCHANGED <<inst, rows, sub, clock, fire, wanted, alive, op, exits, bounds>>

ApplyClaimed ==
  /\ drive.pc = "apply" /\ Apply(drive.arm)
  /\ UNCHANGED <<broken, job, ended, holder, clock, fire, wanted, alive, op, bounds>>

ReleaseLosers ==
  /\ drive.pc = "release"
  /\ holder' = holder \ drive.todo /\ Leave(decided[here])
  /\ UNCHANGED <<inst, rows, sub, ext, clock, fire, wanted, alive, op, bounds>>

\* completeInstanceGuarded.
CompletedGuarded == IF status \in {"running", "waiting"} THEN "completed" ELSE status

\* Past the last host a drive ends: the instance completes unless a branch has parked.  In a
\* region the transition is guarded.
Finish ==
  /\ drive.pc = "walk" /\ drive.at > Len(order)
  /\ drive' = Idle
  /\ IF drive.parked THEN UNCHANGED <<status, alive>>
     ELSE /\ alive' = FALSE
          /\ status' = IF Region THEN CompletedGuarded ELSE "completed"
  /\ UNCHANGED <<broken, rows, msgs, clock, fire, wanted, op, exits, bounds>>

Drive ==
  \/ \E by \in {"wake", "operator"} : Begin(by)
  \/ TaskStep \/ CatchStep \/ ScopeStep \/ InnerStep \/ GateStep
  \/ Raise \/ Look \/ Register \/ ApplyClaimed \/ ReleaseLosers \/ Finish

\* wakeBackstop: the wait of a Workflow times out and it walks again.
Backstop ==
  /\ alive /\ drive.pc = "idle" /\ wanted = {}
  /\ wanted' = {"wake"}
  /\ UNCHANGED <<inst, rows, msgs, clock, fire, drive, alive, op, exits, bounds>>

-----------------------------------------------------------------------------
(* Alarms. *)

Deadline(h) ==
  /\ timer[h] = "armed" /\ h \notin due
  /\ due' = due \cup {h}
  /\ UNCHANGED <<inst, rows, msgs, alarm, fire, drive, wanted, alive, op, exits, bounds>>

Handler(h, pc, subs) == fire' = [fire EXCEPT ![h] = [pc |-> pc, subs |-> subs]]
\* The handler ends with deleteAll.
Teardown(h) == Handler(h, "idle", {}) /\ alarm' = alarm \ {h}

\* mutant: a frozen timer ends with deleteAll like any other.
RingOnce(h) ==
  /\ h \in alarm /\ h \in due /\ fire[h].pc = "idle"
  /\ IF timer[h] = "armed" /\ (h \in Gates \/ Claimable(h)) /\ status \in {"running", "waiting"}
     THEN Handler(h, "plan", {}) /\ alarm' = alarm \ {h}
     ELSE Teardown(h)
  /\ UNCHANGED <<inst, rows, msgs, due, drive, wanted, alive, op, exits, bounds>>

\* fireTimer up to its dispatch.  A frozen task or gateway sets the alarm for a minute later.
Ring(h) ==
  /\ h \in alarm /\ h \in due /\ fire[h].pc = "idle"
  /\ \/ /\ timer[h] # "armed" \/ (h \notin Gates /\ ~Claimable(h)) \/ status \in Done
        /\ Teardown(h)
     \/ /\ timer[h] = "armed" /\ (h \in Gates \/ Claimable(h)) /\ status \notin Done
        /\ \/ /\ status \in {"running", "waiting"}
              /\ Handler(h, "plan", {}) /\ alarm' = alarm \ {h}
           \/ /\ status \in {"incident", "compensating"} /\ Kind[h] \in {"scope", "catch"}
              /\ Handler(h, "frozen", {}) /\ alarm' = alarm \ {h}
           \/ /\ status \in {"incident", "compensating"} /\ Kind[h] \in {"task", "gate"}
              /\ UNCHANGED <<alarm, fire>>
  /\ UNCHANGED <<inst, rows, msgs, due, drive, wanted, alive, op, exits, bounds>>

\* recordSuppressedTimerFire: the claim and nothing else.  Nobody walks for it ("missed", a
\* history of the handler) when the incident it saw is over by then.
Suppress(h) ==
  /\ fire[h].pc = "frozen"
  /\ IF Claimable(h) THEN Claim(h, "fired") /\ Flip(h, "fired")
     ELSE UNCHANGED <<decided, timer>>
  /\ Handler(h, IF Claimable(h) /\ status \in {"running", "waiting"} THEN "missed" ELSE "idle", {})
  /\ alarm' = alarm \ {h}
  /\ UNCHANGED <<inst, job, ended, msgs, due, drive, wanted, alive, op, exits, bounds>>

\* The wait a timer guards is over: nothing to fire.
TaskOver(h) == job[h] \notin {"created", "locked"}
CatchOver(h) == ~Claimable(h)
Resolved(h) ==
  CASE Kind[h] = "task" -> TaskOver(h)
    [] Kind[h] = "scope" -> h \in ended
    [] Kind[h] = "catch" -> CatchOver(h)
    [] Kind[h] = "gate" -> ~Claimable(h)

Plan(h) ==
  /\ fire[h].pc = "plan"
  /\ IF Resolved(h)
     THEN /\ Teardown(h)
          /\ IF h \in Gates THEN Flip(h, "cancelled") ELSE UNCHANGED timer
     ELSE /\ Handler(h, "commit", {m \in ArmsOf[h] : sub[m] = "active"})
          /\ UNCHANGED <<timer, alarm>>
  /\ UNCHANGED <<inst, job, decided, ended, msgs, due, drive, wanted, alive, op, exits, bounds>>

\* mutant: the claim replaces the row of whoever was first.
CommitOver(h) ==
  /\ fire[h].pc = "commit"
  /\ Claim(h, "fired") /\ Flip(h, "fired")
  /\ job' = IF Kind[h] = "task" THEN [job EXCEPT ![h] = Abandoned(@)] ELSE job
  /\ sub' = Superseded(fire[h].subs) /\ status' = "running"
  /\ Handler(h, "wake", {})
  /\ UNCHANGED <<broken, ended, ext, holder, clock, drive, wanted, alive, op, exits, bounds>>

\* The winning fire: claim, flip, the host's wait and the transition in one batch.
Commit(h) ==
  /\ fire[h].pc = "commit"
  /\ \/ /\ Claimable(h)
        /\ Claim(h, "fired") /\ Flip(h, "fired")
        /\ job' = IF Kind[h] = "task" THEN [job EXCEPT ![h] = Abandoned(@)] ELSE job
        /\ sub' = Superseded(fire[h].subs)
        /\ status' = "running"
        /\ Handler(h, IF h \in Gates THEN "release" ELSE "wake", fire[h].subs)
        /\ UNCHANGED alarm
     \/ /\ ~Claimable(h)
        /\ Teardown(h)
        /\ IF h \in Gates THEN Flip(h, "cancelled") ELSE UNCHANGED timer
        /\ UNCHANGED <<decided, job, sub, status>>
  /\ UNCHANGED <<broken, ended, ext, holder, due, drive, wanted, alive, op, exits, bounds>>

ReleaseAll(h) ==
  /\ fire[h].pc = "release"
  /\ holder' = holder \ fire[h].subs /\ Handler(h, "wake", {})
  /\ UNCHANGED <<inst, rows, sub, ext, clock, drive, wanted, alive, op, exits, bounds>>

Wake(h) ==
  /\ fire[h].pc = "wake"
  /\ wanted' = wanted \cup {"wake"} /\ Teardown(h)
  /\ UNCHANGED <<inst, rows, msgs, due, drive, alive, op, exits, bounds>>

\* A handler that dies is run again, from its start; armTimer may fail.
HandlerDies(h) ==
  /\ fire[h].pc \notin {"idle", "missed"} /\ faults < MaxFaults[order]
  /\ faults' = faults + 1
  /\ Handler(h, "idle", {}) /\ alarm' = alarm \cup {h}
  /\ UNCHANGED <<inst, rows, msgs, due, drive, wanted, alive, op, exits, mode, order, calls>>

AlarmLost(h) ==
  /\ h \in alarm /\ fire[h].pc = "idle" /\ faults < MaxFaults[order]
  /\ faults' = faults + 1 /\ alarm' = alarm \ {h}
  /\ UNCHANGED <<inst, rows, msgs, due, fire, drive, wanted, alive, op, exits, mode, order, calls>>

Alarm(h) == Ring(h) \/ Suppress(h) \/ Plan(h) \/ Commit(h) \/ ReleaseAll(h) \/ Wake(h)

-----------------------------------------------------------------------------
(* Workers and publishers. *)

Activate(h) ==
  /\ job[h] = "created"
  /\ job' = [job EXCEPT ![h] = "locked"]
  /\ UNCHANGED <<inst, timer, decided, ended, msgs, clock, fire, drive, wanted, alive, op,
                 exits, bounds>>

Report(h) ==
  /\ job[h] = "locked"
  /\ \/ job' = [job EXCEPT ![h] = "completed"]
     \/ h \in Fallible /\ job' = [job EXCEPT ![h] = "failed"]
  /\ wanted' = wanted \cup {"wake"}
  /\ UNCHANGED <<inst, timer, decided, ended, msgs, clock, fire, drive, alive, op, exits, bounds>>

Publish(m) ==
  /\ ext[m] = "new" /\ \E k \in DOMAIN order : m \in ArmsOf[order[k]]
  /\ ext' = [ext EXCEPT ![m] = IF m \in holder THEN "matched" ELSE "buffered"]
  /\ holder' = holder \ {m}
  /\ UNCHANGED <<inst, rows, sub, clock, fire, drive, wanted, alive, op, exits, bounds>>

\* The record in external_messages, and the delivery: a Workflow that has ended refuses it.
Record(m) ==
  /\ ext[m] = "matched"
  /\ ext' = [ext EXCEPT ![m] = "correlated"]
  /\ wanted' = IF mode = "workflow" /\ ~alive THEN wanted ELSE wanted \cup {"wake"}
  /\ UNCHANGED <<inst, rows, sub, holder, clock, fire, drive, alive, op, exits, bounds>>

-----------------------------------------------------------------------------
(* The operator. *)

Call(kind, pc) ==
  /\ calls[kind] < MaxCalls[order][kind] /\ calls' = [calls EXCEPT ![kind] = @ + 1]
  /\ op' = [pc |-> pc, todo |-> {}]

Cancel ==
  /\ op.pc = "idle" /\ status \in {"running", "waiting", "incident"} /\ Call("cancel", "clear")
  /\ UNCHANGED <<inst, rows, msgs, clock, fire, drive, wanted, alive, exits, mode, order, faults>>

\* A region gives its subscriptions back; otherwise the job in flight is abandoned.  Then the
\* armed timers are listed.
Clear ==
  /\ op.pc = "clear"
  /\ IF Region
     THEN ReleaseActive /\ UNCHANGED job
     ELSE /\ job' = [h \in Hosts |-> Abandoned(job[h])] /\ UNCHANGED <<holder, sub>>
  /\ op' = [pc |-> "sweep", todo |-> {h \in Hosts : timer[h] = "armed"}]
  /\ UNCHANGED <<inst, timer, decided, ended, ext, clock, fire, drive, wanted, alive, exits, bounds>>

\* cancelArmedTimersForInstance, timer by timer: a gateway's decider is not written.
Sweep(h) ==
  /\ op.pc = "sweep" /\ h \in op.todo
  /\ op' = [op EXCEPT !.todo = @ \ {h}]
  /\ \/ h \in Gates /\ Flip(h, "cancelled") /\ UNCHANGED decided
     \/ h \notin Gates /\ Claimable(h) /\ CancelSettle(h)
     \/ h \notin Gates /\ ~Claimable(h) /\ UNCHANGED <<decided, timer>>
  /\ UNCHANGED <<inst, job, ended, msgs, clock, fire, drive, wanted, alive, exits, bounds>>

\* terminate, and the guarded transition: a region has live tokens to settle first.
Close ==
  /\ op.pc = "sweep" /\ op.todo = {}
  /\ op' = [pc |-> "idle", todo |-> {}]
  /\ alive' = FALSE
  /\ drive' = IF alive THEN Idle ELSE drive
  /\ \/ /\ status \in {"running", "waiting", "incident"} /\ ~Region
        /\ status' = "cancelled" /\ UNCHANGED wanted
     \/ /\ status \in {"running", "waiting", "incident"} /\ Region
        /\ status' = "compensating" /\ wanted' = wanted \cup {"operator"}
     \/ /\ status \notin {"running", "waiting", "incident"}
        /\ UNCHANGED <<status, wanted>>
  /\ UNCHANGED <<broken, rows, msgs, clock, fire, exits, bounds>>

\* resetJobForRetry, and then the guarded transition and resumeInline.
RetryReset ==
  /\ op.pc = "idle" /\ status = "incident" /\ Call("retry", "reset")
  /\ job' = [job EXCEPT ![broken] = IF @ \in {"locked", "failed", "completed"} THEN "created" ELSE @]
  /\ UNCHANGED <<inst, timer, decided, ended, msgs, clock, fire, drive, wanted, alive, exits, mode, order,
                 faults>>

RetryResume ==
  /\ op.pc = "reset"
  /\ op' = [pc |-> "idle", todo |-> {}]
  /\ IF status = "incident" THEN status' = "running" /\ wanted' = wanted \cup {"operator"}
     ELSE UNCHANGED <<status, wanted>>
  /\ UNCHANGED <<broken, rows, msgs, clock, fire, drive, alive, exits, bounds>>

Operator == Cancel \/ Clear \/ (\E h \in Hosts : Sweep(h)) \/ Close \/ RetryReset \/ RetryResume

Next ==
  \/ Drive \/ Backstop \/ Operator
  \/ \E h \in Hosts : Deadline(h) \/ Alarm(h) \/ HandlerDies(h) \/ AlarmLost(h)
                      \/ Activate(h) \/ Report(h)
  \/ \E m \in Messages : Publish(m) \/ Record(m)

Spec == Init /\ [][Next]_vars

(***************************************************************************)
(* A drive, a handler and a call that have begun go on, an alarm that is   *)
(* set and due rings, time passes, and a Workflow's wait times out.        *)
(* Workers, publishers and the operator need not act.                      *)
(***************************************************************************)
FairSpec ==
  /\ Spec /\ WF_vars(Drive) /\ WF_vars(Backstop)
  /\ \A h \in Hosts : WF_vars(Deadline(h)) /\ WF_vars(Alarm(h)) /\ WF_vars(Sweep(h))
  /\ \A m \in Messages : WF_vars(Record(m))
  /\ WF_vars(Clear) /\ WF_vars(Close) /\ WF_vars(RetryResume)

-----------------------------------------------------------------------------
(* Properties. *)

(* Every race has one winner and every walk takes its path: whichever of completion, message,  *)
(* alarm, suppressed record, sweep and conversion come together, no two drives leave a host    *)
(* on different flows, and the flow is the one its decider names                               *)
(* (boundary-timer.ts:6-30, event-gateway.ts:6-40).                                            *)
OnePath ==
  \A h \in Hosts : \A path \in exits[h] :
    /\ exits[h] = {path}
    /\ path = "normal" => decided[h] = "cancelled"
    /\ path # "normal" => decided[h] = path

(* Nothing of a wait stays open behind the walk: once a host is left its task can no longer be *)
(* leased, its branches hold no active subscription in D1, and its timer is not armed          *)
(* (timers.ts:116-123, event-gateway.ts:498-515).                                              *)
NothingLeftOpen ==
  \A h \in Hosts : exits[h] # {} =>
    /\ job[h] \notin {"created", "locked"}
    /\ \A m \in ArmsOf[h] : sub[m] # "active"
    /\ timer[h] # "armed"

Overdue(h) ==
  /\ h \in due /\ exits[h] = {} /\ status \in {"running", "waiting"}
  /\ timer[h] = "armed" \/ decided[h] = "fired"

\* A retried task whose timer was cancelled when it failed: every walk throws (timer_retry).
Wedged == \E h \in Hosts : Kind[h] = "task" /\ decided[h] = "cancelled" /\ job[h] = "completed"

(* A deadline that has passed is applied while the instance is active, also when it passed     *)
(* while an incident froze it.  After a lost alarm or a handler that died only a Workflow's    *)
(* backstop repairs it, and not for a scope, whose alarm no walk sets again; a cancel may meet *)
(* a drive that goes on and parks, and a fire that saw an incident a retry that ends it        *)
(* (timers.ts:75-93, wake.ts, engine.ts:335-342).                                              *)
DeadlineKept ==
  \A h \in Hosts :
    []<>\/ ~Overdue(h) \/ Wedged \/ calls["cancel"] > 0 \/ fire[h].pc = "missed"
        \/ faults > 0 /\ (~alive \/ Kind[h] = "scope")

(* A result a worker has delivered is taken up: the drive after it, or after an operator's     *)
(* retry, applies it or leaves the host (boundary-timer.ts:151-154: the batch aborts only when *)
(* the timer fired first).                                                                     *)
ResultApplied ==
  \A h \in Hosts : job[h] = "completed" ~> job[h] # "completed" \/ exits[h] # {}
=============================================================================
