--------------------------- MODULE CallActivity ---------------------------
(***************************************************************************)
(* A tree of process instances: a root and the children its call          *)
(* activities invoke, down to any depth.  Every instance is a row of its   *)
(* own with a drive, a ledger and, in workflow mode, a Workflow of its     *)
(* own; what keeps the tree together are the rows of child_instances, the  *)
(* notification of the parent, and the cascades of cancel, retry and       *)
(* compensation.  The body of every process is one transaction, a sequence *)
(* of service tasks and call activities.                                   *)
(*                                                                         *)
(* A step is one D1 statement or batch with the reads just before it.  A   *)
(* drive re-walks from the start, and is modelled from the first step      *)
(* that D1 does not say is behind it.  Drives of one instance exclude each *)
(* other; a notification does not hold the child's lock while it waits for *)
(* the parent's.  Leases, regions and multi-instance calls are left out:   *)
(* Saga has the leases and regions of one instance.                        *)
(***************************************************************************)
EXTENDS Naturals, Sequences, FiniteSets

CONSTANTS
  Instances, Root,
  Tasks,        \* service tasks, all with a compensation handler
  Body,         \* per instance, its steps: tasks, and the children its calls invoke
  MayErr,       \* children whose process may end in an error end event
  Catching,     \* children whose call may have an error boundary
  Timed,        \* children whose call has a boundary timer (it leads to the next step)
  Fallible,     \* tasks whose job, or whose compensation job, may exhaust its retries
  Modes,        \* values of EXECUTION_MODE considered
  MaxCalls,     \* bound: calls of an operator
  MaxLost       \* bound: notifications of a parent that get lost

Children == Instances \ {Root}
Steps == Tasks \cup Children
StepsOf(i) == {Body[i][k] : k \in DOMAIN Body[i]}
Owner(s) == CHOOSE i \in Instances : s \in StepsOf(i)
Index(s) == CHOOSE k \in DOMAIN Body[Owner(s)] : Body[Owner(s)][k] = s
ChildrenOf(i) == StepsOf(i) \ Tasks

\* Everything an instance has invoked, directly or through its children.
Below(i) ==
  LET level[n \in 0..Cardinality(Instances)] ==
        IF n = 0 THEN ChildrenOf(i)
        ELSE level[n - 1] \cup UNION {ChildrenOf(c) : c \in level[n - 1]}
  IN  level[Cardinality(Instances)]

ASSUME Tree ==
  /\ Root \in Instances /\ Tasks \cap Instances = {}
  /\ Body \in [Instances -> Seq(Steps)]
  /\ \A s \in Steps : \E i \in Instances : s \in StepsOf(i)
  /\ \A i, j \in Instances : \A k \in DOMAIN Body[i], l \in DOMAIN Body[j] :
       Body[i][k] = Body[j][l] => i = j /\ k = l
  /\ Below(Root) = Children
ASSUME Kinds == MayErr \cup Catching \cup Timed \subseteq Children /\ Fallible \subseteq Tasks
ASSUME Bounds == Modes \subseteq {"direct", "workflow"} /\ MaxCalls \in Nat /\ MaxLost \in Nat

VARIABLES
  mode,
  status,     \* process_instances.status
  committed,  \* instances whose transaction has committed
  pos,        \* the step the live token is parked on by execution_tokens, 0 for none
  bound,      \* child_instances.status
  timer,      \* per call, its boundary timer: none, armed or the outcome that decided it
  job, comp,  \* forward and compensation job of each task
  ledger,     \* saga_steps.compensation_status per step
  errs,       \* children whose exclusive gateway leads to the error end
  caught,     \* children whose call has an error boundary, one that leads to the next step
  drive,      \* per instance, the drive that holds its lock
  wanted,     \* instances a drive is asked for
  asked,      \* instances whose parent's drive waits for a drive inside its own
  alive,      \* instances with a Workflow that has not ended
  notify,     \* per child, its child-notify alarm: the attempt, or Off
  ringing,    \* children whose child-notify alarm is being handled
  fire,       \* calls whose timer alarm has planned to fire
  op,         \* the operator's call in progress
  calls, lost

rows == <<status, committed, pos>>
visit == <<bound, timer>>
jobs == <<job, comp>>
sched == <<wanted, asked, alive>>
alarms == <<notify, ringing, fire>>
bounds == <<mode, errs, caught, calls, lost>>
vars == <<rows, visit, jobs, ledger, drive, sched, alarms, op, bounds>>

Off == 99
Tries == 4              \* CHILD_NOTIFY_BACKOFF_MS has four entries
Statuses == {"absent", "starting", "running", "waiting", "incident", "completed", "errored",
             "cancelled", "compensating", "compensated", "compensationFailed"}
Terminal == {"completed", "incident", "compensated", "compensationFailed", "cancelled", "errored"}
Consumable == {"completed", "errored", "cancelled", "compensated", "compensationFailed"}
Cancellable == {"running", "waiting", "incident"}
JobStates == {"none", "created", "done", "applied", "failed"}
Work == [do : {"visit", "abandon", "settle", "descend", "heal", "reset", "move", "join",
               "disarm"},
         at : Instances, seen : Statuses]
Pcs == {"idle", "walk", "look", "raise", "sync", "tail", "scan", "retain", "pass", "begun",
        "counted", "inner"}
Drives == [pc : Pcs, back : {"look", "scan"}, nested : BOOLEAN, flow : BOOLEAN,
           child : Instances, todo : Seq(Work)]
Operators == [pc : {"idle", "abandon", "cascade", "decide", "close", "open", "resume",
                    "heal", "root"},
              todo : Seq(Work), healed : SUBSET Instances]

(* Every row, alarm and process keeps its shape. *)
TypeOK ==
  /\ mode \in Modes
  /\ status \in [Instances -> Statuses] /\ committed \subseteq Instances
  /\ pos \in [Instances -> Nat] /\ \A i \in Instances : pos[i] <= Len(Body[i]) + 1
  /\ bound \in [Children -> {"none", "invoked", "outputApplied"}]
  /\ timer \in [Children -> {"none", "armed", "fired", "cancelled"}]
  /\ job \in [Tasks -> JobStates] /\ comp \in [Tasks -> JobStates]
  /\ ledger \in [Steps -> {"none", "pending", "committed", "compensated", "failed",
                           "notRequired"}]
  /\ errs \subseteq MayErr /\ caught \subseteq Catching
  /\ drive \in [Instances -> Drives] /\ op \in Operators
  /\ wanted \subseteq Instances /\ asked \subseteq Instances /\ alive \subseteq Instances
  /\ notify \in [Children -> 0..Tries \cup {Off}]
  /\ ringing \subseteq Children /\ fire \subseteq Children
  /\ calls \in 0..MaxCalls /\ lost \in 0..MaxLost

NoDrive == [pc |-> "idle", back |-> "look", nested |-> FALSE, flow |-> FALSE, child |-> Root,
            todo |-> <<>>]
NoCall == [pc |-> "idle", todo |-> <<>>, healed |-> {}]
Do(what, i) == [do |-> what, at |-> i, seen |-> "absent"]

Init ==
  /\ mode \in Modes /\ errs \in SUBSET MayErr /\ caught \in SUBSET Catching
  /\ status = [i \in Instances |-> IF i = Root THEN "starting" ELSE "absent"]
  /\ committed = {} /\ pos = [i \in Instances |-> 0]
  /\ bound = [c \in Children |-> "none"] /\ timer = [c \in Children |-> "none"]
  /\ job = [t \in Tasks |-> "none"] /\ comp = [t \in Tasks |-> "none"]
  /\ ledger = [s \in Steps |-> "none"]
  /\ drive = [i \in Instances |-> NoDrive]
  /\ wanted = {Root} /\ asked = {}
  /\ alive = IF mode = "workflow" THEN {Root} ELSE {}
  /\ notify = [c \in Children |-> Off] /\ ringing = {} /\ fire = {}
  /\ op = NoCall /\ calls = 0 /\ lost = 0

\* An item of a list of children, with the status the list read.  A call without a row, and
\* any other step, stays an item that nothing is done for: it was seen absent.
Listed(what, s) ==
  IF s \in Instances THEN [do |-> what, at |-> s, seen |-> status[s]] ELSE Do(what, Root)
List(what, i) == [k \in DOMAIN Body[i] |-> Listed(what, Body[i][k])]

-----------------------------------------------------------------------------
(* Drives: runInstance.                                                        *)

Pc(i, p) == drive[i].pc = p
Goes(i, p) == drive' = [drive EXCEPT ![i].pc = p]

\* A Workflow waits inside its drive; any other drive returns, through the token sync.
Parks(i) == drive' = [drive EXCEPT ![i] = IF @.flow THEN NoDrive ELSE [@ EXCEPT !.pc = "sync"]]

EntersAt(i) == IF status[i] = "compensating" THEN "scan"
               ELSE IF status[i] \in Terminal THEN "tail" ELSE "walk"
Enter(i, nested) ==
  drive' = [drive EXCEPT ![i] =
    [NoDrive EXCEPT !.nested = nested, !.flow = ~nested /\ i \in alive, !.pc = EntersAt(i)]]

StartDrive(i) ==
  /\ Pc(i, "idle")
  /\ \/ /\ i \in asked /\ Enter(i, TRUE)
        /\ UNCHANGED <<wanted, asked>>
     \/ /\ i \in wanted /\ Enter(i, FALSE)
        /\ wanted' = wanted \ {i} /\ UNCHANGED asked
  /\ UNCHANGED <<rows, visit, jobs, ledger, alive, alarms, op, bounds>>

Owned(i) == Tasks \cap StepsOf(i)
Ineligible(c) == status[c] \in Terminal \cup {"absent", "compensating"}
Routed(c) == status[c] # "errored" \/ c \in caught

\* mutant: a result that has come but is not applied counts as applied
PassedOnResult(s) ==
  IF s \in Tasks THEN job[s] \in {"done", "applied"}
  ELSE \/ timer[s] = "fired" /\ Ineligible(s)
       \/ timer[s] # "fired" /\ bound[s] = "outputApplied" /\ Routed(s)

\* A step is behind the walk: driveCallActivity and driveServiceTask pass over it.
Passed(s) ==
  IF s \in Tasks THEN job[s] = "applied"
  ELSE \/ timer[s] = "fired" /\ Ineligible(s)
       \/ timer[s] # "fired" /\ bound[s] = "outputApplied" /\ Routed(s)
Ahead(i) == {k \in DOMAIN Body[i] : ~Passed(Body[i][k])}
First(K) == CHOOSE k \in K : \A l \in K : k <= l
\* mutant: the position runs past the end
Past(i) == IF Ahead(i) = {} THEN Len(Body[i]) + 2 ELSE First(Ahead(i))
Frontier(i) == IF Ahead(i) = {} THEN Len(Body[i]) + 1 ELSE First(Ahead(i))
Walking(i) == Pc(i, "walk") /\ Frontier(i) <= Len(Body[i])
WalksAt(i, s) == Walking(i) /\ Body[i][Frontier(i)] = s
AtEnd(i) == Pc(i, "walk") /\ Frontier(i) > Len(Body[i])

CreateJob(i, t) ==
  /\ WalksAt(i, t) /\ job[t] = "none"
  /\ job' = [job EXCEPT ![t] = "created"]
  /\ UNCHANGED <<rows, visit, comp, ledger, drive, sched, alarms, op, bounds>>

ParkTask(i, t) ==
  /\ WalksAt(i, t) /\ job[t] = "created"
  /\ status' = [status EXCEPT ![i] = "waiting"]
  /\ Parks(i)
  /\ UNCHANGED <<committed, pos, visit, jobs, ledger, sched, alarms, op, bounds>>

ApplyTask(i, t) ==
  /\ WalksAt(i, t) /\ job[t] = "done"
  /\ job' = [job EXCEPT ![t] = "applied"]
  /\ ledger' = [ledger EXCEPT ![t] = IF @ = "none" THEN "pending" ELSE @]
  /\ status' = [status EXCEPT ![i] = "running"]
  /\ UNCHANGED <<committed, pos, visit, comp, drive, sched, alarms, op, bounds>>

\* createIncident never regresses an instance that is settled or compensating.
Incident(i) ==
  status' = [status EXCEPT ![i] = IF @ \in Terminal \cup {"compensating"} THEN @ ELSE "incident"]

TaskFails(i, t) ==
  /\ WalksAt(i, t) /\ job[t] = "failed"
  /\ Incident(i) /\ Goes(i, "sync")
  /\ UNCHANGED <<committed, pos, visit, jobs, ledger, sched, alarms, op, bounds>>

\* getExecutor(env).start: direct mode drives the child inside the parent's drive.
Start(i, c) ==
  IF mode = "direct"
  THEN /\ drive' = [drive EXCEPT ![i].pc = "inner", ![i].back = "look", ![i].child = c]
       /\ asked' = asked \cup {c} /\ UNCHANGED <<wanted, alive>>
  ELSE /\ Goes(i, "look")
       /\ wanted' = wanted \cup {c} /\ alive' = alive \cup {c} /\ UNCHANGED asked

\* The child's row and the row that binds it to the visit, in one batch.
NewChild(c) ==
  bound' = [bound EXCEPT ![c] = "invoked"] /\ status' = [status EXCEPT ![c] = "starting"]

\* invokeChild, and the start that is issued again while the child is 'starting'.
Invoke(i, c) ==
  /\ WalksAt(i, c) /\ timer[c] # "fired"
  /\ \/ /\ bound[c] = "none"
        /\ NewChild(c)
        /\ timer' = IF c \in Timed THEN [timer EXCEPT ![c] = "armed"] ELSE timer
     \/ /\ bound[c] = "invoked" /\ status[c] = "starting"
        /\ UNCHANGED <<visit, status>>
  /\ Start(i, c)
  /\ UNCHANGED <<committed, pos, jobs, ledger, alarms, op, bounds>>

\* The nested drive has ended, and the parent's drive runs on.
Return(i) ==
  /\ Pc(i, "inner") /\ Pc(drive[i].child, "idle") /\ drive[i].child \notin asked
  /\ drive' = [drive EXCEPT ![i].pc = drive[i].back, ![i].child = Root]
  /\ UNCHANGED <<rows, visit, jobs, ledger, sched, alarms, op, bounds>>

ToApply(i, c) ==
  /\ \/ Pc(i, "look") /\ c \in StepsOf(i) /\ bound[c] = "invoked" /\ Index(c) = Frontier(i)
     \/ WalksAt(i, c) /\ bound[c] = "invoked" /\ status[c] # "starting"
  /\ timer[c] # "fired"

\* applyChildTerminal of a child that completed.
ApplyChild(i, c) ==
  /\ ToApply(i, c) /\ status[c] = "completed"
  /\ bound' = [bound EXCEPT ![c] = "outputApplied"]
  /\ ledger' = [ledger EXCEPT ![c] = IF @ = "none" THEN "pending" ELSE @]
  /\ status' = [status EXCEPT ![i] = "running"]
  /\ Goes(i, "walk")
  /\ UNCHANGED <<committed, pos, timer, jobs, sched, alarms, op, bounds>>

\* applyChildErrored: caught, the route and the timer's cancellation are one batch ...
RouteError(i, c) ==
  /\ ToApply(i, c) /\ status[c] = "errored" /\ c \in caught
  /\ bound' = [bound EXCEPT ![c] = "outputApplied"]
  /\ timer' = IF timer[c] = "armed" THEN [timer EXCEPT ![c] = "cancelled"] ELSE timer
  /\ status' = [status EXCEPT ![i] = "running"]
  /\ Goes(i, "walk")
  /\ UNCHANGED <<committed, pos, jobs, ledger, sched, alarms, op, bounds>>

\* ... uncaught, the timer is cancelled, the row flipped and the incident raised in turn.
FlipUncaught(i, c) ==
  /\ ToApply(i, c) /\ status[c] = "errored" /\ c \notin caught
  /\ IF timer[c] = "armed"
     THEN timer' = [timer EXCEPT ![c] = "cancelled"] /\ UNCHANGED <<bound, drive>>
     ELSE /\ bound' = [bound EXCEPT ![c] = "outputApplied"] /\ Goes(i, "raise")
          /\ UNCHANGED timer
  /\ UNCHANGED <<rows, jobs, ledger, sched, alarms, op, bounds>>

RaiseUncaught(i) ==
  /\ Pc(i, "raise")
  /\ Incident(i) /\ Goes(i, "sync")
  /\ UNCHANGED <<committed, pos, visit, jobs, ledger, sched, alarms, op, bounds>>

\* appliedCallOutcome of such a row: the walk stops, and nothing is written.
StopAtUncaught(i, c) ==
  /\ WalksAt(i, c) /\ timer[c] # "fired" /\ bound[c] = "outputApplied"
  /\ Goes(i, "sync")
  /\ UNCHANGED <<rows, visit, jobs, ledger, sched, alarms, op, bounds>>

ParkCall(i, c) ==
  /\ ToApply(i, c) /\ status[c] \notin {"completed", "errored"}
  /\ status' = [status EXCEPT ![i] = "waiting"]
  /\ Parks(i)
  /\ UNCHANGED <<committed, pos, visit, jobs, ledger, sched, alarms, op, bounds>>

\* After the nested drive the call may be behind the walk, or its timer may have fired.
LookOn(i) ==
  /\ Pc(i, "look") /\ ~\E c \in ChildrenOf(i) : ToApply(i, c)
  /\ Goes(i, "walk")
  /\ UNCHANGED <<rows, visit, jobs, ledger, sched, alarms, op, bounds>>

\* call-timer-exit: the fired timer owes the cascade of the visit's child.
TimerExit(i, c) ==
  /\ WalksAt(i, c) /\ timer[c] = "fired"
  /\ drive' = [drive EXCEPT ![i].pc = "retain", ![i].back = "look",
                            ![i].todo = <<Listed("visit", c)>>]
  /\ UNCHANGED <<rows, visit, jobs, ledger, sched, alarms, op, bounds>>

\* commitTransaction: a root's ledger is sealed, a child's stays open to its parent.
Commit(i) ==
  /\ AtEnd(i) /\ i \notin errs /\ i \notin committed
  /\ committed' = committed \cup {i}
  /\ ledger' = IF i = Root
               THEN [s \in Steps |-> IF s \in StepsOf(i) /\ ledger[s] = "pending"
                                     THEN "committed" ELSE ledger[s]]
               ELSE ledger
  /\ status' = [status EXCEPT ![i] = "running"]
  /\ UNCHANGED <<pos, visit, jobs, drive, sched, alarms, op, bounds>>

Complete(i) ==
  /\ AtEnd(i) /\ i \notin errs /\ i \in committed
  /\ status' = [status EXCEPT ![i] = IF @ \in Terminal THEN @ ELSE "completed"]
  /\ Goes(i, "sync")
  /\ UNCHANGED <<committed, pos, visit, jobs, ledger, sched, alarms, op, bounds>>

\* settleChildErrored.
EndErrored(i) ==
  /\ AtEnd(i) /\ i \in errs
  /\ status' = [status EXCEPT ![i] = IF @ \in Terminal THEN @ ELSE "errored"]
  /\ Goes(i, "sync")
  /\ UNCHANGED <<committed, pos, visit, jobs, ledger, sched, alarms, op, bounds>>

Sync(i) ==
  /\ Pc(i, "sync")
  /\ pos' = [pos EXCEPT ![i] = IF status[i] \in Terminal THEN 0 ELSE Frontier(i)]
  /\ Goes(i, "tail")
  /\ UNCHANGED <<status, committed, visit, jobs, ledger, sched, alarms, op, bounds>>

\* A notification is a drive of the parent, unless it is lost on its way.
Tickle(before, i) ==
  \/ wanted' = before \cup {i} /\ UNCHANGED lost
  \/ lost < MaxLost /\ lost' = lost + 1 /\ wanted' = before

Notifies(i) ==
  /\ i # Root /\ ~drive[i].nested /\ status[i] \in Consumable
  /\ status[Owner(i)] \notin Terminal

\* The end of a drive, and of the Workflow it ran in with the events it had not read.
Leave(i) ==
  /\ Pc(i, "tail")
  /\ drive' = [drive EXCEPT ![i] = NoDrive]
  /\ asked' = IF drive[i].nested THEN asked \ {i} ELSE asked
  /\ alive' = IF drive[i].flow THEN alive \ {i} ELSE alive
  /\ LET left == IF drive[i].flow THEN wanted \ {i} ELSE wanted
     IN  IF Notifies(i)
         THEN notify' = [notify EXCEPT ![i] = 0] /\ Tickle(left, Owner(i))
         ELSE wanted' = left /\ UNCHANGED <<notify, lost>>
  /\ UNCHANGED <<rows, visit, jobs, ledger, ringing, fire, op, mode, errs, caught, calls>>

\* The Workflow's wake backstop: a wait for a child times out and walks again.
Backstop(i) ==
  /\ i \in alive /\ Pc(i, "idle") /\ i \notin wanted
  /\ \E c \in ChildrenOf(i) : bound[c] = "invoked"
  /\ wanted' = wanted \cup {i}
  /\ UNCHANGED <<rows, visit, jobs, ledger, drive, asked, alive, alarms, op, bounds>>

-----------------------------------------------------------------------------
(* cancelChildCascade, run by a drive or by the operator's cancel.             *)

Visits(i) == List("visit", i)

\* What an item of the list puts in front of the rest.
Unfolds(w) ==
  IF w.do = "visit" /\ w.seen # "absent" /\ ~Ineligible(w.at)
  THEN Visits(w.at) \o <<Do("abandon", w.at), Do("disarm", w.at), Do("settle", w.at)>>
  ELSE <<>>

ForwardAbandoned(i) ==
  job' = [t \in Tasks |-> IF t \in StepsOf(i) /\ job[t] = "created" THEN "failed" ELSE job[t]]
TimersCancelled(i) ==
  timer' = [c \in Children |-> IF c \in StepsOf(i) /\ timer[c] = "armed" THEN "cancelled"
                               ELSE timer[c]]

\* terminate: in workflow mode the Workflow ends where it stands; a no-op in direct mode.
Terminated(i) == alive' = alive \ {i} /\ wanted' = IF i \in alive THEN wanted \ {i} ELSE wanted
Killed(i) == IF drive[i].flow THEN [drive EXCEPT ![i] = NoDrive] ELSE drive

\* transitionStatusGuarded: an incident is cancelled too, if the cascade got this far.
SettledBlindly(i) == "cancelled"              \* mutant: the update has no status guard
Settled(i) == IF Ineligible(i) /\ status[i] # "incident" THEN status[i] ELSE "cancelled"

\* What the item does; Drained(w) is the drives it leaves.
Cascades(w) ==
  \/ w.do = "visit" /\ UNCHANGED <<status, visit, jobs, wanted, alive>>
  \/ w.do = "abandon" /\ ForwardAbandoned(w.at) /\ UNCHANGED <<status, visit, comp, wanted, alive>>
  \/ /\ w.do = "disarm"
     /\ TimersCancelled(w.at) /\ Terminated(w.at)
     /\ UNCHANGED <<status, bound, jobs>>
  \/ /\ w.do = "settle"
     /\ status' = [status EXCEPT ![w.at] = Settled(w.at)]
     /\ UNCHANGED <<visit, jobs, wanted, alive>>
Drained(w) == IF w.do = "disarm" THEN Killed(w.at) ELSE drive

Cascade(i) ==
  /\ Pc(i, "retain") /\ drive[i].todo # <<>>
  /\ LET w == Head(drive[i].todo)
     IN  /\ Cascades(w)
         /\ drive' = [Drained(w) EXCEPT ![i].todo = Unfolds(w) \o Tail(drive[i].todo)]
  /\ UNCHANGED <<committed, pos, ledger, asked, alarms, op, bounds>>

TimerExited(i) ==
  /\ Pc(i, "retain") /\ drive[i].todo = <<>> /\ drive[i].back = "look"
  /\ Goes(i, "walk")
  /\ UNCHANGED <<rows, visit, jobs, ledger, sched, alarms, op, bounds>>

-----------------------------------------------------------------------------
(* The reverse pass: runCompensation.                                          *)

Recorded(s, as) == [ledger EXCEPT ![s] = IF @ = "none" THEN as ELSE @]

\* ledgerStragglers: a token on a task is settled against the task's job.
ScanTask(i, t) ==
  /\ Pc(i, "scan") /\ pos[i] \in DOMAIN Body[i] /\ Body[i][pos[i]] = t
  /\ Goes(i, "pass")
  /\ IF job[t] = "created" THEN UNCHANGED <<pos, ledger>>
     ELSE /\ pos' = [pos EXCEPT ![i] = 0]
          /\ ledger' = IF job[t] \in {"done", "applied"} THEN Recorded(t, "pending") ELSE ledger
  /\ UNCHANGED <<status, committed, visit, jobs, sched, alarms, op, bounds>>

\* A token on a call: its child is interrupted first.
ScanCall(i, c) ==
  /\ Pc(i, "scan") /\ pos[i] \in DOMAIN Body[i] /\ Body[i][pos[i]] = c
  /\ IF bound[c] = "none"
     THEN pos' = [pos EXCEPT ![i] = 0] /\ Goes(i, "pass")
     ELSE /\ drive' = [drive EXCEPT ![i].pc = "retain", ![i].back = "scan",
                                    ![i].todo = <<Listed("visit", c)>>]
          /\ UNCHANGED pos
  /\ UNCHANGED <<status, committed, visit, jobs, ledger, sched, alarms, op, bounds>>

\* retainCallStraggler: the child's row and the end of the token are one batch.
RetainCall(i, c) ==
  /\ Pc(i, "retain") /\ drive[i].todo = <<>> /\ drive[i].back = "scan"
  /\ pos[i] \in DOMAIN Body[i] /\ Body[i][pos[i]] = c
  /\ ledger' = Recorded(c, IF status[c] = "errored" THEN "notRequired" ELSE "pending")
  /\ pos' = [pos EXCEPT ![i] = 0]
  /\ Goes(i, "pass")
  /\ UNCHANGED <<status, committed, visit, jobs, sched, alarms, op, bounds>>

ScanNothing(i) ==
  /\ Pc(i, "scan") /\ pos[i] \notin DOMAIN Body[i]
  /\ pos' = [pos EXCEPT ![i] = 0] /\ Goes(i, "pass")
  /\ UNCHANGED <<status, committed, visit, jobs, ledger, sched, alarms, op, bounds>>

Owed(i) == {k \in DOMAIN Body[i] : ledger[Body[i][k]] \in {"pending", "failed"}}
FirstOwed(i) == Body[i][CHOOSE k \in Owed(i) : \A l \in Owed(i) : k <= l]  \* mutant: oldest first
LastOwed(i) == Body[i][CHOOSE k \in Owed(i) : \A l \in Owed(i) : l <= k]
\* filterLineageQuiesced: every row names the root token, which blocks it while it lives.
Undoing(i, s) == Pc(i, "pass") /\ Owed(i) # {} /\ pos[i] = 0 /\ LastOwed(i) = s

\* mutant: a step whose compensation job is given out counts as undone
SettleEarly(i) ==
  /\ Pc(i, "pass") /\ pos[i] = 0
  /\ \A k \in Owed(i) : Body[i][k] \in Tasks /\ comp[Body[i][k]] # "none"
  /\ status' = [status EXCEPT ![i] = IF @ = "compensating" THEN "compensated" ELSE @]
  /\ Goes(i, "tail")
  /\ UNCHANGED <<committed, pos, visit, jobs, ledger, sched, alarms, op, bounds>>

\* settleSagaCompensated, and the pass that a live token or an open job stops.
Settle(i) ==
  /\ Pc(i, "pass") /\ Owed(i) = {} /\ pos[i] = 0
  /\ status' = [status EXCEPT ![i] = IF @ = "compensating" THEN "compensated" ELSE @]
  /\ Goes(i, "tail")
  /\ UNCHANGED <<committed, pos, visit, jobs, ledger, sched, alarms, op, bounds>>

ParkPass(i) ==
  /\ Pc(i, "pass")
  /\ \/ pos[i] # 0
     \/ \E t \in Tasks : Undoing(i, t) /\ comp[t] = "created"
     \/ \E c \in Children : Undoing(i, c) /\ status[c] \in (Statuses \ Consumable) \cup {"errored"}
  /\ Goes(i, "tail")
  /\ UNCHANGED <<rows, visit, jobs, ledger, sched, alarms, op, bounds>>

CreateUndo(i, t) ==
  /\ Undoing(i, t) /\ comp[t] = "none"
  /\ comp' = [comp EXCEPT ![t] = "created"]
  /\ UNCHANGED <<rows, visit, job, ledger, drive, sched, alarms, op, bounds>>

\* mutant: an open compensation job counts as one that is done
MarkUndoneEarly(i, s) ==
  /\ Undoing(i, s)
  /\ IF s \in Tasks THEN comp[s] \in {"created", "done"} ELSE status[s] = "compensated"
  /\ ledger' = [ledger EXCEPT ![s] = "compensated"]
  /\ Goes(i, "scan")
  /\ UNCHANGED <<rows, visit, jobs, sched, alarms, op, bounds>>

MarkUndone(i, s) ==
  /\ Undoing(i, s)
  /\ IF s \in Tasks THEN comp[s] = "done" ELSE status[s] = "compensated"
  /\ ledger' = [ledger EXCEPT ![s] = "compensated"]
  /\ Goes(i, "scan")
  /\ UNCHANGED <<rows, visit, jobs, sched, alarms, op, bounds>>

MarkFailed(i, s) ==
  /\ Undoing(i, s)
  /\ IF s \in Tasks THEN comp[s] = "failed" ELSE status[s] = "compensationFailed"
  /\ ledger' = [ledger EXCEPT ![s] = "failed"]
  /\ status' = [status EXCEPT ![i] = "compensationFailed"]
  /\ Goes(i, "tail")
  /\ UNCHANGED <<committed, pos, visit, jobs, sched, alarms, op, bounds>>

\* beginChildCompensation: the child enters its own reverse pass ...
BeginChild(i, c) ==
  /\ Undoing(i, c) /\ status[c] \in {"completed", "cancelled"}
  /\ status' = [status EXCEPT ![c] = "compensating"]
  /\ drive' = [drive EXCEPT ![i].pc = "begun", ![i].child = c]
  /\ UNCHANGED <<committed, pos, visit, jobs, ledger, sched, alarms, op, bounds>>

\* ... its owed steps are counted, without its lock: it is driven when it owes one ...
CountOwed(i, c) ==
  /\ Pc(i, "begun") /\ drive[i].child = c
  /\ \/ Owed(c) = {} /\ Goes(i, "counted") /\ UNCHANGED asked
     \/ /\ Owed(c) # {} /\ asked' = asked \cup {c}
        /\ drive' = [drive EXCEPT ![i].pc = "inner", ![i].back = "scan"]
  /\ UNCHANGED <<rows, visit, jobs, ledger, wanted, alive, alarms, op, bounds>>

\* ... and settled at once when, after that count, it has no live token either.
ShortCut(i, c) ==
  /\ Pc(i, "counted") /\ drive[i].child = c
  /\ \/ /\ pos[c] = 0 /\ UNCHANGED asked
        /\ status' = [status EXCEPT ![c] = IF @ = "compensating" THEN "compensated" ELSE @]
        /\ drive' = [drive EXCEPT ![i].pc = "scan", ![i].child = Root]
     \/ /\ pos[c] # 0 /\ asked' = asked \cup {c}
        /\ drive' = [drive EXCEPT ![i].pc = "inner", ![i].back = "scan"]
        /\ UNCHANGED status
  /\ UNCHANGED <<committed, pos, visit, jobs, ledger, wanted, alive, alarms, op, bounds>>

-----------------------------------------------------------------------------
(* Workers, and the alarms of timers and notifications.                        *)

\* mutant: an answer is taken whatever the state of the job
WorkerUnguarded(t) ==
  /\ status[Owner(t)] \notin Terminal
  /\ \E end \in {"done"} \cup (IF t \in Fallible THEN {"failed"} ELSE {}) :
       \/ job[t] \in {"created", "done"} /\ job' = [job EXCEPT ![t] = end] /\ UNCHANGED comp
       \/ comp[t] \in {"created", "done"} /\ comp' = [comp EXCEPT ![t] = end] /\ UNCHANGED job
  /\ wanted' = wanted \cup {Owner(t)}
  /\ UNCHANGED <<rows, visit, ledger, drive, asked, alive, alarms, op, bounds>>

\* A worker's answer for an instance that has ended is acknowledged and ignored.
Worker(t) ==
  /\ status[Owner(t)] \notin Terminal
  /\ \E end \in {"done"} \cup (IF t \in Fallible THEN {"failed"} ELSE {}) :
       \/ job[t] = "created" /\ job' = [job EXCEPT ![t] = end] /\ UNCHANGED comp
       \/ comp[t] = "created" /\ comp' = [comp EXCEPT ![t] = end] /\ UNCHANGED job
  /\ wanted' = wanted \cup {Owner(t)}
  /\ UNCHANGED <<rows, visit, ledger, drive, asked, alive, alarms, op, bounds>>

\* planBoundaryTimerFire: the plan reads the host and the child ...
PlanFire(c) ==
  /\ c \notin fire /\ timer[c] = "armed" /\ status[Owner(c)] \in {"running", "waiting"}
  /\ bound[c] = "invoked" /\ status[c] \notin Terminal
  /\ fire' = fire \cup {c}
  /\ UNCHANGED <<rows, visit, jobs, ledger, drive, sched, notify, ringing, op, bounds>>

\* ... and the commit claims the timer's one outcome, and moves the instance.
CommitFire(c) ==
  /\ c \in fire /\ fire' = fire \ {c}
  /\ IF timer[c] = "armed"
     THEN /\ timer' = [timer EXCEPT ![c] = "fired"]
          /\ status' = [status EXCEPT ![Owner(c)] = "running"]
          /\ wanted' = wanted \cup {Owner(c)}
     ELSE UNCHANGED <<timer, status, wanted>>
  /\ UNCHANGED <<committed, pos, bound, jobs, ledger, drive, asked, alive, notify, ringing, op,
                 bounds>>

ConsumedByEnd(c) == status[c] \in {"completed", "errored"}   \* mutant: the call's row is not read
Consumed(c) ==
  \/ bound[c] = "outputApplied" /\ status[c] \in {"completed", "errored"}
  \/ ledger[c] \in {"compensated", "failed"}

\* retryChildNotify re-arms the alarm and notifies the parent once more ...
Ring(c) ==
  /\ notify[c] # Off /\ c \notin ringing
  /\ ringing' = ringing \cup {c}
  /\ IF /\ status[c] \in Consumable /\ status[Owner(c)] \notin Terminal /\ ~Consumed(c)
        /\ notify[c] < Tries
     THEN notify' = [notify EXCEPT ![c] = @ + 1] /\ Tickle(wanted, Owner(c))
     ELSE UNCHANGED <<notify, wanted, lost>>
  /\ UNCHANGED <<rows, visit, jobs, ledger, drive, asked, alive, fire, op, mode, errs, caught,
                 calls>>

\* ... and the alarm's handler ends in deleteAll, which drops the alarm just armed.
Hush(c) ==
  /\ c \in ringing /\ ringing' = ringing \ {c}
  /\ notify' = [notify EXCEPT ![c] = Off]
  /\ UNCHANGED <<rows, visit, jobs, ledger, drive, sched, fire, op, bounds>>

-----------------------------------------------------------------------------
(* The operator, whose calls are on the root: handleCancelInstance.            *)

Calls(p) == op.pc = p
CallOnRoot ==
  /\ Calls("idle") /\ calls < MaxCalls /\ calls' = calls + 1
  /\ UNCHANGED <<rows, visit, jobs, ledger, drive, sched, alarms, mode, errs, caught, lost>>

Cancel ==
  /\ CallOnRoot /\ status[Root] \in Cancellable
  /\ op' = [op EXCEPT !.pc = "abandon"]

\* The list of the root is read element by element, each with the child's row: none is stale.
Elements(i) ==
  [k \in DOMAIN Body[i] |->
    IF Body[i][k] \in Instances THEN [Do("visit", Body[i][k]) EXCEPT !.seen = "starting"]
    ELSE Do("visit", Root)]

AbandonRoot ==
  /\ Calls("abandon") /\ ForwardAbandoned(Root) /\ TimersCancelled(Root)
  /\ op' = [op EXCEPT !.pc = "cascade", !.todo = Elements(Root)]
  /\ UNCHANGED <<rows, bound, comp, ledger, drive, sched, alarms, bounds>>

CascadeAll ==
  /\ Calls("cascade") /\ op.todo # <<>>
  /\ LET w == Head(op.todo)
     IN  /\ Cascades(w) /\ drive' = Drained(w)
         /\ op' = [op EXCEPT !.todo = Unfolds(w) \o Tail(@)]
  /\ UNCHANGED <<committed, pos, ledger, asked, alarms, bounds>>

TerminateRoot ==
  /\ Calls("cascade") /\ op.todo = <<>>
  /\ Terminated(Root) /\ drive' = Killed(Root)
  /\ op' = [op EXCEPT !.pc = "decide"]
  /\ UNCHANGED <<rows, visit, jobs, ledger, asked, alarms, bounds>>

Decide ==
  /\ Calls("decide")
  /\ op' = [op EXCEPT !.pc = IF Owed(Root) = {} THEN "close" ELSE "open"]
  /\ UNCHANGED <<rows, visit, jobs, ledger, drive, sched, alarms, bounds>>

Close ==
  /\ Calls("close") /\ op' = NoCall
  /\ status' = [status EXCEPT ![Root] = IF @ \in Cancellable THEN "cancelled" ELSE @]
  /\ UNCHANGED <<committed, pos, visit, jobs, ledger, drive, sched, alarms, bounds>>

Open ==
  /\ Calls("open")
  /\ IF status[Root] \in Cancellable
     THEN status' = [status EXCEPT ![Root] = "compensating"] /\ op' = [op EXCEPT !.pc = "resume"]
     ELSE op' = NoCall /\ UNCHANGED status
  /\ UNCHANGED <<committed, pos, visit, jobs, ledger, drive, sched, alarms, bounds>>

Resume ==
  /\ Calls("resume") /\ op' = NoCall
  /\ wanted' = wanted \cup {Root}
  /\ UNCHANGED <<rows, visit, jobs, ledger, drive, asked, alive, alarms, bounds>>

-----------------------------------------------------------------------------
(* handleRetryInstance: children first (retryChildSubtree), then the root.     *)

Descents(i) == List("descend", i)

Retry ==
  /\ CallOnRoot
  /\ op' = [op EXCEPT !.pc = "heal", !.todo = Descents(Root)]

Retryable == {"incident", "compensationFailed"}
Failed(i) == {s \in StepsOf(i) : ledger[s] = "failed"}
\* Two updates, between which nothing is read: the instance has ended, and is not driven.
ReopenUndo(i) ==
  LET s == CHOOSE s \in Failed(i) : TRUE
  IN  /\ Failed(i) # {}
      /\ comp' = IF s \in Tasks THEN [comp EXCEPT ![s] = "created"] ELSE comp
      /\ ledger' = [ledger EXCEPT ![s] = "pending"] /\ UNCHANGED job

\* The job of the incident's own element, which has failed; a call has none.
ReopenTask(i) ==
  LET t == Body[i][Frontier(i)]
  IN  /\ job' = IF Frontier(i) \in DOMAIN Body[i] /\ t \in Tasks /\ job[t] = "failed"
                THEN [job EXCEPT ![t] = "created"] ELSE job
      /\ UNCHANGED <<comp, ledger>>

HealWith(items, healed) ==
  op' = [op EXCEPT !.todo = items \o Tail(@), !.healed = @ \cup healed]
Heals(what) == Calls("heal") /\ op.todo # <<>> /\ Head(op.todo).do = what
At == Head(op.todo).at

\* The children of a node come first, then the node itself.
Descend ==
  /\ Heals("descend")
  /\ HealWith(IF Head(op.todo).seen = "absent" THEN <<>>
              ELSE Descents(At) \o <<[Head(op.todo) EXCEPT !.do = "heal"]>>, {})
  /\ UNCHANGED <<rows, visit, jobs, ledger, drive, sched, alarms, bounds>>

\* A node whose subtree needed healing is skipped; its status is the one the list read.
Heal ==
  /\ Heals("heal")
  /\ HealWith(IF Below(At) \cap op.healed = {} /\ Head(op.todo).seen \in Retryable
              THEN <<Do("reset", At)>> ELSE <<>>, {})
  /\ UNCHANGED <<rows, visit, jobs, ledger, drive, sched, alarms, bounds>>

\* retryInstanceCore, with the status read again: the failed step is reopened ...
Refused ==
  /\ op' = NoCall
  /\ wanted' = IF At = Root /\ op.healed # {} THEN wanted \cup {Root} ELSE wanted

Reset ==
  /\ Heals("reset")
  /\ \/ /\ \/ status[At] = "compensationFailed" /\ ReopenUndo(At)
           \/ status[At] = "incident" /\ ReopenTask(At)
        /\ HealWith(<<[Do("move", At) EXCEPT !.seen = status[At]]>>, {}) /\ UNCHANGED wanted
     \/ /\ \/ status[At] \notin Retryable
           \/ status[At] = "compensationFailed" /\ Failed(At) = {}
        /\ Refused /\ UNCHANGED <<jobs, ledger>>
  /\ UNCHANGED <<rows, visit, drive, asked, alive, alarms, bounds>>

\* ... the status moved, and the instance driven; the call goes on when the drive is over.
Move ==
  /\ Heals("move")
  /\ IF status[At] = Head(op.todo).seen
     THEN /\ status' = [status EXCEPT ![At] = IF @ = "incident" THEN "running"
                                              ELSE "compensating"]
          /\ wanted' = wanted \cup {At}
          /\ HealWith(<<Do("join", At)>>, {At})
     ELSE Refused /\ UNCHANGED status
  /\ UNCHANGED <<committed, pos, visit, jobs, ledger, drive, asked, alive, alarms, bounds>>

Join ==
  /\ Heals("join") /\ At \notin wanted /\ Pc(At, "idle")
  /\ HealWith(<<>>, {})
  /\ UNCHANGED <<rows, visit, jobs, ledger, drive, sched, alarms, bounds>>

\* After the children: the root's own branch, or a drive of it, or a 409.
RetryRoot ==
  /\ Calls("heal") /\ op.todo = <<>> /\ Root \notin op.healed
  /\ \/ /\ status[Root] \in Retryable
        /\ op' = [op EXCEPT !.todo = <<Do("reset", Root)>>] /\ UNCHANGED wanted
     \/ /\ status[Root] \notin Retryable
        /\ wanted' = IF op.healed # {} THEN wanted \cup {Root} ELSE wanted
        /\ op' = NoCall
  /\ UNCHANGED <<rows, visit, jobs, ledger, drive, asked, alive, alarms, bounds>>

RetryDone ==
  /\ Calls("heal") /\ op.todo = <<>> /\ Root \in op.healed
  /\ op' = NoCall
  /\ UNCHANGED <<rows, visit, jobs, ledger, drive, sched, alarms, bounds>>

-----------------------------------------------------------------------------
Forward(i) ==
  \/ StartDrive(i)
  \/ \E t \in Owned(i) : CreateJob(i, t) \/ ParkTask(i, t) \/ ApplyTask(i, t) \/ TaskFails(i, t)
  \/ \E c \in ChildrenOf(i) :
       \/ Invoke(i, c) \/ ApplyChild(i, c) \/ RouteError(i, c) \/ FlipUncaught(i, c)
       \/ StopAtUncaught(i, c) \/ ParkCall(i, c) \/ TimerExit(i, c)
  \/ Return(i) \/ RaiseUncaught(i) \/ LookOn(i) \/ TimerExited(i)
  \/ Commit(i) \/ Complete(i) \/ EndErrored(i) \/ Sync(i) \/ Leave(i)

Backward(i) ==
  \/ \E t \in Owned(i) : ScanTask(i, t) \/ CreateUndo(i, t)
  \/ \E c \in ChildrenOf(i) : ScanCall(i, c) \/ RetainCall(i, c) \/ BeginChild(i, c)
                              \/ CountOwed(i, c) \/ ShortCut(i, c)
  \/ \E s \in StepsOf(i) : MarkUndone(i, s) \/ MarkFailed(i, s)
  \/ ScanNothing(i) \/ Settle(i) \/ ParkPass(i)

Operator ==
  \/ Cancel \/ AbandonRoot \/ CascadeAll \/ TerminateRoot \/ Decide \/ Close \/ Open \/ Resume
  \/ Retry \/ Descend \/ Heal \/ Reset \/ Move \/ Join \/ RetryRoot \/ RetryDone

Timers(c) == PlanFire(c) \/ CommitFire(c)
Notifications(c) == Ring(c) \/ Hush(c)

Next ==
  \/ \E i \in Instances : Forward(i) \/ Backward(i) \/ Cascade(i) \/ Backstop(i)
  \/ \E t \in Tasks : Worker(t)
  \/ \E c \in Children : Timers(c) \/ Notifications(c)
  \/ Operator

Spec == Init /\ [][Next]_vars

Fairness ==
  /\ \A i \in Instances : WF_vars(Forward(i)) /\ WF_vars(Backward(i)) /\ WF_vars(Cascade(i))
                          /\ WF_vars(Backstop(i))
  /\ \A t \in Tasks : WF_vars(Worker(t))
  /\ \A c \in Children : WF_vars(Notifications(c)) /\ WF_vars(CommitFire(c))
  /\ WF_vars(Operator /\ UNCHANGED calls)
FairSpec == Spec /\ Fairness

-----------------------------------------------------------------------------
Begun(s) == IF s \in Tasks THEN job[s] # "none" ELSE bound[s] # "none"
Behind(s) ==
  IF s \in Tasks THEN job[s] = "applied" ELSE bound[s] = "outputApplied" \/ timer[s] = "fired"

(* A step begins when every step before it is applied, routed or overtaken by  *)
(* its timer, whichever drive walks there: the Workflow's, one inside a        *)
(* parent's drive, one of a retry or one that a cancel left running.           *)
WalkInOrder ==
  \A i \in Instances : \A k, l \in DOMAIN Body[i] :
    l < k /\ Begun(Body[i][k]) => Behind(Body[i][l])

(* The ledger is true to the work: an applied result is in it, and so is all   *)
(* that is undone; what it calls compensated has a finished compensation job,  *)
(* what it calls failed a failed one, and a child in it was invoked.           *)
LedgerTrue ==
  /\ \A t \in Tasks :
       /\ job[t] = "applied" => ledger[t] # "none"
       /\ ledger[t] # "none" => job[t] \in {"done", "applied"}
       /\ comp[t] # "none" => ledger[t] # "none"
       /\ ledger[t] = "compensated" => comp[t] = "done"
       /\ ledger[t] = "failed" => comp[t] = "failed"
  /\ \A c \in Children : ledger[c] # "none" => bound[c] # "none"

(* A root that reports compensated owes nothing and has no token left, so that *)
(* nothing its operator started is still open: late answers of workers, drives *)
(* that a cancel left running and retries included.                            *)
RootOwesNothing == status[Root] = "compensated" => Owed(Root) = {} /\ pos[Root] = 0

(* The text of beginChildCompensation: only an empty ledger and a quiesced     *)
(* cohort settles, so a child that reports compensated owes nothing either.    *)
ChildOwesNothing == \A c \in Children : status[c] = "compensated" => Owed(c) = {}

(* The compensation of a task is given out only when no later step of its      *)
(* process is owed: later tasks that were applied are undone or sealed, later  *)
(* children that were recorded are undone, sealed or exempt.                   *)
ReverseThroughTree ==
  [][\A i \in Instances : \A k, l \in DOMAIN Body[i] :
       LET t == Body[i][k]
           s == Body[i][l]
       IN  t \in Tasks /\ k < l /\ comp[t] = "none" /\ comp'[t] = "created" =>
             IF s \in Tasks
             THEN job[s] = "applied" =>
                    \/ ledger[s] \in {"committed", "notRequired"}
                    \/ ledger[s] = "compensated" /\ comp[s] = "done"
             ELSE ledger[s] \notin {"pending", "failed"}]_vars

(* What is settled is never done again: a sealed, exempt or compensated step   *)
(* keeps its mark, a compensation job that is done is never given out again    *)
(* by a retry or a second drive, and an applied result stays applied.          *)
UndoneOnce ==
  [][/\ \A s \in Steps :
          ledger[s] \in {"compensated", "committed", "notRequired"} => ledger'[s] = ledger[s]
     /\ \A t \in Tasks : comp[t] = "done" => comp'[t] = "done"
     /\ \A t \in Tasks : job[t] = "applied" => job'[t] = "applied"]_vars

(* A cancel never takes back a child that has already ended some other way or  *)
(* is being undone, and leaves the ledger of the one it ends as it is.         *)
CascadeOnlyTheLiving ==
  [][\A c \in Children : status[c] # "cancelled" /\ status'[c] = "cancelled" =>
       /\ status[c] \notin Consumable \cup {"compensating", "absent"}
       /\ \A s \in StepsOf(c) : ledger'[s] = ledger[s]]_vars

(* The text of cancelChildCascade: grandchildren are cancelled first, so that  *)
(* nothing a cancelled child has invoked still lives.                          *)
DescendantsFirst ==
  [][\A c \in Children : status[c] # "cancelled" /\ status'[c] = "cancelled" =>
       \A d \in Below(c) : status[d] \in Terminal \cup {"absent"}]_vars

(* The lifecycle of the design: compensated is terminal.                       *)
CompensatedStays ==
  [][\A i \in Instances : status[i] = "compensated" => status'[i] = "compensated"]_vars

(* The end of a child is taken up by its parent, applied, routed or overtaken  *)
(* by the parent's own end, though a notification is lost and the parent may   *)
(* have no Workflow left whose wait could time out.                            *)
TakenUp ==
  \A c \in Children :
    status[c] \in {"completed", "errored"} /\ bound[c] = "invoked" ~>
      \/ bound[c] = "outputApplied" \/ timer[c] = "fired"
      \/ status[Owner(c)] \in Terminal \cup {"compensating"}
=============================================================================
