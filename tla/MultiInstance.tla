--------------------------- MODULE MultiInstance ---------------------------
(***************************************************************************)
(* One visit of a multi-instance activity in a running process instance:   *)
(* the visit pins its cardinality, drives its iterations in index order,   *)
(* settles once, writes the aggregate and leaves.  An iteration is a       *)
(* service-task job, a pass through a sub-process body of one task under a *)
(* token of its own, or a child instance.  Drives exclude each other; the  *)
(* workers, the children, the operator and the alarm of the activity's     *)
(* boundary timer meet them in D1.                                         *)
(*                                                                         *)
(* A step is one D1 statement or batch with the reads before it; a drive   *)
(* that dies is started again, as a Workflow is.  "open" stands for a job  *)
(* created or leased and for a child that runs.  Left out: branch tokens,  *)
(* input sizes, incidents of children, catches at an enclosing scope, and  *)
(* a worker's business error in a caught sub-process body.                 *)
(***************************************************************************)
EXTENDS Naturals, FiniteSets

CONSTANTS
  Hosts,        \* activities considered
  Sizes,        \* cardinalities the expression may give
  Cap,          \* effectiveMiCap
  MaxRetries,   \* bounds: retries by the operator, and drives that die
  MaxFaults

ASSUME Shape ==
  /\ Hosts \subseteq [body : {"task", "sub", "call"}, sequential : BOOLEAN,
                      condition : BOOLEAN, timed : BOOLEAN, caught : BOOLEAN]
  /\ Sizes \subseteq Nat /\ {Cap, MaxRetries, MaxFaults} \subseteq Nat

VARIABLES
  host,       \* the activity
  status,     \* process_instances.status
  at,         \* where current_element_id is: the activity, or the flow taken from it
  act,        \* the row of mi_activations, with the indexes the aggregate holds
  work,       \* per iteration, its job or its child
  token,      \* per iteration of a sub-process body, its token
  aborted,    \* miAborted: the error was caught, or not
  exited,     \* scopeExited is written
  timer,      \* timer_outcomes, "armed" before it
  alarm,      \* the timer's alarm is set
  fire,       \* the alarm's handler has its batch planned
  drive,      \* the drive in progress
  wanted,     \* a drive is asked for
  left,       \* the flows on which drives have left the visit
  retries, faults

inst == <<status, at>>
rows == <<act, work, token>>
marks == <<aborted, exited>>
deadline == <<timer, alarm, fire>>
bounds == <<host, retries, faults>>
vars == <<inst, rows, marks, deadline, drive, wanted, left, bounds>>

Iterations == {i \in 0..Cap : i < Cap}
Kinds == {"none", "all", "condition", "abort"}
Flows == {"next", "error", "timer"}
Unseen == [settled |-> "none", applied |-> FALSE]
Idle == [pc |-> "idle", i |-> 0, seen |-> Unseen, completed |-> 0, live |-> 0, todo |-> {}]

(* Every row, mark and process keeps its shape. *)
TypeOK ==
  /\ host \in Hosts /\ status \in {"running", "waiting", "incident"} /\ at \in Flows \cup {"here"}
  /\ act \in [pinned : BOOLEAN, n : 0..Cap, settled : Kinds, applied : BOOLEAN,
              out : SUBSET Iterations]
  /\ work \in [Iterations -> {"none", "open", "completed", "failed", "thrown", "applied",
                              "raised", "cancelled"}]
  /\ token \in [Iterations -> {"none", "active", "consumed", "discarded"}]
  /\ aborted \in {"none", "caught", "uncaught"} /\ exited \in BOOLEAN
  /\ timer \in {"none", "armed", "fired", "cancelled"} /\ {alarm, fire, wanted} \subseteq BOOLEAN
  /\ drive \in [pc : {"idle", "enter", "each", "condition", "cancel", "abort", "teardown", "mark",
                      "raise", "end"},
                i : 0..Cap, seen : [settled : Kinds, applied : BOOLEAN],
                completed : 0..Cap, live : 0..Cap, todo : SUBSET Iterations]
  /\ left \subseteq Flows /\ retries \in 0..MaxRetries /\ faults \in 0..MaxFaults

Init ==
  /\ host \in Hosts /\ status = "running" /\ at = "here"
  /\ act = [pinned |-> FALSE, n |-> 0, settled |-> "none", applied |-> FALSE, out |-> {}]
  /\ work = [i \in Iterations |-> "none"] /\ token = [i \in Iterations |-> "none"]
  /\ aborted = "none" /\ exited = FALSE
  /\ timer = "none" /\ alarm = FALSE /\ fire = FALSE
  /\ drive = Idle /\ wanted = TRUE /\ left = {} /\ retries = 0 /\ faults = 0

-----------------------------------------------------------------------------
(* The deciders. *)

\* settleMiActivationStmt: the first settle wins.
Settled(row, kind) == [row EXCEPT !.settled = IF @ = "none" THEN kind ELSE @]
Now == [settled |-> act.settled, applied |-> act.applied]

\* iterationState: a sub-process iteration is finished with its token, the others with their
\* outcome applied.
Finished(i) == IF host.body = "sub" THEN token[i] = "consumed" ELSE work[i] = "applied"
Open(i) == work[i] = "open" \/ token[i] = "active"

Abandoned(state) ==
  IF state # "open" THEN state ELSE IF host.body = "call" THEN "cancelled" ELSE "failed"

-----------------------------------------------------------------------------
(* A drive. *)

Go(pc) == drive' = [drive EXCEPT !.pc = pc]
Next1 == drive' = [drive EXCEPT !.pc = "each", !.i = @ + 1]
Counted == drive' = [drive EXCEPT !.pc = "each", !.i = @ + 1, !.completed = @ + 1]
\* An iteration in flight: a sequential visit looks no further.
Waiting ==
  drive' = [drive EXCEPT !.pc = IF host.sequential THEN "end" ELSE "each",
                         !.i = @ + 1, !.live = @ + 1]
Leave(flow) == left' = left \cup {flow} /\ drive' = Idle

\* mutant: a wake that meets a drive is lost.
WakeIdle == wanted' = (drive.pc = "idle")
Wake == wanted' = TRUE

Begin ==
  /\ drive.pc = "idle" /\ wanted /\ wanted' = FALSE
  /\ IF status = "incident" THEN UNCHANGED drive ELSE drive' = [Idle EXCEPT !.pc = "enter"]
  /\ UNCHANGED <<inst, rows, marks, deadline, left, bounds>>

\* createIncident ends the drive.
Incident == status' = "incident" /\ at' = "here" /\ drive' = Idle

\* activateMi: the cardinality is evaluated once, and the batch that pins it arms the timer.
Activate ==
  \/ /\ Incident
     /\ UNCHANGED <<act, timer, alarm>>
  \/ \E n \in Sizes :
       IF n > Cap
       THEN Incident /\ UNCHANGED <<act, timer, alarm>>
       ELSE LET row == [act EXCEPT !.pinned = TRUE, !.n = n] IN
            /\ act' = IF n = 0 THEN Settled(row, "all") ELSE row
            /\ IF host.timed /\ n > 0 THEN timer' = "armed" /\ alarm' = TRUE
               ELSE UNCHANGED <<timer, alarm>>
            /\ drive' = [drive EXCEPT !.pc = "each",
                                      !.seen = [settled |-> act'.settled, applied |-> FALSE]]
            /\ UNCHANGED inst

\* mutant: the abort is not walked again, or its teardown is not.
TakenUpPlain == "each"
TakenUpMarked == IF act.settled # "abort" THEN "each" ELSE "mark"
\* abortFastForward, for a visit that is aborted already: the teardown is redone without its mark.
TakenUp == IF act.settled # "abort" THEN "each" ELSE IF exited THEN "mark" ELSE "teardown"

\* The start of driveMultiInstance: a timer that fired and an abort are taken up again.
Enter ==
  /\ drive.pc = "enter"
  /\ \/ timer = "fired" /\ Go("teardown") /\ UNCHANGED <<inst, act, timer, alarm>>
     \/ timer # "fired" /\ ~act.pinned /\ Activate
     \/ /\ timer # "fired" /\ act.pinned
        /\ drive' = [drive EXCEPT !.pc = TakenUp, !.seen = Now]
        /\ UNCHANGED <<inst, act, timer, alarm>>
  /\ UNCHANGED <<work, token, marks, fire, wanted, left, bounds>>

Stops == drive.i >= act.n \/ drive.seen.settled \notin {"none", "all"}

\* The job, the child or the body of iteration i, driven one state forward.
WorkStep(i) ==
  \/ /\ work[i] = "none"
     /\ work' = [work EXCEPT ![i] = "open"] /\ Waiting /\ UNCHANGED inst
  \/ work[i] = "open" /\ Waiting /\ UNCHANGED <<inst, work>>
  \/ /\ work[i] = "completed" /\ host.body # "sub"
     /\ work' = [work EXCEPT ![i] = "applied"] /\ Go("condition") /\ UNCHANGED inst
  \/ \* The task of a body is applied on its own; what it wrote decides where the body ends.
     /\ work[i] = "completed" /\ host.body = "sub"
     /\ \E outcome \in {"applied", "raised"} : work' = [work EXCEPT ![i] = outcome]
     /\ status' = "running" /\ UNCHANGED <<at, drive>>
  \/ /\ work[i] = "thrown" /\ host.body # "sub"
     /\ Go("abort") /\ UNCHANGED <<inst, work>>
  \/ work[i] = "raised" /\ Go("abort") /\ UNCHANGED <<inst, work>>
  \/ /\ work[i] = "failed" \/ (work[i] = "thrown" /\ host.body = "sub")
     /\ IF host.body = "task" /\ drive.seen.settled # "none"
        THEN Next1 /\ UNCHANGED inst
        ELSE Incident
     /\ UNCHANGED work

Each ==
  /\ drive.pc = "each"
  /\ \/ Stops /\ Go("end") /\ UNCHANGED <<inst, work, token>>
     \/ /\ ~Stops /\ Finished(drive.i)
        /\ Counted /\ UNCHANGED <<inst, work, token>>
     \/ /\ ~Stops /\ token[drive.i] = "discarded"
        /\ Next1 /\ UNCHANGED <<inst, work, token>>
     \/ \* mi-iter mints the token of the iteration.
        /\ ~Stops /\ host.body = "sub" /\ token[drive.i] = "none"
        /\ token' = [token EXCEPT ![drive.i] = "active"]
        /\ UNCHANGED <<inst, work, drive>>
     \/ \* mi-iter-done at the end of the body.
        /\ ~Stops /\ token[drive.i] = "active" /\ work[drive.i] = "applied"
        /\ token' = [token EXCEPT ![drive.i] = "consumed"]
        /\ Go("condition") /\ UNCHANGED <<inst, work>>
     \/ /\ ~Stops /\ ~Finished(drive.i)
        /\ host.body = "sub" => token[drive.i] = "active"
        /\ WorkStep(drive.i) /\ UNCHANGED token
  /\ UNCHANGED <<act, marks, deadline, wanted, left, bounds>>

\* maybeSettleOnCondition, for the iteration this drive has just finished: the settle and the
\* teardown of what is in flight are one batch, and children are cancelled after it.
Condition ==
  /\ drive.pc = "condition"
  /\ \/ Counted /\ UNCHANGED <<inst, act, work, token>>
     \/ /\ host.condition /\ drive.seen.settled = "none"
        /\ Incident /\ UNCHANGED <<act, work, token>>
     \/ /\ host.condition /\ drive.seen.settled = "none"
        /\ act' = Settled(act, "condition")
        /\ work' = IF host.body = "task" THEN [i \in Iterations |-> Abandoned(work[i])] ELSE work
        /\ token' = [i \in Iterations |-> IF token[i] = "active" THEN "discarded" ELSE token[i]]
        /\ drive' = [drive EXCEPT !.pc = "cancel", !.completed = @ + 1,
                       !.todo = {i \in Iterations : host.body = "call" /\ work[i] = "open"}]
        /\ UNCHANGED inst
  /\ UNCHANGED <<marks, deadline, wanted, left, bounds>>

CancelChildren ==
  /\ drive.pc = "cancel"
  /\ \/ /\ drive.todo # {}
        /\ \E i \in drive.todo :
             /\ work' = [work EXCEPT ![i] = Abandoned(@)]
             /\ drive' = [drive EXCEPT !.todo = @ \ {i}]
     \/ /\ drive.todo = {} /\ UNCHANGED work
        /\ drive' = [drive EXCEPT !.pc = "each", !.i = @ + 1, !.seen = Now]
  /\ UNCHANGED <<inst, act, token, marks, deadline, wanted, left, bounds>>

\* applyAbort: a caught error claims the timer in the batch that settles the visit.
Abort ==
  /\ drive.pc = "abort"
  /\ \/ /\ act.settled = "abort"
        /\ drive' = [drive EXCEPT !.pc = TakenUp, !.seen = Now]
        /\ UNCHANGED <<inst, act, aborted, timer, left>>
     \/ /\ act.settled # "abort" /\ host.caught /\ timer # "fired"
        /\ act' = Settled(act, "abort") /\ aborted' = "caught"
        /\ status' = "running" /\ at' = "error"
        /\ timer' = IF host.timed THEN "cancelled" ELSE timer
        /\ Go("teardown") /\ UNCHANGED left
     \/ \* convertOnFire: the timer was first.
        /\ act.settled # "abort" /\ host.caught /\ timer = "fired"
        /\ Leave("timer") /\ UNCHANGED <<inst, act, aborted, timer>>
     \/ /\ act.settled # "abort" /\ ~host.caught
        /\ act' = Settled(act, "abort") /\ aborted' = "uncaught"
        /\ Go("teardown") /\ UNCHANGED <<inst, timer, left>>
  /\ UNCHANGED <<work, token, exited, alarm, fire, wanted, bounds>>

\* resolveForwardJobForToken asks for the job by the element: the latest one, for every token.
Latest == CHOOSE i \in Iterations : /\ work[i] # "none"
                                    /\ \A j \in Iterations : work[j] # "none" => j <= i
Kept == (\E i \in Iterations : work[i] # "none") /\ work[Latest] = "completed"

\* abortTeardown, which keeps what is finished.
Teardown ==
  /\ drive.pc = "teardown"
  /\ work' = [i \in Iterations |-> Abandoned(work[i])]
  /\ token' = [i \in Iterations |-> IF token[i] # "active" THEN token[i]
                                    ELSE IF Kept THEN "consumed" ELSE "discarded"]
  /\ IF timer = "fired" THEN Leave("timer") ELSE Go("mark") /\ UNCHANGED left
  /\ UNCHANGED <<inst, act, marks, deadline, wanted, bounds>>

\* The scopeExited marker, and the route that miAborted names.
Mark ==
  /\ drive.pc = "mark"
  /\ exited' = TRUE
  /\ IF aborted = "caught" THEN Leave("error")
     ELSE /\ UNCHANGED left
          /\ IF drive.seen.settled = "abort" THEN drive' = Idle ELSE Go("raise")
  /\ UNCHANGED <<inst, rows, aborted, deadline, wanted, bounds>>

Raise ==
  /\ drive.pc = "raise" /\ Incident
  /\ UNCHANGED <<rows, marks, deadline, wanted, left, bounds>>

\* applyMiCompletion: the aggregate and the transition, once.
ApplyCompletion ==
  \/ /\ ~act.applied
     /\ act' = [Settled(act, "all") EXCEPT
                  !.applied = TRUE, !.out = {i \in Iterations : i < act.n /\ Finished(i)}]
     /\ token' = [i \in Iterations |-> IF token[i] = "active" THEN "consumed" ELSE token[i]]
     /\ status' = "running" /\ at' = "next"
  \/ act.applied /\ UNCHANGED <<inst, act, token>>

\* The visit settles, or parks.
End ==
  /\ drive.pc = "end"
  /\ LET settled == drive.seen.settled # "none" \/ (drive.completed >= act.n /\ drive.live = 0) IN
     \/ /\ settled /\ Leave("next")
        /\ IF drive.seen.applied THEN UNCHANGED <<inst, act, token>> ELSE ApplyCompletion
     \/ /\ ~settled
        /\ status' = "waiting" /\ at' = "here" /\ drive' = Idle
        /\ UNCHANGED <<act, token, left>>
  /\ UNCHANGED <<work, marks, deadline, wanted, bounds>>

\* The drive dies.
Die ==
  /\ drive.pc # "idle" /\ faults < MaxFaults
  /\ faults' = faults + 1 /\ drive' = Idle /\ Wake
  /\ UNCHANGED <<inst, rows, marks, deadline, left, host, retries>>

-----------------------------------------------------------------------------
(* The others. *)

\* A worker or a child comes to an end, and asks for a drive.
Resolve(i) ==
  /\ work[i] = "open"
  /\ \E outcome \in {"completed", "thrown", "failed"} :
       /\ outcome = "failed" => host.body # "call"
       /\ outcome = "thrown" => ~(host.body = "sub" /\ host.caught)
       /\ work' = [work EXCEPT ![i] = outcome]
  /\ Wake
  /\ UNCHANGED <<inst, act, token, marks, deadline, drive, left, bounds>>

\* fireTimer: it plans on what it reads.  A frozen instance with a sub-process gets the bare
\* claim, one with another host a later alarm.
Ring ==
  /\ alarm /\ timer = "armed"
  /\ IF status = "incident"
     THEN /\ UNCHANGED fire
          /\ IF host.body = "sub" THEN timer' = "fired" /\ alarm' = FALSE
             ELSE UNCHANGED <<timer, alarm>>
     ELSE /\ alarm' = FALSE /\ UNCHANGED timer
          /\ fire' = (act.settled = "none" /\ ~act.applied)
  /\ UNCHANGED <<inst, rows, marks, drive, wanted, left, bounds>>

Fire ==
  /\ fire /\ fire' = FALSE
  /\ IF timer = "armed"
     THEN /\ timer' = "fired" /\ act' = Settled(act, "abort")
          /\ status' = "running" /\ at' = "timer" /\ Wake
     ELSE UNCHANGED <<timer, act, inst, wanted>>
  /\ UNCHANGED <<work, token, marks, alarm, drive, left, bounds>>

\* mutant: the reset takes jobs whose outcome is applied.
ReopenedAll(i) == host.body # "call" /\ work[i] # "none"
\* resetJobForRetry goes by the element: every job of the visit that is not applied.
Reopened(i) ==
  host.body # "call" /\ work[i] \in {"open", "completed", "failed", "thrown"}

Retry ==
  /\ status = "incident" /\ drive.pc = "idle" /\ retries < MaxRetries
  /\ retries' = retries + 1
  /\ work' = [i \in Iterations |-> IF Reopened(i) THEN "open" ELSE work[i]]
  /\ status' = "running" /\ Wake
  /\ UNCHANGED <<at, act, token, marks, deadline, drive, left, host, faults>>

Step ==
  Begin \/ Enter \/ Each \/ Condition \/ CancelChildren \/ Abort \/ Teardown \/ Mark \/ Raise \/ End
Work == \E i \in Iterations : Resolve(i)
Next == Step \/ Work \/ Ring \/ Fire \/ Retry \/ Die

\* A drive that is asked for runs to its end, and so do workers and children.
Spec == Init /\ [][Next]_vars /\ WF_vars(Step) /\ WF_vars(Work)

-----------------------------------------------------------------------------
(* Properties. *)

(* However often it is walked again, a visit without a deadline is left on one flow: the      *)
(* apply, the abort and their fast-forwards agree.                                            *)
OnePath == ~host.timed => Cardinality(left) <= 1

(* boundary-timer.ts: of a visit's completion and its deadline one wins.                      *)
LeavesOnce == Cardinality(left) <= 1

(* A finished iteration is never opened again, by a retry or otherwise, and what the aggregate *)
(* holds is what has finished, at the time and ever after.                                     *)
FinishedOnce ==
  [][/\ \A i \in Iterations : Finished(i) => Finished(i)'
     /\ act'.applied /\ timer' # "fired" => act'.out = {i \in Iterations : Finished(i)'}]_vars

(* When drives have left the visit for good, no worker can lease one of its jobs, and no       *)
(* token or child is alive: after an abort or a deadline, and with jobs after any settle.      *)
NothingLeftOpen ==
  left # {} /\ drive.pc = "idle" /\ ~wanted /\ (host.body = "task" \/ act.settled = "abort")
  => \A i \in Iterations : ~Open(i)

(* A visit whose iterations all come to an end is left, unless an incident has stopped it or   *)
(* its error was not caught.                                                                   *)
Settles == act.pinned ~> left # {} \/ status = "incident" \/ aborted = "uncaught"
=============================================================================
