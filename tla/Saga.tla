-------------------------------- MODULE Saga --------------------------------
(***************************************************************************)
(* One process instance whose work is a transaction: its status, its       *)
(* forward and compensation jobs, the tokens of its parallel regions and   *)
(* its saga ledger, driven in direct mode.  Four parties act on them at    *)
(* the same time: drives (one at a time, under the drive lock), workers,   *)
(* the per-job alarms, and the operator's cancel and retry.                *)
(*                                                                         *)
(* A step is one D1 statement or batch with the reads just before it.      *)
(* Only one transaction is modelled, and every task in it has a            *)
(* compensation handler.                                                   *)
(***************************************************************************)
EXTENDS Integers, Sequences

CONSTANTS
  Tasks,      \* the service tasks of the transaction
  Tokens,     \* the root token and one token per branch of a region
  Root,       \* the root token
  None,       \* no task, no token
  Parent,     \* per token, the token its split was reached on (None for Root)
  Branches,   \* per token, the tokens its split forks, in document order
  Before,     \* per token, its tasks up to its split
  After,      \* per token, its tasks behind the join of its split
  Guarded,    \* tasks with an error boundary that leads to the cancel end
  RetryLimit, \* leases a job may take before a failure is final
  MaxCalls,   \* bound: operator calls
  MaxCrashes  \* bound: drives and operator calls that die half way

Elements(s) == {s[i] : i \in DOMAIN s}

ASSUME NoneIsFresh == None \notin Tokens \cup Tasks
ASSUME Paths ==
  /\ Branches \in [Tokens -> Seq(Tokens)]
  /\ Before \in [Tokens -> Seq(Tasks)]
  /\ After \in [Tokens -> Seq(Tasks)]
ASSUME Placed == \A x \in Tasks : \E t \in Tokens : x \in Elements(Before[t] \o After[t])
\* fanOutSplit: the tokens are a tree, and a split forks the children of its token.
ASSUME TreeOfTokens ==
  /\ Root \in Tokens /\ Parent[Root] = None
  /\ \A t \in Tokens \ {Root} : Parent[t] \in Tokens
  /\ \A p \in Tokens : Elements(Branches[p]) = {c \in Tokens : Parent[c] = p}
  /\ \A S \in SUBSET Tokens :
       S # {} /\ (\A t \in S \ {Root} : Parent[t] \in S) => Root \in S
\* validateRegions: no path leaves a region except through its join, so the cancel
\* end and what leads to it are outside every region of the transaction.
ASSUME GuardedOnRoot ==
  \A t \in Tokens \ {Root} : Guarded \cap Elements(Before[t] \o After[t]) = {}
ASSUME BoundsAreNat == RetryLimit \in Nat \ {0} /\ MaxCalls \in Nat /\ MaxCrashes \in Nat

VARIABLES
  status,   \* process_instances.status
  hazard,   \* the element of the instance's latest incident
  job,      \* service_task_jobs, one row per (kind, task)
  alarm,    \* per task, the alarm of the job's JobScheduler object
  token,    \* execution_tokens.status
  pos,      \* execution_tokens.position_element_id: a task, or None for any other node
  joined,   \* join_completions: tokens whose region was joined
  ledger,   \* saga_steps.compensation_status per task
  order,    \* the tasks in saga_steps by seq
  drive,    \* the drive that holds the lock
  wanted,   \* a resume was requested and its drive has not started
  cancel,   \* how far a handleCancelInstance got
  retry,    \* how far a retryInstanceCore got, and its step
  calls,    \* operator calls so far
  crashes   \* crashes so far

instance == <<status, hazard>>
tokens == <<token, pos, joined>>
saga == <<ledger, order>>
operator == <<cancel, retry, calls>>
vars == <<instance, job, alarm, tokens, saga, drive, wanted, operator, crashes>>

Terminal == {"completed", "incident", "compensated", "compensationFailed", "cancelled"}
Cancellable == {"running", "waiting", "incident"}
Statuses == Terminal \cup {"running", "waiting", "compensating"}

Kinds == {"forward", "compensation"}
Jobs == Kinds \X Tasks
F(x) == <<"forward", x>>
C(x) == <<"compensation", x>>

\* held: lock_token is set; over: lock_expires_at has passed; ttl: the job has
\* an activation_expires_at; code: it failed with a business error that a boundary
\* catches (any other business error fails like a technical one).
NoJob == [st |-> "none", held |-> FALSE, over |-> FALSE, ttl |-> FALSE,
          code |-> FALSE, applied |-> FALSE, tries |-> 0]
InFlight(j) == job[j].st \in {"created", "locked"}

NoDrive == [phase |-> "idle", at |-> Root, back |-> FALSE, sync |-> FALSE, todo |-> {}]

Live == {t \in Tokens : token[t] \in {"active", "arrivedAtJoin"}}
IsRegion == Branches[Root] # <<>>
FirstTask(s) == IF s = <<>> THEN None ELSE s[1]
Owner(x) == CHOOSE t \in Tokens : x \in Elements(Before[t] \o After[t])

-----------------------------------------------------------------------------
(* Workers: /jobs/activate, /jobs/complete, /jobs/fail. *)

\* A resume is requested: it waits for the lock, then drives.
Deliver == wanted' = TRUE
Keep == UNCHANGED <<instance, tokens, saga, drive, operator, crashes>>

\* leaseJobs; the alarm's instant then bears no relation to the new lease.
Lease(j) ==
  /\ \/ job[j].st = "created"
     \/ job[j].st = "locked" /\ ~job[j].held /\ job[j].over
  /\ job' = [job EXCEPT ![j].st = "locked", ![j].held = TRUE, ![j].over = FALSE,
                        ![j].tries = @ + 1]
  /\ alarm' = [alarm EXCEPT ![j[2]] = IF j[1] = "forward" /\ @ = "lease" THEN "ttl" ELSE @]
  /\ UNCHANGED wanted
  /\ Keep

\* lock_expires_at passes, of a lease or of a backoff park.
LeaseEnds(j) ==
  /\ job[j].st = "locked"
  /\ ~job[j].over
  /\ job' = [job EXCEPT ![j].over = TRUE]
  /\ UNCHANGED <<alarm, wanted>>
  /\ Keep

Parked(row) == [row EXCEPT !.held = FALSE, !.over = FALSE]
Failed(row, code) == [row EXCEPT !.st = "failed", !.held = FALSE, !.over = FALSE, !.code = code]

\* The reclaim pre-pass of a poll: park a lapsed lease, or exhaust the job.
Reclaim(j) ==
  /\ job[j].st = "locked" /\ job[j].held /\ job[j].over
  /\ \/ /\ job[j].tries < RetryLimit
        /\ job' = [job EXCEPT ![j] = Parked(@)]
        /\ UNCHANGED wanted
     \/ /\ job[j].tries >= RetryLimit
        /\ job' = [job EXCEPT ![j] = Failed(@, FALSE)]
        /\ Deliver
  /\ UNCHANGED alarm
  /\ Keep

\* A callback counts while the job is leased and the instance is not terminal.
Answerable(j) == job[j].st = "locked" /\ job[j].held /\ status \notin Terminal

ForgetsReverse(j) ==                    \* mutant: only forward work is delivered
  /\ Answerable(j)
  /\ job' = [job EXCEPT ![j].st = "completed", ![j].held = FALSE, ![j].over = FALSE]
  /\ wanted' = (wanted \/ j[1] = "forward")
  /\ UNCHANGED alarm
  /\ Keep

Complete(j) ==
  /\ Answerable(j)
  /\ job' = [job EXCEPT ![j].st = "completed", ![j].held = FALSE, ![j].over = FALSE]
  /\ Deliver
  /\ UNCHANGED alarm
  /\ Keep

Fail(j) ==
  /\ Answerable(j)
  /\ \/ /\ job[j].tries < RetryLimit
        /\ job' = [job EXCEPT ![j] = Parked(@)]
        /\ UNCHANGED wanted
     \/ \E code \in BOOLEAN :                 \* a business error, or no retry left or wanted
          /\ code => \E x \in Guarded : j = F(x)
          /\ job' = [job EXCEPT ![j] = Failed(@, code)]
          /\ Deliver
  /\ UNCHANGED alarm
  /\ Keep

-----------------------------------------------------------------------------
(* The alarm of a forward job: terminateUnleasableJob.  It fires once. *)

Incident(x) == status' = "incident" /\ hazard' = x

\* The cohort's terminator: a lapsed lease while the instance compensates.
TerminateLease(x) ==
  /\ job[F(x)].st = "locked"
  /\ IF status = "compensating" /\ job[F(x)].over
     THEN job' = [job EXCEPT ![F(x)] = Failed(@, FALSE)] /\ Deliver
     ELSE UNCHANGED <<job, wanted>>
  /\ UNCHANGED instance

HaltsAnyway(x) ==                       \* mutant: the transition to incident is not guarded
  /\ job[F(x)].st = "created" /\ job[F(x)].tries = 0 /\ job[F(x)].ttl
  /\ status \notin Terminal
  /\ job' = [job EXCEPT ![F(x)] = Failed(@, FALSE)]
  /\ Incident(x)
  /\ UNCHANGED wanted

\* The dead-letter route of a job nobody leased.
TerminateUnleased(x) ==
  /\ job[F(x)].st = "created" /\ job[F(x)].tries = 0 /\ job[F(x)].ttl
  /\ status \notin Terminal
  /\ job' = [job EXCEPT ![F(x)] = Failed(@, FALSE)]
  /\ hazard' = x
  /\ status' = IF status \in {"running", "waiting"} THEN "incident" ELSE status
  /\ UNCHANGED wanted

NothingToTerminate(x) ==
  /\ job[F(x)].st # "locked"
  /\ job[F(x)].st = "created" /\ job[F(x)].tries = 0 /\ job[F(x)].ttl => status \in Terminal
  /\ UNCHANGED <<instance, job, wanted>>

AlarmFires(x) ==
  /\ alarm[x] # "off"
  /\ alarm[x] = "lease" /\ job[F(x)].st = "locked" => job[F(x)].over
  /\ alarm' = [alarm EXCEPT ![x] = "off"]
  /\ TerminateLease(x) \/ TerminateUnleased(x) \/ NothingToTerminate(x)
  /\ UNCHANGED <<tokens, saga, drive, operator, crashes>>

\* armCohortLeaseExpiryTerminators.
ArmCohort ==
  alarm' = [x \in Tasks |-> IF job[F(x)].st = "locked" THEN "lease" ELSE alarm[x]]

-----------------------------------------------------------------------------
(* A drive: runInstance under the lock.  It re-walks from the start every   *)
(* time; what was applied before is passed over without a write, so the     *)
(* walk is at the first thing that was not.                                 *)

Others == UNCHANGED <<wanted, operator, crashes>>

\* The tasks on token t's path that the walk can reach, and those not yet applied.
Program(t) == Before[t] \o (IF Branches[t] = <<>> \/ t \in joined THEN After[t] ELSE <<>>)
Ahead(t) == {i \in DOMAIN Program(t) : ~job[F(Program(t)[i])].applied}
Thrown(t) == \E x \in Elements(Program(t)) : job[F(x)].applied /\ job[F(x)].st = "failed"
\* x is the first task that token t has still to do.
First(t, x) == \E i \in Ahead(t) : x = Program(t)[i] /\ \A k \in Ahead(t) : i <= k
Passed(t) == Ahead(t) = {} /\ ~Thrown(t)
Next1(x) == drive.phase = "walk" /\ ~Thrown(drive.at) /\ First(drive.at, x)
AtSplit(t) == /\ drive.phase = "walk" /\ drive.at = t
              /\ Passed(t) /\ Branches[t] # <<>> /\ t \notin joined
AtEnd(t) == /\ drive.phase = "walk" /\ drive.at = t
            /\ Passed(t) /\ (Branches[t] = <<>> \/ t \in joined)
Forked(t) == \E c \in Elements(Branches[t]) : token[c] # "absent"

Ended == IF drive.sync THEN [NoDrive EXCEPT !.phase = "sync"] ELSE NoDrive
\* The walk of token t returns: to its next sibling, else to their split.
Left(t) ==
  LET s == Branches[Parent[t]]
      i == CHOOSE n \in DOMAIN s : s[n] = t
  IN  IF t = Root THEN Ended
      ELSE IF i < Len(s) THEN [drive EXCEPT !.phase = "walk", !.at = s[i + 1], !.back = FALSE]
      ELSE [drive EXCEPT !.phase = "walk", !.at = Parent[t], !.back = TRUE]

Scanning == [drive EXCEPT !.phase = "scan", !.todo = Live]

DriveStart ==
  /\ drive.phase = "idle" /\ wanted
  /\ wanted' = FALSE
  /\ drive' = CASE status = "compensating" -> Scanning
                [] status \in Terminal -> NoDrive
                [] OTHER -> [NoDrive EXCEPT !.phase = "walk", !.sync = ~IsRegion]
  /\ UNCHANGED <<instance, job, alarm, tokens, saga, operator, crashes>>

CreateJob(x) ==
  /\ Next1(x) /\ job[F(x)].st = "none"
  /\ job' = [job EXCEPT ![F(x)] = [NoJob EXCEPT !.st = "created", !.ttl = TRUE]]
  /\ alarm' = [alarm EXCEPT ![x] = "ttl"]
  /\ drive' = [drive EXCEPT !.phase = "park"]
  /\ Others /\ UNCHANGED <<instance, tokens, saga>>

\* parkWaiting: the job was just created, or was in flight when it was read.
Park(t) ==
  /\ drive.at = t
  /\ drive.phase = "park" \/ \E x \in Tasks : Next1(x) /\ InFlight(F(x))
  /\ status' = "waiting"
  /\ drive' = Left(t)
  /\ Others /\ UNCHANGED <<hazard, job, alarm, tokens, saga>>

InsertsAgain(x) ==                      \* mutant: a plain INSERT
  ledger' = [ledger EXCEPT ![x] = "pending"] /\ order' = Append(order, x)

\* insertSagaStepStmt: INSERT OR IGNORE, with the next seq.
Ledgered(x) ==
  IF ledger[x] = "none"
  THEN ledger' = [ledger EXCEPT ![x] = "pending"] /\ order' = Append(order, x)
  ELSE UNCHANGED saga

\* An alarm that fires for an applied job does nothing: it is dropped at once.
Applied(x) ==
  /\ job' = [job EXCEPT ![F(x)].applied = TRUE]
  /\ alarm' = [alarm EXCEPT ![x] = "off"]

\* applyForwardCompletion: the output, the ledger row and the advance in one batch.
Apply(x) ==
  /\ Next1(x) /\ job[F(x)].st = "completed"
  /\ Applied(x)
  /\ Ledgered(x)
  /\ status' = "running"
  /\ Others /\ UNCHANGED <<hazard, tokens, drive>>

\* handleForwardFailure: a business error somebody catches is routed ...
RouteError(x) ==
  /\ Next1(x) /\ job[F(x)].st = "failed"
  /\ job[F(x)].code
  /\ Applied(x)
  /\ status' = "running"
  /\ Others /\ UNCHANGED <<hazard, tokens, saga, drive>>

\* ... and any other failure is an incident, which ends the walk.
FailForward(x) ==
  /\ Next1(x) /\ job[F(x)].st = "failed"
  /\ ~job[F(x)].code
  /\ IF status \in Terminal \cup {"compensating"} THEN UNCHANGED instance ELSE Incident(x)
  /\ drive' = Ended
  /\ Others /\ UNCHANGED <<job, alarm, tokens, saga>>

\* The token reached the cancel end.
BeginCompensating ==
  /\ drive.phase = "walk" /\ Thrown(drive.at)
  /\ IF status \in Terminal \cup {"compensating"}
     THEN UNCHANGED <<instance, alarm>>
     ELSE status' = "compensating" /\ UNCHANGED hazard /\ ArmCohort
  /\ drive' = Scanning
  /\ Others /\ UNCHANGED <<job, tokens, saga>>

Fork(t) ==
  /\ AtSplit(t) /\ ~drive.back /\ ~Forked(t)
  /\ LET new == Elements(Branches[t])
     IN  /\ token' = [c \in Tokens |-> IF c \in new THEN "active" ELSE token[c]]
         /\ pos' = [c \in Tokens |-> IF c \in new THEN FirstTask(Before[c]) ELSE pos[c]]
  /\ Others /\ UNCHANGED <<instance, job, alarm, joined, saga, drive>>

Descend(t) ==
  /\ AtSplit(t) /\ ~drive.back /\ Forked(t)
  /\ drive' = [drive EXCEPT !.at = Branches[t][1]]
  /\ Others /\ UNCHANGED <<instance, job, alarm, tokens, saga>>

\* recordJoinArrival: a branch halts in front of the join.
Arrive(t) ==
  /\ AtEnd(t) /\ t # Root
  /\ token' = [token EXCEPT ![t] = "arrivedAtJoin"]
  /\ drive' = Left(t)
  /\ Others /\ UNCHANGED <<instance, job, alarm, pos, joined, saga>>

AllArrived(t) == \A c \in Elements(Branches[t]) : token[c] = "arrivedAtJoin"

\* claimJoinCompletion: the parent token goes on behind the join.
Join(t) ==
  /\ AtSplit(t) /\ drive.back /\ AllArrived(t)
  /\ token' = [c \in Tokens |-> CASE c \in Elements(Branches[t]) -> "merged"
                                  [] c = t -> "active"
                                  [] OTHER -> token[c]]
  /\ pos' = [pos EXCEPT ![t] = FirstTask(After[t])]
  /\ joined' = joined \cup {t}
  /\ status' = "running"
  /\ drive' = [drive EXCEPT !.back = FALSE]
  /\ Others /\ UNCHANGED <<hazard, job, alarm, saga>>

StopAtJoin(t) ==
  /\ AtSplit(t) /\ drive.back /\ ~AllArrived(t)
  /\ drive' = Left(t)
  /\ Others /\ UNCHANGED <<instance, job, alarm, tokens, saga>>

Sealed == \E x \in Tasks : ledger[x] = "committed"

\* commitTransaction: the end of the transaction seals its ledger.
Commit ==
  /\ AtEnd(Root) /\ ~Sealed
  /\ ledger' = [x \in Tasks |-> IF ledger[x] \in {"pending", "compensating"}
                                THEN "committed" ELSE ledger[x]]
  /\ status' = "running"
  /\ Others /\ UNCHANGED <<hazard, job, alarm, tokens, order, drive>>

\* The none end of the process, of one token: completeInstance.
End ==
  /\ AtEnd(Root) /\ Sealed /\ ~IsRegion
  /\ status' = IF status \in Terminal THEN status ELSE "completed"
  /\ drive' = Ended
  /\ Others /\ UNCHANGED <<hazard, job, alarm, tokens, saga>>

\* ... and of a region graph: consumeTokenAtEnd, then settleFrontierCompletion.
ConsumeAtEnd ==
  /\ AtEnd(Root) /\ Sealed /\ IsRegion
  /\ token' = [token EXCEPT ![Root] = "consumed"]
  /\ drive' = [drive EXCEPT !.phase = "finish"]
  /\ Others /\ UNCHANGED <<instance, job, alarm, pos, joined, saga>>

Finish ==
  /\ drive.phase = "finish"
  /\ status' = IF Live = {} /\ status \in {"running", "waiting"} THEN "completed" ELSE status
  /\ drive' = Ended
  /\ Others /\ UNCHANGED <<hazard, job, alarm, tokens, saga>>

\* syncFrontierReadModel, after the walk of a graph without regions.
Sync ==
  /\ drive.phase = "sync"
  /\ IF status \in Terminal
     THEN /\ token' = [token EXCEPT ![Root] = IF Root \in Live THEN "consumed" ELSE @]
          /\ UNCHANGED pos
     ELSE /\ token' = [token EXCEPT ![Root] = "active"]
          /\ \E x \in Tasks \cup {None} :
               /\ IF Thrown(Root) \/ Ahead(Root) = {} THEN x = None ELSE First(Root, x)
               /\ pos' = [pos EXCEPT ![Root] = x]
  /\ drive' = NoDrive
  /\ Others /\ UNCHANGED <<instance, job, alarm, joined, saga>>

-----------------------------------------------------------------------------
(* The reverse pass: settleAfterCompensation. *)

Owing == {"pending", "compensating", "failed"}
Owed == {x \in Tasks : ledger[x] \in Owing}

CountsLeased(t) ==                      \* mutant: a leased job counts as a completed one
  LET x == pos[t] IN
  /\ drive.phase = "scan" /\ t \in drive.todo
  /\ drive' = [drive EXCEPT !.todo = @ \ {t}]
  /\ \/ /\ x # None /\ job[F(x)].st \in {"completed", "locked"}
        /\ token' = [token EXCEPT ![t] = "consumed"]
        /\ Ledgered(x)
     \/ /\ x # None => job[F(x)].st \in {"none", "failed", "created"}
        /\ token' = [token EXCEPT ![t] = "discarded"]
        /\ UNCHANGED saga
  /\ Others /\ UNCHANGED <<instance, job, alarm, pos, joined>>

DropsStraggler(t) ==                    \* mutant: a late completion is not ledgered
  LET x == pos[t] IN
  /\ drive.phase = "scan" /\ t \in drive.todo
  /\ drive' = [drive EXCEPT !.todo = @ \ {t}]
  /\ IF x # None /\ InFlight(F(x)) THEN UNCHANGED token
     ELSE token' = [token EXCEPT ![t] = "consumed"]
  /\ Others /\ UNCHANGED <<instance, job, alarm, pos, joined, saga>>

\* ledgerStragglers: one live token of the cohort, by the job at its position.
Scan(t) ==
  LET x == pos[t] IN
  /\ drive.phase = "scan" /\ t \in drive.todo
  /\ drive' = [drive EXCEPT !.todo = @ \ {t}]
  /\ \/ /\ x # None /\ job[F(x)].st = "completed"
        /\ token' = [token EXCEPT ![t] = "consumed"]
        /\ Ledgered(x)
     \/ /\ x # None => job[F(x)].st \in {"none", "failed"}
        /\ token' = [token EXCEPT ![t] = "discarded"]
        /\ UNCHANGED saga
     \/ /\ x # None /\ InFlight(F(x))         \* left to its alarm
        /\ UNCHANGED <<token, saga>>
  /\ Others /\ UNCHANGED <<instance, job, alarm, pos, joined>>

Scanned == drive.phase = "scan" /\ drive.todo = {}

\* filterLineageQuiesced: a live token blocks its rows, and those of the tokens on its chain
\* of parents, which is followed through live tokens only: each adds its own parent.
Blocked == Live \cup {Parent[b] : b \in Live}

IgnoresLineage == Owed                  \* mutant: live branches block nothing

Eligible == {x \in Owed : Owner(x) \notin Blocked}

Rank(x) == CHOOSE n \in DOMAIN order : order[n] = x
Latest(S) == CHOOSE x \in S : \A y \in S : Rank(y) <= Rank(x)
Turn(x) == Scanned /\ x \in Eligible /\ x = Latest(Eligible)

CreateCompensation(x) ==
  /\ Turn(x) /\ job[C(x)].st = "none"
  /\ job' = [job EXCEPT ![C(x)] = [NoJob EXCEPT !.st = "created"]]
  /\ ledger' = [ledger EXCEPT ![x] = "compensating"]
  /\ Others /\ UNCHANGED <<instance, alarm, tokens, order, drive>>

MarkCompensated(x) ==
  /\ Turn(x) /\ job[C(x)].st = "completed"
  /\ ledger' = [ledger EXCEPT ![x] = "compensated"]
  /\ drive' = Scanning
  /\ Others /\ UNCHANGED <<instance, job, alarm, tokens, order>>

LeavesRow(x) ==                         \* mutant: the ledger row stays compensating
  /\ Turn(x) /\ job[C(x)].st = "failed"
  /\ status' = "compensationFailed" /\ hazard' = x
  /\ drive' = Ended
  /\ Others /\ UNCHANGED <<job, alarm, tokens, saga>>

MarkFailed(x) ==
  /\ Turn(x) /\ job[C(x)].st = "failed"
  /\ ledger' = [ledger EXCEPT ![x] = "failed"]
  /\ status' = "compensationFailed" /\ hazard' = x
  /\ drive' = Ended
  /\ Others /\ UNCHANGED <<job, alarm, tokens, order>>

\* The pass stops: on a job a worker has to do, or on tokens that still live.
Wait ==
  /\ Scanned
  /\ Owed = {} => Live # {}
  /\ \A x \in Eligible : x = Latest(Eligible) => InFlight(C(x))
  /\ drive' = Ended
  /\ Others /\ UNCHANGED <<instance, job, alarm, tokens, saga>>

ContinuesRunning ==                     \* mutant: the process root settles as a nested one
  /\ Scanned /\ Owed = {} /\ Live = {}
  /\ status' = IF status = "compensating" THEN "running" ELSE status
  /\ drive' = Ended
  /\ wanted' = TRUE
  /\ UNCHANGED <<hazard, job, alarm, tokens, saga, operator, crashes>>

\* settleSagaCompensated.
Settle ==
  /\ Scanned /\ Owed = {} /\ Live = {}
  /\ status' = IF status = "compensating" THEN "compensated" ELSE status
  /\ drive' = Ended
  /\ Others /\ UNCHANGED <<hazard, job, alarm, tokens, saga>>

DriveDies ==
  /\ drive.phase # "idle"
  /\ crashes < MaxCrashes
  /\ crashes' = crashes + 1
  /\ drive' = NoDrive
  /\ UNCHANGED <<instance, job, alarm, tokens, saga, wanted, operator>>

-----------------------------------------------------------------------------
(* The operator: handleCancelInstance and retryInstanceCore, call by call. *)

NoRetry == [at |-> "idle", kind |-> "forward", task |-> None]

CancelCheck ==
  /\ cancel = "idle" /\ calls < MaxCalls
  /\ status \in Cancellable
  /\ cancel' = "checked" /\ calls' = calls + 1
  /\ UNCHANGED <<instance, job, alarm, tokens, saga, drive, wanted, retry, crashes>>

\* Without regions, abandonActiveForwardJobs; with regions the cohort is left alone.
Abandoned ==
  [j \in Jobs |-> IF j[1] = "forward" /\ InFlight(j) THEN Failed(job[j], FALSE) ELSE job[j]]

Release ==
  /\ cancel = "checked"
  /\ job' = IF IsRegion THEN job ELSE Abandoned
  /\ cancel' = "released"
  /\ UNCHANGED <<instance, alarm, tokens, saga, drive, wanted, retry, calls, crashes>>

Decide ==
  /\ cancel = "released"
  /\ cancel' = IF Owed = {} /\ (IsRegion => Live = {}) THEN "close" ELSE "open"
  /\ UNCHANGED <<instance, job, alarm, tokens, saga, drive, wanted, retry, calls, crashes>>

Close ==
  /\ cancel = "close"
  /\ status' = IF status \in Cancellable THEN "cancelled" ELSE status
  /\ cancel' = "idle"
  /\ UNCHANGED <<hazard, job, alarm, tokens, saga, drive, wanted, retry, calls, crashes>>

Open ==
  /\ cancel = "open"
  /\ IF status \in Cancellable
     THEN status' = "compensating" /\ cancel' = "opened"
     ELSE cancel' = "idle" /\ UNCHANGED status
  /\ UNCHANGED <<hazard, job, alarm, tokens, saga, drive, wanted, retry, calls, crashes>>

Resume ==
  /\ cancel = "opened"
  /\ ArmCohort /\ Deliver
  /\ cancel' = "idle"
  /\ UNCHANGED <<instance, job, tokens, saga, drive, retry, calls, crashes>>

CancelNext == Release \/ Decide \/ Close \/ Open \/ Resume

RetryCheck ==
  /\ retry = NoRetry /\ calls < MaxCalls
  /\ \/ /\ status = "incident"
        /\ retry' = [at |-> "job", kind |-> "forward", task |-> hazard]
     \/ /\ status = "compensationFailed"
        /\ \E x \in Tasks :
             /\ ledger[x] = "failed"
             /\ x = Latest({y \in Tasks : ledger[y] = "failed"})
             /\ retry' = [at |-> "job", kind |-> "compensation", task |-> x]
  /\ calls' = calls + 1
  /\ UNCHANGED <<instance, job, alarm, tokens, saga, drive, wanted, cancel, crashes>>

\* resetJobForRetry.
Resets(j) == /\ ~job[j].applied
             /\ \/ job[j].st \in {"created", "locked", "failed"}
                \/ job[j].st = "completed" /\ j[1] = "forward"
RetryReset ==
  LET j == <<retry.kind, retry.task>> IN
  /\ retry.at = "job"
  /\ job' = IF Resets(j) THEN [job EXCEPT ![j] = [NoJob EXCEPT !.st = "created"]] ELSE job
  /\ retry' = [retry EXCEPT !.at = IF retry.kind = "forward" THEN "status" ELSE "ledger"]
  /\ UNCHANGED <<instance, alarm, tokens, saga, drive, wanted, cancel, calls, crashes>>

ReopensAll ==                           \* mutant: every step's row goes back to pending
  /\ retry.at = "ledger"
  /\ ledger' = [x \in Tasks |-> IF ledger[x] = "none" THEN "none" ELSE "pending"]
  /\ retry' = [retry EXCEPT !.at = "status"]
  /\ UNCHANGED <<instance, job, alarm, tokens, order, drive, wanted, cancel, calls, crashes>>

RetryReopen ==
  /\ retry.at = "ledger"
  /\ ledger' = [ledger EXCEPT ![retry.task] = "pending"]
  /\ retry' = [retry EXCEPT !.at = "status"]
  /\ UNCHANGED <<instance, job, alarm, tokens, order, drive, wanted, cancel, calls, crashes>>

RetryMove ==
  /\ retry.at = "status"
  /\ LET from == IF retry.kind = "forward" THEN "incident" ELSE "compensationFailed"
         to == IF retry.kind = "forward" THEN "running" ELSE "compensating"
     IN  IF status = from
         THEN status' = to /\ retry' = [retry EXCEPT !.at = "resume"]
         ELSE retry' = NoRetry /\ UNCHANGED status
  /\ UNCHANGED <<hazard, job, alarm, tokens, saga, drive, wanted, cancel, calls, crashes>>

RetryResume ==
  /\ retry.at = "resume"
  /\ Deliver
  /\ retry' = NoRetry
  /\ UNCHANGED <<instance, job, alarm, tokens, saga, drive, cancel, calls, crashes>>

RetryNext == RetryReset \/ RetryReopen \/ RetryMove \/ RetryResume

OperatorDies ==
  /\ crashes < MaxCrashes
  /\ crashes' = crashes + 1
  /\ \/ cancel # "idle" /\ cancel' = "idle" /\ UNCHANGED retry
     \/ retry # NoRetry /\ retry' = NoRetry /\ UNCHANGED cancel
  /\ UNCHANGED <<instance, job, alarm, tokens, saga, drive, wanted, calls>>

-----------------------------------------------------------------------------
\* The first drive has just entered the transaction.
Init ==
  /\ status = "running" /\ hazard = None
  /\ job = [j \in Jobs |-> NoJob]
  /\ alarm = [x \in Tasks |-> "off"]
  /\ token = [t \in Tokens |-> "absent"]
  /\ pos = [t \in Tokens |-> None]
  /\ joined = {}
  /\ ledger = [x \in Tasks |-> "none"] /\ order = <<>>
  /\ drive = [NoDrive EXCEPT !.phase = "walk", !.sync = ~IsRegion]
  /\ wanted = FALSE
  /\ cancel = "idle" /\ retry = NoRetry
  /\ calls = 0 /\ crashes = 0

Worker == \E j \in Jobs : Lease(j) \/ LeaseEnds(j) \/ Reclaim(j) \/ Complete(j) \/ Fail(j)

Walk == \/ \E x \in Tasks : CreateJob(x) \/ Apply(x) \/ RouteError(x) \/ FailForward(x)
        \/ \E t \in Tokens : Park(t) \/ Fork(t) \/ Descend(t) \/ Arrive(t) \/ Join(t)
                             \/ StopAtJoin(t)
        \/ BeginCompensating \/ Commit \/ End \/ ConsumeAtEnd \/ Finish \/ Sync

Reverse == \/ \E t \in Tokens : Scan(t)
           \/ \E x \in Tasks : CreateCompensation(x) \/ MarkCompensated(x) \/ MarkFailed(x)
           \/ Wait \/ Settle

Next == \/ Worker
        \/ \E x \in Tasks : AlarmFires(x)
        \/ DriveStart \/ Walk \/ Reverse \/ DriveDies
        \/ CancelCheck \/ CancelNext \/ RetryCheck \/ RetryNext \/ OperatorDies

Spec == Init /\ [][Next]_vars

\* A drive, a call and an alarm run on once started; workers keep polling, but
\* none of them has to answer.
Fairness ==
  /\ WF_vars(DriveStart \/ Walk \/ Reverse)
  /\ WF_vars(CancelNext) /\ WF_vars(RetryNext)
  /\ \A x \in Tasks : WF_vars(AlarmFires(x))
  /\ \A j \in Jobs : WF_vars(Lease(j)) /\ WF_vars(LeaseEnds(j)) /\ WF_vars(Reclaim(j))

FairSpec == Spec /\ Fairness

-----------------------------------------------------------------------------
(* Properties. *)

JobRow == [st : {"none", "created", "locked", "completed", "failed"}, held : BOOLEAN,
           over : BOOLEAN, ttl : BOOLEAN, code : BOOLEAN, applied : BOOLEAN, tries : Nat]

Drives == [phase : {"idle", "walk", "park", "finish", "sync", "scan"}, at : Tokens,
           back : BOOLEAN, sync : BOOLEAN, todo : SUBSET Tokens]

Retries == [at : {"idle", "job", "ledger", "status", "resume"}, kind : Kinds,
             task : Tasks \cup {None}]

\* Every variable holds a value the code can store, and seq is a strict order of
\* the ledger's rows (insertSagaStepStmt ignores a duplicate).
TypeOK ==
  /\ status \in Statuses /\ hazard \in Tasks \cup {None}
  /\ job \in [Jobs -> JobRow]
  /\ alarm \in [Tasks -> {"off", "ttl", "lease"}]
  /\ token \in [Tokens -> {"absent", "active", "arrivedAtJoin", "merged", "consumed", "discarded"}]
  /\ pos \in [Tokens -> Tasks \cup {None}]
  /\ joined \subseteq Tokens
  /\ ledger \in [Tasks -> Owing \cup {"none", "compensated", "committed"}]
  /\ order \in Seq(Tasks)
  /\ \A m, n \in DOMAIN order : order[m] = order[n] => m = n
  /\ Elements(order) = {x \in Tasks : ledger[x] # "none"}
  /\ drive \in Drives
  /\ wanted \in BOOLEAN
  /\ cancel \in {"idle", "checked", "released", "close", "open", "opened"}
  /\ retry \in Retries
  /\ calls \in 0..MaxCalls /\ crashes \in 0..MaxCrashes

\* A transaction either commits or is undone: the ledger never holds a sealed row
\* beside one whose compensation has started, whatever the operator, the walk in
\* progress and the alarms do to the status (commitTransaction, runCompensation).
AllOrNothing ==
  \A x, y \in Tasks :
    ledger[x] = "committed" => ledger[y] \notin {"compensating", "compensated", "failed"}

\* t and the tokens forked below it: what is in every set that holds t and is closed
\* under forking.
Lineage(t) ==
  {c \in Tokens : \A S \in SUBSET Tokens :
     t \in S /\ (\A d \in Tokens : Parent[d] \in S => d \in S) => c \in S}

\* Reverse order along a causal chain: a compensation is started only when its
\* lineage has no live token and every step completed later in the lineage is
\* undone (filterLineageQuiesced, ORDER BY seq DESC).
ReverseOrder ==
  [][\A x \in Tasks : ledger'[x] = "compensating" /\ job[C(x)].st = "none" =>
       /\ Live \cap Lineage(Owner(x)) = {}
       /\ \A y \in Owed : Owner(y) \in Lineage(Owner(x)) => Rank(y) <= Rank(x)]_vars

\* Only work that was done is undone, also when a straggler's late completion,
\* its lease running out and the scan of its token come in any order.  The
\* exception is again a job an operator's retry reset: resetJobForRetry takes a
\* completed job that was ledgered as a straggler and never applied.
CompensatesOnlyDone ==
  \A x \in Tasks : job[C(x)].st # "none" =>
    /\ job[F(x)].st # "none"
    /\ job[F(x)].st = "completed" \/ ~job[F(x)].ttl

\* A compensated step is never compensated again: no retry or drive reopens it.
CompensatedIsFinal ==
  [][\A x \in Tasks : ledger[x] = "compensated" => ledger'[x] = "compensated"]_vars

\* Once something was undone the transaction takes no new forward step: no retry
\* of an incident and no walk gets past a reverse pass.
NoForwardAfterUndo ==
  [][(\E y \in Tasks : job[C(y)].st # "none") =>
       \A x \in Tasks : job[F(x)].st = "none" => job'[F(x)].st = "none"]_vars

\* Without regions, 'compensated' means it: every completed forward job is undone,
\* the one that completed while the cancel was under way included.  The exception
\* is a job an operator's retry reset (its ttl is cleared): the incident's sync
\* consumed the root token the scan would find it by.
CompensatedMeansUndone ==
  status = "compensated" /\ ~IsRegion =>
    \A x \in Tasks : job[F(x)].st = "completed" /\ job[F(x)].ttl => ledger[x] = "compensated"

\* An instance that waits for the operator's retry has something to retry: a
\* failed step with its failed compensation job, or the incident's failed job.
RetryHasTarget ==
  retry = NoRetry =>
    /\ status = "compensationFailed" =>
         \E x \in Tasks : ledger[x] = "failed" /\ job[C(x)].st = "failed"
    /\ status = "incident" => job[F(hazard)].st = "failed"

\* A reverse pass that has started undoing settles, or fails and says so: the
\* last answer, refusal or lease of a compensation job always brings a drive.
ReverseSettles ==
  (status = "compensating" /\ \E x \in Tasks : job[C(x)].st # "none")
    ~> status # "compensating"

\* index.ts: cohort jobs stay in place with terminators armed, "and let a late
\* complete land as a straggler"; runCompensation: settle "ONLY when ... no cohort
\* token is live", so that a straggler "is always ledgered + compensated before the
\* terminal transition".  Nothing is in flight when the saga is compensated.
StragglersCompensated ==
  status = "compensated" => \A x \in Tasks : ~InFlight(F(x))
=============================================================================
