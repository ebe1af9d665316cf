----------------------------- MODULE SagaProofs -----------------------------
(***************************************************************************)
(* Theorems about Saga for any tasks, any tree of tokens, any program on   *)
(* it, any retry limit and any number of operator calls and crashes.       *)
(***************************************************************************)
EXTENDS Saga, SequenceTheorems, WellFoundedInduction, TLAPS

-----------------------------------------------------------------------------
(* The inductive invariant. *)

\* What a row of the ledger says about its task's jobs.
LedgerInv ==
  /\ \A x \in Tasks : ledger[x] # "none" =>
       job[F(x)].st # "none" /\ (job[F(x)].st = "completed" \/ ~job[F(x)].ttl)
  /\ \A x \in Tasks : job[C(x)].st # "none" => ledger[x] # "none"
  /\ \A x \in Tasks :
       ledger[x] \in {"compensating", "compensated", "failed"} => job[C(x)].st # "none"

\* While a failed compensation is being retried, nothing else moves the saga.
RetryInv ==
  /\ status = "compensationFailed" => drive.phase \in {"idle", "sync"}
  /\ retry.at = "ledger" => retry.kind = "compensation"
  /\ retry.kind = "compensation" /\ retry.at \in {"job", "ledger"} =>
       retry.task \in Tasks /\ ledger[retry.task] = "failed"
  /\ retry.kind = "compensation" /\ retry.at \in {"job", "ledger", "status"} =>
       status = "compensationFailed"

-----------------------------------------------------------------------------
(* Types. *)

\* The tasks of a token's path are tasks.
LEMMA ProgramType ==
  ASSUME NEW t \in Tokens
  PROVE  /\ Program(t) \in Seq(Tasks)
         /\ Before[t] \o After[t] \in Seq(Tasks)
<1>1. Before[t] \in Seq(Tasks) /\ After[t] \in Seq(Tasks)
  BY Paths
<1> QED BY <1>1 DEF Program

\* The elements of a sequence are what it is a sequence of.
LEMMA ElementsType ==
  ASSUME NEW S, NEW s \in Seq(S)
  PROVE  /\ Elements(s) \subseteq S
         /\ s # <<>> => 1 \in DOMAIN s /\ s[1] \in S
  BY DEF Elements

\* The first task of a path, if it has one, is on it.
LEMMA FirstTaskType ==
  ASSUME NEW s \in Seq(Tasks)
  PROVE  /\ FirstTask(s) \in Tasks \cup {None}
         /\ FirstTask(s) # None => FirstTask(s) \in Elements(s)
  BY ElementsType DEF FirstTask, Elements

\* A row of a job after any of the changes a step makes to it.
LEMMA RowType ==
  /\ NoJob \in JobRow
  /\ [NoJob EXCEPT !.st = "created"] \in JobRow
  /\ [NoJob EXCEPT !.st = "created", !.ttl = TRUE] \in JobRow
  /\ \A row \in JobRow :
       /\ [row EXCEPT !.st = "locked", !.held = TRUE, !.over = FALSE, !.tries = @ + 1] \in JobRow
       /\ [row EXCEPT !.st = "completed", !.held = FALSE, !.over = FALSE] \in JobRow
       /\ [row EXCEPT !.over = TRUE] \in JobRow
       /\ [row EXCEPT !.applied = TRUE] \in JobRow
       /\ Parked(row) \in JobRow
  /\ \A row \in JobRow : \A code \in BOOLEAN : Failed(row, code) \in JobRow
<1>1. /\ NoJob \in JobRow
      /\ [NoJob EXCEPT !.st = "created"] \in JobRow
      /\ [NoJob EXCEPT !.st = "created", !.ttl = TRUE] \in JobRow
  BY DEF NoJob, JobRow
<1>2. ASSUME NEW row \in JobRow
      PROVE  [row EXCEPT !.st = "locked", !.held = TRUE, !.over = FALSE, !.tries = @ + 1] \in JobRow
  <2>1. row.tries + 1 \in Nat
    BY DEF JobRow
  <2> QED BY <2>1 DEF JobRow
<1>3. ASSUME NEW row \in JobRow
      PROVE  /\ [row EXCEPT !.st = "completed", !.held = FALSE, !.over = FALSE] \in JobRow
             /\ [row EXCEPT !.over = TRUE] \in JobRow
             /\ [row EXCEPT !.applied = TRUE] \in JobRow
             /\ Parked(row) \in JobRow
  BY DEF JobRow, Parked
<1>4. ASSUME NEW row \in JobRow, NEW code \in BOOLEAN PROVE Failed(row, code) \in JobRow
  BY DEF JobRow, Failed
<1> QED BY <1>1, <1>2, <1>3, <1>4

\* The forward and the compensation job of a task, and nobody else's.
LEMMA JobIndex ==
  /\ \A x \in Tasks : F(x) \in Jobs /\ C(x) \in Jobs /\ F(x) # C(x)
  /\ \A x, y \in Tasks : (F(x) = F(y) <=> x = y) /\ (C(x) = C(y) <=> x = y) /\ F(x) # C(y)
  /\ \A j \in Jobs : j[2] \in Tasks /\ (j = F(j[2]) \/ j = C(j[2]))
  BY DEF F, C, Jobs, Kinds

\* The root token, and the parent and the children of a token, are tokens.
LEMMA TokenTree ==
  /\ Root \in Tokens
  /\ \A t \in Tokens \ {Root} : Parent[t] \in Tokens /\ t \in Elements(Branches[Parent[t]])
  /\ \A t, c \in Tokens : c \in Elements(Branches[t]) => c # Root /\ Parent[c] = t
<1>1. Root \in Tokens /\ Parent[Root] \notin Tokens
  BY TreeOfTokens, NoneIsFresh
<1> QED BY <1>1, TreeOfTokens

\* A drive that ended is idle, or has only the frontier left to sync.
LEMMA EndedType ==
  /\ NoDrive \in Drives /\ NoDrive.phase = "idle"
  /\ Ended \in Drives /\ Ended.phase \in {"idle", "sync"}
<1>1. Root \in Tokens
  BY TokenTree
<1>2. NoDrive \in Drives /\ NoDrive.phase = "idle"
  BY <1>1 DEF NoDrive, Drives
<1>3. /\ [NoDrive EXCEPT !.phase = "sync"] \in Drives
      /\ [NoDrive EXCEPT !.phase = "sync"].phase = "sync"
  BY <1>1 DEF NoDrive, Drives
<1> QED BY <1>2, <1>3 DEF Ended

\* Where the walk goes when it leaves a token.
LEMMA LeftType ==
  ASSUME TypeOK, NEW t \in Tokens
  PROVE  /\ Left(t) \in Drives
         /\ Left(t).phase \in {"walk", "idle", "sync"}
         /\ Left(t).phase = "walk" => t # Root
         /\ Left(t).phase = "walk" => 
              \/ Left(t).at = Parent[t]
              \/ Left(t).at \in Elements(Branches[Parent[t]])
<1>1. CASE t = Root
  <2>1. Left(t) = Ended
    BY <1>1 DEF Left
  <2> QED BY <1>1, <2>1, EndedType
<1>2. CASE t # Root
  <2> DEFINE s == Branches[Parent[t]]
             i == CHOOSE n \in DOMAIN s : s[n] = t
  <2>1. Parent[t] \in Tokens /\ s \in Seq(Tokens)
    BY <1>2, Paths, TokenTree
  <2>2. t \in Elements(s)
    BY <1>2, TokenTree
  <2>3. \E n \in DOMAIN s : s[n] = t
    BY <2>2 DEF Elements
  <2>4. i \in DOMAIN s
    BY <2>3
  <2>5. CASE i < Len(s)
    <3>1. DOMAIN s = 1..Len(s) /\ Len(s) \in Nat
      BY <2>1
    <3>2. i + 1 \in DOMAIN s /\ s[i + 1] \in Tokens
      <4> HIDE DEF i
      <4>1. i \in Nat /\ i + 1 \in DOMAIN s
        BY <2>4, <2>5, <3>1
      <4> QED BY <2>1, <4>1
    <3>3. Left(t) = [drive EXCEPT !.phase = "walk", !.at = s[i + 1], !.back = FALSE]
      BY <1>2, <2>5 DEF Left
    <3>4. Left(t).phase = "walk" /\ Left(t).at = s[i + 1] /\ Left(t) \in Drives
      BY <3>2, <3>3 DEF TypeOK, Drives
    <3> QED BY <1>2, <3>2, <3>4 DEF Elements
  <2>6. CASE ~(i < Len(s))
    <3>1. Left(t) = [drive EXCEPT !.phase = "walk", !.at = Parent[t], !.back = TRUE]
      BY <1>2, <2>6 DEF Left
    <3> QED BY <1>2, <2>1, <3>1 DEF TypeOK, Drives
  <2> QED BY <2>5, <2>6
<1> QED BY <1>1, <1>2

\* insertSagaStepStmt keeps one row per task, and seq a strict order of the rows.
LEMMA LedgeredType ==
  ASSUME TypeOK, NEW x \in Tasks, Ledgered(x)
  PROVE  /\ ledger' \in [Tasks -> Owing \cup {"none", "compensated", "committed"}]
         /\ order' \in Seq(Tasks)
         /\ \A m, n \in DOMAIN order' : order'[m] = order'[n] => m = n
         /\ Elements(order') = {y \in Tasks : ledger'[y] # "none"}
<1>1. CASE ledger[x] = "none"
  <2>1. /\ ledger' = [ledger EXCEPT ![x] = "pending"]
        /\ order' = Append(order, x)
    BY <1>1 DEF Ledgered
  <2>2. /\ order \in Seq(Tasks) /\ ledger \in [Tasks -> Owing \cup {"none", "compensated", "committed"}]
        /\ \A m, n \in DOMAIN order : order[m] = order[n] => m = n
        /\ Elements(order) = {y \in Tasks : ledger[y] # "none"}
    BY DEF TypeOK
  <2>3. /\ order' \in Seq(Tasks)
        /\ DOMAIN order' = 1..(Len(order) + 1)
        /\ \A n \in DOMAIN order : order'[n] = order[n]
        /\ order'[Len(order) + 1] = x
        /\ DOMAIN order = 1..Len(order) /\ Len(order) \in Nat
    BY <2>1, <2>2
  <2>4. \A n \in DOMAIN order : order[n] # x
    BY <1>1, <2>2 DEF Elements
  <2>5. ASSUME NEW m \in DOMAIN order', NEW n \in DOMAIN order', order'[m] = order'[n]
        PROVE  m = n
    <3>1. CASE m \in DOMAIN order /\ n \in DOMAIN order
      BY <2>2, <2>3, <2>5, <3>1
    <3>2. CASE m \notin DOMAIN order /\ n \notin DOMAIN order
      BY <2>3, <3>2
    <3>3. CASE m \in DOMAIN order /\ n \notin DOMAIN order
      BY <2>3, <2>4, <2>5, <3>3
    <3>4. CASE m \notin DOMAIN order /\ n \in DOMAIN order
      BY <2>3, <2>4, <2>5, <3>4
    <3> QED BY <3>1, <3>2, <3>3, <3>4
  <2>6. Elements(order') = Elements(order) \cup {x}
    <3>1. DOMAIN order' = DOMAIN order \cup {Len(order) + 1}
      BY <2>3
    <3> QED BY <2>3, <3>1 DEF Elements
  <2>7. {y \in Tasks : ledger'[y] # "none"} = {y \in Tasks : ledger[y] # "none"} \cup {x}
    BY <2>1, <2>2
  <2>8. ledger' \in [Tasks -> Owing \cup {"none", "compensated", "committed"}]
    BY <2>1, <2>2 DEF Owing
  <2> QED BY <2>2, <2>3, <2>5, <2>6, <2>7, <2>8
<1>2. CASE ledger[x] # "none"
  BY <1>2 DEF Ledgered, saga, TypeOK
<1> QED BY <1>1, <1>2

\* What the workers do keeps every value in its type.
LEMMA WorkerType == TypeOK /\ Worker => TypeOK'
<1> SUFFICES ASSUME TypeOK, NEW j \in Jobs,
                    Lease(j) \/ LeaseEnds(j) \/ Reclaim(j) \/ Complete(j) \/ Fail(j)
             PROVE  TypeOK'
  BY DEF Worker
<1>1. /\ job \in [Jobs -> JobRow] /\ alarm \in [Tasks -> {"off", "ttl", "lease"}]
      /\ wanted \in BOOLEAN /\ job[j] \in JobRow /\ j[2] \in Tasks
  BY JobIndex DEF TypeOK
<1>2. job' \in [Jobs -> JobRow] /\ wanted' \in BOOLEAN
  <2>1. CASE Lease(j)
    BY <1>1, <2>1, RowType DEF Lease
  <2>2. CASE LeaseEnds(j) \/ Complete(j)
    BY <1>1, <2>2, RowType DEF LeaseEnds, Complete, Deliver
  <2>3. CASE Reclaim(j) \/ Fail(j)
    BY <1>1, <2>3, RowType DEF Reclaim, Fail, Deliver
  <2> QED BY <2>1, <2>2, <2>3
<1>3. alarm' \in [Tasks -> {"off", "ttl", "lease"}]
  BY <1>1 DEF Lease, LeaseEnds, Reclaim, Complete, Fail
<1>4. Keep
  BY DEF Lease, LeaseEnds, Reclaim, Complete, Fail
<1> QED BY <1>2, <1>3, <1>4 DEF Keep, TypeOK, instance, tokens, saga, operator

\* ... and what the alarms do.
LEMMA AlarmStepType == ASSUME TypeOK, NEW x \in Tasks, AlarmFires(x) PROVE TypeOK'
<1>1. /\ job \in [Jobs -> JobRow] /\ job[F(x)] \in JobRow /\ F(x) \in Jobs
      /\ alarm \in [Tasks -> {"off", "ttl", "lease"}]
      /\ wanted \in BOOLEAN /\ status \in Statuses /\ hazard \in Tasks \cup {None}
  BY JobIndex DEF TypeOK
<1>2. /\ job' \in [Jobs -> JobRow] /\ wanted' \in BOOLEAN
      /\ status' \in Statuses /\ hazard' \in Tasks \cup {None}
  <2>1. CASE TerminateLease(x)
    BY <1>1, <2>1, RowType DEF TerminateLease, Deliver, instance
  <2>2. CASE TerminateUnleased(x)
    BY <1>1, <2>2, RowType DEF TerminateUnleased, Statuses, Terminal
  <2>3. CASE NothingToTerminate(x)
    BY <1>1, <2>3 DEF NothingToTerminate, instance
  <2> QED BY <2>1, <2>2, <2>3 DEF AlarmFires
<1>3. alarm' \in [Tasks -> {"off", "ttl", "lease"}]
  BY <1>1 DEF AlarmFires
<1> QED BY <1>2, <1>3 DEF AlarmFires, TypeOK, tokens, saga, operator

\* The alarms' type after armCohortLeaseExpiryTerminators.
LEMMA CohortType ==
  ASSUME TypeOK, ArmCohort
  PROVE  alarm' \in [Tasks -> {"off", "ttl", "lease"}]
  BY DEF TypeOK, ArmCohort

\* ... and what a drive's walk does.
LEMMA WalkType == TypeOK /\ (DriveStart \/ Walk) => TypeOK'
<1> SUFFICES ASSUME TypeOK, DriveStart \/ Walk PROVE TypeOK'
  OBVIOUS
<1> USE DEF Others, instance, tokens, saga, operator
<1>1. CASE DriveStart
  <2>1. Live \subseteq Tokens /\ Scanning \in Drives
    BY DEF TypeOK, Drives, Live, Scanning
  <2>2. [NoDrive EXCEPT !.phase = "walk", !.sync = ~IsRegion] \in Drives
    BY EndedType DEF Drives, IsRegion
  <2>3. drive' \in Drives
    BY <1>1, <2>1, <2>2, EndedType DEF DriveStart
  <2> QED BY <1>1, <2>3 DEF DriveStart, TypeOK
<1>2. ASSUME NEW x \in Tasks, CreateJob(x) \/ Apply(x) \/ RouteError(x) \/ FailForward(x)
      PROVE  TypeOK'
  <2>1. /\ job \in [Jobs -> JobRow] /\ job[F(x)] \in JobRow /\ F(x) \in Jobs
        /\ alarm \in [Tasks -> {"off", "ttl", "lease"}]
    BY JobIndex DEF TypeOK
  <2>2. CASE CreateJob(x)
    <3>1. job' \in [Jobs -> JobRow] /\ alarm' \in [Tasks -> {"off", "ttl", "lease"}]
      BY <2>1, <2>2, RowType DEF CreateJob
    <3>2. drive' \in Drives
      BY <2>2 DEF CreateJob, TypeOK, Drives
    <3> QED BY <2>2, <3>1, <3>2 DEF CreateJob, TypeOK
  <2>3. ASSUME Applied(x)
        PROVE  job' \in [Jobs -> JobRow] /\ alarm' \in [Tasks -> {"off", "ttl", "lease"}]
    BY <2>1, <2>3, RowType DEF Applied
  <2>4. CASE Apply(x)
    BY <2>3, <2>4, LedgeredType DEF Apply, TypeOK, Statuses
  <2>5. CASE RouteError(x)
    BY <2>3, <2>5 DEF RouteError, TypeOK, Statuses
  <2>6. CASE FailForward(x)
    BY <2>6, EndedType DEF FailForward, Incident, TypeOK, Statuses, Terminal
  <2> QED BY <1>2, <2>2, <2>4, <2>5, <2>6
<1>3. ASSUME NEW t \in Tokens,
             Park(t) \/ Fork(t) \/ Descend(t) \/ Arrive(t) \/ Join(t) \/ StopAtJoin(t)
      PROVE  TypeOK'
  <2>1. CASE Park(t)
    BY <2>1, LeftType DEF Park, TypeOK, Statuses
  <2>2. CASE Fork(t)
    <3>1. token' \in [Tokens -> {"absent", "active", "arrivedAtJoin", "merged", "consumed", "discarded"}]
      BY <2>2 DEF Fork, TypeOK
    <3>2. \A c \in Tokens : FirstTask(Before[c]) \in Tasks \cup {None}
      BY Paths, FirstTaskType
    <3>3. pos' \in [Tokens -> Tasks \cup {None}]
      BY <2>2, <3>2 DEF Fork, TypeOK
    <3> QED BY <2>2, <3>1, <3>3 DEF Fork, TypeOK
  <2>3. CASE Descend(t)
    <3>1. Branches[t] \in Seq(Tokens) /\ Branches[t] # <<>>
      BY <2>3, Paths DEF Descend, AtSplit
    <3>2. Branches[t][1] \in Tokens
      BY <3>1, ElementsType
    <3>3. drive' \in Drives
      BY <2>3, <3>2 DEF Descend, TypeOK, Drives
    <3> QED BY <2>3, <3>3 DEF Descend, TypeOK
  <2>4. CASE Arrive(t)
    BY <2>4, LeftType DEF Arrive, TypeOK
  <2>5. CASE Join(t)
    <3>1. token' \in [Tokens -> {"absent", "active", "arrivedAtJoin", "merged", "consumed", "discarded"}]
      BY <2>5 DEF Join, TypeOK
    <3>2. FirstTask(After[t]) \in Tasks \cup {None}
      BY Paths, FirstTaskType
    <3>3. pos' \in [Tokens -> Tasks \cup {None}] /\ joined' \subseteq Tokens
      BY <2>5, <3>2 DEF Join, TypeOK
    <3>4. drive' \in Drives
      BY <2>5 DEF Join, TypeOK, Drives
    <3> QED BY <2>5, <3>1, <3>3, <3>4 DEF Join, TypeOK, Statuses
  <2>6. CASE StopAtJoin(t)
    BY <2>6, LeftType DEF StopAtJoin, TypeOK
  <2> QED BY <1>3, <2>1, <2>2, <2>3, <2>4, <2>5, <2>6
<1>4. CASE BeginCompensating
  <2>1. Live \subseteq Tokens /\ Scanning \in Drives
    BY DEF TypeOK, Drives, Live, Scanning
  <2>2. alarm' \in [Tasks -> {"off", "ttl", "lease"}]
    BY <1>4, CohortType DEF BeginCompensating, TypeOK
  <2> QED BY <1>4, <2>1, <2>2 DEF BeginCompensating, TypeOK, Statuses
<1>5. CASE Commit
  <2>1. ledger' \in [Tasks -> Owing \cup {"none", "compensated", "committed"}]
    BY <1>5 DEF Commit, TypeOK
  <2>2. {x \in Tasks : ledger'[x] # "none"} = {x \in Tasks : ledger[x] # "none"}
    BY <1>5 DEF Commit
  <2> QED BY <1>5, <2>1, <2>2 DEF Commit, TypeOK, Statuses
<1>6. CASE End
  BY <1>6, EndedType DEF End, TypeOK, Statuses, Terminal
<1>7. CASE ConsumeAtEnd
  <2>1. drive' \in Drives
    BY <1>7 DEF ConsumeAtEnd, TypeOK, Drives
  <2> QED BY <1>7, <2>1 DEF ConsumeAtEnd, TypeOK
<1>8. CASE Finish
  BY <1>8, EndedType DEF Finish, TypeOK, Statuses, Terminal
<1>9. CASE Sync
  <2>1. token' \in [Tokens -> {"absent", "active", "arrivedAtJoin", "merged", "consumed", "discarded"}]
    BY <1>9 DEF Sync, TypeOK
  <2>2. pos' \in [Tokens -> Tasks \cup {None}]
    BY <1>9 DEF Sync, TypeOK
  <2> QED BY <1>9, <2>1, <2>2, EndedType DEF Sync, TypeOK
<1> QED BY <1>1, <1>2, <1>3, <1>4, <1>5, <1>6, <1>7, <1>8, <1>9 DEF Walk

\* ... and its reverse pass.
LEMMA ReverseType == TypeOK /\ (Reverse \/ DriveDies) => TypeOK'
<1> SUFFICES ASSUME TypeOK, Reverse \/ DriveDies PROVE TypeOK'
  OBVIOUS
<1> USE DEF Others, instance, tokens, saga, operator
<1>1. ASSUME NEW t \in Tokens, Scan(t) PROVE TypeOK'
  <2>1. pos[t] \in Tasks \cup {None} /\ drive' \in Drives
    BY <1>1 DEF Scan, TypeOK, Drives
  <2>2. CASE pos[t] # None /\ Ledgered(pos[t]) /\ token' = [token EXCEPT ![t] = "consumed"]
    BY <1>1, <2>1, <2>2, LedgeredType DEF Scan, TypeOK
  <2>3. CASE UNCHANGED saga
    BY <1>1, <2>1, <2>3 DEF Scan, TypeOK
  <2> QED BY <1>1, <2>2, <2>3 DEF Scan
<1>2. ASSUME NEW x \in Tasks, CreateCompensation(x) \/ MarkCompensated(x) \/ MarkFailed(x)
      PROVE  TypeOK'
  <2>1. ledger[x] # "none" /\ ledger'[x] # "none"
        /\ \E mark \in {"compensating", "compensated", "failed"} : ledger' = [ledger EXCEPT ![x] = mark]
    BY <1>2 DEF CreateCompensation, MarkCompensated, MarkFailed, Turn, Eligible, Owed, Owing, TypeOK
  <2>2. /\ ledger' \in [Tasks -> Owing \cup {"none", "compensated", "committed"}]
        /\ {y \in Tasks : ledger'[y] # "none"} = {y \in Tasks : ledger[y] # "none"}
    BY <2>1 DEF TypeOK, Owing
  <2>3. CASE CreateCompensation(x)
    <3>1. job' \in [Jobs -> JobRow]
      BY <2>3, RowType DEF CreateCompensation, TypeOK
    <3> QED BY <2>2, <2>3, <3>1 DEF CreateCompensation, TypeOK
  <2>4. CASE MarkCompensated(x)
    <3>1. Scanning \in Drives
      BY DEF TypeOK, Drives, Live, Scanning
    <3> QED BY <2>2, <2>4, <3>1 DEF MarkCompensated, TypeOK
  <2>5. CASE MarkFailed(x)
    BY <2>2, <2>5, EndedType DEF MarkFailed, TypeOK, Statuses, Terminal
  <2> QED BY <1>2, <2>3, <2>4, <2>5
<1>3. CASE Wait \/ Settle
  BY <1>3, EndedType DEF Wait, Settle, TypeOK, Statuses, Terminal
<1>4. CASE DriveDies
  BY <1>4, EndedType, BoundsAreNat DEF DriveDies, TypeOK
<1> QED BY <1>1, <1>2, <1>3, <1>4 DEF Reverse

\* The job a retry call is about.
LEMMA RetryTarget ==
  ASSUME RetryCheck
  PROVE  \/ /\ status = "incident"
            /\ retry' = [at |-> "job", kind |-> "forward", task |-> hazard]
         \/ /\ status = "compensationFailed"
            /\ \E x \in Tasks :
                 /\ ledger[x] = "failed"
                 /\ retry' = [at |-> "job", kind |-> "compensation", task |-> x]
  BY DEF RetryCheck

\* ... and the operator's calls.
LEMMA OperatorType ==
  TypeOK /\ RetryInv /\ (CancelCheck \/ CancelNext \/ RetryCheck \/ RetryNext \/ OperatorDies) => TypeOK'
<1> SUFFICES ASSUME TypeOK, RetryInv, CancelCheck \/ CancelNext \/ RetryCheck \/ RetryNext \/ OperatorDies
             PROVE  TypeOK'
  OBVIOUS
<1> USE DEF instance, tokens, saga, operator
<1>1. CASE CancelCheck
  BY <1>1, BoundsAreNat DEF CancelCheck, TypeOK
<1>2. CASE Release
  <2>1. Abandoned \in [Jobs -> JobRow]
    BY RowType DEF Abandoned, TypeOK
  <2> QED BY <1>2, <2>1 DEF Release, TypeOK
<1>3. CASE Decide \/ Close \/ Open
  BY <1>3 DEF Decide, Close, Open, TypeOK, Statuses, Terminal
<1>4. CASE Resume
  BY <1>4, CohortType DEF Resume, Deliver, TypeOK
<1>5. CASE RetryCheck
  <2>1. calls' \in 0..MaxCalls
    BY <1>5, BoundsAreNat DEF RetryCheck, TypeOK
  <2>2. retry' \in Retries
    BY <1>5, RetryTarget DEF TypeOK, Retries, Kinds
  <2> QED BY <1>5, <2>1, <2>2 DEF RetryCheck, TypeOK
<1>6. CASE RetryReset
  <2>1. retry' \in Retries
    BY <1>6 DEF RetryReset, TypeOK, Retries, Kinds
  <2> QED BY <1>6, <2>1, RowType DEF RetryReset, TypeOK
<1>7. CASE RetryReopen
  <2>1. retry' \in Retries
    BY <1>7 DEF RetryReopen, TypeOK, Retries, Kinds
  <2>2. retry.task \in Tasks => ledger[retry.task] # "none"
    BY <1>7 DEF RetryReopen, RetryInv
  <2>3. ledger' \in [Tasks -> Owing \cup {"none", "compensated", "committed"}]
    BY <1>7 DEF RetryReopen, TypeOK, Owing
  <2>4. {x \in Tasks : ledger'[x] # "none"} = {x \in Tasks : ledger[x] # "none"}
    BY <1>7, <2>2 DEF RetryReopen, TypeOK
  <2> QED BY <1>7, <2>1, <2>3, <2>4 DEF RetryReopen, TypeOK
<1>8. CASE RetryMove
  <2>1. status' \in Statuses
    BY <1>8 DEF RetryMove, TypeOK, Statuses, Terminal
  <2>2. retry' \in Retries
    BY <1>8 DEF RetryMove, TypeOK, Retries, NoRetry, Kinds
  <2> QED BY <1>8, <2>1, <2>2 DEF RetryMove, TypeOK
<1>9. CASE RetryResume
  BY <1>9 DEF RetryResume, Deliver, NoRetry, Kinds, Retries, TypeOK
<1>10. CASE OperatorDies
  BY <1>10, BoundsAreNat DEF OperatorDies, NoRetry, Kinds, Retries, TypeOK
<1> QED BY <1>1, <1>2, <1>3, <1>4, <1>5, <1>6, <1>7, <1>8, <1>9, <1>10
       DEF CancelNext, RetryNext

-----------------------------------------------------------------------------
(* What the steps do to the jobs. *)

\* A worker or an alarm moves a job only while it is created or locked.
Worked(old, new) ==
  \/ new = old
  \/ /\ old.st \in {"created", "locked"} /\ new.st \in {"locked", "completed", "failed"}
     /\ new.ttl = old.ttl /\ new.applied = old.applied

\* One job's row is replaced by one a worker or an alarm may write.
LEMMA OneJob ==
  ASSUME job \in [Jobs -> JobRow], NEW j \in Jobs, NEW row,
         job' = [job EXCEPT ![j] = row], Worked(job[j], row),
         row.code => job[j].code \/ \E x \in Guarded : j = F(x)
  PROVE  /\ \A k \in Jobs : Worked(job[k], job'[k])
         /\ \A x \in Tasks : job'[F(x)].code => job[F(x)].code \/ x \in Guarded
<1>1. \A k \in Jobs : job'[k] = IF k = j THEN row ELSE job[k]
  OBVIOUS
<1>2. \A k \in Jobs : Worked(job[k], job'[k])
  BY <1>1 DEF Worked
<1>3. ASSUME NEW x \in Tasks, job'[F(x)].code PROVE job[F(x)].code \/ x \in Guarded
  <2>1. F(x) \in Jobs /\ \A y : F(x) = F(y) => x = y
    BY JobIndex DEF F
  <2> QED BY <1>1, <1>3, <2>1
<1> QED BY <1>2, <1>3

\* The rows a worker or an alarm may write in place of a created or locked one.
LEMMA RowMoves ==
  ASSUME NEW row \in JobRow, row.st \in {"created", "locked"}
  PROVE  /\ LET r == [row EXCEPT !.st = "locked", !.held = TRUE, !.over = FALSE, !.tries = @ + 1]
            IN  Worked(row, r) /\ r.code = row.code
         /\ LET r == [row EXCEPT !.st = "completed", !.held = FALSE, !.over = FALSE]
            IN  Worked(row, r) /\ r.code = row.code
         /\ row.st = "locked" => LET r == [row EXCEPT !.over = TRUE]
                                 IN  Worked(row, r) /\ r.code = row.code
         /\ row.st = "locked" => Worked(row, Parked(row)) /\ Parked(row).code = row.code
         /\ \A code \in BOOLEAN : Worked(row, Failed(row, code)) /\ Failed(row, code).code = code
  BY DEF JobRow, Worked, Parked, Failed

\* A lease that is given back, or a job that fails for good.
LEMMA ParkOrFail ==
  ASSUME job \in [Jobs -> JobRow], NEW j \in Jobs, job[j].st \in {"created", "locked"}
  PROVE  LET moves == /\ \A k \in Jobs : Worked(job[k], job'[k])
                      /\ \A x \in Tasks : job'[F(x)].code => job[F(x)].code \/ x \in Guarded
         IN  /\ job[j].st = "locked" /\ job' = [job EXCEPT ![j] = Parked(@)] => moves
             /\ \A code \in BOOLEAN :
                  /\ code => \E x \in Guarded : j = F(x)
                  /\ job' = [job EXCEPT ![j] = Failed(@, code)]
                  => moves
<1>1. job[j] \in JobRow
  OBVIOUS
<1>2. ASSUME job[j].st = "locked", job' = [job EXCEPT ![j] = Parked(@)]
      PROVE  /\ \A k \in Jobs : Worked(job[k], job'[k])
             /\ \A x \in Tasks : job'[F(x)].code => job[F(x)].code \/ x \in Guarded
  <2> DEFINE r == Parked(job[j])
  <2>1. Worked(job[j], r) /\ r.code = job[j].code
    BY <1>1, <1>2, RowMoves
  <2>2. job' = [job EXCEPT ![j] = r]
    BY <1>2
  <2> HIDE DEF r
  <2> QED BY <2>1, <2>2, OneJob
<1>3. ASSUME NEW code \in BOOLEAN, code => \E x \in Guarded : j = F(x),
             job' = [job EXCEPT ![j] = Failed(@, code)]
      PROVE  /\ \A k \in Jobs : Worked(job[k], job'[k])
             /\ \A x \in Tasks : job'[F(x)].code => job[F(x)].code \/ x \in Guarded
  <2> DEFINE r == Failed(job[j], code)
  <2>1. Worked(job[j], r) /\ r.code = code
    BY <1>1, RowMoves
  <2>2. job' = [job EXCEPT ![j] = r]
    BY <1>3
  <2> HIDE DEF r
  <2> QED BY <1>3, <2>1, <2>2, OneJob
<1> QED BY <1>2, <1>3

\* The steps of workers, alarms and a cancel's abandonActiveForwardJobs.
Environment == Worker \/ (\E x \in Tasks : AlarmFires(x)) \/ Release

\* They move jobs as above, and at most halt an instance that runs.
LEMMA EnvironmentMoves ==
  ASSUME TypeOK, Environment
  PROVE  /\ \A j \in Jobs : Worked(job[j], job'[j])
         /\ \A x \in Tasks : job'[F(x)].code => job[F(x)].code \/ x \in Guarded
         /\ UNCHANGED <<tokens, saga, drive, retry, calls, crashes>>
         /\ status' = status \/ (status \in {"running", "waiting"} /\ status' = "incident")
<1> DEFINE Moves == /\ \A k \in Jobs : Worked(job[k], job'[k])
                    /\ \A x \in Tasks : job'[F(x)].code => job[F(x)].code \/ x \in Guarded
<1>1. job \in [Jobs -> JobRow] /\ \A j \in Jobs : job[j] \in JobRow
  BY DEF TypeOK
<1>2. job' = job => Moves
  BY DEF Worked
<1>3. ASSUME NEW j \in Jobs,
             Lease(j) \/ LeaseEnds(j) \/ Reclaim(j) \/ Complete(j) \/ Fail(j)
      PROVE  Moves /\ Keep
  <2>1. CASE Lease(j)
    <3> DEFINE r == [job[j] EXCEPT !.st = "locked", !.held = TRUE, !.over = FALSE, !.tries = @ + 1]
    <3>1. job[j].st \in {"created", "locked"}
      BY <2>1 DEF Lease
    <3>2. Worked(job[j], r) /\ r.code = job[j].code
      BY <1>1, <3>1, RowMoves
    <3>3. job' = [job EXCEPT ![j] = r] /\ Keep
      BY <1>1, <2>1 DEF Lease
    <3> HIDE DEF r
    <3> QED BY <1>1, <3>2, <3>3, OneJob
  <2>2. CASE LeaseEnds(j)
    <3> DEFINE r == [job[j] EXCEPT !.over = TRUE]
    <3>1. job[j].st = "locked"
      BY <2>2 DEF LeaseEnds
    <3>2. Worked(job[j], r) /\ r.code = job[j].code
      BY <1>1, <3>1, RowMoves
    <3>3. job' = [job EXCEPT ![j] = r] /\ Keep
      BY <1>1, <2>2 DEF LeaseEnds
    <3> HIDE DEF r
    <3> QED BY <1>1, <3>2, <3>3, OneJob
  <2>3. CASE Reclaim(j)
    BY <1>1, <2>3, ParkOrFail DEF Reclaim
  <2>4. CASE Complete(j)
    <3> DEFINE r == [job[j] EXCEPT !.st = "completed", !.held = FALSE, !.over = FALSE]
    <3>1. job[j].st = "locked"
      BY <2>4 DEF Complete, Answerable
    <3>2. Worked(job[j], r) /\ r.code = job[j].code
      BY <1>1, <3>1, RowMoves
    <3>3. job' = [job EXCEPT ![j] = r] /\ Keep
      BY <1>1, <2>4 DEF Complete
    <3> HIDE DEF r
    <3> QED BY <1>1, <3>2, <3>3, OneJob
  <2>5. CASE Fail(j)
    BY <1>1, <2>5, ParkOrFail DEF Fail, Answerable
  <2> QED BY <1>3, <2>1, <2>2, <2>3, <2>4, <2>5
<1>4. ASSUME NEW x \in Tasks, AlarmFires(x)
      PROVE  Moves /\ (status' = status \/ (status \in {"running", "waiting"} /\ status' = "incident"))
  <2>1. F(x) \in Jobs
    BY JobIndex
  <2>2. ASSUME job' = [job EXCEPT ![F(x)] = Failed(@, FALSE)], job[F(x)].st \in {"created", "locked"}
        PROVE  Moves
    BY <1>1, <2>1, <2>2, ParkOrFail
  <2>3. CASE TerminateLease(x)
    BY <1>2, <2>2, <2>3 DEF TerminateLease, instance
  <2>4. CASE TerminateUnleased(x)
    BY <2>2, <2>4 DEF TerminateUnleased
  <2>5. CASE NothingToTerminate(x)
    BY <1>2, <2>5 DEF NothingToTerminate, instance
  <2> QED BY <1>4, <2>2, <2>3, <2>4, <2>5 DEF AlarmFires
<1>5. CASE Release
  <2>1. ASSUME job' = Abandoned PROVE Moves
    <3>1. ASSUME NEW k \in Jobs
          PROVE  Worked(job[k], job'[k]) /\ (job'[k].code => job[k].code)
      <4>1. CASE k[1] = "forward" /\ InFlight(k)
        <5>1. job'[k] = Failed(job[k], FALSE) /\ job[k].st \in {"created", "locked"}
          BY <2>1, <4>1 DEF Abandoned, InFlight
        <5>2. FALSE \in BOOLEAN
          OBVIOUS
        <5>3. Worked(job[k], Failed(job[k], FALSE)) /\ Failed(job[k], FALSE).code = FALSE
          BY <1>1, <5>1, <5>2, RowMoves
        <5> QED BY <5>1, <5>3
      <4>2. CASE ~(k[1] = "forward" /\ InFlight(k))
        BY <2>1, <4>2 DEF Abandoned, Worked
      <4> QED BY <4>1, <4>2
    <3> QED BY <3>1, JobIndex
  <2> QED BY <1>2, <1>5, <2>1 DEF Release, instance
<1> QED BY <1>3, <1>4, <1>5 DEF Environment, Worker, Keep, AlarmFires, Release, instance, operator

\* resetJobForRetry puts one job back, never one that was applied.
LEMMA ResetMoves ==
  ASSUME TypeOK, RetryReset
  PROVE  /\ \A j \in Jobs :
              \/ job'[j] = job[j]
              \/ /\ job[j].st # "none" /\ ~job[j].applied
                 /\ job'[j].st = "created" /\ ~job'[j].ttl /\ ~job'[j].applied /\ ~job'[j].code
         /\ retry' = [retry EXCEPT !.at = IF retry.kind = "forward" THEN "status" ELSE "ledger"]
         /\ UNCHANGED <<status, tokens, saga, drive>>
  BY DEF RetryReset, Resets, NoJob, TypeOK, instance

\* The steps that leave the jobs and the ledger alone.
Quiet ==
  \/ DriveStart \/ BeginCompensating \/ End \/ ConsumeAtEnd \/ Finish \/ Sync
  \/ Wait \/ Settle \/ DriveDies
  \/ \E x \in Tasks : FailForward(x)
  \/ \E t \in Tokens : Park(t) \/ Fork(t) \/ Descend(t) \/ Arrive(t) \/ Join(t) \/ StopAtJoin(t)
  \/ CancelCheck \/ Decide \/ Close \/ Open \/ Resume
  \/ RetryCheck \/ RetryMove \/ RetryResume \/ OperatorDies

\* They do leave them alone.
LEMMA QuietMoves == Quiet => UNCHANGED <<job, saga>>
<1> USE DEF Others, saga
<1>1. DriveStart \/ BeginCompensating \/ End \/ ConsumeAtEnd \/ Finish \/ Sync \/ Wait \/ Settle
        \/ DriveDies => UNCHANGED <<job, saga>>
  BY DEF DriveStart, BeginCompensating, End, ConsumeAtEnd, Finish, Sync, Wait, Settle, DriveDies
<1>2. (\E x \in Tasks : FailForward(x)) => UNCHANGED <<job, saga>>
  BY DEF FailForward
<1>3. (\E t \in Tokens : Park(t) \/ Fork(t) \/ Descend(t) \/ Arrive(t) \/ Join(t) \/ StopAtJoin(t))
        => UNCHANGED <<job, saga>>
  BY DEF Park, Fork, Descend, Arrive, Join, StopAtJoin
<1>4. CancelCheck \/ Decide \/ Close \/ Open \/ Resume \/ RetryCheck \/ RetryMove \/ RetryResume
        \/ OperatorDies => UNCHANGED <<job, saga>>
  BY DEF CancelCheck, Decide, Close, Open, Resume, RetryCheck, RetryMove, RetryResume, OperatorDies
<1> QED BY <1>1, <1>2, <1>3, <1>4 DEF Quiet

\* Every step is one of these.
LEMMA Steps ==
  ASSUME Next
  PROVE  \/ Environment \/ Quiet \/ RetryReset \/ RetryReopen \/ Commit
         \/ \E t \in Tokens : Scan(t)
         \/ \E x \in Tasks : CreateJob(x) \/ Apply(x) \/ RouteError(x)
         \/ \E x \in Tasks : CreateCompensation(x) \/ MarkCompensated(x) \/ MarkFailed(x)
  BY DEF Next, Walk, Reverse, CancelNext, RetryNext, Environment, Quiet

-----------------------------------------------------------------------------
(* The ledger and the jobs. *)

\* What the ledger becomes when a completed job is put on it.
LEMMA LedgeredMoves ==
  ASSUME TypeOK, NEW x \in Tasks, Ledgered(x)
  PROVE  /\ ledger'[x] # "none"
         /\ \A y \in Tasks : ledger'[y] = ledger[y] \/ (y = x /\ ledger[y] = "none" /\ ledger'[y] = "pending")
  BY DEF Ledgered, saga, TypeOK

\* Marking a job's effects applied changes nothing else of it.
LEMMA AppliedMoves ==
  ASSUME TypeOK, NEW x \in Tasks, Applied(x)
  PROVE  \A j \in Jobs :
           /\ job'[j].st = job[j].st /\ job'[j].ttl = job[j].ttl /\ job'[j].code = job[j].code
           /\ job'[j].applied = (job[j].applied \/ j = F(x))
<1>1. F(x) \in Jobs /\ job[F(x)] \in JobRow
  BY JobIndex DEF TypeOK
<1> QED BY <1>1 DEF Applied, TypeOK, JobRow

\* A compensation is begun or answered for a step that owes one.
LEMMA TurnMoves ==
  ASSUME TypeOK, NEW x \in Tasks, CreateCompensation(x) \/ MarkCompensated(x) \/ MarkFailed(x)
  PROVE  /\ drive.phase = "scan" /\ ledger[x] \in Owing
         /\ \E mark \in {"compensating", "compensated", "failed"} : ledger' = [ledger EXCEPT ![x] = mark]
         /\ job'[C(x)].st # "none"
         /\ \A j \in Jobs : j # C(x) => job'[j] = job[j]
         /\ UNCHANGED <<tokens, retry>>
<1>1. drive.phase = "scan" /\ ledger[x] \in Owing /\ UNCHANGED <<tokens, retry>>
  BY DEF CreateCompensation, MarkCompensated, MarkFailed, Turn, Scanned, Eligible, Owed, Others,
         operator, tokens
<1>2. CASE CreateCompensation(x)
  BY <1>1, <1>2, JobIndex DEF CreateCompensation, NoJob, TypeOK
<1>3. CASE MarkCompensated(x) \/ MarkFailed(x)
  BY <1>1, <1>3 DEF MarkCompensated, MarkFailed, Turn
<1> QED BY <1>2, <1>3

\* Every step keeps what the ledger says about the jobs.
LEMMA LedgerStep == ASSUME TypeOK, LedgerInv, RetryInv, Next PROVE LedgerInv'
<1> USE JobIndex
<1>1. \A x \in Tasks : job[F(x)] \in JobRow /\ job[C(x)] \in JobRow
  BY DEF TypeOK
<1>2. CASE Environment
  <2>1. /\ \A x \in Tasks : Worked(job[F(x)], job'[F(x)]) /\ Worked(job[C(x)], job'[C(x)])
        /\ ledger' = ledger
    BY <1>2, EnvironmentMoves DEF saga
  <2> QED BY <1>1, <2>1 DEF LedgerInv, Worked
<1>3. CASE Quiet
  BY <1>3, QuietMoves DEF LedgerInv, saga
<1>4. CASE RetryReset
  BY <1>1, <1>4, ResetMoves DEF LedgerInv, saga
<1>5. CASE RetryReopen
  BY <1>5 DEF RetryReopen, RetryInv, LedgerInv, TypeOK
<1>6. CASE Commit
  BY <1>6 DEF Commit, LedgerInv, TypeOK
<1>7. ASSUME NEW t \in Tokens, Scan(t) PROVE LedgerInv'
  <2>1. job' = job /\ (pos[t] \in Tasks \/ UNCHANGED saga)
    BY <1>7 DEF Scan, TypeOK
  <2>2. CASE UNCHANGED saga
    BY <2>1, <2>2 DEF LedgerInv, saga
  <2>3. CASE pos[t] \in Tasks /\ Ledgered(pos[t]) /\ job[F(pos[t])].st = "completed"
    BY <2>1, <2>3, LedgeredMoves DEF LedgerInv
  <2> QED BY <1>7, <2>1, <2>2, <2>3 DEF Scan
<1>8. ASSUME NEW x \in Tasks, CreateJob(x) PROVE LedgerInv'
  <2>1. ledger[x] = "none" /\ ledger' = ledger
    BY <1>8 DEF CreateJob, LedgerInv, saga
  <2>2. \A j \in Jobs : j # F(x) => job'[j] = job[j]
    BY <1>8 DEF CreateJob, TypeOK
  <2> QED BY <2>1, <2>2 DEF LedgerInv
<1>9. ASSUME NEW x \in Tasks, Apply(x) PROVE LedgerInv'
  <2>1. Applied(x) /\ Ledgered(x) /\ job[F(x)].st = "completed"
    BY <1>9 DEF Apply
  <2> QED BY <1>1, <2>1, AppliedMoves, LedgeredMoves DEF LedgerInv
<1>10. ASSUME NEW x \in Tasks, RouteError(x) PROVE LedgerInv'
  <2>1. Applied(x) /\ ledger' = ledger
    BY <1>10 DEF RouteError, saga
  <2> QED BY <1>1, <2>1, AppliedMoves DEF LedgerInv
<1>11. ASSUME NEW x \in Tasks, CreateCompensation(x) \/ MarkCompensated(x) \/ MarkFailed(x)
       PROVE  LedgerInv'
  <2>1. ledger[x] # "none"
    BY <1>11, TurnMoves DEF Owing
  <2> QED BY <1>11, <2>1, TurnMoves DEF LedgerInv, TypeOK
<1> QED BY <1>2, <1>3, <1>4, <1>5, <1>6, <1>7, <1>8, <1>9, <1>10, <1>11, Steps

-----------------------------------------------------------------------------
(* A retry of a failed compensation. *)

\* A drive finds nothing to do in an instance that waits for the operator.
LEMMA DriveStill ==
  ASSUME TypeOK, RetryInv, status = "compensationFailed",
         DriveStart \/ Walk \/ Reverse \/ DriveDies
  PROVE  drive'.phase = "idle" /\ UNCHANGED <<status, ledger, retry>>
<1> USE DEF Others, instance, saga, operator
<1>1. drive.phase \in {"idle", "sync"}
  BY DEF RetryInv
<1>2. CASE DriveStart \/ DriveDies
  BY <1>2, EndedType DEF DriveStart, DriveDies, Terminal
<1>3. CASE Walk
  <2>1. Sync
    BY <1>1, <1>3 DEF Walk, CreateJob, Apply, RouteError, FailForward, Park, Fork, Descend, Arrive,
                      Join, StopAtJoin, BeginCompensating, Commit, End, ConsumeAtEnd, Finish, Next1,
                      AtSplit, AtEnd
  <2> QED BY <2>1, EndedType DEF Sync
<1>4. CASE Reverse
  BY <1>1, <1>4 DEF Reverse, Scan, CreateCompensation, MarkCompensated, MarkFailed, Wait, Settle,
                    Turn, Scanned
<1> QED BY <1>2, <1>3, <1>4

\* A drive that fails a compensation ends.
LEMMA DriveFails ==
  ASSUME TypeOK, status # "compensationFailed", DriveStart \/ Walk \/ Reverse \/ DriveDies
  PROVE  /\ status' = "compensationFailed" => drive'.phase \in {"idle", "sync"}
         /\ retry' = retry
<1> USE DEF Others, instance, operator
<1>1. CASE DriveStart \/ DriveDies
  BY <1>1 DEF DriveStart, DriveDies
<1>2. ASSUME NEW x \in Tasks, CreateJob(x) \/ Apply(x) \/ RouteError(x) \/ FailForward(x)
      PROVE  status' # "compensationFailed" /\ retry' = retry
  BY <1>2 DEF CreateJob, Apply, RouteError, FailForward, Incident
<1>3. ASSUME NEW t \in Tokens,
             Park(t) \/ Fork(t) \/ Descend(t) \/ Arrive(t) \/ Join(t) \/ StopAtJoin(t)
      PROVE  status' # "compensationFailed" /\ retry' = retry
  BY <1>3 DEF Park, Fork, Descend, Arrive, Join, StopAtJoin
<1>4. CASE BeginCompensating \/ Commit \/ End \/ ConsumeAtEnd \/ Finish \/ Sync
  BY <1>4 DEF BeginCompensating, Commit, End, ConsumeAtEnd, Finish, Sync
<1>5. ASSUME NEW t \in Tokens, Scan(t) PROVE status' = status /\ retry' = retry
  BY <1>5 DEF Scan
<1>6. ASSUME NEW x \in Tasks, CreateCompensation(x) \/ MarkCompensated(x)
      PROVE  status' = status /\ retry' = retry
  BY <1>6 DEF CreateCompensation, MarkCompensated
<1>7. ASSUME NEW x \in Tasks, MarkFailed(x) PROVE drive' = Ended /\ retry' = retry
  BY <1>7 DEF MarkFailed
<1>8. CASE Wait \/ Settle
  BY <1>8 DEF Wait, Settle
<1> QED BY <1>1, <1>2, <1>3, <1>4, <1>5, <1>6, <1>7, <1>8, EndedType DEF Walk, Reverse

\* Every step keeps what a retry under way relies on.
LEMMA RetryStep == ASSUME TypeOK, RetryInv, Next PROVE RetryInv'
<1> USE DEF instance, saga, operator
<1>1. CASE Worker \/ (\E x \in Tasks : AlarmFires(x)) \/ Release
  BY <1>1, EnvironmentMoves DEF Environment, RetryInv
<1>2. CASE DriveStart \/ Walk \/ Reverse \/ DriveDies
  <2>1. CASE status = "compensationFailed"
    BY <1>2, <2>1, DriveStill DEF RetryInv
  <2>2. CASE status # "compensationFailed"
    BY <1>2, <2>2, DriveFails DEF RetryInv, TypeOK, Retries
  <2> QED BY <2>1, <2>2
<1>3. CASE CancelCheck \/ Decide \/ Resume
  BY <1>3 DEF CancelCheck, Decide, Resume, RetryInv
<1>4. CASE Close \/ Open
  BY <1>4 DEF Close, Open, Cancellable, RetryInv
<1>5. CASE RetryCheck
  <2>1. UNCHANGED <<status, drive, ledger>>
    BY <1>5 DEF RetryCheck
  <2>2. CASE retry' = [at |-> "job", kind |-> "forward", task |-> hazard]
    BY <2>1, <2>2 DEF RetryInv
  <2>3. ASSUME NEW x \in Tasks, status = "compensationFailed", ledger[x] = "failed",
               retry' = [at |-> "job", kind |-> "compensation", task |-> x]
        PROVE  RetryInv'
    BY <2>1, <2>3 DEF RetryInv
  <2> QED BY <1>5, <2>2, <2>3, RetryTarget
<1>6. CASE RetryReset
  BY <1>6, ResetMoves DEF RetryReset, RetryInv, TypeOK, Retries, Kinds
<1>7. CASE RetryReopen
  BY <1>7 DEF RetryReopen, RetryInv, TypeOK, Retries
<1>8. CASE RetryMove
  BY <1>8 DEF RetryMove, RetryInv, TypeOK, Retries, NoRetry
<1>9. CASE RetryResume \/ OperatorDies
  BY <1>9 DEF RetryResume, OperatorDies, RetryInv, NoRetry
<1> QED BY <1>1, <1>2, <1>3, <1>4, <1>5, <1>6, <1>7, <1>8, <1>9 DEF Next, CancelNext, RetryNext

-----------------------------------------------------------------------------
(* The theorems about the ledger. *)

\* Every step keeps the types.
LEMMA TypeStep == ASSUME TypeOK, RetryInv, Next PROVE TypeOK'
  BY WorkerType, AlarmStepType, WalkType, ReverseType, OperatorType DEF Next

\* What is proved about the ledger on its own.
SagaInv == TypeOK /\ LedgerInv /\ RetryInv

\* It holds when the transaction is entered ...
LEMMA SagaInvInit == Init => SagaInv
<1> SUFFICES ASSUME Init PROVE SagaInv
  OBVIOUS
<1>1. TypeOK
  <2>1. /\ job \in [Jobs -> JobRow] /\ alarm \in [Tasks -> {"off", "ttl", "lease"}]
        /\ token \in [Tokens -> {"absent", "active", "arrivedAtJoin", "merged", "consumed", "discarded"}]
        /\ pos \in [Tokens -> Tasks \cup {None}]
        /\ ledger \in [Tasks -> Owing \cup {"none", "compensated", "committed"}]
    BY RowType DEF Init
  <2>2. /\ order \in Seq(Tasks) /\ Elements(order) = {x \in Tasks : ledger[x] # "none"}
        /\ \A m, n \in DOMAIN order : order[m] = order[n] => m = n
    BY DEF Init, Elements
  <2>3. drive \in Drives /\ retry \in Retries
    BY EndedType DEF Init, NoDrive, Drives, NoRetry, Retries, Kinds, IsRegion
  <2>4. /\ status \in Statuses /\ hazard \in Tasks \cup {None} /\ joined \subseteq Tokens
        /\ wanted \in BOOLEAN /\ cancel = "idle"
    BY DEF Init, Statuses
  <2>5. calls \in 0..MaxCalls /\ crashes \in 0..MaxCrashes
    BY BoundsAreNat DEF Init
  <2> QED BY <2>1, <2>2, <2>3, <2>4, <2>5 DEF TypeOK
<1>2. LedgerInv
  BY JobIndex DEF Init, LedgerInv, NoJob
<1>3. RetryInv
  BY DEF Init, RetryInv, NoRetry
<1> QED BY <1>1, <1>2, <1>3 DEF SagaInv

\* ... and every step keeps it.
LEMMA SagaInvStep == SagaInv /\ [Next]_vars => SagaInv'
<1>1. SagaInv /\ Next => SagaInv'
  BY TypeStep, LedgerStep, RetryStep DEF SagaInv
<1>2. SagaInv /\ UNCHANGED vars => SagaInv'
  <2> SUFFICES ASSUME SagaInv, UNCHANGED vars PROVE SagaInv'
    OBVIOUS
  <2> USE DEF vars, instance, tokens, saga, operator
  <2>1. TypeOK'
    BY DEF SagaInv, TypeOK
  <2>2. LedgerInv' /\ RetryInv'
    BY DEF SagaInv, LedgerInv, RetryInv
  <2> QED BY <2>1, <2>2 DEF SagaInv
<1> QED BY <1>1, <1>2

\* The invariant holds in every reachable state.
THEOREM LedgerInvariance == Spec => []SagaInv
  BY SagaInvInit, SagaInvStep, PTL DEF Spec

\* Every variable keeps its type, and seq stays a strict order of the ledger's
\* rows, under any interleaving of drives, workers, alarms and operator calls.
THEOREM TypeCorrect == Spec => []TypeOK
<1>1. SagaInv => TypeOK
  BY DEF SagaInv
<1> QED BY <1>1, LedgerInvariance, PTL

\* Only work that was done is undone, whenever a straggler's completion, its
\* lease and the scan of its token meet (ledgerStragglers, createCompensation).
THEOREM CompensatesOnlyDoneAlways == Spec => []CompensatesOnlyDone
<1>1. SagaInv => CompensatesOnlyDone
  BY DEF SagaInv, LedgerInv, CompensatesOnlyDone
<1> QED BY <1>1, LedgerInvariance, PTL

\* A compensated step is not reopened: a retry goes by the failed step it chose, and
\* no drive moves the ledger meanwhile.
LEMMA CompensatedStays ==
  ASSUME SagaInv, Next, NEW x \in Tasks, ledger[x] = "compensated"
  PROVE  ledger'[x] = "compensated"
<1> USE DEF SagaInv, saga
<1>1. CASE Environment \/ Quiet \/ RetryReset
  BY <1>1, EnvironmentMoves, QuietMoves, ResetMoves
<1>2. CASE RetryReopen
  BY <1>2 DEF RetryReopen, RetryInv, TypeOK
<1>3. CASE Commit
  BY <1>3 DEF Commit
<1>4. ASSUME NEW t \in Tokens, Scan(t) PROVE ledger'[x] = "compensated"
  <2>1. UNCHANGED saga \/ (pos[t] \in Tasks /\ Ledgered(pos[t]))
    BY <1>4 DEF Scan, TypeOK
  <2> QED BY <2>1, LedgeredMoves
<1>5. ASSUME NEW y \in Tasks, CreateJob(y) \/ Apply(y) \/ RouteError(y)
      PROVE  ledger'[x] = "compensated"
  <2>1. UNCHANGED saga \/ Ledgered(y)
    BY <1>5 DEF CreateJob, Apply, RouteError
  <2> QED BY <2>1, LedgeredMoves
<1>6. ASSUME NEW y \in Tasks, CreateCompensation(y) \/ MarkCompensated(y) \/ MarkFailed(y)
      PROVE  ledger'[x] = "compensated"
  BY <1>6, TurnMoves DEF Owing, TypeOK
<1> QED BY <1>1, <1>2, <1>3, <1>4, <1>5, <1>6, Steps

\* A compensated step is never compensated again: retryInstanceCore reopens only
\* the failed step it chose, and no drive moves the ledger meanwhile.
THEOREM CompensatedIsFinalAlways == Spec => CompensatedIsFinal
<1>1. SagaInv /\ [Next]_vars =>
        [\A x \in Tasks : ledger[x] = "compensated" => ledger'[x] = "compensated"]_vars
  BY CompensatedStays DEF vars
<1> QED BY <1>1, LedgerInvariance, PTL DEF Spec, CompensatedIsFinal

-----------------------------------------------------------------------------
(* What an operator's retry finds. *)

\* A retry is between the reset of its step and its move of the status.
Reopening == retry.kind = "compensation" /\ retry.at \in {"ledger", "status"}
Restarting == retry.kind = "forward" /\ retry.at = "status"

\* An instance that waits for the operator has the failed work it waits for.
TargetInv ==
  /\ status = "compensationFailed" /\ ~Reopening =>
       \E x \in Tasks : ledger[x] = "failed" /\ job[C(x)].st = "failed"
  /\ status = "incident" /\ ~Restarting => hazard \in Tasks /\ job[F(hazard)].st = "failed"

\* The steps that halt an instance, and the work whose failure halts it.
LEMMA HaltMoves ==
  ASSUME TypeOK, Next, status' \in {"compensationFailed", "incident"}
  PROVE  \/ UNCHANGED instance
         \/ \E x \in Tasks : MarkFailed(x) /\ status' = "compensationFailed"
         \/ \E x \in Tasks : /\ status' = "incident" /\ hazard' = x /\ job'[F(x)].st = "failed"
                             /\ FailForward(x) \/ TerminateUnleased(x)
<1> DEFINE Halt(x) == /\ status' = "incident" /\ hazard' = x /\ job'[F(x)].st = "failed"
                      /\ FailForward(x) \/ TerminateUnleased(x)
<1> USE DEF Others, instance
<1>1. CASE Worker
  BY <1>1 DEF Worker, Lease, LeaseEnds, Reclaim, Complete, Fail, Keep
<1>2. ASSUME NEW x \in Tasks, AlarmFires(x) PROVE UNCHANGED instance \/ Halt(x)
  <2>1. CASE TerminateUnleased(x)
    <3>1. job'[F(x)] = Failed(job[F(x)], FALSE) /\ job[F(x)] \in JobRow
      BY <2>1, JobIndex DEF TerminateUnleased, TypeOK
    <3>2. job'[F(x)].st = "failed"
      BY <3>1 DEF Failed, JobRow
    <3>3. hazard' = x /\ status' = "incident"
      BY <2>1 DEF TerminateUnleased, Terminal
    <3> QED BY <2>1, <3>2, <3>3
  <2>2. CASE TerminateLease(x) \/ NothingToTerminate(x)
    BY <2>2 DEF TerminateLease, NothingToTerminate
  <2> QED BY <1>2, <2>1, <2>2 DEF AlarmFires
<1>3. CASE Release \/ CancelCheck \/ Decide \/ Close \/ Open \/ Resume
  BY <1>3 DEF Release, CancelCheck, Decide, Close, Open, Resume
<1>4. CASE RetryCheck \/ RetryReset \/ RetryReopen \/ RetryMove \/ RetryResume \/ OperatorDies
  BY <1>4 DEF RetryCheck, RetryReset, RetryReopen, RetryMove, RetryResume, OperatorDies
<1>5. ASSUME NEW x \in Tasks, FailForward(x) PROVE UNCHANGED instance \/ Halt(x)
  BY <1>5 DEF FailForward, Incident
<1>6. CASE \E x \in Tasks : CreateJob(x) \/ Apply(x) \/ RouteError(x)
  BY <1>6 DEF CreateJob, Apply, RouteError
<1>7. CASE \E t \in Tokens : Park(t) \/ Fork(t) \/ Descend(t) \/ Arrive(t) \/ Join(t) \/ StopAtJoin(t)
  BY <1>7 DEF Park, Fork, Descend, Arrive, Join, StopAtJoin
<1>8. CASE DriveStart \/ BeginCompensating \/ Commit \/ End \/ ConsumeAtEnd \/ Finish \/ Sync
  BY <1>8 DEF DriveStart, BeginCompensating, Commit, End, ConsumeAtEnd, Finish, Sync
<1>9. CASE Wait \/ Settle \/ DriveDies \/ \E t \in Tokens : Scan(t)
  BY <1>9 DEF Wait, Settle, DriveDies, Scan
<1>10. ASSUME NEW x \in Tasks, CreateCompensation(x) \/ MarkCompensated(x)
       PROVE  UNCHANGED instance
  BY <1>10 DEF CreateCompensation, MarkCompensated
<1>11. ASSUME NEW x \in Tasks, MarkFailed(x) PROVE status' = "compensationFailed"
  BY <1>11 DEF MarkFailed
<1>12. CASE \E x \in Tasks : AlarmFires(x) \/ FailForward(x)
  BY <1>2, <1>5, <1>12
<1>13. CASE Reverse
  BY <1>9, <1>10, <1>11, <1>13 DEF Reverse
<1> QED BY <1>1, <1>3, <1>4, <1>6, <1>7, <1>8, <1>9, <1>12, <1>13
       DEF Next, Walk, CancelNext, RetryNext

\* A failed job stays failed until an operator's retry resets it.
LEMMA FailedStays ==
  ASSUME TypeOK, Next, ~RetryReset, NEW j \in Jobs, job[j].st = "failed"
  PROVE  job'[j].st = "failed"
<1>1. CASE Environment
  BY <1>1, EnvironmentMoves DEF Worked
<1>2. CASE Quiet \/ RetryReopen \/ Commit \/ \E t \in Tokens : Scan(t)
  BY <1>2, QuietMoves DEF RetryReopen, Commit, Scan
<1>3. ASSUME NEW x \in Tasks, CreateJob(x) \/ CreateCompensation(x) PROVE job'[j].st = "failed"
  BY <1>3 DEF CreateJob, CreateCompensation, TypeOK
<1>4. ASSUME NEW x \in Tasks, Apply(x) \/ RouteError(x) PROVE job'[j].st = "failed"
  BY <1>4, AppliedMoves DEF Apply, RouteError
<1>5. ASSUME NEW x \in Tasks, MarkCompensated(x) \/ MarkFailed(x) PROVE job' = job
  BY <1>5 DEF MarkCompensated, MarkFailed
<1> QED BY <1>1, <1>2, <1>3, <1>4, <1>5, Steps

\* While the instance waits for the operator only a retry reopens a failed row.
LEMMA FailedRowStays ==
  ASSUME TypeOK, RetryInv, Next, ~RetryReopen, status = "compensationFailed",
         NEW x \in Tasks, ledger[x] = "failed"
  PROVE  ledger'[x] = "failed"
<1>1. CASE Environment \/ RetryReset
  BY <1>1, EnvironmentMoves, ResetMoves DEF saga
<1>2. CASE DriveStart \/ Walk \/ Reverse \/ DriveDies
  BY <1>2, DriveStill
<1>3. CASE CancelCheck \/ Decide \/ Close \/ Open \/ Resume
              \/ RetryCheck \/ RetryMove \/ RetryResume \/ OperatorDies
  BY <1>3, QuietMoves DEF Quiet, saga
<1> QED BY <1>1, <1>2, <1>3 DEF Next, CancelNext, RetryNext, Environment

\* A retry under way moves the status in the end, unless its call dies.
LEMMA RetryEnds ==
  ASSUME TypeOK, RetryInv, Next, ~(OperatorDies /\ retry' # retry)
  PROVE  /\ Reopening /\ status' = "compensationFailed" => Reopening'
         /\ Restarting /\ status' = "incident" => Restarting'
<1> USE DEF Reopening, Restarting, operator
<1>1. CASE Environment
  BY <1>1, EnvironmentMoves
<1>2. CASE DriveStart \/ Walk \/ Reverse \/ DriveDies
  BY <1>2, DriveStill, DriveFails
<1>3. CASE CancelCheck \/ Decide \/ Close \/ Open \/ Resume \/ RetryCheck \/ OperatorDies
  BY <1>3 DEF CancelCheck, Decide, Close, Open, Resume, RetryCheck, NoRetry, OperatorDies
<1>4. CASE RetryReset \/ RetryReopen
  BY <1>4, ResetMoves DEF RetryReset, RetryReopen, TypeOK, Retries
<1>5. CASE RetryMove
  BY <1>5 DEF RetryMove, RetryInv, NoRetry
<1>6. CASE RetryResume
  BY <1>6 DEF RetryResume
<1> QED BY <1>1, <1>2, <1>3, <1>4, <1>5, <1>6 DEF Next, CancelNext, RetryNext, Environment

\* Every step keeps what an operator's retry will find, but a retry that dies.
LEMMA TargetStep ==
  ASSUME SagaInv, TargetInv, Next, ~(OperatorDies /\ retry' # retry)
  PROVE  TargetInv'
<1> USE JobIndex
<1>1. TypeOK /\ RetryInv
  BY DEF SagaInv
<1>2. RetryReset => \/ retry.kind = "forward" /\ Restarting'
                    \/ retry.kind = "compensation" /\ Reopening'
  BY <1>1, ResetMoves DEF RetryReset, Reopening, Restarting, TypeOK, Retries, Kinds
<1>3. RetryReopen => Reopening'
  BY <1>1 DEF RetryReopen, RetryInv, Reopening, TypeOK, Retries
<1>4. ASSUME status' = "compensationFailed", ~Reopening'
      PROVE  \E x \in Tasks : ledger'[x] = "failed" /\ job'[C(x)].st = "failed"
  <2>1. ~Reopening /\ ~RetryReopen
    BY <1>1, <1>3, <1>4, RetryEnds
  <2>2. CASE UNCHANGED instance
    <3>1. PICK x \in Tasks : ledger[x] = "failed" /\ job[C(x)].st = "failed"
      BY <1>4, <2>1, <2>2 DEF TargetInv, instance
    <3>2. ledger'[x] = "failed"
      BY <1>1, <1>4, <2>1, <2>2, <3>1, FailedRowStays DEF instance
    <3>3. job'[C(x)].st = "failed"
      <4>1. CASE RetryReset
        <5>1. retry.kind = "forward"
          BY <1>2, <1>4, <4>1
        <5>2. job'[C(x)] = job[C(x)]
          BY <1>1, <4>1, <5>1 DEF RetryReset, TypeOK, C
        <5> QED BY <3>1, <5>2
      <4>2. CASE ~RetryReset
        BY <1>1, <3>1, <4>2, FailedStays
      <4> QED BY <4>1, <4>2
    <3> QED BY <3>2, <3>3
  <2>3. ASSUME NEW x \in Tasks, MarkFailed(x)
        PROVE  ledger'[x] = "failed" /\ job'[C(x)].st = "failed"
    BY <1>1, <2>3 DEF MarkFailed, TypeOK
  <2> QED BY <1>1, <1>4, <2>2, <2>3, HaltMoves
<1>5. ASSUME status' = "incident", ~Restarting'
      PROVE  hazard' \in Tasks /\ job'[F(hazard')].st = "failed"
  <2>1. CASE UNCHANGED instance
    <3>1. status = "incident" /\ hazard' = hazard /\ ~Restarting
      BY <1>1, <1>5, <2>1, RetryEnds DEF instance
    <3>2. hazard \in Tasks /\ job[F(hazard)].st = "failed"
      BY <3>1 DEF TargetInv
    <3>3. ~RetryReset
      BY <1>1, <1>2, <1>5, <3>1, ResetMoves DEF RetryInv, RetryReset
    <3> QED BY <1>1, <3>1, <3>2, <3>3, FailedStays
  <2> QED BY <1>1, <1>5, <2>1, HaltMoves
<1> QED BY <1>4, <1>5 DEF TargetInv

\* As long as no retry call dies half way, an instance that waits for the operator
\* has the failed job the next retry resets, wherever the drives and cancels die
\* and whatever status a walk in progress overwrites (retryInstanceCore).
THEOREM RetryHasTargetAlways ==
  Spec /\ [][~(OperatorDies /\ retry' # retry)]_vars => []RetryHasTarget
<1>1. Init => TargetInv
  BY DEF Init, TargetInv
<1>2. SagaInv /\ TargetInv /\ [Next]_vars /\ [~(OperatorDies /\ retry' # retry)]_vars => TargetInv'
  <2>1. TargetInv /\ UNCHANGED vars => TargetInv'
    BY DEF TargetInv, Reopening, Restarting, vars, instance, saga, operator
  <2> QED BY <2>1, TargetStep
<1>3. TargetInv => RetryHasTarget
  BY DEF TargetInv, RetryHasTarget, Reopening, Restarting, NoRetry
<1> QED BY <1>1, <1>2, <1>3, LedgerInvariance, PTL DEF Spec

-----------------------------------------------------------------------------
(* The order of the reverse pass. *)

\* Regions are not nested: every branch was forked on the root token.
Flat == \A t \in Tokens \ {Root} : Parent[t] = Root

\* A set of naturals that has a member has a least one.
LEMMA Least ==
  ASSUME NEW S \in SUBSET Nat, S # {}
  PROVE  \E m \in S : \A n \in S : m <= n
<1>1. PICK m \in S : \A n \in S : ~(<<n, m>> \in OpToRel(<, Nat))
  BY WFMin, NatLessThanWellFounded
<1>2. \A n \in S : ~(n < m)
  BY <1>1 DEF OpToRel
<1> QED BY <1>2

\* Of steps on the ledger, one was written last, and it is the latest.
LEMMA LatestIsLast ==
  ASSUME TypeOK, NEW S \in SUBSET {x \in Tasks : ledger[x] # "none"}, S # {}
  PROVE  Latest(S) \in S /\ \A y \in S : Rank(y) <= Rank(Latest(S))
<1>1. \A x \in S : Rank(x) \in DOMAIN order /\ order[Rank(x)] = x
  BY DEF Rank, TypeOK, Elements
<1>2. Len(order) \in Nat /\ DOMAIN order = 1..Len(order)
  BY DEF TypeOK
<1> DEFINE T == {n \in Nat : \E x \in S : n = Len(order) - Rank(x)}
<1>3. \A x \in S : Rank(x) \in 1..Len(order) /\ Len(order) - Rank(x) \in T
  BY <1>1, <1>2
<1>4. T # {}
  BY <1>3
<1>5. PICK m \in T : \A n \in T : m <= n
  BY <1>4, Least
<1>6. PICK x \in S : m = Len(order) - Rank(x)
  BY <1>5
<1>7. ASSUME NEW y \in S PROVE Rank(y) <= Rank(x)
  <2>1. Rank(x) \in Nat /\ Rank(y) \in Nat /\ Len(order) \in Nat
    BY <1>1, <1>2, <1>6
  <2>2. m <= Len(order) - Rank(y)
    BY <1>3, <1>5
  <2> HIDE DEF T
  <2> QED BY <1>6, <2>1, <2>2
<1> QED BY <1>6, <1>7 DEF Latest

\* A task is on the path of a token.
LEMMA OwnerType == ASSUME NEW x \in Tasks PROVE Owner(x) \in Tokens
  BY Placed DEF Owner

\* The lineage of a branch is the branch itself, and no branch is below another.
LEMMA FlatLineage ==
  ASSUME Flat, NEW t \in Tokens, NEW c \in Lineage(t)
  PROVE  c \in Tokens /\ (c = t \/ Parent[c] = t)
<1> DEFINE S == {d \in Tokens : d = t \/ Parent[d] = t}
<1>1. S \in SUBSET Tokens /\ t \in S
  OBVIOUS
<1>2. ASSUME NEW d \in Tokens, Parent[d] \in S PROVE d \in S
  <2>1. d # Root
    BY <1>2, TreeOfTokens, NoneIsFresh
  <2>2. Parent[d] = Root
    BY <2>1 DEF Flat
  <2>3. t = Root
    BY <1>2, <2>2, TreeOfTokens, NoneIsFresh
  <2> QED BY <1>2, <2>2, <2>3
<1>3. c \in S
  BY <1>1, <1>2 DEF Lineage
<1> QED BY <1>3

\* Where nothing is nested, a step that is not blocked has no live token in its
\* lineage, and nothing its lineage owes is blocked.
LEMMA FreeLineage ==
  ASSUME Flat, NEW x \in Tasks, Owner(x) \notin Blocked
  PROVE  /\ Live \cap Lineage(Owner(x)) = {}
         /\ \A y \in Tasks : Owner(y) \in Lineage(Owner(x)) => Owner(y) \notin Blocked
<1> USE OwnerType
<1>1. ASSUME NEW b \in Live PROVE b \notin Lineage(Owner(x))
  BY <1>1, FlatLineage DEF Blocked
<1>2. ASSUME NEW y \in Tasks, Owner(y) \in Lineage(Owner(x)), Owner(y) \in Blocked PROVE FALSE
  <2>1. Parent[Owner(y)] = Owner(x) /\ Owner(y) # Root
    BY <1>2, FlatLineage, TreeOfTokens, NoneIsFresh
  <2>2. Owner(y) \notin Live
    BY <1>1, <1>2
  <2>3. PICK b \in Live : Owner(y) = Parent[b]
    BY <1>2, <2>2 DEF Blocked
  <2>4. b \in Tokens /\ b # Root
    BY <2>3, TreeOfTokens, NoneIsFresh DEF Live
  <2> QED BY <2>1, <2>3, <2>4 DEF Flat
<1> QED BY <1>1, <1>2

\* Only createCompensation marks a row 'compensating' whose job does not exist.
LEMMA UndoBegins ==
  ASSUME SagaInv, Next, NEW x \in Tasks, ledger'[x] = "compensating", job[C(x)].st = "none"
  PROVE  Turn(x)
<1> USE DEF SagaInv, saga
<1>1. ledger[x] # "compensating"
  BY DEF LedgerInv
<1>2. CASE Environment \/ Quiet \/ RetryReset
  BY <1>1, <1>2, EnvironmentMoves, QuietMoves, ResetMoves
<1>3. CASE RetryReopen
  BY <1>1, <1>3 DEF RetryReopen, TypeOK
<1>4. CASE Commit
  BY <1>1, <1>4 DEF Commit
<1>5. ASSUME NEW t \in Tokens, Scan(t) PROVE FALSE
  <2>1. UNCHANGED saga \/ (pos[t] \in Tasks /\ Ledgered(pos[t]))
    BY <1>5 DEF Scan, TypeOK
  <2> QED BY <1>1, <2>1, LedgeredMoves
<1>6. ASSUME NEW y \in Tasks, CreateJob(y) \/ Apply(y) \/ RouteError(y) PROVE FALSE
  <2>1. UNCHANGED saga \/ Ledgered(y)
    BY <1>6 DEF CreateJob, Apply, RouteError
  <2> QED BY <1>1, <2>1, LedgeredMoves
<1>7. ASSUME NEW y \in Tasks, CreateCompensation(y) \/ MarkCompensated(y) \/ MarkFailed(y)
      PROVE  Turn(x)
  <2>1. y = x
    BY <1>1, <1>7, TurnMoves DEF TypeOK
  <2> QED BY <1>7, <2>1 DEF CreateCompensation, MarkCompensated, MarkFailed
<1> QED BY <1>2, <1>3, <1>4, <1>5, <1>6, <1>7, Steps

\* Where nothing is nested, a step is undone in its turn: when no token of its
\* lineage lives and everything its lineage recorded later is undone.
LEMMA TurnInOrder ==
  ASSUME TypeOK, Flat, NEW x \in Tasks, Turn(x)
  PROVE  /\ Live \cap Lineage(Owner(x)) = {}
         /\ \A y \in Owed : Owner(y) \in Lineage(Owner(x)) => Rank(y) <= Rank(x)
<1>1. x \in Eligible /\ x = Latest(Eligible)
  BY DEF Turn
<1>2. Eligible \in SUBSET {y \in Tasks : ledger[y] # "none"}
  BY DEF Eligible, Owed, Owing
<1>3. \A y \in Eligible : Rank(y) <= Rank(x)
  BY <1>1, <1>2, LatestIsLast
<1>4. Owner(x) \notin Blocked
  BY <1>1 DEF Eligible
<1>5. \A y \in Owed : Owner(y) \in Lineage(Owner(x)) => y \in Eligible
  BY <1>4, FreeLineage DEF Eligible, Owed
<1> QED BY <1>3, <1>4, <1>5, FreeLineage

\* Along every lineage steps are undone in reverse, while other branches still run
\* (filterLineageQuiesced, selectSubtreeStepsForCompensation).  Regions inside
\* regions are excepted: the chain of parents breaks at a token the scan consumed.
THEOREM ReverseOrderAlways == ASSUME Flat PROVE Spec => ReverseOrder
<1>1. SagaInv /\ [Next]_vars =>
        [\A x \in Tasks : ledger'[x] = "compensating" /\ job[C(x)].st = "none" =>
           /\ Live \cap Lineage(Owner(x)) = {}
           /\ \A y \in Owed : Owner(y) \in Lineage(Owner(x)) => Rank(y) <= Rank(x)]_vars
  BY UndoBegins, TurnInOrder DEF SagaInv
<1> QED BY <1>1, LedgerInvariance, PTL DEF Spec, ReverseOrder
=============================================================================
