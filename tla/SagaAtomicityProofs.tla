------------------------- MODULE SagaAtomicityProofs -------------------------
(***************************************************************************)
(* A transaction either commits or is undone: AllOrNothing and             *)
(* NoForwardAfterUndo, proved from what every reachable state says about   *)
(* the walk, the tokens of the regions and the jobs that were applied.     *)
(* Behind them: what 'compensated' means in a process without regions.     *)
(***************************************************************************)
EXTENDS SagaProofs

\* A forward job that completed and whose effects were applied.
Done(x) == job[F(x)].applied /\ job[F(x)].st = "completed"

\* A forked token that was not merged into its parent again.
Entered(t) == token[t] \notin {"absent", "merged"}

Branchings == Tokens \ {Root}

\* Effects are applied of a job that completed, with its ledger row, or of one
\* that failed with a business error its boundary catches.
AppliedInv ==
  \A x \in Tasks :
    /\ job[F(x)].code => x \in Guarded
    /\ job[F(x)].applied =>
         \/ job[F(x)].st = "completed" /\ ledger[x] # "none"
         \/ job[F(x)].st = "failed" /\ job[F(x)].code

\* The tokens of a region: forked together, below a token that was not joined,
\* and merged together.
TreeInv ==
  /\ \A t \in Branchings : Entered(t) =>
       Parent[t] \notin joined /\ (Parent[t] # Root => Entered(Parent[t]))
  /\ \A t \in Branchings : token[t] = "arrivedAtJoin" => Branches[t] = <<>> \/ t \in joined
  /\ \A t, u \in Branchings : Parent[t] = Parent[u] /\ token[t] = "absent" => token[u] = "absent"
  /\ \A t \in Branchings : token[t] = "merged" => Parent[t] \in joined

\* Where a drive and the root token can be.
WalkInv ==
  /\ drive.phase \in {"walk", "park"} /\ drive.at # Root => Entered(drive.at)
  /\ drive.phase = "scan" => drive.todo \subseteq Live
  /\ pos[Root] # None => pos[Root] \in Elements(Program(Root))
  /\ Forked(Root) => \A x \in Elements(Before[Root]) : Done(x)

\* Once something is undone no drive walks on, except to the cancel end again.
Undone == \E y \in Tasks : job[C(y)].st # "none"
UndoInv ==
  /\ drive.phase = "scan" => Thrown(Root) \/ status = "compensating"
  /\ Undone => \/ Thrown(Root)
               \/ /\ status \in {"compensating", "compensationFailed", "compensated"}
                  /\ drive.phase \in {"idle", "scan", "sync"}

\* Once the transaction is committed nothing is left to do or to undo.
SealInv ==
  Sealed => /\ \A x \in Elements(Program(Root)) : Done(x)
            /\ Branches[Root] = <<>> \/ Root \in joined
            /\ \A x \in Tasks : ledger[x] \in {"none", "committed"}

-----------------------------------------------------------------------------
(* Paths and tokens. *)

\* A concatenation has the elements of both parts.
LEMMA ConcatElements ==
  ASSUME NEW S, NEW s \in Seq(S), NEW t \in Seq(S)
  PROVE  Elements(s \o t) = Elements(s) \cup Elements(t)
<1>1. /\ DOMAIN (s \o t) = 1..(Len(s) + Len(t)) /\ DOMAIN s = 1..Len(s) /\ DOMAIN t = 1..Len(t)
      /\ Len(s) \in Nat /\ Len(t) \in Nat
      /\ \A i \in 1..Len(s) : (s \o t)[i] = s[i]
      /\ \A i \in 1..Len(t) : (s \o t)[Len(s) + i] = t[i]
  OBVIOUS
<1>2. Elements(s \o t) \subseteq Elements(s) \cup Elements(t)
  <2>1. ASSUME NEW i \in DOMAIN (s \o t), i \notin DOMAIN s
        PROVE  (s \o t)[i] = t[i - Len(s)] /\ i - Len(s) \in DOMAIN t
    <3>1. i - Len(s) \in 1..Len(t) /\ Len(s) + (i - Len(s)) = i
      BY <1>1, <2>1
    <3> QED BY <1>1, <3>1
  <2> QED BY <1>1, <2>1 DEF Elements
<1>3. Elements(s) \subseteq Elements(s \o t)
  BY <1>1 DEF Elements
<1>4. Elements(t) \subseteq Elements(s \o t)
  <2>1. \A i \in DOMAIN t : Len(s) + i \in DOMAIN (s \o t) /\ (s \o t)[Len(s) + i] = t[i]
    BY <1>1
  <2> QED BY <2>1 DEF Elements
<1> QED BY <1>2, <1>3, <1>4

\* The tasks on the path of a token.
LEMMA PathElements ==
  ASSUME NEW t \in Tokens
  PROVE  /\ Elements(Program(t)) = Elements(Before[t]) \cup
              (IF Branches[t] = <<>> \/ t \in joined THEN Elements(After[t]) ELSE {})
         /\ Elements(Program(t)) \subseteq Tasks
         /\ Elements(Program(t)) \subseteq Elements(Before[t] \o After[t])
<1>1. /\ Before[t] \in Seq(Tasks) /\ After[t] \in Seq(Tasks)
      /\ <<>> \in Seq(Tasks) /\ Elements(<<>>) = {}
  BY Paths DEF Elements
<1>2. /\ Elements(Before[t] \o After[t]) = Elements(Before[t]) \cup Elements(After[t])
      /\ Elements(Before[t] \o <<>>) = Elements(Before[t])
  BY <1>1, ConcatElements
<1>3. Elements(Before[t]) \subseteq Tasks /\ Elements(After[t]) \subseteq Tasks
  BY <1>1, ElementsType
<1> QED BY <1>2, <1>3 DEF Program

\* Nothing is entered below the root before its split and behind its join.
LEMMA NothingEntered ==
  ASSUME TreeInv, Root \in joined \/ Branches[Root] = <<>> \/ ~Forked(Root)
  PROVE  \A t \in Branchings : ~Entered(t)
<1> DEFINE S == {t \in Branchings : Entered(t)}
<1>1. ASSUME NEW t \in S PROVE Parent[t] \in S
  <2>1. t \in Branchings /\ Entered(t) /\ t \in Tokens \ {Root}
    BY DEF Branchings
  <2>2. Parent[t] \in Tokens /\ t \in Elements(Branches[Parent[t]])
    BY <2>1, TokenTree
  <2>3. Parent[t] # Root
    <3>1. SUFFICES ASSUME Parent[t] = Root PROVE FALSE
      OBVIOUS
    <3>2. Root \notin joined
      BY <2>1, <3>1 DEF TreeInv
    <3>3. Branches[Root] # <<>>
      BY <2>2, <3>1 DEF Elements
    <3>4. Forked(Root)
      BY <2>1, <2>2, <3>1 DEF Forked, Entered
    <3> QED BY <3>2, <3>3, <3>4
  <2> QED BY <2>1, <2>2, <2>3 DEF TreeInv, Branchings
<1>2. S \in SUBSET Tokens /\ Root \notin S
  BY DEF Branchings
<1>3. S = {}
  <2> HIDE DEF S
  <2> QED BY <1>1, <1>2, TreeOfTokens
<1> QED BY <1>3

\* A walk on another token than the root sees an open region.
LEMMA WalkBelow ==
  ASSUME TypeOK, TreeInv, WalkInv, drive.phase \in {"walk", "park"}, drive.at # Root
  PROVE  Root \notin joined /\ Branches[Root] # <<>> /\ Forked(Root)
<1>1. drive.at \in Branchings /\ Entered(drive.at)
  BY DEF TypeOK, Drives, WalkInv, Branchings
<1> QED BY <1>1, NothingEntered

\* A passed path is done.
LEMMA PassedDone ==
  ASSUME TypeOK, AppliedInv, NEW t \in Tokens, Passed(t)
  PROVE  \A x \in Elements(Program(t)) : Done(x)
<1> SUFFICES ASSUME NEW x \in Elements(Program(t)) PROVE Done(x)
  OBVIOUS
<1>1. job[F(x)].applied
  BY DEF Passed, Ahead, Elements
<1>2. x \in Tasks /\ job[F(x)].st # "failed"
  BY <1>1, PathElements DEF Passed, Thrown
<1> QED BY <1>1, <1>2 DEF AppliedInv, Done

\* The walk acts on a task of its path that was not applied.
LEMMA NextIsAhead ==
  ASSUME NEW x, Next1(x)
  PROVE  /\ drive.phase = "walk" /\ ~Thrown(drive.at)
         /\ x \in Elements(Program(drive.at)) /\ ~job[F(x)].applied
  BY DEF Next1, First, Ahead, Elements

\* Only the root's path leads to the cancel end.
LEMMA ThrownOnRoot ==
  ASSUME TypeOK, AppliedInv, NEW t \in Tokens, Thrown(t)
  PROVE  t = Root
<1>1. PICK x \in Elements(Program(t)) : job[F(x)].applied /\ job[F(x)].st = "failed"
  BY DEF Thrown
<1>2. x \in Tasks /\ x \in Elements(Before[t] \o After[t])
  BY PathElements
<1>3. x \in Guarded
  BY <1>1, <1>2 DEF AppliedInv
<1> QED BY <1>2, <1>3, GuardedOnRoot

\* The cancel end is reached when no region is open.
LEMMA ThrownAtRoot ==
  ASSUME TypeOK, AppliedInv, TreeInv, WalkInv, Thrown(Root), drive.phase \in {"walk", "park"}
  PROVE  drive.at = Root
<1> SUFFICES ASSUME drive.at # Root PROVE FALSE
  OBVIOUS
<1>1. Root \notin joined /\ Branches[Root] # <<>> /\ Forked(Root)
  BY WalkBelow
<1>2. Elements(Program(Root)) = Elements(Before[Root])
  BY <1>1, PathElements, TokenTree
<1>3. \A x \in Elements(Program(Root)) : Done(x)
  BY <1>1, <1>2 DEF WalkInv
<1> QED BY <1>3 DEF Thrown, Done

-----------------------------------------------------------------------------
(* The applied jobs. *)

\* A row never leaves the ledger.
LEMMA RowsStay ==
  ASSUME TypeOK, Next, NEW x \in Tasks, ledger[x] # "none"
  PROVE  ledger'[x] # "none"
<1> USE DEF saga
<1>1. CASE Environment \/ Quiet \/ RetryReset
  BY <1>1, EnvironmentMoves, QuietMoves, ResetMoves
<1>2. CASE RetryReopen
  BY <1>2 DEF RetryReopen, TypeOK
<1>3. CASE Commit
  BY <1>3 DEF Commit
<1>4. ASSUME NEW t \in Tokens, Scan(t) PROVE ledger'[x] # "none"
  <2>1. UNCHANGED saga \/ (pos[t] \in Tasks /\ Ledgered(pos[t]))
    BY <1>4 DEF Scan, TypeOK
  <2> QED BY <2>1, LedgeredMoves
<1>5. ASSUME NEW y \in Tasks, CreateJob(y) \/ Apply(y) \/ RouteError(y) PROVE ledger'[x] # "none"
  <2>1. UNCHANGED saga \/ Ledgered(y)
    BY <1>5 DEF CreateJob, Apply, RouteError
  <2> QED BY <2>1, LedgeredMoves
<1>6. ASSUME NEW y \in Tasks, CreateCompensation(y) \/ MarkCompensated(y) \/ MarkFailed(y)
      PROVE  ledger'[x] # "none"
  BY <1>6, TurnMoves DEF TypeOK
<1> QED BY <1>1, <1>2, <1>3, <1>4, <1>5, <1>6, Steps

\* What a step does to the forward job of a task.
LEMMA ForwardMoves ==
  ASSUME TypeOK, AppliedInv, Next, NEW x \in Tasks
  PROVE  \/ job'[F(x)] = job[F(x)]
         \/ /\ ~job[F(x)].applied /\ ~job'[F(x)].applied
            /\ job'[F(x)].code => x \in Guarded
         \/ /\ Next1(x) /\ job[F(x)].st \in {"completed", "failed"}
            /\ job'[F(x)].st = job[F(x)].st /\ job'[F(x)].code = job[F(x)].code
            /\ job[F(x)].st = "completed" => ledger'[x] # "none"
            /\ job[F(x)].st = "failed" => job[F(x)].code
<1> USE JobIndex
<1>1. job[F(x)] \in JobRow /\ (job[F(x)].code => x \in Guarded)
      /\ (job[F(x)].applied => job[F(x)].st \in {"completed", "failed"})
  BY DEF TypeOK, AppliedInv
<1>2. CASE Environment
  <2>1. Worked(job[F(x)], job'[F(x)]) /\ (job'[F(x)].code => job[F(x)].code \/ x \in Guarded)
    BY <1>2, EnvironmentMoves
  <2> QED BY <1>1, <2>1 DEF Worked
<1>3. CASE Quiet \/ RetryReopen \/ Commit \/ \E t \in Tokens : Scan(t)
  BY <1>3, QuietMoves DEF RetryReopen, Commit, Scan
<1>4. CASE RetryReset
  BY <1>4, ResetMoves
<1>5. ASSUME NEW y \in Tasks, CreateJob(y)
      PROVE  job'[F(x)] = job[F(x)] \/ (~job[F(x)].applied /\ ~job'[F(x)].applied /\ ~job'[F(x)].code)
  <2>1. job[F(y)].st = "none"
    BY <1>5 DEF CreateJob
  <2> QED BY <1>1, <1>5, <2>1 DEF CreateJob, NoJob, TypeOK
<1>6. ASSUME NEW y \in Tasks, Apply(y) \/ RouteError(y)
      PROVE  \/ job'[F(x)] = job[F(x)]
             \/ /\ x = y /\ Next1(x) /\ job[F(x)].st \in {"completed", "failed"}
                /\ job'[F(x)].st = job[F(x)].st /\ job'[F(x)].code = job[F(x)].code
                /\ job[F(x)].st = "completed" => ledger'[x] # "none"
                /\ job[F(x)].st = "failed" => job[F(x)].code
  <2>1. Applied(y) /\ Next1(y) /\ job[F(y)].st \in {"completed", "failed"}
    BY <1>6 DEF Apply, RouteError
  <2>2. CASE x # y
    BY <2>1, <2>2 DEF Applied, TypeOK
  <2>3. CASE x = y
    <3>1. Apply(y) => job[F(y)].st = "completed" /\ ledger'[y] # "none"
      BY LedgeredMoves DEF Apply
    <3>2. RouteError(y) => job[F(y)].st = "failed" /\ job[F(y)].code
      BY DEF RouteError
    <3> QED BY <1>6, <2>1, <2>3, <3>1, <3>2, AppliedMoves
  <2> QED BY <2>2, <2>3
<1>7. ASSUME NEW y \in Tasks, CreateCompensation(y) \/ MarkCompensated(y) \/ MarkFailed(y)
      PROVE  job'[F(x)] = job[F(x)]
  BY <1>7, TurnMoves
<1> QED BY <1>2, <1>3, <1>4, <1>5, <1>6, <1>7, Steps

\* Every step keeps what is known about applied jobs.
LEMMA AppliedStep == ASSUME TypeOK, AppliedInv, Next PROVE AppliedInv'
<1> SUFFICES ASSUME NEW x \in Tasks
             PROVE  /\ job'[F(x)].code => x \in Guarded
                    /\ job'[F(x)].applied =>
                         \/ job'[F(x)].st = "completed" /\ ledger'[x] # "none"
                         \/ job'[F(x)].st = "failed" /\ job'[F(x)].code
  BY DEF AppliedInv
<1>1. ledger[x] # "none" => ledger'[x] # "none"
  BY RowsStay
<1> QED BY <1>1, ForwardMoves DEF AppliedInv

\* What is done stays done, and what was thrown stays thrown.
LEMMA DoneStays ==
  ASSUME TypeOK, AppliedInv, Next, NEW x \in Tasks, job[F(x)].applied
  PROVE  job'[F(x)] = job[F(x)]
<1>1. ~Next1(x)
  BY NextIsAhead
<1> QED BY <1>1, ForwardMoves

-----------------------------------------------------------------------------
(* The tokens. *)

\* The steps that move a token.
LEMMA TokenSteps ==
  ASSUME Next
  PROVE  \/ UNCHANGED tokens
         \/ \E t \in Tokens : Fork(t) \/ Arrive(t) \/ Join(t) \/ Scan(t)
         \/ ConsumeAtEnd \/ Sync
<1>1. Worker => UNCHANGED tokens
  BY DEF Worker, Lease, LeaseEnds, Reclaim, Complete, Fail, Keep
<1>2. (\E x \in Tasks : AlarmFires(x)) => UNCHANGED tokens
  BY DEF AlarmFires
<1>3. DriveStart \/ DriveDies => UNCHANGED tokens
  BY DEF DriveStart, DriveDies
<1>4. ASSUME Walk
      PROVE  \/ UNCHANGED tokens
             \/ \E t \in Tokens : Fork(t) \/ Arrive(t) \/ Join(t)
             \/ ConsumeAtEnd \/ Sync
  BY <1>4 DEF Walk, CreateJob, Apply, RouteError, FailForward, Park, Descend, StopAtJoin,
              BeginCompensating, Commit, End, Finish
<1>5. Reverse => UNCHANGED tokens \/ \E t \in Tokens : Scan(t)
  BY DEF Reverse, CreateCompensation, MarkCompensated, MarkFailed, Wait, Settle
<1>6. CancelCheck \/ CancelNext \/ RetryCheck \/ RetryNext \/ OperatorDies => UNCHANGED tokens
  BY DEF CancelCheck, CancelNext, Release, Decide, Close, Open, Resume, RetryCheck, RetryNext,
         RetryReset, RetryReopen, RetryMove, RetryResume, OperatorDies
<1> QED BY <1>1, <1>2, <1>3, <1>4, <1>5, <1>6 DEF Next

\* The children of a token are neither the root nor itself, and have no other parent.
LEMMA Children ==
  /\ \A t, c \in Tokens : c \in Elements(Branches[t]) <=> c \in Branchings /\ Parent[c] = t
  /\ \A t \in Branchings : t \in Tokens /\ Parent[t] \in Tokens
  /\ Root \in Tokens /\ Root \notin Branchings
  /\ \A t \in Tokens : t \notin Elements(Branches[t])
<1>1. ASSUME NEW t \in Tokens, t \in Elements(Branches[t]) PROVE FALSE
  <2>1. t # Root /\ Parent[t] = t
    BY <1>1, TokenTree
  <2>2. {t} \in SUBSET Tokens /\ {t} # {} /\ \A u \in {t} \ {Root} : Parent[u] \in {t}
    BY <2>1
  <2>3. Root \in {t}
    BY <2>2, TreeOfTokens
  <2> QED BY <2>1, <2>3
<1> QED BY <1>1, TokenTree DEF Branchings

\* Only the six steps above matter to the region's tokens, and the root's own
\* token does not.
LEMMA TreeKept ==
  ASSUME TreeInv, joined' = joined, \A t \in Branchings : token'[t] = token[t]
  PROVE  TreeInv'
<1>1. \A t \in Branchings : Parent[t] # Root => Parent[t] \in Branchings
  BY Children DEF Branchings
<1>2. \A t \in Branchings : Entered(t)' <=> Entered(t)
  BY DEF Entered
<1>3. ASSUME NEW t \in Branchings, Entered(t)'
      PROVE  Parent[t] \notin joined' /\ (Parent[t] # Root => Entered(Parent[t])')
  BY <1>1, <1>2, <1>3 DEF TreeInv
<1>4. \A t \in Branchings : token'[t] = "arrivedAtJoin" => Branches[t] = <<>> \/ t \in joined'
  BY DEF TreeInv
<1>5. \A t, u \in Branchings : Parent[t] = Parent[u] /\ token'[t] = "absent" => token'[u] = "absent"
  BY DEF TreeInv
<1>6. \A t \in Branchings : token'[t] = "merged" => Parent[t] \in joined'
  BY DEF TreeInv
<1> QED BY <1>3, <1>4, <1>5, <1>6 DEF TreeInv

\* Every step keeps the shape of the regions' tokens.
LEMMA TreeStep == ASSUME TypeOK, TreeInv, WalkInv, Next PROVE TreeInv'
<1> USE Children DEF Entered
<1>1. token \in [Tokens -> {"absent", "active", "arrivedAtJoin", "merged", "consumed", "discarded"}]
      /\ joined \subseteq Tokens
  BY DEF TypeOK
<1>2. CASE UNCHANGED tokens
  BY <1>2, TreeKept DEF tokens
<1>3. CASE ConsumeAtEnd \/ Sync
  <2>1. joined' = joined /\ \A t \in Branchings : token'[t] = token[t]
    BY <1>1, <1>3 DEF ConsumeAtEnd, Sync
  <2> QED BY <2>1, TreeKept
<1>4. ASSUME NEW t \in Tokens, Scan(t) PROVE TreeInv'
  <2>1. joined' = joined /\ token[t] \in {"active", "arrivedAtJoin"}
    BY <1>4 DEF Scan, tokens, WalkInv, Live
  <2>2. \A u \in Tokens : token'[u] = token[u] \/ (u = t /\ token'[u] \in {"consumed", "discarded"})
    BY <1>1, <1>4 DEF Scan
  <2> QED BY <2>1, <2>2 DEF TreeInv
<1>5. ASSUME NEW t \in Tokens, Fork(t) PROVE TreeInv'
  <2>1. /\ t \notin joined /\ joined' = joined
        /\ \A c \in Elements(Branches[t]) : token[c] = "absent"
        /\ drive.phase = "walk" /\ drive.at = t
    BY <1>5, TokenTree, Paths, ElementsType DEF Fork, AtSplit, Forked
  <2>2. \A c \in Tokens : token'[c] = IF c \in Elements(Branches[t]) THEN "active" ELSE token[c]
    BY <1>5 DEF Fork
  <2>3. t # Root => Entered(t)
    BY <2>1 DEF WalkInv
  <2> QED BY <2>1, <2>2, <2>3 DEF TreeInv
<1>6. ASSUME NEW t \in Tokens, Arrive(t) PROVE TreeInv'
  <2>1. /\ t # Root /\ joined' = joined /\ (Branches[t] = <<>> \/ t \in joined)
        /\ drive.phase = "walk" /\ drive.at = t
    BY <1>6 DEF Arrive, AtEnd
  <2>2. \A c \in Tokens : token'[c] = IF c = t THEN "arrivedAtJoin" ELSE token[c]
    BY <1>1, <1>6 DEF Arrive
  <2>3. Entered(t)
    BY <2>1 DEF WalkInv
  <2> QED BY <2>1, <2>2, <2>3 DEF TreeInv
<1>7. ASSUME NEW t \in Tokens, Join(t) PROVE TreeInv'
  <2>1. /\ t \notin joined /\ joined' = joined \cup {t} /\ drive.phase = "walk" /\ drive.at = t
        /\ \A c \in Elements(Branches[t]) : token[c] = "arrivedAtJoin"
    BY <1>7 DEF Join, AtSplit, AllArrived
  <2>2. \A c \in Tokens : token'[c] = IF c \in Elements(Branches[t]) THEN "merged"
                                      ELSE IF c = t THEN "active" ELSE token[c]
    <3>1. t \notin Elements(Branches[t])
      OBVIOUS
    <3> QED BY <1>7, <3>1 DEF Join
  <2>3. t # Root => Entered(t)
    BY <2>1 DEF WalkInv
  <2>4. \A u \in Branchings : Parent[u] \in Elements(Branches[t]) => ~Entered(u)
    BY <2>1 DEF TreeInv, Elements
  <2>5. \A u \in Branchings : Entered(u)' =>
          Parent[u] \notin joined' /\ (Parent[u] # Root => Entered(Parent[u])')
    BY <2>1, <2>2, <2>3, <2>4 DEF TreeInv
  <2> QED BY <2>1, <2>2, <2>3, <2>5 DEF TreeInv
<1> QED BY <1>2, <1>3, <1>4, <1>5, <1>6, <1>7, TokenSteps

-----------------------------------------------------------------------------
(* The walk. *)

\* Where a step takes the drive.
LEMMA DriveSteps ==
  ASSUME TypeOK, Next
  PROVE  \/ drive' = drive
         \/ drive'.phase \notin {"walk", "park"} \/ drive'.at = Root
         \/ drive.phase = "walk" /\ drive'.at = drive.at /\ UNCHANGED tokens
         \/ \E t \in Tokens : Park(t) \/ Arrive(t) \/ StopAtJoin(t) \/ Descend(t) \/ Join(t)
<1> USE DEF operator
<1>1. Worker \/ (\E x \in Tasks : AlarmFires(x)) \/ CancelCheck \/ CancelNext \/ RetryCheck
        \/ RetryNext \/ OperatorDies => drive' = drive
  BY DEF Worker, Lease, LeaseEnds, Reclaim, Complete, Fail, Keep, AlarmFires, CancelCheck, CancelNext,
         Release, Decide, Close, Open, Resume, RetryCheck, RetryNext, RetryReset, RetryReopen,
         RetryMove, RetryResume, OperatorDies
<1>2. DriveStart \/ DriveDies => drive'.phase \notin {"walk", "park"} \/ drive'.at = Root
  <2>1. /\ Scanning.phase = "scan" /\ NoDrive.phase = "idle"
        /\ [NoDrive EXCEPT !.phase = "walk", !.sync = ~IsRegion].at = Root
    BY DEF NoDrive, Scanning, TypeOK, Drives
  <2> QED BY <2>1 DEF DriveStart, DriveDies
<1>3. ASSUME NEW x \in Tasks, CreateJob(x)
      PROVE  drive.phase = "walk" /\ drive'.at = drive.at /\ UNCHANGED tokens
  BY <1>3 DEF CreateJob, Next1, TypeOK, Drives
<1>4. ASSUME NEW x \in Tasks, Apply(x) \/ RouteError(x) \/ FailForward(x)
      PROVE  drive' = drive \/ drive'.phase \notin {"walk", "park"}
  BY <1>4, EndedType DEF Apply, RouteError, FailForward
<1>5. BeginCompensating \/ Commit \/ End \/ ConsumeAtEnd \/ Finish \/ Sync
        => drive' = drive \/ drive'.phase \notin {"walk", "park"}
  BY EndedType DEF BeginCompensating, Commit, End, ConsumeAtEnd, Finish, Sync, Scanning, TypeOK, Drives
<1>6. \A t \in Tokens : Fork(t) => drive' = drive
  BY DEF Fork
<1>7. Reverse => drive' = drive \/ drive'.phase \notin {"walk", "park"}
  BY EndedType DEF Reverse, Scan, CreateCompensation, MarkCompensated, MarkFailed, Wait, Settle,
                   Turn, Scanned, Scanning, TypeOK, Drives
<1> QED BY <1>1, <1>2, <1>3, <1>4, <1>5, <1>6, <1>7 DEF Next, Walk

\* The walk that leaves an open token stays on open tokens.
LEMMA LeftEntered ==
  ASSUME TypeOK, TreeInv, NEW t \in Tokens, t # Root => Entered(t), Left(t).phase = "walk"
  PROVE  Left(t).at = Root \/ (Left(t).at \in Branchings /\ Entered(Left(t).at))
<1>1. t \in Branchings /\ Entered(t) /\ Parent[t] \in Tokens
  BY LeftType, Children DEF Branchings
<1>2. CASE Left(t).at = Parent[t]
  BY <1>1, <1>2 DEF TreeInv, Branchings
<1>3. ASSUME Left(t).at \in Elements(Branches[Parent[t]]) PROVE Left(t).at \in Branchings /\ Entered(Left(t).at)
  <2> DEFINE c == Left(t).at
  <2>0. c \in Elements(Branches[Parent[t]])
    BY <1>3
  <2>1. c \in Branchings /\ Parent[c] = Parent[t]
    <3>1. c \in Tokens
      BY LeftType DEF Drives
    <3> HIDE DEF c
    <3> QED BY <1>1, <2>0, <3>1, Children
  <2>2. Parent[t] \notin joined /\ token[t] # "absent"
    BY <1>1 DEF TreeInv, Entered
  <2>3. token[c] # "absent" /\ token[c] # "merged"
    BY <1>1, <2>1, <2>2 DEF TreeInv
  <2> QED BY <2>1, <2>3 DEF Entered
<1> QED BY <1>2, <1>3, LeftType

\* An open token stays open except when its region joins.
LEMMA EnteredStays ==
  ASSUME TypeOK, WalkInv, Next, NEW t \in Branchings, Entered(t), \A u \in Tokens : ~Join(u)
  PROVE  Entered(t)'
<1> USE DEF Entered
<1>1. t \in Tokens /\ t # Root /\ token \in [Tokens -> {"absent", "active", "arrivedAtJoin", "merged", "consumed", "discarded"}]
  BY DEF Branchings, TypeOK
<1>2. ASSUME NEW u \in Tokens, Fork(u) \/ Arrive(u) \/ Scan(u) PROVE Entered(t)'
  <2>1. CASE Fork(u)
    BY <1>1, <2>1 DEF Fork
  <2>2. CASE Arrive(u)
    BY <1>1, <2>2 DEF Arrive
  <2>3. CASE Scan(u)
    BY <1>1, <2>3 DEF Scan
  <2> QED BY <1>2, <2>1, <2>2, <2>3
<1>3. ConsumeAtEnd \/ Sync => token'[t] = token[t]
  BY <1>1 DEF ConsumeAtEnd, Sync
<1> QED BY <1>2, <1>3, TokenSteps DEF tokens

\* A walk is on a token that is open.
LEMMA WalkerStep ==
  ASSUME TypeOK, TypeOK', TreeInv, WalkInv, Next
  PROVE  (drive.phase \in {"walk", "park"} /\ drive.at # Root => Entered(drive.at))'
<1> DEFINE AtEntered == token[drive.at] \notin {"absent", "merged"}
<1> SUFFICES ASSUME drive'.phase \in {"walk", "park"}, drive'.at # Root
             PROVE  AtEntered'
  BY DEF Entered
<1>1. drive'.at \in Branchings /\ drive.at \in Tokens
  BY DEF TypeOK, Drives, Branchings
<1>2. CASE drive' = drive
  <2>1. Entered(drive.at) /\ drive.at \in Branchings
    BY <1>1, <1>2 DEF WalkInv
  <2>2. ASSUME NEW u \in Tokens, Join(u) PROVE AtEntered'
    <3>1. drive.at = u /\ u \notin Elements(Branches[u]) /\ token'[u] = "active"
      BY <2>2, Children DEF Join, AtSplit
    <3> QED BY <1>2, <3>1
  <2> QED BY <1>2, <2>1, <2>2, EnteredStays DEF Entered
<1>3. CASE drive.phase = "walk" /\ drive'.at = drive.at /\ UNCHANGED tokens
  BY <1>3 DEF WalkInv, tokens, Entered
<1>4. ASSUME NEW t \in Tokens, Park(t) \/ Arrive(t) \/ StopAtJoin(t) PROVE AtEntered'
  <2>1. drive' = Left(t) /\ drive.at = t /\ drive.phase \in {"walk", "park"}
    BY <1>4 DEF Park, Arrive, StopAtJoin, AtSplit, AtEnd, Next1
  <2>2. Left(t).phase = "walk"
    BY <2>1, LeftType
  <2>3. t # Root => Entered(t)
    BY <2>1 DEF WalkInv
  <2>4. Entered(Left(t).at) /\ Left(t).at \in Branchings
    BY <2>1, <2>2, <2>3, LeftEntered
  <2>5. \A u \in Tokens : token'[u] = token[u] \/ token'[u] = "arrivedAtJoin"
    BY <1>4 DEF Park, Arrive, StopAtJoin, tokens, TypeOK
  <2> QED BY <2>1, <2>4, <2>5 DEF Entered, Branchings
<1>5. ASSUME NEW t \in Tokens, Descend(t) PROVE AtEntered'
  <2>1. /\ t \notin joined /\ Forked(t) /\ Branches[t] # <<>> /\ drive'.at = Branches[t][1]
        /\ UNCHANGED tokens
    BY <1>5 DEF Descend, AtSplit, TypeOK, Drives
  <2>2. drive'.at \in Elements(Branches[t])
    BY <2>1, Paths, ElementsType DEF Elements
  <2>3. PICK c \in Elements(Branches[t]) : token[c] # "absent"
    BY <2>1 DEF Forked
  <2>4. c \in Branchings /\ Parent[c] = t /\ Parent[drive'.at] = t
    <3>1. c \in Tokens
      BY <2>3, Paths, ElementsType
    <3> QED BY <1>1, <2>2, <2>3, <3>1, Children DEF Branchings
  <2>5. token[drive'.at] \notin {"absent", "merged"}
    BY <1>1, <2>1, <2>3, <2>4 DEF TreeInv
  <2> QED BY <2>1, <2>5 DEF tokens, Entered
<1>6. ASSUME NEW t \in Tokens, Join(t) PROVE AtEntered'
  <2>1. drive'.at = t /\ t \notin Elements(Branches[t])
    BY <1>6, Children DEF Join, AtSplit, TypeOK, Drives
  <2> QED BY <1>6, <2>1 DEF Join, Entered
<1> QED BY <1>2, <1>3, <1>4, <1>5, <1>6, DriveSteps

\* The scan takes up only tokens that live.
LEMMA ScannerStep ==
  ASSUME TypeOK, WalkInv, Next
  PROVE  (drive.phase = "scan" => drive.todo \subseteq Live)'
<1> SUFFICES ASSUME drive'.phase = "scan" PROVE drive'.todo \subseteq Live'
  OBVIOUS
<1>1. token \in [Tokens -> {"absent", "active", "arrivedAtJoin", "merged", "consumed", "discarded"}]
  BY DEF TypeOK
<1>2. CASE Reverse
  <2>1. ASSUME NEW t \in Tokens, Scan(t) PROVE drive'.todo \subseteq Live'
    <3>1. drive'.todo = drive.todo \ {t} /\ drive.todo \subseteq Live
      BY <2>1 DEF Scan, WalkInv, TypeOK, Drives
    <3>2. \A u \in Tokens : u # t => token'[u] = token[u]
      BY <1>1, <2>1 DEF Scan
    <3> QED BY <3>1, <3>2 DEF Live
  <2>2. ASSUME NEW x \in Tasks, CreateCompensation(x) \/ MarkCompensated(x)
        PROVE  drive'.todo \subseteq Live'
    <3>1. Live' = Live /\ drive.phase = "scan"
      BY <2>2 DEF CreateCompensation, MarkCompensated, Turn, Scanned, tokens, Live
    <3> QED BY <2>2, <3>1 DEF CreateCompensation, MarkCompensated, Scanning, WalkInv, TypeOK, Drives
  <2>3. ASSUME NEW x \in Tasks, MarkFailed(x) PROVE FALSE
    BY <2>3, EndedType DEF MarkFailed
  <2>4. CASE Wait \/ Settle
    BY <2>4, EndedType DEF Wait, Settle
  <2> QED BY <1>2, <2>1, <2>2, <2>3, <2>4 DEF Reverse
<1>3. CASE DriveStart \/ BeginCompensating
  <2>1. NoDrive.phase # "scan" /\ [NoDrive EXCEPT !.phase = "walk", !.sync = ~IsRegion].phase # "scan"
    BY DEF NoDrive
  <2>2. drive' = Scanning
    BY <1>3, <2>1 DEF DriveStart, BeginCompensating
  <2>3. Live' = Live /\ Scanning.todo = Live
    BY <1>3 DEF DriveStart, BeginCompensating, Scanning, tokens, Live, TypeOK, Drives
  <2> QED BY <2>2, <2>3
<1>4. CASE Walk /\ ~BeginCompensating
  <2>1. drive.phase # "scan" /\ (drive' = drive \/ drive'.phase \in {"idle", "sync", "walk", "park", "finish"})
    BY <1>4, EndedType, LeftType DEF Walk, CreateJob, Apply, RouteError, FailForward, Park, Fork, Descend, Arrive,
       Join, StopAtJoin, Commit, End, ConsumeAtEnd, Finish, Sync, Next1, AtSplit, AtEnd, TypeOK, Drives
  <2> QED BY <2>1
<1>5. CASE DriveDies
  BY <1>5, EndedType DEF DriveDies
<1>6. CASE Worker \/ (\E x \in Tasks : AlarmFires(x)) \/ CancelCheck \/ CancelNext \/ RetryCheck
             \/ RetryNext \/ OperatorDies
  <2>1. UNCHANGED <<drive, token>>
    BY <1>6 DEF Worker, Lease, LeaseEnds, Reclaim, Complete, Fail, Keep, AlarmFires, CancelCheck,
         CancelNext, Release, Decide, Close, Open, Resume, RetryCheck, RetryNext, RetryReset,
         RetryReopen, RetryMove, RetryResume, OperatorDies, tokens, operator
  <2> QED BY <2>1 DEF Live, WalkInv
<1> QED BY <1>2, <1>3, <1>4, <1>5, <1>6 DEF Next

\* A region that was joined stays joined, so paths only grow.
LEMMA PathsGrow ==
  ASSUME TypeOK, Next
  PROVE  /\ joined \subseteq joined'
         /\ Elements(Program(Root)) \subseteq Elements(Program(Root))'
         /\ Branches[Root] = <<>> \/ Root \in joined =>
              Elements(Program(Root))' = Elements(Program(Root))
<1>1. joined \subseteq joined'
  BY TokenSteps DEF tokens, Fork, Arrive, Join, Scan, ConsumeAtEnd, Sync
<1>2. /\ Elements(Program(Root)) = Elements(Before[Root]) \cup
            (IF Branches[Root] = <<>> \/ Root \in joined THEN Elements(After[Root]) ELSE {})
      /\ Elements(Program(Root))' = Elements(Before[Root]) \cup
            (IF Branches[Root] = <<>> \/ Root \in joined' THEN Elements(After[Root]) ELSE {})
  <2>1. Root \in Tokens
    BY TokenTree
  <2>2. /\ Before[Root] \in Seq(Tasks) /\ After[Root] \in Seq(Tasks)
        /\ <<>> \in Seq(Tasks) /\ Elements(<<>>) = {}
    BY <2>1, Paths DEF Elements
  <2>3. /\ Elements(Before[Root] \o After[Root]) = Elements(Before[Root]) \cup Elements(After[Root])
        /\ Elements(Before[Root] \o <<>>) = Elements(Before[Root])
    BY <2>2, ConcatElements
  <2>4. Elements(Program(Root))' = Elements(Before[Root] \o
            (IF Branches[Root] = <<>> \/ Root \in joined' THEN After[Root] ELSE <<>>))
    BY DEF Program, Elements
  <2>5. Elements(Program(Root)) = Elements(Before[Root] \o
            (IF Branches[Root] = <<>> \/ Root \in joined THEN After[Root] ELSE <<>>))
    BY DEF Program
  <2> QED BY <2>2, <2>3, <2>4, <2>5
<1> QED BY <1>1, <1>2

\* The root token's position is a task of its path.
LEMMA PositionStep ==
  ASSUME TypeOK, WalkInv, Next
  PROVE  (pos[Root] # None => pos[Root] \in Elements(Program(Root)))'
<1> DEFINE OnPath == pos[Root] # None => pos[Root] \in Elements(Program(Root))
<1>1. pos \in [Tokens -> Tasks \cup {None}] /\ Root \in Tokens
  BY Children DEF TypeOK
<1>2. ASSUME pos'[Root] = pos[Root] PROVE OnPath'
  <2>1. pos[Root] # None => pos[Root] \in Elements(Program(Root))'
    BY PathsGrow DEF WalkInv
  <2> QED BY <1>2, <2>1
<1>3. ASSUME NEW t \in Tokens, Fork(t) \/ Arrive(t) \/ Scan(t) PROVE pos'[Root] = pos[Root]
  BY <1>1, <1>3, Children DEF Fork, Arrive, Scan
<1>4. ASSUME NEW t \in Tokens, Join(t) PROVE OnPath'
  <2>1. CASE t # Root
    BY <1>1, <1>2, <1>4, <2>1 DEF Join
  <2>2. CASE t = Root
    <3>1. pos'[Root] = FirstTask(After[Root]) /\ Root \in joined'
      BY <1>1, <1>4, <2>2 DEF Join
    <3>2. pos'[Root] # None => pos'[Root] \in Elements(After[Root])
      BY <1>1, <3>1, Paths, FirstTaskType
    <3>3. Elements(After[Root]) \subseteq Elements(Program(Root))'
      <4>1. Program(Root)' = Before[Root] \o After[Root]
        BY <3>1 DEF Program
      <4>2. Elements(Program(Root))' = Elements(Before[Root] \o After[Root])
        BY <4>1 DEF Elements
      <4>3. Before[Root] \in Seq(Tasks) /\ After[Root] \in Seq(Tasks)
        BY <1>1, Paths
      <4> QED BY <4>2, <4>3, ConcatElements
    <3> QED BY <3>2, <3>3
  <2> QED BY <2>1, <2>2
<1>5. CASE ConsumeAtEnd \/ Sync
  <2>1. CASE UNCHANGED pos
    BY <1>2, <2>1
  <2>2. CASE Sync /\ ~UNCHANGED pos
    <3>1. PICK x \in Tasks \cup {None} :
            /\ IF Thrown(Root) \/ Ahead(Root) = {} THEN x = None ELSE First(Root, x)
            /\ pos' = [pos EXCEPT ![Root] = x]
      BY <2>2 DEF Sync
    <3>2. pos'[Root] = x /\ (x # None => x \in Elements(Program(Root)))
      BY <1>1, <3>1 DEF First, Ahead, Elements
    <3>3. x # None => x \in Elements(Program(Root))'
      BY <3>2, PathsGrow
    <3> QED BY <3>2, <3>3
  <2> QED BY <1>5, <2>1, <2>2 DEF ConsumeAtEnd
<1> QED BY <1>2, <1>3, <1>4, <1>5, TokenSteps DEF tokens

\* What comes before the root's split is done once it forked.
LEMMA ForkedStep ==
  ASSUME TypeOK, AppliedInv, WalkInv, Next
  PROVE  (Forked(Root) => \A x \in Elements(Before[Root]) : Done(x))'
<1> SUFFICES ASSUME Forked(Root)', NEW x \in Elements(Before[Root]) PROVE Done(x)'
  BY DEF Elements
<1>1. /\ Root \in Tokens /\ Elements(Before[Root]) \subseteq Elements(Program(Root)) /\ x \in Tasks
      /\ token \in [Tokens -> {"absent", "active", "arrivedAtJoin", "merged", "consumed", "discarded"}]
  BY Children, PathElements DEF TypeOK
<1>2. Forked(Root) \/ \E t \in Tokens : Fork(t) /\ t = Root
  <2> SUFFICES ASSUME ~Forked(Root) PROVE \E t \in Tokens : Fork(t) /\ t = Root
    OBVIOUS
  <2>1. PICK c \in Elements(Branches[Root]) : token'[c] # "absent"
    BY DEF Forked
  <2>2. c \in Tokens /\ c \in Branchings /\ Parent[c] = Root /\ token[c] = "absent"
    <3>1. c \in Tokens
      BY <1>1, <2>1, Paths, ElementsType
    <3> QED BY <1>1, <2>1, <3>1, Children DEF Forked
  <2>3. ASSUME NEW t \in Tokens, Fork(t) PROVE t = Root
    <3>1. c \in Elements(Branches[t])
      BY <1>1, <2>1, <2>2, <2>3 DEF Fork
    <3> QED BY <2>2, <3>1, Children
  <2>4. ASSUME NEW t \in Tokens, Arrive(t) PROVE FALSE
    <3>1. drive.phase = "walk" /\ drive.at = t /\ t # Root
      BY <2>4 DEF Arrive, AtEnd
    <3>2. Entered(t)
      BY <3>1 DEF WalkInv
    <3> QED BY <1>1, <2>1, <2>2, <2>4, <3>2 DEF Arrive, Entered
  <2>5. ASSUME NEW t \in Tokens, Join(t) PROVE FALSE
    <3>1. drive.phase = "walk" /\ drive.at = t /\ AllArrived(t)
      BY <2>5 DEF Join, AtSplit
    <3>2. t # Root => Entered(t)
      BY <3>1 DEF WalkInv
    <3>3. c # t /\ c \notin Elements(Branches[t])
      BY <2>2, <3>1, <3>2, Children DEF AllArrived, Entered
    <3> QED BY <2>1, <2>2, <2>5, <3>3 DEF Join
  <2>6. ASSUME NEW t \in Tokens, Scan(t) PROVE FALSE
    <3>1. token[t] # "absent"
      BY <2>6 DEF Scan, WalkInv, Live
    <3> QED BY <1>1, <2>1, <2>2, <2>6, <3>1 DEF Scan
  <2>7. ASSUME ConsumeAtEnd \/ Sync PROVE FALSE
    BY <1>1, <2>1, <2>2, <2>7, Children DEF ConsumeAtEnd, Sync
  <2> QED BY <2>1, <2>2, <2>3, <2>4, <2>5, <2>6, <2>7, TokenSteps DEF tokens
<1>3. Done(x)
  <2>1. CASE Forked(Root)
    BY <2>1 DEF WalkInv
  <2>2. CASE Fork(Root)
    BY <1>1, <2>2, PassedDone DEF Fork, AtSplit
  <2> QED BY <1>2, <2>1, <2>2
<1>4. job'[F(x)] = job[F(x)]
  BY <1>1, <1>3, DoneStays DEF Done
<1> QED BY <1>3, <1>4 DEF Done, F

\* Every step keeps what is known about the walk.
LEMMA WalkStep == ASSUME TypeOK, TypeOK', AppliedInv, TreeInv, WalkInv, Next PROVE WalkInv'
  BY WalkerStep, ScannerStep, PositionStep, ForkedStep DEF WalkInv

-----------------------------------------------------------------------------
(* Undoing. *)

\* What was thrown stays thrown.
LEMMA ThrownStays ==
  ASSUME TypeOK, AppliedInv, Next, Thrown(Root)
  PROVE  Thrown(Root)'
<1>1. PICK x \in Elements(Program(Root)) : job[F(x)].applied /\ job[F(x)].st = "failed"
  BY DEF Thrown
<1>2. x \in Tasks
  BY PathElements, TokenTree
<1>3. job'[F(x)] = job[F(x)]
  BY <1>1, <1>2, DoneStays
<1>4. x \in Elements(Program(Root))'
  BY PathsGrow
<1>5. Thrown(Root)' = \E y \in Elements(Program(Root))' : job'[F(y)].applied /\ job'[F(y)].st = "failed"
  BY DEF Thrown, F
<1> QED BY <1>1, <1>3, <1>4, <1>5

\* In an instance that is undoing, or has to, only drives and retries of a
\* failed compensation move the status.
LEMMA UndoingStatus ==
  ASSUME TypeOK, Next, status \in {"compensating", "compensationFailed", "compensated"},
         drive.phase \in {"idle", "scan", "sync"}
  PROVE  /\ status' \in {"compensating", "compensationFailed", "compensated"}
         /\ drive'.phase \in {"idle", "scan", "sync"}
         /\ drive.phase = "scan" /\ drive'.phase = "scan" => status' = status \/ status = "compensationFailed"
         /\ drive.phase # "scan" /\ drive'.phase = "scan" => status' = "compensating"
<1> USE DEF instance, operator, Others
<1>1. CASE Worker \/ (\E x \in Tasks : AlarmFires(x)) \/ Release
  BY <1>1, EnvironmentMoves DEF Environment
<1>2. CASE DriveStart
  <2>1. /\ UNCHANGED status /\ Scanning.phase = "scan"
        /\ drive' = IF status = "compensating" THEN Scanning ELSE NoDrive
        /\ drive.phase = "idle"
    BY <1>2 DEF DriveStart, Terminal, Scanning, TypeOK, Drives
  <2> QED BY <2>1, EndedType
<1>3. CASE DriveDies
  BY <1>3, EndedType DEF DriveDies
<1>4. CASE Walk
  <2>1. Sync
    BY <1>4 DEF Walk, CreateJob, Apply, RouteError, FailForward, Park, Fork, Descend, Arrive,
                Join, StopAtJoin, BeginCompensating, Commit, End, ConsumeAtEnd, Finish, Next1,
                AtSplit, AtEnd
  <2> QED BY <2>1, EndedType DEF Sync
<1>5. CASE Reverse
  <2>1. ASSUME NEW t \in Tokens, Scan(t) PROVE status' = status /\ drive'.phase = "scan" /\ drive.phase = "scan"
    BY <2>1 DEF Scan, TypeOK, Drives
  <2>2. ASSUME NEW x \in Tasks, CreateCompensation(x) \/ MarkCompensated(x)
        PROVE  status' = status /\ drive'.phase = "scan" /\ drive.phase = "scan"
    BY <2>2 DEF CreateCompensation, MarkCompensated, Turn, Scanned, Scanning, TypeOK, Drives
  <2>3. ASSUME NEW x \in Tasks, MarkFailed(x) PROVE status' = "compensationFailed" /\ drive' = Ended
    BY <2>3 DEF MarkFailed
  <2>4. CASE Wait \/ Settle
    BY <2>4, EndedType DEF Wait, Settle
  <2> QED BY <1>5, <2>1, <2>2, <2>3, <2>4, EndedType DEF Reverse
<1>6. CASE CancelCheck \/ Decide \/ Close \/ Open \/ Resume
  BY <1>6 DEF CancelCheck, Decide, Close, Open, Resume, Cancellable
<1>7. CASE RetryCheck \/ RetryReset \/ RetryReopen \/ RetryMove \/ RetryResume \/ OperatorDies
  BY <1>7 DEF RetryCheck, RetryReset, RetryReopen, RetryMove, RetryResume, OperatorDies
<1> QED BY <1>1, <1>2, <1>3, <1>4, <1>5, <1>6, <1>7 DEF Next, CancelNext, RetryNext

\* A scan starts at the cancel end or in an instance that is compensating.
LEMMA ScanStarts ==
  ASSUME TypeOK, AppliedInv, TreeInv, WalkInv, Next, drive.phase # "scan", drive'.phase = "scan"
  PROVE  Thrown(Root) \/ (status = "compensating" /\ status' = "compensating")
<1> USE DEF instance, operator
<1>1. CASE DriveStart
  <2>1. NoDrive.phase # "scan" /\ [NoDrive EXCEPT !.phase = "walk", !.sync = ~IsRegion].phase # "scan"
    BY DEF NoDrive
  <2> QED BY <1>1, <2>1 DEF DriveStart
<1>2. CASE BeginCompensating
  <2>1. Thrown(drive.at) /\ drive.at \in Tokens
    BY <1>2 DEF BeginCompensating, TypeOK, Drives
  <2> QED BY <2>1, ThrownOnRoot
<1>3. CASE Walk /\ ~BeginCompensating
  BY <1>3, EndedType, LeftType DEF Walk, CreateJob, Apply, RouteError, FailForward, Park, Fork, Descend,
     Arrive, Join, StopAtJoin, Commit, End, ConsumeAtEnd, Finish, Sync, Next1, AtSplit, AtEnd, TypeOK, Drives
<1>4. CASE Reverse
  BY <1>4 DEF Reverse, Scan, CreateCompensation, MarkCompensated, MarkFailed, Wait, Settle, Turn, Scanned
<1>5. CASE DriveDies
  BY <1>5, EndedType DEF DriveDies
<1>6. CASE Worker \/ (\E x \in Tasks : AlarmFires(x)) \/ CancelCheck \/ CancelNext \/ RetryCheck
             \/ RetryNext \/ OperatorDies
  BY <1>6 DEF Worker, Lease, LeaseEnds, Reclaim, Complete, Fail, Keep, AlarmFires, CancelCheck,
     CancelNext, Release, Decide, Close, Open, Resume, RetryCheck, RetryNext, RetryReset,
     RetryReopen, RetryMove, RetryResume, OperatorDies
<1> QED BY <1>1, <1>2, <1>3, <1>4, <1>5, <1>6 DEF Next

\* The first compensation is created by a scan.
LEMMA FirstUndo ==
  ASSUME TypeOK, Next, ~Undone, Undone'
  PROVE  drive.phase = "scan" /\ drive' = drive /\ status' = status
<1> USE JobIndex
<1>1. PICK y \in Tasks : job'[C(y)].st # "none" /\ job[C(y)].st = "none"
  BY DEF Undone, C
<1>2. ~Environment
  BY <1>1, EnvironmentMoves DEF Worked
<1>3. ~Quiet /\ ~RetryReset /\ ~RetryReopen /\ ~Commit /\ \A t \in Tokens : ~Scan(t)
  BY <1>1, QuietMoves, ResetMoves DEF RetryReopen, Commit, Scan
<1>4. ASSUME NEW x \in Tasks, CreateJob(x) \/ Apply(x) \/ RouteError(x) PROVE FALSE
  <2>1. F(x) # C(y)
    OBVIOUS
  <2> QED BY <1>1, <1>4, <2>1, AppliedMoves DEF CreateJob, Apply, RouteError, TypeOK
<1>5. PICK x \in Tasks : CreateCompensation(x) \/ MarkCompensated(x) \/ MarkFailed(x)
  BY <1>2, <1>3, <1>4, Steps
<1>6. CreateCompensation(x)
  BY <1>1, <1>5 DEF MarkCompensated, MarkFailed
<1> QED BY <1>6 DEF CreateCompensation, Turn, Scanned, instance

\* Every step keeps what is known about undoing.
LEMMA UndoStep ==
  ASSUME TypeOK, RetryInv, AppliedInv, TreeInv, WalkInv, UndoInv, Next
  PROVE  UndoInv'
<1>1. Thrown(Root) => UndoInv'
  BY ThrownStays DEF UndoInv
<1>2. ASSUME ~Thrown(Root), drive'.phase = "scan" PROVE status' = "compensating"
  <2>1. CASE drive.phase = "scan"
    <3>1. status = "compensating"
      BY <1>2, <2>1 DEF UndoInv
    <3> QED BY <1>2, <2>1, <3>1, UndoingStatus
  <2>2. CASE drive.phase # "scan"
    BY <1>2, <2>2, ScanStarts
  <2> QED BY <2>1, <2>2
<1>3. ASSUME ~Thrown(Root), Undone'
      PROVE  /\ status' \in {"compensating", "compensationFailed", "compensated"}
             /\ drive'.phase \in {"idle", "scan", "sync"}
  <2>1. CASE Undone
    BY <1>3, <2>1, UndoingStatus DEF UndoInv
  <2>2. CASE ~Undone
    BY <1>3, <2>2, FirstUndo DEF UndoInv
  <2> QED BY <2>1, <2>2
<1> QED BY <1>1, <1>2, <1>3 DEF UndoInv

-----------------------------------------------------------------------------
(* Committing. *)

\* Nothing below the root and nothing on its path is left to do.
LEMMA SealedNext ==
  ASSUME TypeOK, TreeInv, WalkInv, SealInv, Sealed, NEW x
  PROVE  ~Next1(x)
<1> SUFFICES ASSUME Next1(x) PROVE FALSE
  OBVIOUS
<1>1. x \in Elements(Program(drive.at)) /\ ~job[F(x)].applied /\ drive.phase = "walk"
  BY NextIsAhead
<1>2. CASE drive.at = Root
  BY <1>1, <1>2 DEF SealInv, Done
<1>3. CASE drive.at # Root
  BY <1>1, <1>3, WalkBelow DEF SealInv
<1> QED BY <1>2, <1>3

\* Only the end of the transaction seals a ledger.
LEMMA OnlyCommitSeals ==
  ASSUME TypeOK, Next, ~Sealed, Sealed'
  PROVE  Commit
<1> USE DEF saga
<1>1. PICK x \in Tasks : ledger'[x] = "committed" /\ ledger[x] # "committed"
  BY DEF Sealed
<1>2. ~Environment /\ ~Quiet /\ ~RetryReset
  BY <1>1, EnvironmentMoves, QuietMoves, ResetMoves
<1>3. ~RetryReopen
  BY <1>1 DEF RetryReopen, TypeOK
<1>4. ASSUME NEW t \in Tokens, Scan(t) PROVE FALSE
  <2>1. UNCHANGED saga \/ (pos[t] \in Tasks /\ Ledgered(pos[t]))
    BY <1>4 DEF Scan, TypeOK
  <2> QED BY <1>1, <2>1, LedgeredMoves
<1>5. ASSUME NEW y \in Tasks, CreateJob(y) \/ Apply(y) \/ RouteError(y) PROVE FALSE
  <2>1. UNCHANGED saga \/ Ledgered(y)
    BY <1>5 DEF CreateJob, Apply, RouteError
  <2> QED BY <1>1, <2>1, LedgeredMoves
<1>6. ASSUME NEW y \in Tasks, CreateCompensation(y) \/ MarkCompensated(y) \/ MarkFailed(y)
      PROVE  FALSE
  BY <1>1, <1>6, TurnMoves DEF TypeOK
<1> QED BY <1>2, <1>3, <1>4, <1>5, <1>6, Steps

\* Every step keeps what is known about a committed ledger.
LEMMA SealStep ==
  ASSUME TypeOK, LedgerInv, RetryInv, AppliedInv, TreeInv, WalkInv, UndoInv, SealInv, Next
  PROVE  SealInv'
<1>1. ASSUME Sealed, NEW x \in Tasks PROVE ledger'[x] \in {"none", "committed"}
  <2> USE <1>1 DEF saga
  <2>1. \A y \in Tasks : ledger[y] \in {"none", "committed"}
    BY DEF SealInv
  <2>2. CASE Environment \/ Quiet \/ RetryReset
    BY <2>1, <2>2, EnvironmentMoves, QuietMoves, ResetMoves
  <2>3. ~RetryReopen /\ ~Commit
    BY <2>1 DEF RetryReopen, RetryInv, Commit
  <2>4. ASSUME NEW t \in Tokens, Scan(t) PROVE ledger'[x] \in {"none", "committed"}
    <3>1. CASE UNCHANGED saga
      BY <2>1, <3>1
    <3>2. CASE pos[t] \in Tasks /\ Ledgered(pos[t])
      <4>1. t \in Live
        BY <2>4 DEF Scan, WalkInv
      <4>2. t = Root
        BY <4>1, NothingEntered DEF SealInv, Live, Entered, Branchings
      <4>3. Done(pos[t])
        BY <3>2, <4>2, NoneIsFresh DEF WalkInv, SealInv
      <4>4. ledger[pos[t]] # "none"
        BY <3>2, <4>3 DEF AppliedInv, Done
      <4> QED BY <2>1, <3>2, <4>4 DEF Ledgered
    <3> QED BY <2>4, <3>1, <3>2 DEF Scan, TypeOK
  <2>5. ASSUME NEW y \in Tasks, CreateJob(y) \/ Apply(y) \/ RouteError(y) PROVE FALSE
    BY <2>5, SealedNext DEF CreateJob, Apply, RouteError
  <2>6. ASSUME NEW y \in Tasks, CreateCompensation(y) \/ MarkCompensated(y) \/ MarkFailed(y)
        PROVE FALSE
    BY <2>1, <2>6, TurnMoves DEF Owing
  <2> QED BY <2>2, <2>3, <2>4, <2>5, <2>6, Steps
<1>2. ASSUME Sealed PROVE SealInv'
  <2>1. Branches[Root] = <<>> \/ Root \in joined
    BY <1>2 DEF SealInv
  <2>2. Elements(Program(Root))' = Elements(Program(Root)) /\ joined \subseteq joined'
    BY <2>1, PathsGrow
  <2>3. \A x \in Elements(Program(Root)) : Done(x)'
    <3> SUFFICES ASSUME NEW x \in Elements(Program(Root)) PROVE Done(x)'
      OBVIOUS
    <3>1. Done(x) /\ x \in Tasks
      BY <1>2, PathElements, TokenTree DEF SealInv
    <3>2. job'[F(x)] = job[F(x)]
      BY <3>1, DoneStays DEF Done
    <3> QED BY <3>1, <3>2 DEF Done, F
  <2> QED BY <1>1, <1>2, <2>1, <2>2, <2>3 DEF SealInv, Done
<1>3. ASSUME ~Sealed, Sealed' PROVE SealInv'
  <2>1. Commit
    BY <1>3, OnlyCommitSeals
  <2>2. /\ Passed(Root) /\ (Branches[Root] = <<>> \/ Root \in joined)
        /\ drive.phase = "walk" /\ job' = job
    BY <2>1 DEF Commit, AtEnd
  <2>3. ~Thrown(Root) /\ ~Undone
    BY <2>2 DEF Passed, UndoInv
  <2>4. ASSUME NEW y \in Tasks PROVE ledger'[y] \in {"none", "committed"}
    <3>1. ledger[y] \in {"none", "pending"}
      BY <1>3, <2>3, <2>4 DEF LedgerInv, Undone, Sealed, TypeOK, Owing
    <3> QED BY <2>1, <2>4, <3>1 DEF Commit
  <2>5. Elements(Program(Root))' = Elements(Program(Root)) /\ joined \subseteq joined'
    BY <2>2, PathsGrow
  <2>6. \A y \in Elements(Program(Root)) : Done(y)'
    BY <2>2, PassedDone, TokenTree DEF Done
  <2> QED BY <2>2, <2>4, <2>5, <2>6 DEF SealInv, Done
<1> QED BY <1>2, <1>3 DEF SealInv

-----------------------------------------------------------------------------
(* The theorems. *)

AtomicInv == SagaInv /\ AppliedInv /\ TreeInv /\ WalkInv /\ UndoInv /\ SealInv

\* It holds when the transaction is entered ...
LEMMA AtomicInvInit == Init => AtomicInv
<1> SUFFICES ASSUME Init PROVE AtomicInv
  OBVIOUS
<1>1. SagaInv
  BY SagaInvInit
<1>2. AppliedInv /\ UndoInv /\ SealInv
  BY JobIndex DEF Init, AppliedInv, UndoInv, Undone, SealInv, Sealed, NoJob, NoDrive
<1>3. TreeInv
  BY Children DEF Init, TreeInv, Entered, Branchings
<1>4. WalkInv
  <2>1. Root \in Tokens /\ drive.at = Root /\ drive.phase = "walk" /\ pos[Root] = None
    BY Children DEF Init, NoDrive
  <2>2. ~Forked(Root)
    <3>1. \A c \in Elements(Branches[Root]) : c \in Tokens
      BY <2>1, Paths, ElementsType
    <3> QED BY <3>1 DEF Init, Forked
  <2> QED BY <2>1, <2>2 DEF WalkInv
<1> QED BY <1>1, <1>2, <1>3, <1>4 DEF AtomicInv

\* ... and every step keeps it.
LEMMA AtomicInvStep == AtomicInv /\ [Next]_vars => AtomicInv'
<1>1. AtomicInv /\ Next => AtomicInv'
  <2> SUFFICES ASSUME AtomicInv, Next PROVE AtomicInv'
    OBVIOUS
  <2>1. SagaInv' /\ TypeOK /\ TypeOK' /\ LedgerInv /\ RetryInv
    BY SagaInvStep DEF AtomicInv, SagaInv
  <2>2. AppliedInv' /\ TreeInv' /\ WalkInv'
    BY <2>1, AppliedStep, TreeStep, WalkStep DEF AtomicInv
  <2>3. UndoInv' /\ SealInv'
    BY <2>1, UndoStep, SealStep DEF AtomicInv
  <2> QED BY <2>1, <2>2, <2>3 DEF AtomicInv
<1>2. AtomicInv /\ UNCHANGED vars => AtomicInv'
  <2> SUFFICES ASSUME AtomicInv, UNCHANGED vars PROVE AtomicInv'
    OBVIOUS
  <2>1. SagaInv'
    BY SagaInvStep DEF AtomicInv
  <2> USE DEF vars, instance, tokens, saga, operator
  <2>2. AppliedInv' /\ TreeInv'
    BY DEF AtomicInv, AppliedInv, TreeInv, Entered, F
  <2>3. WalkInv'
    BY DEF AtomicInv, WalkInv, Entered, Live, Program, Elements, Forked, Done, F
  <2>4. UndoInv'
    BY DEF AtomicInv, UndoInv, Undone, Thrown, Program, Elements, F, C
  <2>5. SealInv'
    BY DEF AtomicInv, SealInv, Sealed, Program, Elements, Done, F
  <2> QED BY <2>1, <2>2, <2>3, <2>4, <2>5 DEF AtomicInv
<1> QED BY <1>1, <1>2

\* The invariant holds in every reachable state.
THEOREM AtomicInvariance == Spec => []AtomicInv
  BY AtomicInvInit, AtomicInvStep, PTL DEF Spec

\* A transaction either commits or is undone: commitTransaction never seals a
\* ledger whose reverse pass has started, and no reverse pass starts on a sealed
\* one, wherever a cancel, a retry, a crash or an alarm cuts in.
THEOREM AllOrNothingAlways == Spec => []AllOrNothing
<1>1. AtomicInv => AllOrNothing
  BY DEF AtomicInv, SealInv, Sealed, AllOrNothing
<1> QED BY <1>1, AtomicInvariance, PTL

\* Once a compensation was created no drive creates a forward job, in any branch.
THEOREM NoForwardAfterUndoAlways == Spec => NoForwardAfterUndo
<1>1. ASSUME AtomicInv, Next, \E y \in Tasks : job[C(y)].st # "none",
             NEW x \in Tasks, job[F(x)].st = "none"
      PROVE  job'[F(x)].st = "none"
  <2> USE <1>1, JobIndex
  <2>1. Undone /\ TypeOK /\ AppliedInv /\ TreeInv /\ WalkInv /\ UndoInv
    BY DEF Undone, AtomicInv, SagaInv
  <2>2. ~Next1(x)
    <3>1. SUFFICES ASSUME Next1(x) PROVE FALSE
      OBVIOUS
    <3>2. drive.phase = "walk" /\ ~Thrown(drive.at)
      BY <3>1, NextIsAhead
    <3>3. Thrown(Root)
      BY <2>1, <3>2 DEF UndoInv
    <3> QED BY <2>1, <3>2, <3>3, ThrownAtRoot
  <2>3. CASE Environment \/ Quiet \/ RetryReset
    BY <2>1, <2>3, EnvironmentMoves, QuietMoves, ResetMoves DEF Worked
  <2>4. CASE RetryReopen \/ Commit \/ \E t \in Tokens : Scan(t)
    BY <2>4 DEF RetryReopen, Commit, Scan
  <2>5. ASSUME NEW y \in Tasks, CreateJob(y) PROVE job'[F(x)].st = "none"
    BY <2>1, <2>2, <2>5 DEF CreateJob, TypeOK
  <2>6. ASSUME NEW y \in Tasks, Apply(y) \/ RouteError(y) PROVE job'[F(x)].st = "none"
    BY <2>1, <2>6, AppliedMoves DEF Apply, RouteError
  <2>7. ASSUME NEW y \in Tasks, CreateCompensation(y) \/ MarkCompensated(y) \/ MarkFailed(y)
        PROVE  job'[F(x)].st = "none"
    BY <2>1, <2>7, TurnMoves
  <2> QED BY <2>3, <2>4, <2>5, <2>6, <2>7, Steps
<1>2. AtomicInv /\ [Next]_vars =>
        [(\E y \in Tasks : job[C(y)].st # "none") =>
           \A x \in Tasks : job[F(x)].st = "none" => job'[F(x)].st = "none"]_vars
  BY <1>1 DEF vars
<1> QED BY <1>2, AtomicInvariance, PTL DEF Spec, NoForwardAfterUndo

-----------------------------------------------------------------------------
(* What 'compensated' means in a process without regions.  One job at a time *)
(* is under way there, and the scan finds it by the root token's position.   *)

\* A forward job that was created and not yet applied; one that may complete and
\* whose completion the scan has to find.
Unfinished(x) == job[F(x)].st # "none" /\ ~job[F(x)].applied
Loose(x) == job[F(x)].ttl /\ Unfinished(x) /\ job[F(x)].st # "failed"

OneAtATime == \A x \in Tasks : Unfinished(x) => First(Root, x) /\ ~Thrown(Root)

\* An incident is about the one unfinished job, and nobody completes it before a retry.
Halted ==
  status = "incident" =>
    /\ hazard \in Tasks /\ Unfinished(hazard) /\ ~Loose(hazard)
    /\ job[F(hazard)].st # "completed" /\ ~job[F(hazard)].code

\* How the status bounds what a drive can be doing.
DriveKnown ==
  /\ drive.phase # "finish" /\ drive.at = Root
  /\ drive.phase \in {"walk", "park"} => drive.sync
  /\ drive.phase = "idle" => ~drive.sync
  /\ drive.phase = "scan" /\ drive.sync => Thrown(Root)
  /\ status \in {"compensated", "compensationFailed"} =>
       drive.phase \in {"idle", "scan"} \/ (drive.phase = "sync" /\ Thrown(Root))
  /\ status = "completed" => Ahead(Root) = {} /\ drive.phase \in {"idle", "sync"}
  /\ Sealed => \/ drive.phase = "walk"
               \/ drive.phase \in {"idle", "sync"} /\ status \in {"completed", "cancelled"}

\* A job that may complete is on the ledger, at the root token's position or in
\* the hands of a drive that will put the token there, unless nobody will look.
Traced ==
  \A x \in Tasks : Loose(x) =>
    \/ ledger[x] # "none" \/ drive.phase \in {"walk", "park", "sync"}
    \/ token[Root] = "active" /\ pos[Root] = x
    \/ status = "cancelled" /\ drive.phase = "idle"

\* What every reachable state of a process without regions says, when no drive dies.
UndoneInv ==
  ~IsRegion => OneAtATime /\ Halted /\ DriveKnown /\ Traced /\ CompensatedMeansUndone

\* Without a split the root's path is all there is.
LEMMA RootPath ==
  ASSUME ~IsRegion
  PROVE  /\ Program(Root)' = Program(Root) /\ Program(Root) \in Seq(Tasks)
         /\ DOMAIN Program(Root) \subseteq Nat
         /\ \A i \in DOMAIN Program(Root) : Program(Root)[i] \in Tasks
<1>1. Program(Root) \in Seq(Tasks)
  BY ProgramType, TokenTree
<1>2. Program(Root)' = Program(Root)
  BY DEF Program, IsRegion
<1>3. \A s \in Seq(Tasks) : DOMAIN s \subseteq Nat /\ \A i \in DOMAIN s : s[i] \in Tasks
  OBVIOUS
<1> QED BY <1>1, <1>2, <1>3

\* One task is the next.
LEMMA OneFirst ==
  ASSUME ~IsRegion
  PROVE  \A x, y : First(Root, x) /\ First(Root, y) => x = y
<1>1. Ahead(Root) \subseteq Nat
  BY RootPath DEF Ahead
<1>2. \A i, k \in Nat : i <= k /\ k <= i => i = k
  OBVIOUS
<1> QED BY <1>1, <1>2 DEF First

\* What was not applied yet is all that lies ahead.
LEMMA SameAhead ==
  ASSUME ~IsRegion, \A x \in Tasks : job'[F(x)].applied <=> job[F(x)].applied
  PROVE  /\ Ahead(Root)' = Ahead(Root)
         /\ \A x \in Tasks : First(Root, x)' = First(Root, x)
<1>1. Ahead(Root)' = Ahead(Root)
  BY RootPath DEF Ahead, F
<1> QED BY <1>1, RootPath DEF First

\* Nothing new was completed or routed.
NoNews == \A x \in Tasks : /\ job'[F(x)].st = "completed" =>
                                job[F(x)].st = "completed" /\ job'[F(x)].ttl = job[F(x)].ttl
                           /\ job'[F(x)].code => job[F(x)].code

\* The steps that create a forward job or apply one; the others make no job loose,
\* and only workers and alarms complete one.
LEMMA JobSteps ==
  ASSUME TypeOK, AppliedInv, Next
  PROVE  \/ \E y \in Tasks : CreateJob(y) \/ Apply(y) \/ RouteError(y)
         \/ /\ \A x \in Tasks : /\ job'[F(x)].applied <=> job[F(x)].applied
                                /\ Loose(x)' => Loose(x)
                                /\ Unfinished(x)' <=> Unfinished(x)
            /\ NoNews \/ Environment
<1> USE JobIndex DEF Loose, Unfinished, NoNews
<1>1. \A x \in Tasks : F(x)' = F(x) /\ F(x) # C(x)
  BY DEF F
<1>2. CASE Environment
  <2>1. \A x \in Tasks : Worked(job[F(x)], job'[F(x)])
    BY <1>2, EnvironmentMoves
  <2> QED BY <1>1, <1>2, <2>1 DEF Worked
<1>3. CASE Quiet \/ RetryReopen \/ Commit \/ \E t \in Tokens : Scan(t)
  <2>1. job' = job
    BY <1>3, QuietMoves DEF RetryReopen, Commit, Scan
  <2> QED BY <1>1, <2>1
<1>4. CASE RetryReset
  <2>1. \A x \in Tasks :
          \/ job'[F(x)] = job[F(x)]
          \/ /\ job[F(x)].st # "none" /\ ~job[F(x)].applied
             /\ job'[F(x)].st = "created" /\ ~job'[F(x)].ttl /\ ~job'[F(x)].applied /\ ~job'[F(x)].code
    BY <1>4, ResetMoves
  <2> QED BY <1>1, <2>1
<1>5. CASE \E y \in Tasks : CreateCompensation(y) \/ MarkCompensated(y) \/ MarkFailed(y)
  <2>1. \A x \in Tasks : job'[F(x)] = job[F(x)]
    BY <1>5, TurnMoves
  <2> QED BY <1>1, <2>1
<1> QED BY <1>2, <1>3, <1>4, <1>5, Steps

\* A job is created for the next task, when nothing else is under way ...
LEMMA CreateOnly ==
  ASSUME TypeOK, AppliedInv, NEW y \in Tasks, CreateJob(y)
  PROVE  /\ job'[F(y)].st = "created" /\ ~job'[F(y)].applied /\ ~job[F(y)].applied
         /\ \A x \in Tasks : x # y => job'[F(x)] = job[F(x)]
         /\ Next1(y) /\ drive'.phase = "park" /\ drive'.at = drive.at /\ drive'.sync = drive.sync
         /\ UNCHANGED <<instance, tokens, saga>>
<1> USE JobIndex
<1>1. job[F(y)].st = "none" /\ job' = [job EXCEPT ![F(y)] = [NoJob EXCEPT !.st = "created", !.ttl = TRUE]]
  BY DEF CreateJob
<1>2. job'[F(y)] = [NoJob EXCEPT !.st = "created", !.ttl = TRUE]
  BY <1>1 DEF TypeOK
<1>3. job'[F(y)].st = "created" /\ ~job'[F(y)].applied
  BY <1>2 DEF NoJob
<1>4. ~job[F(y)].applied
  BY <1>1 DEF AppliedInv
<1>5. \A x \in Tasks : x # y => job'[F(x)] = job[F(x)]
  BY <1>1 DEF TypeOK
<1>6. Next1(y) /\ drive' = [drive EXCEPT !.phase = "park"] /\ UNCHANGED <<instance, tokens, saga>>
  BY DEF CreateJob
<1> QED BY <1>3, <1>4, <1>5, <1>6 DEF TypeOK, Drives

\* ... and the effects of the next task are applied.
LEMMA ApplyOnly ==
  ASSUME TypeOK, NEW y \in Tasks, Apply(y) \/ RouteError(y)
  PROVE  /\ Next1(y) /\ job'[F(y)].applied
         /\ \A x \in Tasks : /\ job'[F(x)].st = job[F(x)].st /\ job'[F(x)].ttl = job[F(x)].ttl
                             /\ x # y => job'[F(x)].applied = job[F(x)].applied
         /\ status' = "running" /\ UNCHANGED <<tokens, drive>>
         /\ job[F(y)].st = "completed" \/ (job[F(y)].st = "failed" /\ job[F(y)].code)
<1>1. Applied(y) /\ Next1(y) /\ status' = "running" /\ UNCHANGED <<tokens, drive>>
      /\ (job[F(y)].st = "completed" \/ (job[F(y)].st = "failed" /\ job[F(y)].code))
  BY DEF Apply, RouteError
<1>2. \A j \in Jobs : /\ job'[j].st = job[j].st /\ job'[j].ttl = job[j].ttl
                      /\ job'[j].applied = (job[j].applied \/ j = F(y))
  BY <1>1, AppliedMoves
<1>3. \A x \in Tasks : F(x) \in Jobs /\ job[F(x)].applied \in BOOLEAN /\ (x # y => F(x) # F(y))
  BY JobIndex DEF TypeOK, JobRow
<1> QED BY <1>1, <1>2, <1>3

\* Every step keeps that one job at a time is under way.
LEMMA OneStep ==
  ASSUME ~IsRegion, TypeOK, AppliedInv, OneAtATime, drive.at = Root, Next
  PROVE  OneAtATime'
<1>1. \A x \in Tasks : Next1(x) => First(Root, x) /\ ~Thrown(Root)
  BY DEF Next1
<1>2. ~Thrown(Root) /\ (\A x \in Tasks : ~(job'[F(x)].applied /\ ~job[F(x)].applied)) => ~Thrown(Root)'
  <2> SUFFICES ASSUME ~Thrown(Root), Thrown(Root)',
                      \A x \in Tasks : ~(job'[F(x)].applied /\ ~job[F(x)].applied)
               PROVE  FALSE
    OBVIOUS
  <2>1. Elements(Program(Root))' = Elements(Program(Root)) /\ Elements(Program(Root)) \subseteq Tasks
    BY RootPath, PathElements, TokenTree, PathsGrow DEF IsRegion
  <2>2. Thrown(Root)' = \E y \in Elements(Program(Root))' : job'[F(y)].applied /\ job'[F(y)].st = "failed"
    BY DEF Thrown, F
  <2>3. PICK y \in Elements(Program(Root)) : job'[F(y)].applied /\ job'[F(y)].st = "failed"
    BY <2>1, <2>2
  <2>4. job'[F(y)] = job[F(y)]
    BY <2>1, <2>3, DoneStays
  <2> QED BY <2>3, <2>4 DEF Thrown
<1>3. ASSUME NEW y \in Tasks, CreateJob(y) PROVE OneAtATime'
  <2>1. \A x \in Tasks : /\ job'[F(x)].applied <=> job[F(x)].applied
                         /\ Unfinished(x)' => x = y \/ Unfinished(x)
    <3>1. \A x \in Tasks : x = y \/ job'[F(x)] = job[F(x)]
      BY <1>3, CreateOnly
    <3> QED BY <1>3, <3>1, CreateOnly DEF Unfinished, F
  <2>2. First(Root, y) /\ ~Thrown(Root)
    BY <1>1, <1>3, CreateOnly
  <2> QED BY <1>2, <2>1, <2>2, SameAhead DEF OneAtATime
<1>4. ASSUME NEW y \in Tasks, Apply(y) \/ RouteError(y) PROVE OneAtATime'
  <2>1. ASSUME NEW x \in Tasks, Unfinished(x)' PROVE FALSE
    <3>1. job'[F(x)].st # "none" /\ ~job'[F(x)].applied
      BY <2>1 DEF Unfinished, F
    <3>2. x # y /\ Unfinished(x)
      BY <1>4, <3>1, ApplyOnly DEF Unfinished
    <3>3. First(Root, x) /\ First(Root, y)
      BY <1>1, <1>4, <3>2, ApplyOnly DEF OneAtATime
    <3> QED BY <3>2, <3>3, OneFirst
  <2> QED BY <2>1 DEF OneAtATime
<1>5. ASSUME \A x \in Tasks : /\ job'[F(x)].applied <=> job[F(x)].applied
                              /\ Unfinished(x)' <=> Unfinished(x)
      PROVE  OneAtATime'
  BY <1>2, <1>5, SameAhead DEF OneAtATime
<1> QED BY <1>3, <1>4, <1>5, JobSteps

\* Nobody completes or catches a job while the instance is in a terminal state.
LEMMA TerminalJobs ==
  ASSUME TypeOK, Environment, status \in Terminal
  PROVE  \A j \in Jobs : /\ job'[j].st = "completed" => job[j].st = "completed" /\ job'[j].ttl = job[j].ttl
                         /\ job'[j].code => job[j].code
<1>1. \A j \in Jobs : job[j] \in JobRow
  BY DEF TypeOK
<1>2. ASSUME NEW k \in Jobs, Lease(k) \/ LeaseEnds(k) \/ Reclaim(k) \/ Complete(k) \/ Fail(k), NEW j \in Jobs
      PROVE  /\ job'[j].st = "completed" => job[j].st = "completed" /\ job'[j].ttl = job[j].ttl
             /\ job'[j].code => job[j].code
  <2>1. ~Complete(k) /\ ~Fail(k)
    BY DEF Complete, Fail, Answerable
  <2>2. CASE j # k
    BY <1>2, <2>1, <2>2 DEF Lease, LeaseEnds, Reclaim, TypeOK
  <2>3. CASE j = k
    <3>1. \/ job'[j] = [job[j] EXCEPT !.st = "locked", !.held = TRUE, !.over = FALSE, !.tries = @ + 1]
          \/ job'[j] = [job[j] EXCEPT !.over = TRUE] /\ job[j].st = "locked"
          \/ job'[j] = Parked(job[j]) /\ job[j].st = "locked"
          \/ job'[j] = Failed(job[j], FALSE)
      BY <1>1, <1>2, <2>1, <2>3 DEF Lease, LeaseEnds, Reclaim, TypeOK
    <3> QED BY <1>1, <3>1 DEF Parked, Failed, JobRow
  <2> QED BY <2>2, <2>3
<1>3. ASSUME NEW x \in Tasks, AlarmFires(x) PROVE job' = job
  BY <1>3 DEF AlarmFires, TerminateLease, TerminateUnleased, NothingToTerminate, Terminal
<1>4. ASSUME Release, NEW j \in Jobs PROVE job'[j] \in {job[j], Failed(job[j], FALSE)}
  BY <1>4 DEF Release, Abandoned, TypeOK
<1>5. \A j \in Jobs : Failed(job[j], FALSE).st = "failed" /\ Failed(job[j], FALSE).code = FALSE
  BY <1>1 DEF Failed, JobRow
<1> QED BY <1>2, <1>3, <1>4, <1>5 DEF Environment, Worker

\* Without a split the walk stays on the root token.
LEMMA NoRegion ==
  ASSUME ~IsRegion, TypeOK, drive.at = Root, drive.phase # "finish"
  PROVE  /\ \A t \in Tokens : ~Fork(t) /\ ~Descend(t) /\ ~Arrive(t) /\ ~Join(t) /\ ~StopAtJoin(t)
         /\ ~ConsumeAtEnd /\ ~Finish
         /\ \A t \in Tokens : Park(t) => t = Root
  BY DEF IsRegion, Fork, Descend, Arrive, Join, StopAtJoin, AtSplit, AtEnd, ConsumeAtEnd, Finish, Park

\* What a drive is when it starts, scans or ends.
LEMMA DriveFacts ==
  ASSUME TypeOK, drive.at = Root
  PROVE  /\ NoDrive.phase = "idle" /\ NoDrive.at = Root /\ ~NoDrive.sync
         /\ Scanning.phase = "scan" /\ Scanning.at = Root /\ Scanning.sync = drive.sync
         /\ Ended.phase = (IF drive.sync THEN "sync" ELSE "idle") /\ Ended.at = Root /\ ~Ended.sync
         /\ Left(Root) = Ended
         /\ LET d == [NoDrive EXCEPT !.phase = "walk", !.sync = ~IsRegion]
            IN  d.phase = "walk" /\ d.at = Root /\ d.sync = ~IsRegion
<1>1. NoDrive.phase = "idle" /\ NoDrive.at = Root /\ ~NoDrive.sync
  BY DEF NoDrive
<1>2. Scanning.phase = "scan" /\ Scanning.at = Root /\ Scanning.sync = drive.sync
  BY DEF Scanning, TypeOK, Drives
<1>3. LET d == [NoDrive EXCEPT !.phase = "sync"] IN d.phase = "sync" /\ d.at = Root /\ ~d.sync
  BY DEF NoDrive
<1>4. Ended.phase = (IF drive.sync THEN "sync" ELSE "idle") /\ Ended.at = Root /\ ~Ended.sync
  BY <1>1, <1>3 DEF Ended
<1>5. Left(Root) = Ended
  BY DEF Left
<1>6. LET d == [NoDrive EXCEPT !.phase = "walk", !.sync = ~IsRegion]
      IN  d.phase = "walk" /\ d.at = Root /\ d.sync = ~IsRegion
  BY DEF NoDrive
<1> QED BY <1>1, <1>2, <1>4, <1>5, <1>6

\* A halted instance stays halted by the same job, and a newly halted one by a job
\* that is not applied and that nobody will complete.
LEMMA HaltedStep ==
  ASSUME ~IsRegion, TypeOK, AppliedInv, OneAtATime, Halted, drive.at = Root, Next
  PROVE  Halted'
<1> SUFFICES ASSUME status' = "incident"
             PROVE  /\ hazard' \in Tasks /\ Unfinished(hazard)' /\ ~Loose(hazard)'
                    /\ job'[F(hazard')].st # "completed" /\ ~job'[F(hazard')].code
  BY DEF Halted, F
<1> USE JobIndex
<1>1. CASE UNCHANGED instance
  <2>1. status = "incident" /\ hazard' = hazard /\ hazard \in Tasks /\ Unfinished(hazard)
        /\ ~Loose(hazard) /\ job[F(hazard)].st # "completed" /\ ~job[F(hazard)].code
    BY <1>1 DEF Halted, instance
  <2>2. ASSUME NEW y \in Tasks, CreateJob(y) PROVE FALSE
    <3>1. First(Root, y) /\ job[F(y)].st = "none"
      BY <2>2 DEF CreateJob, Next1
    <3>2. y = hazard
      BY <2>1, <3>1, OneFirst DEF OneAtATime
    <3> QED BY <2>1, <3>1, <3>2 DEF Unfinished
  <2>3. ASSUME NEW y \in Tasks, Apply(y) \/ RouteError(y) PROVE FALSE
    BY <2>3 DEF Apply, RouteError
  <2>4. /\ Loose(hazard)' => Loose(hazard)
        /\ Unfinished(hazard)' <=> Unfinished(hazard)
        /\ NoNews \/ Environment
    <3>1. \A x \in Tasks : /\ Unfinished(x)' <=> job'[F(x)].st # "none" /\ ~job'[F(x)].applied
                           /\ Loose(x)' <=> job'[F(x)].ttl /\ Unfinished(x)' /\ job'[F(x)].st # "failed"
      BY DEF Unfinished, Loose, F
    <3>2. /\ Unfinished(hazard)' <=> job'[F(hazard)].st # "none" /\ ~job'[F(hazard)].applied
          /\ Loose(hazard)' <=> job'[F(hazard)].ttl /\ Unfinished(hazard)' /\ job'[F(hazard)].st # "failed"
      BY <2>1 DEF Unfinished, Loose, F
    <3> QED BY <2>1, <2>2, <2>3, <3>1, <3>2, JobSteps
  <2>5. job'[F(hazard)].st # "completed" /\ ~job'[F(hazard)].code
    BY <2>1, <2>4, TerminalJobs DEF NoNews, Terminal
  <2> QED BY <2>1, <2>4, <2>5
<1>2. ASSUME NEW x \in Tasks, hazard' = x, job'[F(x)].st = "failed", FailForward(x) \/ TerminateUnleased(x)
      PROVE  ~job'[F(x)].applied /\ ~job'[F(x)].code
  <2>1. CASE FailForward(x)
    BY <2>1, NextIsAhead DEF FailForward
  <2>2. CASE TerminateUnleased(x)
    <3>1. job'[F(x)] = Failed(job[F(x)], FALSE) /\ job[F(x)] \in JobRow /\ ~job[F(x)].applied
      BY <2>2 DEF TerminateUnleased, TypeOK, AppliedInv
    <3> QED BY <3>1 DEF Failed, JobRow
  <2> QED BY <1>2, <2>1, <2>2
<1>3. CASE \E x \in Tasks : /\ status' = "incident" /\ hazard' = x /\ job'[F(x)].st = "failed"
                            /\ FailForward(x) \/ TerminateUnleased(x)
  <2>1. PICK x \in Tasks : /\ hazard' = x /\ job'[F(x)].st = "failed"
                           /\ FailForward(x) \/ TerminateUnleased(x)
    BY <1>3
  <2>2. ~job'[F(x)].applied /\ ~job'[F(x)].code
    BY <1>2, <2>1
  <2> QED BY <2>1, <2>2 DEF Unfinished, Loose, F
<1> QED BY <1>1, <1>3, HaltMoves

\* What is known of the drive survives every step that is not the drive's own ...
LEMMA KnownMeanwhile ==
  ASSUME ~IsRegion, TypeOK, AppliedInv, DriveKnown, Next,
         Environment \/ CancelCheck \/ Decide \/ Close \/ Open \/ Resume \/ RetryCheck \/ RetryNext
           \/ OperatorDies
  PROVE  DriveKnown'
<1> USE DEF instance, saga, tokens
<1>1. /\ drive' = drive
      /\ \/ status' = status
         \/ status \in {"running", "waiting", "incident"} /\ status' \in {"running", "incident", "cancelled", "compensating"}
         \/ status = "compensationFailed" /\ status' = "compensating"
  <2>1. CASE Environment
    BY <2>1, EnvironmentMoves
  <2>2. CASE CancelCheck \/ Decide \/ Close \/ Open \/ Resume
    BY <2>2 DEF CancelCheck, Decide, Close, Open, Resume, Cancellable
  <2>3. CASE RetryCheck \/ RetryReset \/ RetryReopen \/ RetryMove \/ RetryResume \/ OperatorDies
    BY <2>3 DEF RetryCheck, RetryReset, RetryReopen, RetryMove, RetryResume, OperatorDies
  <2> QED BY <2>1, <2>2, <2>3 DEF RetryNext
<1>2. \A x \in Tasks : job'[F(x)].applied <=> job[F(x)].applied
  <2>1. CASE Environment
    BY <2>1, EnvironmentMoves, JobIndex DEF Worked
  <2>2. CASE RetryReset
    BY <2>2, ResetMoves, JobIndex
  <2>3. CASE CancelCheck \/ Decide \/ Close \/ Open \/ Resume \/ RetryCheck \/ RetryReopen
             \/ RetryMove \/ RetryResume \/ OperatorDies
    BY <2>3, QuietMoves DEF Quiet, RetryReopen
  <2> QED BY <2>1, <2>2, <2>3 DEF RetryNext
<1>3. Sealed' => Sealed \/ drive.phase = "walk"
  BY OnlyCommitSeals DEF Commit, AtEnd
<1>4. Ahead(Root)' = Ahead(Root) /\ (Thrown(Root) => Thrown(Root)')
  BY <1>2, SameAhead, ThrownStays
<1> QED BY <1>1, <1>3, <1>4 DEF DriveKnown

\* ... a walk ...
LEMMA KnownWalk ==
  ASSUME ~IsRegion, AtomicInv, OneAtATime, Halted, DriveKnown, Next, DriveStart \/ Walk
  PROVE  DriveKnown'
<1> USE DEF instance, saga, tokens
<1>1. TypeOK /\ AppliedInv /\ TreeInv /\ WalkInv /\ SealInv /\ drive.at = Root /\ drive.phase # "finish"
  BY DEF AtomicInv, SagaInv, DriveKnown
<1>2. /\ Thrown(Root) => Thrown(Root)'
      /\ Sealed' => Sealed \/ drive.phase = "walk"
      /\ drive.phase = "walk" => drive.sync /\ status \notin {"compensated", "compensationFailed", "completed"}
  BY <1>1, ThrownStays, OnlyCommitSeals DEF Commit, AtEnd, DriveKnown
<1>3. CASE DriveStart
  <2>1. /\ drive.phase = "idle" /\ ~drive.sync /\ UNCHANGED <<status, ledger, job>>
        /\ \/ status = "compensating" /\ drive' = Scanning
           \/ status \in Terminal /\ drive' = NoDrive
           \/ status \notin Terminal /\ drive' = [NoDrive EXCEPT !.phase = "walk", !.sync = ~IsRegion]
    BY <1>3 DEF DriveStart, DriveKnown, Terminal
  <2>2. Ahead(Root)' = Ahead(Root)
    BY <2>1, SameAhead
  <2> QED BY <1>1, <2>1, <2>2, DriveFacts DEF DriveKnown, Sealed, Terminal
<1>4. ASSUME NEW x \in Tasks, CreateJob(x) PROVE DriveKnown'
  <2>1. Next1(x) /\ drive'.phase = "park" /\ drive'.at = drive.at /\ drive'.sync = drive.sync /\ status' = status
        /\ ledger' = ledger
    BY <1>1, <1>4, CreateOnly
  <2>2. ~Sealed /\ drive.phase = "walk"
    BY <1>1, <2>1, SealedNext DEF Next1
  <2> QED BY <1>1, <1>2, <2>1, <2>2 DEF DriveKnown, Sealed
<1>5. ASSUME NEW x \in Tasks, Apply(x) \/ RouteError(x) PROVE DriveKnown'
  BY <1>1, <1>2, <1>5, ApplyOnly DEF DriveKnown, Next1
<1>6. ASSUME NEW x \in Tasks, FailForward(x) PROVE DriveKnown'
  <2>1. /\ drive.phase = "walk" /\ drive' = Ended /\ ~Sealed /\ ledger' = ledger
        /\ status' = status \/ status' = "incident"
    BY <1>1, <1>6, SealedNext DEF FailForward, Incident, Next1
  <2> QED BY <1>1, <1>2, <2>1, DriveFacts DEF DriveKnown, Sealed
<1>7. ASSUME NEW t \in Tokens, Park(t) PROVE DriveKnown'
  <2>1. /\ drive.phase \in {"walk", "park"} /\ drive' = Ended /\ ~Sealed /\ ledger' = ledger /\ status' = "waiting"
    BY <1>1, <1>7, NoRegion, DriveFacts, SealedNext DEF Park, Next1, DriveKnown
  <2> QED BY <1>1, <1>2, <2>1, DriveFacts DEF DriveKnown, Sealed
<1>8. CASE BeginCompensating
  <2>1. /\ drive.phase = "walk" /\ Thrown(Root) /\ drive' = Scanning /\ ledger' = ledger
        /\ status' = status \/ status' = "compensating"
    BY <1>1, <1>8 DEF BeginCompensating
  <2>2. ~Sealed
    BY <1>1, <2>1 DEF SealInv, Thrown, Done
  <2> QED BY <1>1, <1>2, <2>1, <2>2, DriveFacts DEF DriveKnown, Sealed
<1>9. CASE Commit
  BY <1>1, <1>2, <1>9 DEF Commit, AtEnd, DriveKnown
<1>10. CASE End
  <2>1. /\ drive.phase = "walk" /\ Passed(Root) /\ drive' = Ended /\ ledger' = ledger /\ job' = job
        /\ status' = IF status \in Terminal THEN status ELSE "completed"
    BY <1>10 DEF End, AtEnd
  <2>2. status # "incident"
    BY <2>1 DEF Halted, OneAtATime, First, Passed
  <2>3. Ahead(Root)' = {}
    BY <2>1, SameAhead DEF Passed
  <2> QED BY <1>1, <1>2, <2>1, <2>2, <2>3, DriveFacts DEF DriveKnown, Terminal
<1>11. CASE Sync
  <2>1. drive.phase = "sync" /\ drive' = NoDrive /\ UNCHANGED <<status, ledger, job>>
    BY <1>11 DEF Sync
  <2>2. Ahead(Root)' = Ahead(Root)
    BY <2>1, SameAhead
  <2> QED BY <1>1, <2>1, <2>2, DriveFacts DEF DriveKnown, Sealed
<1> QED BY <1>1, <1>3, <1>4, <1>5, <1>6, <1>7, <1>8, <1>9, <1>10, <1>11, NoRegion, Steps DEF Walk

\* ... and a reverse pass.
LEMMA KnownReverse ==
  ASSUME ~IsRegion, AtomicInv, DriveKnown, Next, Reverse
  PROVE  DriveKnown'
<1> USE DEF instance, saga, tokens
<1>1. TypeOK /\ AppliedInv /\ drive.at = Root
  BY DEF AtomicInv, SagaInv, DriveKnown
<1>2. drive.phase = "scan" /\ status # "completed" /\ ~Sealed
  BY DEF Reverse, Scan, CreateCompensation, MarkCompensated, MarkFailed, Wait, Settle, Turn, Scanned,
         DriveKnown
<1>3. ~Sealed' /\ (Thrown(Root) => Thrown(Root)')
  BY <1>1, <1>2, ThrownStays, OnlyCommitSeals DEF Commit, AtEnd
<1>4. ASSUME NEW t \in Tokens, Scan(t) PROVE DriveKnown'
  <2>1. status' = status /\ drive'.phase = "scan" /\ drive'.at = Root /\ drive'.sync = drive.sync
    BY <1>1, <1>2, <1>4 DEF Scan, TypeOK, Drives
  <2> QED BY <1>2, <1>3, <2>1 DEF DriveKnown
<1>5. ASSUME NEW x \in Tasks, CreateCompensation(x) \/ MarkCompensated(x) PROVE DriveKnown'
  <2>1. status' = status /\ (drive' = drive \/ drive' = Scanning)
    BY <1>5 DEF CreateCompensation, MarkCompensated
  <2> QED BY <1>1, <1>2, <1>3, <2>1, DriveFacts DEF DriveKnown
<1>6. CASE Wait \/ Settle \/ \E x \in Tasks : MarkFailed(x)
  <2>1. drive' = Ended /\ status' \in {status, "compensated", "compensationFailed"}
    BY <1>6 DEF Wait, Settle, MarkFailed
  <2> QED BY <1>1, <1>2, <1>3, <2>1, DriveFacts DEF DriveKnown
<1> QED BY <1>4, <1>5, <1>6 DEF Reverse

\* Every step keeps the bounds on what a drive can be doing.
LEMMA DriveKnownStep ==
  ASSUME ~IsRegion, AtomicInv, OneAtATime, Halted, DriveKnown, Next, ~DriveDies
  PROVE  DriveKnown'
<1>1. TypeOK /\ AppliedInv
  BY DEF AtomicInv, SagaInv
<1> QED BY <1>1, KnownMeanwhile, KnownWalk, KnownReverse DEF Next, Environment, CancelNext

\* A walk ends in a sync, or at the cancel end.
LEMMA WalkEnds ==
  ASSUME ~IsRegion, TypeOK, DriveKnown, Next, ~DriveDies, drive.phase \in {"walk", "park", "sync"}
  PROVE  drive'.phase \in {"walk", "park", "sync"} \/ Sync \/ BeginCompensating
<1>1. CASE drive' = drive
  BY <1>1
<1>2. CASE DriveStart \/ Reverse
  BY <1>2 DEF DriveStart, Reverse, Scan, CreateCompensation, MarkCompensated, MarkFailed, Wait, Settle,
              Turn, Scanned
<1>3. CASE Walk /\ ~Sync /\ ~BeginCompensating
  <2>1. drive.at = Root /\ drive.phase # "finish"
    BY DEF DriveKnown
  <2>2. ASSUME NEW x \in Tasks, CreateJob(x) \/ Apply(x) \/ RouteError(x) \/ FailForward(x)
        PROVE  drive' = drive \/ drive'.phase = "park" \/ (drive' = Ended /\ drive.phase = "walk")
    BY <2>2 DEF CreateJob, Apply, RouteError, FailForward, Next1, TypeOK, Drives
  <2>3. ASSUME NEW t \in Tokens, Park(t) PROVE drive' = Ended /\ drive.phase \in {"walk", "park"}
    BY <2>1, <2>3, NoRegion, DriveFacts DEF Park, Next1
  <2>4. Commit \/ End => drive' = drive \/ (drive' = Ended /\ drive.phase = "walk")
    BY DEF Commit, End, AtEnd
  <2> QED BY <1>3, <2>1, <2>2, <2>3, <2>4, NoRegion, DriveFacts DEF Walk, DriveKnown
<1>4. CASE Worker \/ (\E x \in Tasks : AlarmFires(x)) \/ CancelCheck \/ CancelNext \/ RetryCheck
             \/ RetryNext \/ OperatorDies
  BY <1>4 DEF Worker, Lease, LeaseEnds, Reclaim, Complete, Fail, Keep, AlarmFires, CancelCheck,
     CancelNext, Release, Decide, Close, Open, Resume, RetryCheck, RetryNext, RetryReset,
     RetryReopen, RetryMove, RetryResume, OperatorDies
<1> QED BY <1>1, <1>2, <1>3, <1>4 DEF Next

\* Nothing moves a closed instance that no drive is looking at.
LEMMA ClosedStays ==
  ASSUME TypeOK, Next, status = "cancelled", drive.phase = "idle"
  PROVE  status' = "cancelled" /\ drive'.phase = "idle"
<1> USE DEF instance, operator
<1>1. CASE Environment
  BY <1>1, EnvironmentMoves
<1>2. CASE DriveStart
  BY <1>2, EndedType DEF DriveStart, Terminal
<1>3. CASE Walk \/ Reverse \/ DriveDies
  BY <1>3 DEF Walk, CreateJob, Apply, RouteError, FailForward, Park, Fork, Descend, Arrive, Join,
     StopAtJoin, BeginCompensating, Commit, End, ConsumeAtEnd, Finish, Sync, Next1, AtSplit, AtEnd,
     Reverse, Scan, CreateCompensation, MarkCompensated, MarkFailed, Wait, Settle, Turn, Scanned, DriveDies
<1>4. CASE CancelCheck \/ Decide \/ Close \/ Open \/ Resume
  BY <1>4 DEF CancelCheck, Decide, Close, Open, Resume, Cancellable
<1>5. CASE RetryCheck \/ RetryReset \/ RetryReopen \/ RetryMove \/ RetryResume \/ OperatorDies
  BY <1>5 DEF RetryCheck, RetryReset, RetryReopen, RetryMove, RetryResume, OperatorDies
<1> QED BY <1>1, <1>2, <1>3, <1>4, <1>5 DEF Next, CancelNext, RetryNext, Environment

\* The sync leaves the root token where the scan will find a job that may complete.
LEMMA SyncTraces ==
  ASSUME ~IsRegion, TypeOK, OneAtATime, Halted, DriveKnown, Sync, NEW x \in Tasks, Loose(x)
  PROVE  \/ token'[Root] = "active" /\ pos'[Root] = x
         \/ status' = "cancelled" /\ drive'.phase = "idle"
<1>1. First(Root, x) /\ ~Thrown(Root) /\ Ahead(Root) # {}
  BY DEF Loose, OneAtATime, First
<1>2. Root \in Tokens /\ token \in [Tokens -> {"absent", "active", "arrivedAtJoin", "merged", "consumed", "discarded"}]
      /\ pos \in [Tokens -> Tasks \cup {None}]
  BY TokenTree DEF TypeOK
<1>3. status' = status /\ drive' = NoDrive /\ drive.phase = "sync"
  BY DEF Sync, instance
<1>4. CASE status \notin Terminal
  <2>1. PICK y \in Tasks \cup {None} :
          /\ IF Thrown(Root) \/ Ahead(Root) = {} THEN y = None ELSE First(Root, y)
          /\ pos' = [pos EXCEPT ![Root] = y]
    BY <1>4 DEF Sync
  <2>2. y = x
    BY <1>1, <2>1, OneFirst
  <2> QED BY <1>2, <1>4, <2>1, <2>2 DEF Sync
<1>5. status # "incident"
  <2> SUFFICES ASSUME status = "incident" PROVE FALSE
    OBVIOUS
  <2>1. hazard \in Tasks /\ Unfinished(hazard) /\ ~Loose(hazard)
    BY DEF Halted
  <2>2. First(Root, hazard)
    BY <2>1 DEF OneAtATime
  <2> QED BY <1>1, <2>1, <2>2, OneFirst
<1>6. status \notin {"completed", "compensated", "compensationFailed"}
  BY <1>1, <1>3 DEF DriveKnown
<1> QED BY <1>3, <1>4, <1>5, <1>6, EndedType DEF Terminal

\* Every step keeps the scan able to find what may complete.
LEMMA TracedStep ==
  ASSUME ~IsRegion, AtomicInv, OneAtATime, Halted, DriveKnown, Traced, Next, ~DriveDies
  PROVE  Traced'
<1> DEFINE Found(x) == \/ ledger[x] # "none" \/ drive.phase \in {"walk", "park", "sync"}
                       \/ token[Root] = "active" /\ pos[Root] = x
                       \/ status = "cancelled" /\ drive.phase = "idle"
<1>1. TypeOK /\ AppliedInv /\ WalkInv /\ drive.at = Root /\ drive.phase # "finish"
  BY DEF AtomicInv, SagaInv, DriveKnown
<1>2. ASSUME NEW y \in Tasks, CreateJob(y) \/ Apply(y) \/ RouteError(y)
      PROVE  drive'.phase \in {"walk", "park"}
  BY <1>1, <1>2, CreateOnly, ApplyOnly DEF Next1
<1>3. ASSUME NEW x \in Tasks, Loose(x) PROVE Found(x)'
  <2>1. CASE ledger[x] # "none"
    BY <1>1, <2>1, RowsStay
  <2>2. CASE drive.phase \in {"walk", "park", "sync"}
    <3>1. ~BeginCompensating
      BY <1>1, <1>3 DEF BeginCompensating, Loose, OneAtATime
    <3>2. Sync => Found(x)'
      BY <1>1, <1>3, SyncTraces
    <3> QED BY <1>1, <2>2, <3>1, <3>2, WalkEnds
  <2>3. CASE token[Root] = "active" /\ pos[Root] = x /\ drive.phase \notin {"walk", "park", "sync"}
    <3>1. CASE UNCHANGED tokens
      BY <2>3, <3>1 DEF tokens
    <3>2. ASSUME NEW t \in Tokens, Scan(t) PROVE Found(x)'
      <4>1. pos' = pos /\ Root \in Tokens
        BY <3>2, TokenTree DEF Scan
      <4>2. CASE t # Root
        BY <1>1, <2>3, <3>2, <4>1, <4>2 DEF Scan, TypeOK
      <4>3. CASE t = Root
        <5>1. pos[t] = x /\ x # None /\ job[F(x)].st \notin {"none", "failed"}
          BY <1>3, <2>3, <4>3, NoneIsFresh DEF Loose, Unfinished
        <5>2. Ledgered(x) \/ token' = token
          BY <3>2, <5>1 DEF Scan
        <5> QED BY <1>1, <2>3, <4>1, <5>2, LedgeredMoves
      <4> QED BY <4>2, <4>3
    <3>3. ~Sync /\ \A t \in Tokens : ~Fork(t) /\ ~Arrive(t) /\ ~Join(t)
      BY <2>3 DEF Sync, Fork, Arrive, Join, AtSplit, AtEnd
    <3>4. ~ConsumeAtEnd
      BY <2>3 DEF ConsumeAtEnd, AtEnd
    <3> QED BY <3>1, <3>2, <3>3, <3>4, TokenSteps
  <2>4. CASE status = "cancelled" /\ drive.phase = "idle"
    BY <1>1, <2>4, ClosedStays
  <2> QED BY <1>3, <2>1, <2>2, <2>3, <2>4 DEF Traced
<1>4. (\E y \in Tasks : CreateJob(y) \/ Apply(y) \/ RouteError(y)) \/ \A x \in Tasks : Loose(x)' => Loose(x)
  BY <1>1, JobSteps
<1> QED BY <1>2, <1>3, <1>4 DEF Traced

\* Only the end of a reverse pass without a live token calls an instance compensated.
LEMMA SettleOnly ==
  ASSUME TypeOK, Next, status # "compensated", status' = "compensated"
  PROVE  Settle
<1> USE DEF instance
<1>1. ~Environment
  BY EnvironmentMoves
<1>2. ~DriveStart /\ ~DriveDies
  BY DEF DriveStart, DriveDies
<1>3. ~Walk
  BY DEF Walk, CreateJob, Apply, RouteError, FailForward, Incident, Park, Fork, Descend, Arrive, Join,
     StopAtJoin, BeginCompensating, Commit, End, ConsumeAtEnd, Finish, Sync
<1>4. Reverse => Settle
  BY DEF Reverse, Scan, CreateCompensation, MarkCompensated, MarkFailed, Wait
<1>5. ~CancelCheck /\ ~Decide /\ ~Close /\ ~Open /\ ~Resume
  BY DEF CancelCheck, Decide, Close, Open, Resume
<1>6. ~RetryCheck /\ ~RetryNext /\ ~OperatorDies
  BY DEF RetryCheck, RetryNext, RetryReset, RetryReopen, RetryMove, RetryResume, OperatorDies
<1> QED BY <1>1, <1>2, <1>3, <1>4, <1>5, <1>6 DEF Next, CancelNext, Environment

\* Every step keeps what 'compensated' means.
LEMMA CompensatedStep ==
  ASSUME ~IsRegion, AtomicInv, UndoneInv, Next
  PROVE  CompensatedMeansUndone'
<1> SUFFICES ASSUME status' = "compensated", NEW x \in Tasks,
                    job'[F(x)].st = "completed", job'[F(x)].ttl
             PROVE  ledger'[x] = "compensated"
  BY DEF CompensatedMeansUndone, F
<1>1. SagaInv /\ TypeOK /\ AppliedInv /\ OneAtATime /\ DriveKnown /\ Traced /\ CompensatedMeansUndone
  BY DEF AtomicInv, SagaInv, UndoneInv
<1>2. CASE status = "compensated"
  <2>1. ASSUME NEW y \in Tasks PROVE ~CreateJob(y) /\ ~Apply(y) /\ ~RouteError(y)
    BY <1>1, <1>2 DEF CreateJob, Apply, RouteError, Next1, DriveKnown
  <2>2. NoNews \/ Environment
    BY <1>1, <2>1, JobSteps
  <2>3. job[F(x)].st = "completed" /\ job[F(x)].ttl
    BY <1>1, <1>2, <2>2, TerminalJobs, JobIndex DEF NoNews, Terminal
  <2> QED BY <1>1, <1>2, <2>3, CompensatedStays DEF CompensatedMeansUndone
<1>3. CASE status # "compensated"
  <2>1. Settle /\ Scanned /\ Owed = {} /\ Live = {} /\ job' = job /\ ledger' = ledger
    BY <1>1, <1>3, SettleOnly DEF Settle, saga
  <2>2. ledger[x] \in {"none", "compensated"}
    BY <1>1, <2>1 DEF Owed, TypeOK, DriveKnown, Sealed, Scanned
  <2>3. ledger[x] # "none"
    <3> SUFFICES ASSUME ledger[x] = "none" PROVE FALSE
      OBVIOUS
    <3>1. Loose(x)
      BY <1>1, <2>1 DEF AppliedInv, Loose, Unfinished
    <3>2. drive.phase = "scan" /\ token[Root] # "active"
      BY <2>1, TokenTree DEF Scanned, Live
    <3> QED BY <1>1, <3>1, <3>2 DEF Traced
  <2> QED BY <2>1, <2>2, <2>3
<1> QED BY <1>2, <1>3

\* The invariant holds when the transaction is entered ...
LEMMA UndoneInvInit == Init => UndoneInv
<1> SUFFICES ASSUME Init, ~IsRegion PROVE UndoneInv
  BY DEF UndoneInv
<1>1. /\ \A x \in Tasks : ~Unfinished(x) /\ ledger[x] = "none"
      /\ drive.phase = "walk" /\ drive.at = Root /\ drive.sync /\ status = "running"
  BY JobIndex DEF Init, Unfinished, NoJob, NoDrive
<1> QED BY <1>1 DEF UndoneInv, OneAtATime, Halted, DriveKnown, Traced, Loose, Sealed,
                    CompensatedMeansUndone

\* ... and every step keeps it, but a drive that dies.
LEMMA UndoneInvStep ==
  AtomicInv /\ UndoneInv /\ [Next]_vars /\ [~DriveDies]_vars => UndoneInv'
<1>1. ASSUME ~IsRegion, AtomicInv, UndoneInv, Next, ~DriveDies PROVE UndoneInv'
  <2>1. TypeOK /\ AppliedInv /\ OneAtATime /\ Halted /\ DriveKnown /\ Traced /\ drive.at = Root
    BY <1>1 DEF AtomicInv, SagaInv, UndoneInv, DriveKnown
  <2> QED BY <1>1, <2>1, OneStep, HaltedStep, DriveKnownStep, TracedStep, CompensatedStep DEF UndoneInv
<1>2. ASSUME UndoneInv, UNCHANGED vars PROVE UndoneInv'
  <2> USE <1>2 DEF vars, instance, tokens, saga, operator
  <2>1. Thrown(Root)' <=> Thrown(Root)
    BY DEF Thrown, Program, Elements, F
  <2>2. Ahead(Root)' = Ahead(Root) /\ \A x \in Tasks : First(Root, x)' <=> First(Root, x)
    BY DEF First, Ahead, Program, F
  <2>3. \A x \in Tasks : (Unfinished(x)' <=> Unfinished(x)) /\ (Loose(x)' <=> Loose(x))
    BY DEF Loose, Unfinished, F
  <2>4. OneAtATime => OneAtATime'
    BY <2>1, <2>2, <2>3 DEF OneAtATime
  <2>5. Halted => Halted'
    BY <2>3 DEF Halted, Loose, Unfinished, F
  <2>6. DriveKnown => DriveKnown'
    BY <2>1, <2>2 DEF DriveKnown, Sealed
  <2>7. Traced => Traced'
    BY <2>3 DEF Traced
  <2>8. CompensatedMeansUndone => CompensatedMeansUndone'
    BY DEF CompensatedMeansUndone, F
  <2> QED BY <2>4, <2>5, <2>6, <2>7, <2>8 DEF UndoneInv, IsRegion
<1>3. IsRegion => UndoneInv'
  BY DEF UndoneInv, IsRegion
<1> QED BY <1>1, <1>2, <1>3

\* As long as no drive dies half way, 'compensated' means undone in a process
\* without regions: whichever straggler completes while the cancel is under way,
\* ledgerStragglers finds it before settleSagaCompensated, unless an operator's
\* retry reset it.
THEOREM CompensatedMeansUndoneAlways ==
  Spec /\ [][~DriveDies]_vars => []CompensatedMeansUndone
<1>1. UndoneInv => CompensatedMeansUndone
  BY DEF UndoneInv, CompensatedMeansUndone
<1> QED BY <1>1, UndoneInvInit, UndoneInvStep, AtomicInvariance, PTL DEF Spec

=============================================================================
