------------------------ MODULE MultiInstanceProofs ------------------------
(***************************************************************************)
(* Theorems about MultiInstance for any activities, any cardinalities and  *)
(* any cap, and any number of retries and of drives that die.              *)
(***************************************************************************)
EXTENDS MultiInstance, FiniteSetTheorems, TLAPS

-----------------------------------------------------------------------------
(* The inductive invariant. *)

Fired == timer = "fired"
Closed == \A i \in Iterations : ~Open(i)
\* A drive between its reads of the visit and what it does with them.
Reading == drive.pc \in {"each", "condition", "end", "abort"}

\* How far a drive is, and that what it counted has finished.
Passed == IF drive.pc = "cancel" THEN drive.i + 1 ELSE drive.i
Counts ==
  /\ drive.i <= act.n /\ drive.live <= drive.i /\ drive.completed <= Passed
  /\ drive.pc \in {"idle", "enter"} => drive.i = 0
  /\ drive.pc \in {"condition", "cancel", "abort"} => drive.i < act.n
  /\ drive.pc = "condition" => Finished(drive.i)
  /\ drive.completed = Passed => \A j \in Iterations : j < Passed => Finished(j)

\* Nothing exists beyond the pinned cardinality, or before it is pinned.
Pinned ==
  /\ \A j \in Iterations : j >= act.n => work[j] = "none" /\ token[j] = "none"
  /\ ~act.pinned => act.n = 0 /\ act.settled = "none" /\ ~act.applied
  /\ Reading \/ timer # "none" => act.pinned
  /\ ~host.timed => timer = "none"
  /\ host.body # "sub" => \A j \in Iterations : token[j] = "none"

\* What a drive has read of the visit is true until the timer fires.
SeenNow ==
  /\ Reading => \/ drive.seen.settled = act.settled
                \/ Fired /\ drive.seen.settled = "none" /\ act.settled = "abort"
  /\ Reading /\ Fired => act.settled # "none"
  /\ Reading /\ ~Fired => drive.seen.applied = act.applied /\ drive.seen.settled # "abort"
  /\ drive.pc = "abort" => drive.seen.settled = "none"
  /\ drive.pc = "cancel" => act.settled # "none" /\ (~Fired => act.settled = "condition")
  /\ drive.pc = "teardown" /\ ~Fired => act.settled = "abort"
  /\ drive.pc \in {"mark", "raise"} => act.settled = "abort"
  /\ drive.pc = "raise" => aborted # "caught"

\* What each way to settle the visit means.
Settlement ==
  /\ act.settled = "all" => \A j \in Iterations : j < act.n => Finished(j)
  /\ act.settled = "condition" =>
       /\ status # "incident"
       /\ \A j \in Iterations : token[j] # "active" /\ (host.body = "task" => work[j] # "open")
  /\ act.applied /\ ~Fired =>
       /\ act.settled \in {"all", "condition"}
       /\ act.out = {j \in Iterations : Finished(j)}
  /\ aborted # "none" \/ exited => act.settled = "abort"
  /\ aborted = "caught" /\ ~Fired =>
       /\ status # "incident"
       /\ exited \/ drive.pc = "mark" => Closed

\* On which flows the visit was left, and who cannot be at work when it was.
Departures ==
  /\ "next" \in left /\ ~Fired => act.settled \in {"all", "condition"}
  /\ "error" \in left => aborted = "caught" /\ exited
  /\ "timer" \in left => Fired
  /\ Reading /\ drive.seen.settled = "none" => left = {}
  /\ drive.pc = "teardown" /\ ~Fired /\ drive.seen.settled # "abort" => left = {}
  /\ drive.pc = "mark" /\ drive.seen.settled # "abort" => left = {}
  /\ drive.pc = "raise" => left = {}
  /\ status = "incident" => left = {} /\ drive.pc = "idle"

\* A timer that fired is followed by a drive that tears the visit down.
FireSeen ==
  Fired /\ ~wanted =>
    \/ status = "incident" \/ drive.pc \in {"enter", "teardown"}
    \/ drive.pc = "idle" /\ Closed

VisitInv == TypeOK /\ Counts /\ Pinned /\ SeenNow /\ Settlement /\ Departures /\ FireSeen

-----------------------------------------------------------------------------
(* Types. *)

Places == {"idle", "enter", "each", "condition", "cancel", "abort", "teardown", "mark", "raise", "end"}
Reads == [settled : Kinds, applied : BOOLEAN]
Drives == [pc : Places, i : 0..Cap, seen : Reads, completed : 0..Cap, live : 0..Cap,
           todo : SUBSET Iterations]
Rows == [pinned : BOOLEAN, n : 0..Cap, settled : Kinds, applied : BOOLEAN, out : SUBSET Iterations]

LEMMA Numbers == Cap \in Nat /\ MaxRetries \in Nat /\ MaxFaults \in Nat /\ Sizes \subseteq Nat
  BY Shape

\* The records of the visit and of its drive.
LEMMA RecordTypes == TypeOK => drive \in Drives /\ act \in Rows /\ Now \in Reads
  BY DEF TypeOK, Drives, Rows, Places, Reads, Now

LEMMA RestTypes ==
  Idle \in Drives /\ [Idle EXCEPT !.pc = "enter"] \in Drives /\ Unseen \in Reads
<1>1. Unseen \in Reads
  BY DEF Unseen, Kinds, Reads
<1>2. 0 \in 0..Cap
  BY Numbers
<1>3. Idle \in Drives
  BY <1>1, <1>2 DEF Idle, Drives, Places
<1> QED BY <1>1, <1>2, <1>3 DEF Drives, Idle, Places

\* Where a drive goes on, and with what.
To(pc, i, completed, live, seen) ==
  /\ drive'.pc = pc /\ drive'.i = i /\ drive'.completed = completed
  /\ drive'.live = live /\ drive'.seen = seen
Stay(pc) == To(pc, drive.i, drive.completed, drive.live, drive.seen)

LEMMA Moves ==
  ASSUME drive \in Drives
  PROVE  /\ \A pc : Go(pc) => Stay(pc)
         /\ Next1 => To("each", drive.i + 1, drive.completed, drive.live, drive.seen)
         /\ Counted => To("each", drive.i + 1, drive.completed + 1, drive.live, drive.seen)
         /\ Waiting => \E pc \in {"end", "each"} :
              To(pc, drive.i + 1, drive.completed, drive.live + 1, drive.seen)
         /\ drive' = Idle => To("idle", 0, 0, 0, Unseen)
<1> USE DEF Drives, To, Stay
<1>1. \A pc : Go(pc) => Stay(pc)
  BY DEF Go
<1>2. Next1 => To("each", drive.i + 1, drive.completed, drive.live, drive.seen)
  BY DEF Next1
<1>3. Counted => To("each", drive.i + 1, drive.completed + 1, drive.live, drive.seen)
  BY DEF Counted
<1>4. Waiting => \E pc \in {"end", "each"} :
        To(pc, drive.i + 1, drive.completed, drive.live + 1, drive.seen)
  <2> DEFINE pc == IF host.sequential THEN "end" ELSE "each"
  <2>1. Waiting => drive' = [drive EXCEPT !.pc = pc, !.i = @ + 1, !.live = @ + 1]
    BY DEF Waiting
  <2>2. pc \in {"end", "each"}
    OBVIOUS
  <2> HIDE DEF pc
  <2> QED BY <2>1, <2>2
<1>5. drive' = Idle => To("idle", 0, 0, 0, Unseen)
  BY DEF Idle
<1> QED BY <1>1, <1>2, <1>3, <1>4, <1>5

LEMMA MoveTypes ==
  ASSUME drive \in Drives
  PROVE  /\ \A pc \in Places : Go(pc) => drive' \in Drives
         /\ drive.i < Cap => (Next1 => drive' \in Drives)
         /\ drive.i < Cap /\ drive.completed < Cap => (Counted => drive' \in Drives)
         /\ drive.i < Cap /\ drive.live < Cap => (Waiting => drive' \in Drives)
<1> USE Numbers
<1>1. \A pc \in Places : Go(pc) => drive' \in Drives
  BY DEF Go, Drives
<1>2. {"each", "end"} \subseteq Places
  BY DEF Places
<1>3. ASSUME drive.i < Cap PROVE Next1 => drive' \in Drives
  <2> DEFINE k == drive.i + 1
  <2>1. k \in 0..Cap
    BY <1>3 DEF Drives
  <2>2. Next1 => drive' = [drive EXCEPT !.pc = "each", !.i = k]
    BY DEF Next1
  <2> HIDE DEF k
  <2> QED BY <1>2, <2>1, <2>2 DEF Drives
<1>4. ASSUME drive.i < Cap, drive.completed < Cap PROVE Counted => drive' \in Drives
  <2> DEFINE k == drive.i + 1
             c == drive.completed + 1
  <2>1. k \in 0..Cap /\ c \in 0..Cap
    BY <1>4 DEF Drives
  <2>2. Counted => drive' = [drive EXCEPT !.pc = "each", !.i = k, !.completed = c]
    BY DEF Counted
  <2> HIDE DEF k, c
  <2> QED BY <1>2, <2>1, <2>2 DEF Drives
<1>5. ASSUME drive.i < Cap, drive.live < Cap PROVE Waiting => drive' \in Drives
  <2> DEFINE p == IF host.sequential THEN "end" ELSE "each"
             k == drive.i + 1
             l == drive.live + 1
  <2>1. p \in {"end", "each"} /\ k \in 0..Cap /\ l \in 0..Cap
    BY <1>5 DEF Drives
  <2>2. Waiting => drive' = [drive EXCEPT !.pc = p, !.i = k, !.live = l]
    BY DEF Waiting
  <2> HIDE DEF p, k, l
  <2> QED BY <1>2, <2>1, <2>2 DEF Drives
<1> QED BY <1>1, <1>3, <1>4, <1>5

-----------------------------------------------------------------------------
(* One iteration. *)

\* What a drive does with the iteration it is at.
LEMMA EachSteps ==
  ASSUME TypeOK, Pinned, Each
  PROVE  /\ drive.pc = "each" /\ UNCHANGED <<act, marks, deadline, wanted, left, bounds>>
         /\ \/ Stops /\ Stay("end") /\ UNCHANGED <<inst, work, token>>
            \/ /\ ~Stops /\ Finished(drive.i)
               /\ To("each", drive.i + 1, drive.completed + 1, drive.live, drive.seen)
               /\ UNCHANGED <<inst, work, token>>
            \/ /\ ~Stops /\ ~Finished(drive.i)
               /\ \/ /\ \E pc \in {"end", "each"}, live \in {drive.live, drive.live + 1} :
                          To(pc, drive.i + 1, drive.completed, live, drive.seen)
                     /\ UNCHANGED inst
                  \/ Stay("each") /\ status' \in {status, "running"}
                  \/ Stay("condition") /\ Finished(drive.i)' /\ UNCHANGED inst
                  \/ Stay("abort") /\ UNCHANGED inst
                  \/ Incident
<1>1. drive \in Drives /\ (~Stops => drive.i \in Iterations)
  BY RecordTypes, Numbers DEF Stops, Iterations, Drives, Rows
<1>2. drive.pc = "each" /\ UNCHANGED <<act, marks, deadline, wanted, left, bounds>>
  BY DEF Each
<1> USE <1>1, Moves
<1>3. CASE Stops /\ Go("end") /\ UNCHANGED <<inst, work, token>>
  BY <1>2, <1>3
<1>4. CASE ~Stops /\ Finished(drive.i) /\ Counted /\ UNCHANGED <<inst, work, token>>
  BY <1>2, <1>4
<1>5. CASE ~Stops /\ ~Finished(drive.i) /\ Next1 /\ UNCHANGED <<inst, work, token>>
  BY <1>2, <1>5
<1>6. CASE ~Stops /\ host.body = "sub" /\ token[drive.i] = "none" /\ UNCHANGED <<inst, work, drive>>
  BY <1>2, <1>6 DEF Finished, Stay, To, inst
<1>7. CASE /\ ~Stops /\ token[drive.i] = "active" /\ work[drive.i] = "applied"
           /\ token' = [token EXCEPT ![drive.i] = "consumed"]
           /\ Go("condition") /\ UNCHANGED <<inst, work>>
  <2>1. Stay("condition") /\ host.body = "sub"
    BY <1>7 DEF Pinned
  <2>2. token'[drive'.i] = "consumed" /\ host' = host
    BY <1>2, <1>7, <2>1 DEF TypeOK, Stay, To, bounds
  <2> QED BY <1>2, <1>7, <2>1, <2>2 DEF Finished
<1>8. ASSUME ~Stops, ~Finished(drive.i), WorkStep(drive.i)
      PROVE  \/ /\ \E pc \in {"end", "each"}, live \in {drive.live, drive.live + 1} :
                     To(pc, drive.i + 1, drive.completed, live, drive.seen)
                /\ UNCHANGED inst
             \/ Stay("each") /\ status' \in {status, "running"}
             \/ Stay("condition") /\ Finished(drive.i)' /\ UNCHANGED inst
             \/ Stay("abort") /\ UNCHANGED inst
             \/ Incident
  <2>1. CASE (Waiting \/ Next1) /\ UNCHANGED inst
    BY <2>1
  <2>2. CASE /\ work' = [work EXCEPT ![drive.i] = "applied"]
             /\ Go("condition") /\ UNCHANGED inst /\ host.body # "sub"
    <3>1. Stay("condition")
      BY <2>2
    <3>2. work'[drive'.i] = "applied" /\ host' = host
      BY <1>2, <1>8, <2>2, <3>1 DEF TypeOK, Stay, To, bounds
    <3> QED BY <2>2, <3>1, <3>2 DEF Finished
  <2>3. CASE status' = "running" /\ drive' = drive
    BY <1>2, <2>3 DEF Stay, To
  <2>4. CASE Go("abort") /\ UNCHANGED inst
    BY <2>4
  <2> QED BY <1>8, <2>1, <2>2, <2>3, <2>4 DEF WorkStep
<1>9. CASE ~Stops /\ ~Finished(drive.i) /\ WorkStep(drive.i)
  BY <1>2, <1>8, <1>9
<1>10. CASE ~Stops /\ token[drive.i] = "discarded" /\ Next1 /\ UNCHANGED <<inst, work, token>>
  <2>1. ~Finished(drive.i)
    BY <1>1, <1>10 DEF Finished, Pinned
  <2> QED BY <1>5, <1>10, <2>1
<1> QED BY <1>3, <1>4, <1>6, <1>7, <1>9, <1>10 DEF Each

\* A finished iteration stays finished, whatever happens.
LEMMA FinishedStays ==
  ASSUME TypeOK, Next
  PROVE  \A j \in Iterations : Finished(j) => Finished(j)'
<1> USE DEF Finished, TypeOK, inst, rows, bounds
<1>1. CASE Each
  BY <1>1 DEF Each, WorkStep
<1>2. CASE Begin \/ Enter \/ Abort \/ Mark \/ Raise
  BY <1>2 DEF Begin, Enter, Abort, Mark, Raise
<1>3. CASE Condition \/ CancelChildren \/ Teardown \/ End
  BY <1>3 DEF Condition, CancelChildren, Teardown, End, ApplyCompletion, Abandoned
<1>4. CASE Work \/ Ring \/ Fire \/ Retry \/ Die
  BY <1>4 DEF Work, Resolve, Ring, Fire, Retry, Reopened, Die
<1> QED BY <1>1, <1>2, <1>3, <1>4 DEF Next, Step

LEMMA EachKeeps == ASSUME VisitInv, Each PROVE VisitInv'
<1> USE DEF VisitInv, bounds, inst, marks, deadline
<1>1. drive \in Drives /\ act \in Rows /\ (Incident => drive' = Idle)
  BY RecordTypes DEF Incident
<1>2. TypeOK'
  <2>1. drive' \in Drives
    BY <1>1, Numbers, MoveTypes, RestTypes DEF Each, WorkStep, Stops, Passed, Counts, Drives, Rows, Places
  <2>2. work' \in [Iterations -> {"none", "open", "completed", "failed", "thrown", "applied", "raised", "cancelled"}]
        /\ token' \in [Iterations -> {"none", "active", "consumed", "discarded"}]
        /\ status' \in {"running", "waiting", "incident"} /\ at' \in Flows \cup {"here"}
    BY DEF TypeOK, Each, WorkStep, Incident
  <2> QED BY <2>1, <2>2, EachSteps DEF TypeOK, Drives, Places, Reads
<1>3. Counts'
  BY <1>1, EachSteps, FinishedStays, Moves DEF Passed, Counts, Stops, To, Stay, Drives, Rows, Next, Step, Finished, Iterations
<1>4. Pinned'
  BY DEF Pinned, TypeOK, Each, WorkStep, Stops, Incident, Idle, Go, Next1, Counted, Waiting, Reading, Iterations, Counts
<1>5. ~Stops /\ ~Finished(drive.i) => drive.seen.settled = "none"
  <2>1. drive.i >= act.n \/ drive.i \in Iterations
    BY <1>1, Numbers DEF Iterations, Drives, Rows
  <2> QED BY <1>1, <2>1, EachSteps DEF Stops, SeenNow, Settlement, Reading, Drives, Rows
<1>6. SeenNow'
  BY <1>1, <1>5, EachSteps, Moves DEF SeenNow, To, Stay, Reading, Fired, Pinned
<1>7. Settlement'
  BY <1>1, FinishedStays DEF Settlement, SeenNow, TypeOK, Each, WorkStep, Stops, Incident, Reading, Fired, Closed, Open, Finished, Go, Next1, Counted, Waiting, Iterations, Next, Step, Departures
<1>8. Departures'
  BY <1>1, EachSteps, <1>5, Moves DEF Departures, Reading, Fired, To, Stay, Incident
<1>9. FireSeen'
  BY <1>1, EachSteps DEF FireSeen, Departures, Fired
<1> QED BY <1>2, <1>3, <1>4, <1>6, <1>7, <1>8, <1>9

\* The drive starts, and reads the visit.
LEMMA BeginKeeps == ASSUME VisitInv, Begin PROVE VisitInv'
<1> USE DEF VisitInv, Begin, bounds, inst, rows, marks, deadline
<1>1. drive \in Drives /\ drive' \in {drive, [Idle EXCEPT !.pc = "enter"]}
  BY RecordTypes
<1>2. drive' = [Idle EXCEPT !.pc = "enter"] => To("enter", 0, 0, 0, Unseen)
  BY DEF Idle, To
<1>3. TypeOK'
  <2>1. drive' \in Drives
    BY <1>1, RestTypes
  <2> QED BY <2>1 DEF TypeOK, Drives, Places, Reads
<1>4. Counts' /\ Pinned'
  BY <1>1, <1>2 DEF Passed, Counts, Pinned, To, Reading, Finished, Drives, TypeOK, Iterations
<1>5. SeenNow' /\ Settlement' /\ Departures' /\ FireSeen'
  BY <1>1, <1>2 DEF SeenNow, Settlement, Departures, FireSeen, To, Reading, Fired, Closed, Open, Finished
<1> QED BY <1>3, <1>4, <1>5

\* The visit is pinned: its row, and where the drive that pinned it goes on.
PinnedAt(n) ==
  /\ act'.pinned /\ act'.n = n /\ act'.applied = act.applied /\ act'.out = act.out
  /\ act'.settled = IF n = 0 THEN "all" ELSE "none"
  /\ To("each", drive.i, drive.completed, drive.live, drive'.seen)
  /\ drive'.seen.settled = act'.settled /\ ~drive'.seen.applied

\* The ways a drive takes a visit up.
LEMMA EnterSteps ==
  ASSUME TypeOK, Pinned, Enter
  PROVE  /\ drive.pc = "enter" /\ UNCHANGED <<work, token, marks, fire, wanted, left, bounds>>
         /\ drive' \in Drives /\ act' \in Rows
         /\ \/ Fired /\ Stay("teardown") /\ UNCHANGED <<inst, act, timer, alarm>>
            \/ ~Fired /\ ~act.pinned /\ Incident /\ UNCHANGED <<act, timer, alarm>>
            \/ /\ ~Fired /\ ~act.pinned /\ UNCHANGED inst
               /\ timer' = timer \/ (timer' = "armed" /\ host.timed)
               /\ alarm' \in {alarm, TRUE}
               /\ \E n \in 0..Cap : PinnedAt(n)
            \/ /\ ~Fired /\ act.pinned /\ UNCHANGED <<inst, act, timer, alarm>>
               /\ To(TakenUp, drive.i, drive.completed, drive.live, Now)
<1>1. drive \in Drives /\ act \in Rows /\ Now \in Reads
  BY RecordTypes
<1>2. drive.pc = "enter" /\ UNCHANGED <<work, token, marks, fire, wanted, left, bounds>>
  BY DEF Enter
<1>3. CASE Fired /\ Go("teardown") /\ UNCHANGED <<inst, act, timer, alarm>>
  <2>1. drive' \in Drives
    BY <1>1, <1>3, MoveTypes DEF Places
  <2> QED BY <1>1, <1>2, <1>3, <2>1, Moves
<1>4. CASE /\ ~Fired /\ act.pinned /\ UNCHANGED <<inst, act, timer, alarm>>
           /\ drive' = [drive EXCEPT !.pc = TakenUp, !.seen = Now]
  <2>1. To(TakenUp, drive.i, drive.completed, drive.live, Now)
    BY <1>1, <1>4 DEF To, Drives
  <2>2. TakenUp \in Places
    BY DEF TakenUp, Places
  <2>3. drive' \in Drives
    BY <1>1, <1>4, <2>2 DEF Drives
  <2> QED BY <1>1, <1>2, <1>4, <2>1, <2>3
<1>5. CASE ~Fired /\ ~act.pinned /\ Activate
  <2>1. CASE Incident /\ UNCHANGED <<act, timer, alarm>>
    BY <1>1, <1>2, <1>5, <2>1, RestTypes DEF Incident
  <2>2. ASSUME NEW n \in Sizes, ~(n > Cap),
               LET row == [act EXCEPT !.pinned = TRUE, !.n = n]
               IN  act' = IF n = 0 THEN Settled(row, "all") ELSE row,
               drive' = [drive EXCEPT !.pc = "each",
                                      !.seen = [settled |-> act'.settled, applied |-> FALSE]]
        PROVE  n \in 0..Cap /\ PinnedAt(n) /\ drive' \in Drives /\ act' \in Rows
    <3>1. n \in 0..Cap
      BY <2>2, Numbers
    <3>2. act.settled = "none"
      BY <1>5 DEF Pinned
    <3>3. act' = [act EXCEPT !.pinned = TRUE, !.n = n, !.settled = IF n = 0 THEN "all" ELSE "none"]
      BY <1>1, <2>2, <3>2 DEF Settled, Rows
    <3>4. /\ act'.pinned /\ act'.n = n /\ act'.applied = act.applied /\ act'.out = act.out
          /\ act'.settled = IF n = 0 THEN "all" ELSE "none"
      BY <1>1, <3>3 DEF Rows
    <3>5. act' \in Rows
      BY <1>1, <3>1, <3>3 DEF Rows, Kinds
    <3> DEFINE seen == [settled |-> act'.settled, applied |-> FALSE]
    <3>6. seen \in Reads /\ seen.settled = act'.settled /\ ~seen.applied /\ "each" \in Places
      BY <3>5 DEF Reads, Rows, Places
    <3>7. drive' = [drive EXCEPT !.pc = "each", !.seen = seen]
      BY <2>2
    <3> HIDE DEF seen
    <3>8. drive' \in Drives
      BY <1>1, <3>6, <3>7 DEF Drives
    <3>9. To("each", drive.i, drive.completed, drive.live, seen)
      BY <1>1, <3>7 DEF To, Drives
    <3> QED BY <3>1, <3>4, <3>5, <3>6, <3>8, <3>9 DEF PinnedAt, To
  <2> QED BY <1>2, <1>5, <2>1, <2>2 DEF Activate
<1> QED BY <1>3, <1>4, <1>5 DEF Enter, Fired

LEMMA EnterKeeps == ASSUME VisitInv, Enter PROVE VisitInv'
<1> DEFINE Others == SeenNow' /\ Settlement' /\ Departures' /\ FireSeen'
<1> USE DEF VisitInv, bounds, inst, marks
<1>1. /\ drive \in Drives /\ act \in Rows /\ drive.pc = "enter"
      /\ UNCHANGED <<work, token, marks, fire, wanted, left, bounds>>
  BY RecordTypes, EnterSteps
<1>2. Incident => To("idle", 0, 0, 0, Unseen) /\ status' = "incident"
  BY <1>1, Moves DEF Incident
<1>3. TypeOK'
  <2>1. drive' \in Drives /\ act' \in Rows
    BY EnterSteps
  <2>2. /\ status' \in {status, "incident"} /\ at' \in {at, "here"}
        /\ timer' \in {timer, "armed"} /\ alarm' \in {alarm, TRUE}
    BY EnterSteps DEF Incident
  <2> QED
    BY <1>1, <2>1, <2>2 DEF TypeOK, Rows, Drives, Places, Reads
<1>4. drive.i = 0 /\ drive.completed = 0 /\ drive.live = 0
  BY <1>1 DEF Passed, Counts, Drives
<1>5. ~Fired /\ act.settled = "none" => left = {}
  BY DEF TypeOK, Flows, Departures, Settlement
<1>6. CASE Fired /\ Stay("teardown") /\ UNCHANGED <<inst, act, timer, alarm>>
  <2>1. Counts' /\ Pinned'
    BY <1>1, <1>4, <1>6 DEF Passed, Counts, Pinned, Stay, To, Finished, Rows, Reading
  <2>2. Others
    BY <1>1, <1>6 DEF SeenNow, Settlement, Departures, FireSeen, Stay, To, Fired, Reading, Finished, Closed, Open
  <2> QED BY <1>3, <2>1, <2>2
<1>7. CASE ~Fired /\ ~act.pinned /\ Incident /\ UNCHANGED <<act, timer, alarm>>
  <2>1. Counts' /\ Pinned'
    BY <1>1, <1>2, <1>4, <1>7 DEF Passed, Counts, Pinned, To, Finished, Rows, Reading
  <2>2. Others
    BY <1>1, <1>2, <1>7, <1>5 DEF Pinned, SeenNow, Settlement, Departures, FireSeen, To, Fired, Reading, Finished, Closed, Open
  <2> QED BY <1>3, <2>1, <2>2
<1>8. ASSUME ~Fired, ~act.pinned, UNCHANGED inst, timer' = timer \/ (timer' = "armed" /\ host.timed),
             NEW n \in 0..Cap, PinnedAt(n)
      PROVE  VisitInv'
  <2>1. Counts' /\ Pinned'
    BY <1>1, <1>4, <1>8 DEF Passed, Counts, Pinned, PinnedAt, To, Finished, Rows, Reading, Iterations
  <2>2. Settlement'
    <3>1. aborted' = "none" /\ ~exited' /\ act'.settled \in {"all", "none"} /\ ~act'.applied
      BY <1>1, <1>8 DEF Pinned, PinnedAt, Settlement, TypeOK
    <3>2. act'.settled = "all" => \A j \in Iterations : ~(j < act'.n)
      BY <1>8 DEF PinnedAt, Iterations
    <3> QED BY <3>1, <3>2 DEF Settlement
  <2>3. left = {} /\ timer' # "fired" /\ drive'.pc = "each"
    BY <1>8, <1>5 DEF Pinned, PinnedAt, To, Fired
  <2>4. drive'.seen.applied = act'.applied
    BY <1>8, EnterSteps DEF PinnedAt, Pinned, Drives, Reads, Rows
  <2>5. SeenNow' /\ FireSeen'
    BY <1>8, <2>3, <2>4 DEF PinnedAt, Pinned, SeenNow, FireSeen, Fired, Reading
  <2>6. Departures'
    BY <1>1, <1>8, <2>3 DEF Departures, Fired, Reading
  <2> QED BY <1>3, <2>1, <2>2, <2>5, <2>6
<1>9. CASE /\ ~Fired /\ act.pinned /\ UNCHANGED <<inst, act, timer, alarm>>
           /\ To(TakenUp, drive.i, drive.completed, drive.live, Now)
  <2>1. drive'.seen.settled = act.settled /\ drive'.seen.applied = act.applied
    BY <1>9 DEF To, Now
  <2>2. Counts' /\ Pinned'
    BY <1>1, <1>4, <1>9 DEF Passed, Counts, Pinned, To, Finished, Rows, Reading, TakenUp
  <2>3. Others
    BY <1>1, <1>9, <1>5, <2>1 DEF SeenNow, Settlement, Departures, FireSeen, To, Fired, Reading, Finished, Closed, Open, TakenUp
  <2> QED BY <1>3, <2>2, <2>3
<1> QED BY EnterSteps, <1>6, <1>7, <1>8, <1>9

-----------------------------------------------------------------------------
(* The settles, the abort and the end of a drive. *)

\* The first settle wins, and touches nothing else of the row.
LEMMA SettledRow ==
  ASSUME act \in Rows, NEW kind \in Kinds
  PROVE  LET row == Settled(act, kind)
         IN  /\ row \in Rows
             /\ row.settled = IF act.settled = "none" THEN kind ELSE act.settled
             /\ row.pinned = act.pinned /\ row.n = act.n /\ row.applied = act.applied
             /\ row.out = act.out
  BY DEF Settled, Rows

LEMMA ConditionSteps ==
  ASSUME TypeOK, Counts, Condition
  PROVE  /\ drive.pc = "condition" /\ UNCHANGED <<marks, deadline, wanted, left, bounds>>
         /\ drive' \in Drives /\ act' \in Rows
         /\ \/ /\ To("each", drive.i + 1, drive.completed + 1, drive.live, drive.seen)
               /\ UNCHANGED <<inst, act, work, token>>
            \/ drive.seen.settled = "none" /\ Incident /\ UNCHANGED <<act, work, token>>
            \/ /\ drive.seen.settled = "none" /\ UNCHANGED inst
               /\ To("cancel", drive.i, drive.completed + 1, drive.live, drive.seen)
               /\ act' = Settled(act, "condition")
               /\ work' = IF host.body = "task" THEN [i \in Iterations |-> Abandoned(work[i])] ELSE work
               /\ token' = [i \in Iterations |-> IF token[i] = "active" THEN "discarded" ELSE token[i]]
<1>1. drive \in Drives /\ act \in Rows
  BY RecordTypes
<1>2. drive.pc = "condition" /\ UNCHANGED <<marks, deadline, wanted, left, bounds>>
  BY DEF Condition
<1>3. drive.i < Cap /\ drive.completed < Cap
  BY <1>1, <1>2, Numbers DEF Passed, Counts, Drives, Rows
<1>4. CASE Counted /\ UNCHANGED <<inst, act, work, token>>
  BY <1>1, <1>2, <1>3, <1>4, Moves, MoveTypes
<1>5. CASE drive.seen.settled = "none" /\ Incident /\ UNCHANGED <<act, work, token>>
  BY <1>1, <1>2, <1>5, RestTypes DEF Incident
<1>6. CASE /\ drive.seen.settled = "none" /\ UNCHANGED inst
           /\ drive' = [drive EXCEPT !.pc = "cancel", !.completed = @ + 1,
                          !.todo = {i \in Iterations : host.body = "call" /\ work[i] = "open"}]
           /\ act' = Settled(act, "condition")
           /\ work' = IF host.body = "task" THEN [i \in Iterations |-> Abandoned(work[i])] ELSE work
           /\ token' = [i \in Iterations |-> IF token[i] = "active" THEN "discarded" ELSE token[i]]
  <2> DEFINE c == drive.completed + 1
             todo == {i \in Iterations : host.body = "call" /\ work[i] = "open"}
  <2>1. c \in 0..Cap /\ todo \in SUBSET Iterations /\ "cancel" \in Places
    BY <1>1, <1>3, Numbers DEF Drives, Places
  <2>2. drive' = [drive EXCEPT !.pc = "cancel", !.completed = c, !.todo = todo]
    BY <1>6
  <2> HIDE DEF todo
  <2>3. To("cancel", drive.i, drive.completed + 1, drive.live, drive.seen)
    BY <1>1, <2>2 DEF To, Drives
  <2> HIDE DEF c
  <2>4. drive' \in Drives
    BY <1>1, <2>1, <2>2 DEF Drives
  <2>5. act' \in Rows
    BY <1>1, <1>6, SettledRow DEF Kinds
  <2> QED BY <1>2, <1>6, <2>3, <2>4, <2>5
<1> QED BY <1>4, <1>5, <1>6 DEF Condition

LEMMA ConditionKeeps == ASSUME VisitInv, Condition PROVE VisitInv'
<1> USE DEF VisitInv, bounds, inst, marks, deadline
<1>1. /\ drive \in Drives /\ drive' \in Drives /\ act \in Rows /\ act' \in Rows
      /\ drive.pc = "condition"
      /\ UNCHANGED <<marks, deadline, wanted, left, bounds>>
  BY RecordTypes, ConditionSteps
<1>2. \A j \in Iterations : Finished(j) => Finished(j)'
  BY FinishedStays DEF Next, Step
<1>3. TypeOK'
  <2>1. /\ work' \in [Iterations -> {"none", "open", "completed", "failed", "thrown", "applied", "raised", "cancelled"}]
        /\ token' \in [Iterations -> {"none", "active", "consumed", "discarded"}]
    BY ConditionSteps DEF TypeOK, Abandoned
  <2> QED BY <1>1, <2>1, ConditionSteps DEF TypeOK, Drives, Places, Reads, Rows, Incident
<1>4. CASE /\ To("each", drive.i + 1, drive.completed + 1, drive.live, drive.seen)
           /\ UNCHANGED <<inst, act, work, token>>
  <2>1. Counts'
    BY <1>1, <1>2, <1>4 DEF Passed, Counts, To, Drives, Rows, Finished, Iterations
  <2>2. Pinned' /\ SeenNow' /\ Settlement' /\ Departures' /\ FireSeen'
    BY <1>1, <1>4 DEF Pinned, SeenNow, Settlement, Departures, FireSeen, To, Reading, Fired, Closed, Open, Finished
  <2> QED BY <1>3, <2>1, <2>2
<1>5. CASE drive.seen.settled = "none" /\ Incident /\ UNCHANGED <<act, work, token>>
  <2>1. To("idle", 0, 0, 0, Unseen) /\ status' = "incident"
    BY <1>1, <1>5, Moves DEF Incident
  <2>2. Counts' /\ Pinned'
    BY <1>1, <1>5, <2>1 DEF Passed, Counts, Pinned, To, Rows, Finished, Reading, Iterations
  <2>3. SeenNow' /\ Settlement' /\ Departures' /\ FireSeen'
    BY <1>1, <1>5, <2>1 DEF SeenNow, Settlement, Departures, FireSeen, To, Reading, Fired, Closed, Open, Finished
  <2> QED BY <1>3, <2>2, <2>3
<1>6. CASE /\ drive.seen.settled = "none" /\ UNCHANGED inst
           /\ To("cancel", drive.i, drive.completed + 1, drive.live, drive.seen)
           /\ act' = Settled(act, "condition")
           /\ work' = IF host.body = "task" THEN [i \in Iterations |-> Abandoned(work[i])] ELSE work
           /\ token' = [i \in Iterations |-> IF token[i] = "active" THEN "discarded" ELSE token[i]]
  <2>1. /\ act'.pinned = act.pinned /\ act'.n = act.n /\ act'.applied = act.applied /\ act'.out = act.out
        /\ act'.settled = IF act.settled = "none" THEN "condition" ELSE act.settled
    BY <1>1, <1>6, SettledRow DEF Kinds
  <2>2. Counts'
    <3>1. drive.i \in Iterations
      BY <1>1, Numbers DEF Counts, Iterations, Drives, Rows
    <3>2. drive.completed = drive.i => \A j \in Iterations : j < drive.i + 1 => Finished(j)'
      BY <1>1, <1>2, <3>1 DEF Passed, Counts, Iterations, Drives
    <3> QED BY <1>1, <1>6, <2>1, <3>2 DEF Passed, Counts, To, Drives, Rows
  <2>3. Pinned'
    BY <1>1, <1>6, <2>1 DEF Pinned, Counts, To, Reading, Abandoned, TypeOK, Rows, Drives
  <2>4. SeenNow' /\ FireSeen'
    BY <1>1, <1>6, <2>1 DEF SeenNow, FireSeen, Departures, To, Reading, Fired
  <2>5. Settlement'
    BY <1>1, <1>2, <1>6, <2>1 DEF Settlement, SeenNow, Departures, To, Fired, Reading, Finished, Abandoned, Closed, Open, TypeOK
  <2>6. Departures'
    BY <1>1, <1>6, <2>1 DEF Departures, SeenNow, To, Reading, Fired
  <2> QED BY <1>3, <2>2, <2>3, <2>4, <2>5, <2>6
<1> QED BY ConditionSteps, <1>4, <1>5, <1>6

LEMMA CancelKeeps == ASSUME VisitInv, CancelChildren PROVE VisitInv'
<1> USE DEF VisitInv, CancelChildren, bounds, inst, marks, deadline
<1>1. drive \in Drives /\ act \in Rows /\ Now \in Reads /\ drive.pc = "cancel"
  BY RecordTypes
<1>2. \A j \in Iterations : Finished(j) => Finished(j)'
  BY FinishedStays DEF Next, Step
<1>3. ASSUME NEW i \in drive.todo, work' = [work EXCEPT ![i] = Abandoned(@)],
             drive' = [drive EXCEPT !.todo = @ \ {i}]
      PROVE  VisitInv'
  <2>1. Stay("cancel") /\ drive' \in Drives
    BY <1>1, <1>3 DEF Stay, To, Drives
  <2>2. \A j \in Iterations : work'[j] = work[j] \/ (work[j] = "open" /\ work'[j] \in {"failed", "cancelled"})
    BY <1>3 DEF TypeOK, Abandoned
  <2>3. TypeOK'
    BY <1>3, <2>1 DEF TypeOK, Abandoned, Drives, Places, Reads
  <2>4. Counts' /\ Pinned'
    BY <1>1, <1>2, <2>1, <2>2 DEF Passed, Counts, Pinned, Stay, To, Reading
  <2>5. SeenNow' /\ Settlement' /\ Departures' /\ FireSeen'
    BY <1>1, <1>2, <2>1, <2>2 DEF SeenNow, Settlement, Departures, FireSeen, Stay, To, Reading, Fired, Closed, Open, Finished
  <2> QED BY <2>3, <2>4, <2>5
<1>4. CASE work' = work /\ drive' = [drive EXCEPT !.pc = "each", !.i = @ + 1, !.seen = Now]
  <2>1. To("each", drive.i + 1, drive.completed, drive.live, Now)
    BY <1>1, <1>4 DEF To, Drives
  <2>2. drive'.seen.settled = act.settled /\ drive'.seen.applied = act.applied
    BY <2>1 DEF To, Now
  <2>3. drive' \in Drives
    <3> DEFINE k == drive.i + 1
    <3>1. k \in 0..Cap /\ "each" \in Places
      BY <1>1, Numbers DEF Passed, Counts, Drives, Rows, Places
    <3>2. drive' = [drive EXCEPT !.pc = "each", !.i = k, !.seen = Now]
      BY <1>4
    <3> HIDE DEF k
    <3> QED BY <1>1, <3>1, <3>2 DEF Drives
  <2>4. TypeOK'
    BY <1>4, <2>3 DEF TypeOK, Drives, Places, Reads
  <2>5. Counts'
    BY <1>1, <1>4, <2>1 DEF Passed, Counts, To, Drives, Rows, Finished, Iterations
  <2>6. Pinned' /\ SeenNow' /\ Settlement' /\ Departures' /\ FireSeen'
    BY <1>1, <1>4, <2>1, <2>2 DEF Pinned, SeenNow, Settlement, Departures, FireSeen, To, Reading, Fired, Closed, Open, Finished
  <2> QED BY <2>4, <2>5, <2>6
<1> QED BY <1>3, <1>4

LEMMA AbortKeeps == ASSUME VisitInv, Abort PROVE VisitInv'
<1> USE DEF VisitInv, bounds, inst, marks
<1>1. /\ drive \in Drives /\ act \in Rows /\ Now \in Reads /\ drive.pc = "abort"
      /\ UNCHANGED <<work, token, exited, alarm, fire, wanted, bounds>>
  BY RecordTypes DEF Abort
<1>2. /\ drive.seen.settled = "none" /\ left = {} /\ status # "incident"
      /\ act.settled = IF Fired THEN "abort" ELSE "none"
  BY <1>1 DEF SeenNow, Departures, Reading
<1>3. CASE /\ act.settled = "abort" /\ drive' = [drive EXCEPT !.pc = TakenUp, !.seen = Now]
           /\ UNCHANGED <<inst, act, aborted, timer, left>>
  <2>1. To(TakenUp, drive.i, drive.completed, drive.live, Now) /\ TakenUp \in {"mark", "teardown"}
    BY <1>1, <1>3 DEF To, Drives, TakenUp
  <2>2. drive'.seen.settled = "abort"
    BY <1>3, <2>1 DEF To, Now
  <2>3. drive' \in Drives
    BY <1>1, <1>3, <2>1 DEF Drives, Places
  <2>4. TypeOK'
    BY <1>1, <1>3, <2>3 DEF TypeOK, Drives, Places, Reads
  <2>5. Counts' /\ Pinned'
    BY <1>1, <1>3, <2>1 DEF Passed, Counts, Pinned, To, Reading, Finished
  <2>6. SeenNow' /\ Settlement' /\ Departures' /\ FireSeen'
    BY <1>1, <1>2, <1>3, <2>1, <2>2 DEF SeenNow, Settlement, Departures, FireSeen, To, Reading, Fired, Closed, Open, Finished
  <2> QED BY <2>4, <2>5, <2>6
<1>4. CASE Leave("timer") /\ timer = "fired" /\ UNCHANGED <<inst, act, aborted, timer>>
  <2>1. drive' = Idle /\ To("idle", 0, 0, 0, Unseen) /\ left' = {"timer"}
    BY <1>1, <1>2, <1>4, Moves DEF Leave
  <2>2. TypeOK'
    BY <1>1, <1>4, <2>1, RestTypes DEF TypeOK, Drives, Places, Reads, Flows
  <2>3. Counts' /\ Pinned'
    BY <1>1, <1>4, <2>1 DEF Passed, Counts, Pinned, To, Reading, Finished, Rows, Iterations
  <2>4. SeenNow' /\ Settlement' /\ Departures' /\ FireSeen'
    BY <1>1, <1>2, <1>4, <2>1 DEF SeenNow, Settlement, Departures, FireSeen, To, Reading, Fired, Closed, Open, Finished
  <2> QED BY <2>2, <2>3, <2>4
<1>5. ASSUME act.settled # "abort", act' = Settled(act, "abort"), Go("teardown"), left' = left,
             \/ /\ aborted' = "caught" /\ status' = "running" /\ at' = "error" /\ timer # "fired"
                /\ timer' = IF host.timed THEN "cancelled" ELSE timer
             \/ aborted' = "uncaught" /\ UNCHANGED <<inst, timer>>
      PROVE  VisitInv'
  <2>1. /\ act' \in Rows /\ act'.pinned = act.pinned /\ act'.n = act.n /\ act'.applied = act.applied
        /\ act'.out = act.out /\ act'.settled = "abort"
    BY <1>1, <1>2, <1>5, SettledRow DEF Kinds
  <2>2. Stay("teardown") /\ drive' \in Drives
    BY <1>1, <1>5, Moves, MoveTypes DEF Places
  <2>3. TypeOK'
    BY <1>1, <1>5, <2>1, <2>2 DEF TypeOK, Drives, Places, Reads, Rows, Flows
  <2>4. ~Fired /\ timer' # "fired" /\ ~act.applied
    BY <1>2, <1>5 DEF Fired, Settlement
  <2>5. Counts' /\ Pinned'
    BY <1>1, <1>5, <2>1, <2>2 DEF Passed, Counts, Pinned, Stay, To, Reading, Finished
  <2>6. SeenNow' /\ FireSeen' /\ Departures'
    BY <1>1, <1>2, <1>5, <2>1, <2>2, <2>4 DEF SeenNow, Departures, FireSeen, Stay, To, Reading, Fired
  <2>7. Settlement'
    BY <1>1, <1>2, <1>5, <2>1, <2>2, <2>4 DEF Settlement, Stay, To, Fired, Closed, Open
  <2> QED BY <2>3, <2>5, <2>6, <2>7
<1> QED BY <1>3, <1>4, <1>5 DEF Abort

LEMMA TeardownKeeps == ASSUME VisitInv, Teardown PROVE VisitInv'
<1> USE DEF VisitInv, bounds, inst, marks, deadline
<1>1. /\ drive \in Drives /\ act \in Rows /\ drive.pc = "teardown"
      /\ UNCHANGED <<inst, act, marks, deadline, wanted, bounds>>
  BY RecordTypes DEF Teardown
<1>2. /\ \A j \in Iterations : Finished(j) => Finished(j)'
      /\ Closed'
      /\ \A j \in Iterations : (work[j] = "none" => work'[j] = "none") /\ (token[j] = "none" => token'[j] = "none")
      /\ work' \in [Iterations -> {"none", "open", "completed", "failed", "thrown", "applied", "raised", "cancelled"}]
      /\ token' \in [Iterations -> {"none", "active", "consumed", "discarded"}]
  BY FinishedStays DEF Next, Step, Teardown, Abandoned, Closed, Open, TypeOK
<1>3. CASE Fired /\ Leave("timer")
  <2>1. drive' = Idle /\ To("idle", 0, 0, 0, Unseen) /\ left' = left \cup {"timer"}
    BY <1>1, <1>3, Moves DEF Leave
  <2>2. TypeOK'
    BY <1>1, <1>2, <2>1, RestTypes DEF TypeOK, Drives, Places, Reads, Flows
  <2>3. Counts' /\ Pinned'
    BY <1>1, <1>2, <2>1 DEF Passed, Counts, Pinned, To, Reading, Rows, Iterations
  <2>4. SeenNow' /\ Settlement' /\ Departures' /\ FireSeen'
    BY <1>1, <1>2, <1>3, <2>1 DEF SeenNow, Settlement, Departures, FireSeen, To, Reading, Fired, Closed, Open
  <2> QED BY <2>2, <2>3, <2>4
<1>4. CASE ~Fired /\ Go("mark") /\ left' = left
  <2>1. Stay("mark") /\ drive' \in Drives
    BY <1>1, <1>4, Moves, MoveTypes DEF Places
  <2>2. TypeOK'
    BY <1>1, <1>2, <1>4, <2>1 DEF TypeOK, Drives, Places, Reads
  <2>3. Counts' /\ Pinned'
    BY <1>1, <1>2, <2>1 DEF Passed, Counts, Pinned, Stay, To, Reading
  <2>4. SeenNow' /\ Settlement' /\ Departures' /\ FireSeen'
    BY <1>1, <1>2, <1>4, <2>1 DEF SeenNow, Settlement, Departures, FireSeen, Stay, To, Reading, Fired, Closed, Open
  <2> QED BY <2>2, <2>3, <2>4
<1> QED BY <1>3, <1>4 DEF Teardown, Fired

LEMMA MarkKeeps == ASSUME VisitInv, Mark \/ Raise PROVE VisitInv'
<1> USE DEF VisitInv, bounds, inst, rows, marks, deadline
<1>1. /\ drive \in Drives /\ act \in Rows /\ drive.pc \in {"mark", "raise"} /\ act.settled = "abort"
      /\ UNCHANGED <<rows, aborted, deadline, wanted, bounds>>
  BY RecordTypes DEF SeenNow, Mark, Raise
<1>2. CASE Mark /\ (Leave("error") \/ (drive' = Idle /\ left' = left))
  <2>1. /\ drive' = Idle /\ To("idle", 0, 0, 0, Unseen) /\ drive.pc = "mark" /\ exited' = TRUE /\ UNCHANGED inst
        /\ left' = left \/ (left' = left \cup {"error"} /\ aborted = "caught")
    BY <1>1, <1>2, Moves DEF Leave, Mark, Idle, Go
  <2>2. TypeOK'
    BY <1>1, <1>2, <2>1, RestTypes DEF TypeOK, Drives, Places, Reads, Flows
  <2>3. Counts' /\ Pinned'
    BY <1>1, <2>1 DEF Passed, Counts, Pinned, To, Reading, Rows, Iterations, Finished
  <2>4. SeenNow' /\ Settlement' /\ Departures' /\ FireSeen'
    BY <1>1, <2>1 DEF SeenNow, Settlement, Departures, FireSeen, To, Reading, Fired, Closed, Open, Finished
  <2> QED BY <2>2, <2>3, <2>4
<1>3. CASE Mark /\ Go("raise") /\ left' = left
  <2>1. Stay("raise") /\ drive' \in Drives /\ drive.pc = "mark" /\ exited' = TRUE /\ UNCHANGED inst
    BY <1>1, <1>3, Moves, MoveTypes DEF Places, Mark
  <2>2. aborted # "caught" /\ drive.seen.settled # "abort"
    BY <1>1, <1>3, <2>1 DEF Mark, Leave, Stay, To, Idle, Drives
  <2>3. TypeOK'
    BY <1>1, <1>3, <2>1 DEF TypeOK, Drives, Places, Reads
  <2>4. Counts' /\ Pinned'
    BY <1>1, <2>1 DEF Passed, Counts, Pinned, Stay, To, Reading, Finished
  <2>5. SeenNow' /\ Settlement' /\ Departures' /\ FireSeen'
    BY <1>1, <1>3, <2>1, <2>2 DEF SeenNow, Settlement, Departures, FireSeen, Stay, To, Reading, Fired, Closed, Open, Finished
  <2> QED BY <2>3, <2>4, <2>5
<1>4. CASE Raise
  <2>1. drive' = Idle /\ To("idle", 0, 0, 0, Unseen) /\ status' = "incident" /\ at' = "here" /\ UNCHANGED <<marks, left>> /\ drive.pc = "raise"
    BY <1>1, <1>4, Moves DEF Raise, Incident
  <2>2. TypeOK'
    BY <1>1, <2>1, RestTypes DEF TypeOK, Drives, Places, Reads
  <2>3. Counts' /\ Pinned'
    BY <1>1, <2>1 DEF Passed, Counts, Pinned, To, Reading, Rows, Iterations, Finished
  <2>4. SeenNow' /\ Settlement' /\ Departures' /\ FireSeen'
    BY <1>1, <2>1 DEF SeenNow, Settlement, Departures, FireSeen, To, Reading, Fired, Closed, Open, Finished
  <2> QED BY <2>2, <2>3, <2>4
<1> QED BY <1>2, <1>3, <1>4 DEF Mark

\* The visit settles with its last iteration or by the settle the drive has read.
LEMMA EndKeeps == ASSUME VisitInv, End PROVE VisitInv'
<1> USE DEF VisitInv, bounds, inst, marks, deadline
<1>1. /\ drive \in Drives /\ act \in Rows /\ drive.pc = "end" /\ status # "incident"
      /\ drive' = Idle /\ To("idle", 0, 0, 0, Unseen)
      /\ UNCHANGED <<work, marks, deadline, wanted, bounds>>
  BY RecordTypes, Moves DEF End, Leave, Departures
<1>2. \A j \in Iterations : Finished(j) => Finished(j)'
  BY FinishedStays DEF Next, Step
<1>3. /\ drive.seen.settled = act.settled \/ (Fired /\ drive.seen.settled = "none" /\ act.settled = "abort")
      /\ act.pinned /\ (Fired => act.settled # "none")
      /\ ~Fired => drive.seen.applied = act.applied /\ drive.seen.settled # "abort"
  BY <1>1 DEF SeenNow, Pinned, Reading
<1>4. CASE status' = "waiting" /\ at' = "here" /\ UNCHANGED <<act, token, left>> /\ drive.seen.settled = "none"
  <2>1. TypeOK'
    BY <1>1, <1>4, RestTypes DEF TypeOK, Drives, Places, Reads
  <2>2. Counts' /\ Pinned'
    BY <1>1, <1>4 DEF Passed, Counts, Pinned, To, Reading, Rows, Iterations, Finished
  <2>3. SeenNow' /\ Settlement' /\ Departures' /\ FireSeen'
    BY <1>1, <1>3, <1>4 DEF SeenNow, Settlement, Departures, FireSeen, To, Reading, Fired, Closed, Open, Finished
  <2> QED BY <2>1, <2>2, <2>3
<1>5. ASSUME drive.seen.settled # "none" \/ drive.completed >= act.n
      PROVE  act.settled = "none" => \A j \in Iterations : j < act.n => Finished(j)
  <2>1. act.settled = "none" => drive.completed = drive.i /\ drive.i = act.n
    BY <1>1, <1>3, <1>5 DEF Passed, Counts, Drives, Rows
  <2> QED BY <1>1, <2>1 DEF Passed, Counts
<1>6. CASE /\ drive.seen.settled # "none" \/ drive.completed >= act.n
           /\ left' = left \cup {"next"} /\ UNCHANGED <<inst, act, token>>
           /\ drive.seen.applied \/ act.applied
  <2>1. ~Fired => act.settled \in {"all", "condition"}
    BY <1>3, <1>6 DEF Settlement, Fired
  <2>2. TypeOK'
    BY <1>1, <1>6, RestTypes DEF TypeOK, Drives, Places, Reads, Flows
  <2>3. Counts' /\ Pinned'
    BY <1>1, <1>6 DEF Passed, Counts, Pinned, To, Reading, Rows, Iterations, Finished
  <2>4. SeenNow' /\ Settlement' /\ Departures' /\ FireSeen'
    BY <1>1, <1>3, <1>6, <2>1 DEF SeenNow, Settlement, Departures, FireSeen, To, Reading, Fired, Closed, Open, Finished
  <2> QED BY <2>2, <2>3, <2>4
<1>7. CASE /\ drive.seen.settled # "none" \/ drive.completed >= act.n
           /\ left' = left \cup {"next"} /\ ~act.applied
           /\ act' = [Settled(act, "all") EXCEPT
                        !.applied = TRUE, !.out = {i \in Iterations : i < act.n /\ Finished(i)}]
           /\ token' = [i \in Iterations |-> IF token[i] = "active" THEN "consumed" ELSE token[i]]
           /\ status' = "running" /\ at' = "next"
  <2> DEFINE finished == {i \in Iterations : i < act.n /\ Finished(i)}
  <2>1. /\ act' \in Rows /\ act'.applied /\ act'.out = finished
        /\ act'.pinned = act.pinned /\ act'.n = act.n
        /\ act'.settled = IF act.settled = "none" THEN "all" ELSE act.settled
    <3> HIDE DEF finished
    <3>1. finished \subseteq Iterations
      BY DEF finished
    <3> DEFINE row == Settled(act, "all")
    <3>2. /\ row \in Rows /\ row.pinned = act.pinned /\ row.n = act.n
          /\ row.settled = IF act.settled = "none" THEN "all" ELSE act.settled
      BY <1>1, SettledRow DEF Kinds
    <3>3. act' = [row EXCEPT !.applied = TRUE, !.out = finished]
      BY <1>7 DEF finished
    <3> HIDE DEF row
    <3> QED BY <3>1, <3>2, <3>3 DEF Rows
  <2>2. act'.settled # "condition" \/ act.settled = "condition"
    BY <2>1
  <2>3. TypeOK'
    BY <1>1, <1>7, <2>1, RestTypes DEF TypeOK, Drives, Places, Reads, Flows, Rows
  <2>4. Counts' /\ Pinned'
    <3>1. \A j \in Iterations : token[j] = "none" => token'[j] = "none"
      BY <1>7
    <3> QED BY <1>1, <2>1, <3>1 DEF Passed, Counts, Pinned, To, Reading, Rows, Iterations
  <2>5. ~Fired => act'.settled \in {"all", "condition"}
    BY <1>1, <1>3, <2>1 DEF Rows, Kinds
  <2>6. ~Fired => act'.out = {j \in Iterations : Finished(j)'}
    <3>1. ASSUME ~Fired PROVE \A j \in Iterations : token[j] # "active"
      <4>1. act.settled = "condition" \/ \A j \in Iterations : j < act.n => Finished(j)
        BY <1>5, <1>7, <2>1, <2>5, <3>1 DEF Settlement
      <4>2. \A j \in Iterations : j < act.n \/ token[j] = "none"
        BY <1>1 DEF Pinned, Rows, Iterations
      <4> QED BY <4>1, <4>2 DEF Settlement, Pinned, Finished
    <3>2. ASSUME ~Fired, NEW j \in Iterations PROVE Finished(j)' = (j < act.n /\ Finished(j))
      BY <1>1, <1>7, <3>1, <3>2 DEF Pinned, Finished, Iterations, Rows, TypeOK
    <3> QED BY <2>1, <3>2
  <2>7. Settlement'
    BY <1>1, <1>2, <1>5, <1>7, <2>1, <2>5, <2>6 DEF Settlement, Fired, Closed, Open, To
  <2>8. SeenNow' /\ Departures' /\ FireSeen'
    BY <1>1, <1>3, <1>7, <2>1, <2>5 DEF SeenNow, Departures, FireSeen, To, Reading, Fired, Closed, Open
  <2> QED BY <2>3, <2>4, <2>7, <2>8
<1> QED BY <1>4, <1>6, <1>7 DEF End, Leave, ApplyCompletion


-----------------------------------------------------------------------------
(* The workers and children, the alarm, the operator, and a drive that dies. *)

LEMMA WorkKeeps == ASSUME VisitInv, Work PROVE VisitInv'
<1> USE DEF VisitInv, bounds, inst, marks, deadline
<1>1. PICK i \in Iterations : Resolve(i)
  BY DEF Work
<1>2. /\ UNCHANGED <<inst, act, token, marks, deadline, drive, left, bounds>>
      /\ wanted' /\ work[i] = "open"
      /\ \E outcome \in {"completed", "thrown", "failed"} : work' = [work EXCEPT ![i] = outcome]
  BY <1>1 DEF Resolve, Wake
<1>3. TypeOK'
  BY <1>2 DEF TypeOK
<1>4. \A j \in Iterations : /\ Finished(j)' = Finished(j) /\ (Open(j)' => Open(j))
                            /\ work[j] = "none" => work'[j] = "none"
                            /\ work'[j] = "open" => work[j] = "open"
  BY <1>2 DEF TypeOK, Finished, Open
<1>5. drive \in Drives /\ act \in Rows
  BY RecordTypes
<1>6. Counts'
  BY <1>2, <1>4, <1>5, Numbers DEF Passed, Counts, Drives, Rows, Iterations, Finished
<1>7. Pinned'
  BY <1>2, <1>4 DEF Pinned, Reading
<1>8. SeenNow' /\ Departures' /\ FireSeen'
  BY <1>2, <1>4 DEF SeenNow, Departures, FireSeen, Reading, Fired, Closed
<1>9. Settlement'
  BY <1>2, <1>4 DEF Settlement, Fired, Closed
<1> QED BY <1>3, <1>6, <1>7, <1>8, <1>9

\* The alarm of a frozen instance with a sub-process claims the timer, and nobody drives then.
LEMMA RingKeeps == ASSUME VisitInv, Ring PROVE VisitInv'
<1> USE DEF VisitInv, bounds, inst, rows, marks
<1>1. /\ UNCHANGED <<inst, rows, marks, drive, wanted, left, bounds>>
      /\ timer = "armed" /\ (timer' = timer \/ (timer' = "fired" /\ status = "incident"))
      /\ {alarm', fire'} \subseteq BOOLEAN
  BY DEF Ring, TypeOK
<1>2. TypeOK'
  BY <1>1 DEF TypeOK
<1>3. Counts' /\ Pinned'
  BY <1>1 DEF Passed, Counts, Pinned, Reading, Finished
<1>4. SeenNow' /\ Settlement' /\ Departures' /\ FireSeen'
  BY <1>1 DEF SeenNow, Settlement, Departures, FireSeen, Reading, Fired, Closed, Open, Finished
<1> QED BY <1>2, <1>3, <1>4

\* The alarm's batch claims the timer and aborts the visit that nothing has settled.
LEMMA FireKeeps == ASSUME VisitInv, Fire PROVE VisitInv'
<1> USE DEF VisitInv, bounds, inst, marks
<1>1. /\ UNCHANGED <<work, token, marks, drive, left, bounds>> /\ drive \in Drives /\ act \in Rows
  BY RecordTypes DEF Fire
<1>2. CASE UNCHANGED <<timer, act, inst, wanted, alarm>> /\ fire' = FALSE
  <2>1. TypeOK'
    <3>1. {alarm', fire', wanted'} \subseteq BOOLEAN
      BY <1>2 DEF TypeOK
    <3>2. act' = act /\ timer' = timer /\ status' = status /\ at' = at
      BY <1>2
    <3> QED BY <1>1, <3>1, <3>2 DEF TypeOK
  <2>2. Counts' /\ Pinned'
    BY <1>1, <1>2 DEF Passed, Counts, Pinned, Reading, Finished
  <2>3. SeenNow' /\ Settlement' /\ Departures' /\ FireSeen'
    BY <1>1, <1>2 DEF SeenNow, Settlement, Departures, FireSeen, Reading, Fired, Closed, Open, Finished
  <2> QED BY <2>1, <2>2, <2>3
<1>3. CASE /\ timer = "armed" /\ timer' = "fired" /\ act' = Settled(act, "abort")
           /\ status' = "running" /\ at' = "timer" /\ wanted' = TRUE
           /\ fire' = FALSE /\ alarm' = alarm
  <2>1. /\ act' \in Rows /\ act'.pinned = act.pinned /\ act'.n = act.n
        /\ act'.applied = act.applied /\ act'.out = act.out
        /\ act'.settled = IF act.settled = "none" THEN "abort" ELSE act.settled
    BY <1>1, <1>3, SettledRow DEF Kinds
  <2>2. TypeOK'
    BY <1>1, <1>3, <2>1 DEF TypeOK, Flows, Rows
  <2>3. Counts' /\ Pinned'
    BY <1>1, <1>3, <2>1 DEF Passed, Counts, Pinned, Reading, Finished
  <2>4. SeenNow' /\ Departures' /\ FireSeen'
    BY <1>1, <1>3, <2>1 DEF SeenNow, Departures, FireSeen, Reading, Fired
  <2>5. Settlement'
    BY <1>1, <1>3, <2>1 DEF Settlement, Fired, Finished
  <2> QED BY <2>2, <2>3, <2>4, <2>5
<1> QED BY <1>2, <1>3 DEF Fire, Wake

\* An incident is over; what a retry reopens had not finished.
LEMMA RetryKeeps == ASSUME VisitInv, Retry PROVE VisitInv'
<1> USE DEF VisitInv, bounds, inst, marks, deadline
<1>1. /\ UNCHANGED <<at, act, token, marks, deadline, drive, left, host, faults>>
      /\ status = "incident" /\ drive.pc = "idle" /\ status' = "running" /\ wanted'
      /\ retries < MaxRetries /\ retries' = retries + 1
      /\ work' = [i \in Iterations |-> IF Reopened(i) THEN "open" ELSE work[i]]
  BY DEF Retry, Wake
<1>2. TypeOK'
  BY <1>1, Numbers DEF TypeOK
<1>3. \A j \in Iterations : /\ Finished(j)' = Finished(j)
                            /\ work[j] = "none" => work'[j] = "none"
  BY <1>1 DEF TypeOK, Finished, Reopened
<1>4. drive \in Drives /\ act \in Rows
  BY RecordTypes
<1>5. Counts'
  BY <1>1, <1>3, <1>4, Numbers DEF Passed, Counts, Drives, Rows, Iterations
<1>6. Pinned'
  BY <1>1, <1>3 DEF Pinned, Reading
<1>7. SeenNow' /\ Departures' /\ FireSeen'
  BY <1>1 DEF SeenNow, Departures, FireSeen, Reading, Fired
<1>8. Settlement'
  BY <1>1, <1>3 DEF Settlement, Departures, Fired, Closed
<1> QED BY <1>2, <1>5, <1>6, <1>7, <1>8

LEMMA DieKeeps == ASSUME VisitInv, Die PROVE VisitInv'
<1> USE DEF VisitInv, bounds, inst, rows, marks, deadline
<1>1. /\ UNCHANGED <<inst, rows, marks, deadline, left, host, retries>>
      /\ drive.pc # "idle" /\ wanted' /\ drive' = Idle /\ To("idle", 0, 0, 0, Unseen)
      /\ drive' \in Drives /\ act \in Rows /\ faults < MaxFaults /\ faults' = faults + 1
  BY RecordTypes, RestTypes, Moves DEF Die, Wake
<1>2. TypeOK'
  BY <1>1, Numbers DEF TypeOK, Drives, Places, Reads
<1>3. Counts' /\ Pinned'
  BY <1>1 DEF Passed, Counts, Pinned, Reading, To, Finished, Rows, Iterations
<1>4. SeenNow' /\ Settlement' /\ Departures' /\ FireSeen'
  BY <1>1 DEF SeenNow, Settlement, Departures, FireSeen, Reading, Fired, Closed, Open, Finished, To
<1> QED BY <1>2, <1>3, <1>4

-----------------------------------------------------------------------------
(* Every reachable state. *)

LEMMA VisitInit == Init => VisitInv
<1> SUFFICES ASSUME Init PROVE VisitInv
  OBVIOUS
<1>1. drive = Idle /\ drive \in Drives /\ drive.pc = "idle" /\ drive.i = 0 /\ drive.completed = 0 /\ drive.live = 0
  BY RestTypes DEF Init, Idle
<1>2. act = [pinned |-> FALSE, n |-> 0, settled |-> "none", applied |-> FALSE, out |-> {}]
  BY DEF Init
<1>3. act \in Rows /\ ~act.pinned /\ act.n = 0 /\ act.settled = "none" /\ ~act.applied
  <2>1. 0 \in 0..Cap
    BY Numbers
  <2> QED BY <1>2, <2>1 DEF Rows, Kinds
<1>4. TypeOK
  <2>1. 0 \in 0..MaxRetries /\ 0 \in 0..MaxFaults
    BY Numbers
  <2>2. /\ work = [i \in Iterations |-> "none"] /\ token = [i \in Iterations |-> "none"]
        /\ host \in Hosts /\ status = "running" /\ at = "here" /\ aborted = "none"
        /\ exited = FALSE /\ timer = "none" /\ alarm = FALSE /\ fire = FALSE /\ wanted = TRUE
        /\ left = {} /\ retries = 0 /\ faults = 0
    BY DEF Init
  <2> QED BY <1>1, <1>3, <2>1, <2>2 DEF TypeOK, Drives, Places, Reads, Rows
<1>5. Counts /\ Pinned
  BY <1>1, <1>3 DEF Init, Passed, Counts, Pinned, Reading, Iterations
<1>6. SeenNow /\ Settlement /\ Departures /\ FireSeen
  BY <1>1, <1>3 DEF Init, SeenNow, Settlement, Departures, FireSeen, Reading, Fired
<1> QED BY <1>4, <1>5, <1>6 DEF VisitInv

LEMMA VisitStep == VisitInv /\ [Next]_vars => VisitInv'
<1> SUFFICES ASSUME VisitInv, [Next]_vars PROVE VisitInv'
  OBVIOUS
<1>1. CASE Begin
  BY <1>1, BeginKeeps
<1>2. CASE Enter
  BY <1>2, EnterKeeps
<1>3. CASE Each
  BY <1>3, EachKeeps
<1>4. CASE Condition
  BY <1>4, ConditionKeeps
<1>5. CASE CancelChildren
  BY <1>5, CancelKeeps
<1>6. CASE Abort
  BY <1>6, AbortKeeps
<1>7. CASE Teardown
  BY <1>7, TeardownKeeps
<1>8. CASE Mark \/ Raise
  BY <1>8, MarkKeeps
<1>9. CASE End
  BY <1>9, EndKeeps
<1>10. CASE Work
  BY <1>10, WorkKeeps
<1>11. CASE Ring
  BY <1>11, RingKeeps
<1>12. CASE Fire
  BY <1>12, FireKeeps
<1>13. CASE Retry
  BY <1>13, RetryKeeps
<1>14. CASE Die
  BY <1>14, DieKeeps
<1>15. CASE UNCHANGED vars
  BY <1>15 DEF vars, inst, rows, marks, deadline, bounds, VisitInv, TypeOK, Passed, Counts, Pinned,
       SeenNow, Settlement, Departures, FireSeen, Reading, Fired, Closed, Open, Finished
<1> QED BY <1>1, <1>2, <1>3, <1>4, <1>5, <1>6, <1>7, <1>8, <1>9, <1>10, <1>11, <1>12, <1>13,
           <1>14, <1>15 DEF Next, Step

(* What a drive has counted has finished, what it has read is true until the deadline fires,  *)
(* what each way to settle means, on which flows the visit was left, and that a deadline that *)
(* fired is followed by a drive (drive-loop of multi-instance.ts).                            *)
THEOREM VisitInvariance == Spec => []VisitInv
<1>1. Init => VisitInv
  BY VisitInit
<1>2. VisitInv /\ [Next]_vars => VisitInv'
  BY VisitStep
<1> QED BY <1>1, <1>2, PTL DEF Spec

(* Every row, mark and process of a visit keeps its shape. *)
THEOREM TypeCorrect == Spec => []TypeOK
<1>1. VisitInv => TypeOK
  BY DEF VisitInv
<1> QED BY <1>1, VisitInvariance, PTL

(* A visit without a deadline is left on one flow: the apply, the abort and their              *)
(* fast-forwards agree, however often the visit is walked again and whichever drive dies.      *)
THEOREM OnePathAlways == Spec => []OnePath
<1>1. VisitInv => OnePath
  <2> SUFFICES ASSUME VisitInv, ~host.timed PROVE Cardinality(left) <= 1
    BY DEF OnePath
  <2>1. ~Fired /\ left \subseteq {"next", "error"}
    BY DEF VisitInv, Pinned, Fired, Departures, TypeOK, Flows
  <2>2. ~("next" \in left /\ "error" \in left)
    BY <2>1 DEF VisitInv, Departures, Settlement
  <2>3. left = {} \/ left = {"next"} \/ left = {"error"}
    BY <2>1, <2>2
  <2> QED BY <2>3, FS_EmptySet, FS_Singleton
<1> QED BY <1>1, VisitInvariance, PTL

(* Once the visit is left for good no worker can lease one of its jobs and no token or child   *)
(* is alive, after an abort or a deadline, and with jobs after any settle.                     *)
THEOREM NothingLeftOpenAlways == Spec => []NothingLeftOpen
<1>1. VisitInv => NothingLeftOpen
  <2> SUFFICES ASSUME VisitInv, left # {}, drive.pc = "idle", ~wanted,
                      host.body = "task" \/ act.settled = "abort",
                      NEW i \in Iterations
               PROVE  ~Open(i)
    BY DEF NothingLeftOpen
  <2> USE DEF VisitInv
  <2>1. CASE Fired
    BY <2>1 DEF FireSeen, Departures, Closed
  <2>2. CASE ~Fired /\ "error" \in left
    BY <2>2 DEF Departures, Settlement, Closed
  <2>3. CASE ~Fired /\ "error" \notin left
    <3>1. act.settled \in {"all", "condition"}
      BY <2>3 DEF Departures, TypeOK, Flows
    <3>2. host.body = "task" /\ token[i] = "none"
      BY <3>1 DEF Pinned
    <3>3. i < act.n \/ work[i] = "none"
      BY RecordTypes DEF Pinned, Rows, Iterations
    <3> QED BY <3>1, <3>2, <3>3 DEF Settlement, Finished, Open
  <2> QED BY <2>1, <2>2, <2>3
<1> QED BY <1>1, VisitInvariance, PTL

(* A finished iteration is never opened again, and the aggregate holds exactly what has        *)
(* finished, when it is written and ever after, unless a deadline overtook the completion.     *)
THEOREM FinishedOnceAlways == Spec => FinishedOnce
<1>1. VisitInv /\ VisitInv' /\ [Next]_vars =>
        [/\ \A i \in Iterations : Finished(i) => Finished(i)'
         /\ act'.applied /\ timer' # "fired" => act'.out = {i \in Iterations : Finished(i)'}]_vars
  BY FinishedStays DEF VisitInv, Settlement, Fired
<1> QED BY <1>1, VisitInvariance, PTL DEF Spec, FinishedOnce
=============================================================================
