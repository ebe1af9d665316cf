-------------------------- MODULE TimerRaceProofs --------------------------
(***************************************************************************)
(* Theorems about TimerRace, for any hosts in any order, any messages and  *)
(* branches, either execution mode and any bounds on calls and faults.     *)
(***************************************************************************)
EXTENDS TimerRace, TLAPS

-----------------------------------------------------------------------------
(* The inductive invariant. *)

\* A drive that is past the head of the walk is at a host, in the registrations at a gateway.
AtHost ==
  /\ drive.pc \in {"inner", "raise"} => drive.at <= Len(order)
  /\ drive.pc \in {"look", "register", "apply", "release"} =>
       drive.at <= Len(order) /\ here \in Gates
  /\ drive.pc \in {"register", "apply"} => drive.arm \in Messages

\* What the rows of a host that somebody has left say of its race.
RaceRecorded ==
  /\ \A h \in Hosts : exits[h] \cap {"none", "cancelled"} = {}
  /\ \A h \in Gates : decided[h] # "cancelled"
  /\ \A h \in Hosts : Kind[h] = "task" /\ job[h] = "applied" => decided[h] = "cancelled"
  /\ \A h \in ended : decided[h] = "cancelled"
  /\ drive.pc = "release" => decided[here] # "none"

IInv == TypeOK /\ AtHost /\ RaceRecorded /\ OnePath

-----------------------------------------------------------------------------
(* Types. *)

LEMMA HereTyped ==
  ASSUME TypeOK, drive.at <= Len(order)
  PROVE  here \in Hosts /\ drive.at \in 1..Len(order) /\ order \in Seq(Hosts)
<1>1. order \in Seq(Hosts) /\ Len(order) \in Nat
  BY Shape DEF TypeOK
<1>2. drive.at \in 1..(Len(order) + 1)
  BY DEF TypeOK, Drives
<1>3. drive.at \in 1..Len(order)
  BY <1>1, <1>2
<1> QED
  BY <1>1, <1>3 DEF here

\* Where an apply leaves the drive: on the walk, or with the losing arms to let go.
LEMMA ApplyGoes ==
  ASSUME TypeOK, NEW m, Apply(m)
  PROVE  drive'.pc \in {"walk", "release"} /\ (Claimable(here) => drive'.pc = "release" /\ drive'.at = drive.at)
<1>1. drive \in Drives
  BY DEF TypeOK
<1>2. CASE Claimable(here)
  <2>1. drive' = [drive EXCEPT !.pc = "release",
                               !.todo = {l \in ArmsOf[here] \ {m} : sub[l] = "active"}]
    BY <1>2 DEF Apply
  <2> QED
    BY <1>1, <1>2, <2>1 DEF Drives
<1>3. CASE ~Claimable(here)
  <2>1. drive' = [drive EXCEPT !.pc = "walk", !.at = @ + 1, !.todo = {}]
    BY <1>3 DEF Apply, Leave
  <2> QED
    BY <1>1, <1>3, <2>1 DEF Drives
<1> QED
  BY <1>2, <1>3

LEMMA IdleTyped ==
  ASSUME TypeOK
  PROVE  Idle \in Drives /\ \A by \in {"wake", "operator"} : [Idle EXCEPT !.pc = "walk", !.by = by] \in Drives
<1>1. Len(order) \in Nat
  BY Shape DEF TypeOK
<1>2. 1 \in 1..(Len(order) + 1)
  BY <1>1
<1> QED
  BY <1>2 DEF Idle, Drives

\* The walk goes on behind the host it is at.
LEMMA NextTyped ==
  ASSUME TypeOK, drive.at <= Len(order)
  PROVE  /\ [drive EXCEPT !.pc = "walk", !.at = @ + 1, !.todo = {}] \in Drives
         /\ [drive EXCEPT !.pc = "walk", !.at = @ + 1, !.todo = {}, !.parked = TRUE] \in Drives
<1>1. drive.at \in 1..Len(order) /\ Len(order) \in Nat
  BY HereTyped, Shape DEF TypeOK
<1>2. drive.at + 1 \in 1..(Len(order) + 1)
  BY <1>1
<1> QED
  BY <1>2 DEF TypeOK, Drives

LEMMA LeaveTyped ==
  ASSUME TypeOK, drive.at <= Len(order),
         NEW path \in Outcomes \cup {"normal"}, Leave(path)
  PROVE  drive' \in Drives /\ exits' \in [Hosts -> SUBSET (Outcomes \cup {"normal"})]
<1>1. drive' \in Drives
  BY NextTyped DEF Leave
<1>2. here \in Hosts /\ exits \in [Hosts -> SUBSET (Outcomes \cup {"normal"})]
  BY HereTyped DEF TypeOK
<1>3. exits' = [exits EXCEPT ![here] = @ \cup {path}]
  BY DEF Leave
<1> QED
  BY <1>1, <1>2, <1>3

LEMMA InitTypeOK == Init => TypeOK
<1> SUFFICES ASSUME Init PROVE TypeOK
  OBVIOUS
<1>1. order \in Processes /\ order \in Seq(Hosts) /\ order # <<>>
  BY Shape DEF Init
<1>2. Len(order) \in Nat \ {0}
  BY <1>1
<1>3. broken \in Hosts
  BY <1>1, <1>2 DEF Init
<1>4. 1 \in 1..(Len(order) + 1)
  BY <1>2
<1>5. drive \in Drives
  BY <1>4 DEF Init, Idle, Drives
<1>6. calls \in [CallKinds -> Nat] /\ \A c \in CallKinds : calls[c] <= MaxCalls[order][c]
  BY Limits, <1>1 DEF Init
<1>7. faults \in 0..MaxFaults[order]
  BY Limits, <1>1 DEF Init
<1>8. fire \in [Hosts -> Fires] /\ op \in Ops
  BY DEF Init, Fires, Ops
<1>9. /\ mode \in Modes /\ status \in Statuses
      /\ job \in [Hosts -> {"none", "created", "locked", "completed", "applied", "failed"}]
      /\ timer \in [Hosts -> {"none", "armed", "fired", "cancelled"}]
      /\ ended \subseteq Hosts /\ holder \subseteq Messages
      /\ due \subseteq Hosts /\ alarm \subseteq Hosts
      /\ wanted \subseteq {"wake", "operator"} /\ alive \in BOOLEAN
  BY DEF Init, Statuses
<1>10. /\ decided \in [Hosts -> Outcomes]
       /\ exits \in [Hosts -> SUBSET (Outcomes \cup {"normal"})]
       /\ sub \in [Messages -> {"none", "active", "consumed", "superseded"}]
       /\ ext \in [Messages -> {"new", "buffered", "matched", "correlated", "claimed", "applied"}]
  BY DEF Init, Outcomes
<1> QED
  BY <1>1, <1>3, <1>5, <1>6, <1>7, <1>8, <1>9, <1>10 DEF TypeOK

\* Rows of jobs and timers keep their shape under the statements the steps are made of.
LEMMA RowsTyped ==
  ASSUME TypeOK, NEW h \in Hosts
  PROVE  /\ \A to \in {"none", "created", "locked", "completed", "applied", "failed"} :
              [job EXCEPT ![h] = to]
                \in [Hosts -> {"none", "created", "locked", "completed", "applied", "failed"}]
         /\ \A outcome \in Outcomes : [decided EXCEPT ![h] = outcome] \in [Hosts -> Outcomes]
         /\ Arm(h) => /\ timer' \in [Hosts -> {"none", "armed", "fired", "cancelled"}]
                      /\ alarm' \subseteq Hosts
         /\ Rearm(h) => alarm' \subseteq Hosts
         /\ \A to \in {"fired", "cancelled"} :
              Flip(h, to) => timer' \in [Hosts -> {"none", "armed", "fired", "cancelled"}]
  BY DEF TypeOK, Arm, ArmedRow, Rearm, Flip

LEMMA CancelTyped ==
  ASSUME TypeOK, NEW h \in Hosts, CancelSettle(h) \/ SettleCancel(h)
  PROVE  /\ timer' \in [Hosts -> {"none", "armed", "fired", "cancelled"}]
         /\ decided' \in [Hosts -> Outcomes]
<1>1. "cancelled" \in Outcomes
  BY DEF Outcomes
<1>2. CASE CancelSettle(h)
  BY <1>1, <1>2, RowsTyped DEF CancelSettle, Claim
<1>3. CASE SettleCancel(h) /\ ~CancelSettle(h)
  BY <1>3 DEF SettleCancel, TypeOK
<1> QED
  BY <1>2, <1>3

LEMMA AbandonedTyped ==
  ASSUME TypeOK
  PROVE  /\ \A h \in Hosts : Abandoned(job[h]) \in {"none", "completed", "applied", "failed"}
         /\ \A losers \in SUBSET Messages :
              Superseded(losers) \in [Messages -> {"none", "active", "consumed", "superseded"}]
  BY DEF TypeOK, Abandoned, Superseded

\* The steps of a drive.
LEMMA BeginTyped == ASSUME TypeOK, NEW by \in {"wake", "operator"}, Begin(by) PROVE TypeOK'
<1>1. drive' \in Drives
  BY IdleTyped DEF Begin, TypeOK
<1>2. status' \in Statuses
  BY DEF Begin, TypeOK, Statuses
<1>3. wanted' \subseteq {"wake", "operator"}
  BY DEF Begin, TypeOK
<1> QED
  BY <1>1, <1>2, <1>3 DEF Begin, TypeOK, Drives, rows, msgs, clock, bounds

LEMMA TaskStepTyped == ASSUME TypeOK, TaskStep PROVE TypeOK'
<1>1. drive.at <= Len(order) /\ here \in Hosts
  BY HereTyped DEF TaskStep, Walking
<1>2. /\ mode' = mode /\ order' = order /\ calls' = calls /\ faults' = faults
      /\ sub' = sub /\ ext' = ext /\ holder' = holder /\ due' = due /\ fire' = fire
      /\ wanted' = wanted /\ op' = op
  BY DEF TaskStep, msgs, bounds
<1>3. drive' \in Drives /\ exits' \in [Hosts -> SUBSET (Outcomes \cup {"normal"})]
  <2>1. "fired" \in Outcomes \cup {"normal"} /\ "normal" \in Outcomes \cup {"normal"}
    BY DEF Outcomes
  <2>2. CASE Leave("fired") \/ Leave("normal")
    BY <1>1, <2>1, <2>2, LeaveTyped
  <2>3. CASE Pass /\ exits' = exits
    BY <1>1, <2>3, NextTyped DEF Pass, TypeOK
  <2>4. CASE drive' = Idle /\ exits' = exits
    BY <2>4, IdleTyped DEF TypeOK
  <2>5. CASE drive' = [drive EXCEPT !.pc = "raise"] /\ exits' = exits
    <3>1. drive \in Drives /\ exits' \in [Hosts -> SUBSET (Outcomes \cup {"normal"})]
      BY <2>5 DEF TypeOK
    <3>2. drive' \in Drives
      BY <2>5, <3>1 DEF Drives
    <3> QED
      BY <3>1, <3>2
  <2> QED
    BY <2>2, <2>3, <2>4, <2>5 DEF TaskStep, Parked, Throw
<1>4. /\ status' \in Statuses /\ broken' \in Hosts /\ alive' \in BOOLEAN /\ ended' \subseteq Hosts
  <2>1. status' \in {status, "waiting", "running", "incident"} /\ broken' \in {broken, here}
    BY <1>1 DEF TaskStep, Parked, Throw, inst
  <2>2. alive' \in {alive, FALSE} /\ ended' = ended
    BY <1>1 DEF TaskStep, Parked, Throw, rows
  <2> QED
    BY <1>1, <2>1, <2>2 DEF TypeOK, Statuses
<1>5. job' \in [Hosts -> {"none", "created", "locked", "completed", "applied", "failed"}]
  <2>1. \/ job' = job
        \/ job' = [job EXCEPT ![here] = "created"]
        \/ job' = [job EXCEPT ![here] = "applied"]
    BY DEF TaskStep, Created, rows
  <2> QED
    BY <1>1, <2>1 DEF TypeOK
<1>6. /\ timer' \in [Hosts -> {"none", "armed", "fired", "cancelled"}]
      /\ decided' \in [Hosts -> Outcomes] /\ alarm' \subseteq Hosts
  BY <1>1, RowsTyped, CancelTyped DEF TaskStep, rows, TypeOK
<1> QED
  BY <1>2, <1>3, <1>4, <1>5, <1>6 DEF TypeOK, Drives

LEMMA RaiseTyped == ASSUME TypeOK, AtHost, Raise PROVE TypeOK'
<1>1. here \in Hosts
  BY HereTyped DEF Raise, AtHost
<1>2. drive' \in Drives
  BY IdleTyped DEF Raise
<1>3. status' \in Statuses /\ broken' \in Hosts /\ alive' \in BOOLEAN
  BY <1>1 DEF Raise, TypeOK, Statuses, inst
<1> QED
  BY <1>2, <1>3 DEF Raise, TypeOK, Drives, rows, msgs, clock, bounds

LEMMA CatchStepTyped == ASSUME TypeOK, CatchStep PROVE TypeOK'
<1>1. drive.at <= Len(order) /\ here \in Hosts
  BY HereTyped DEF CatchStep, Walking
<1>2. drive' \in Drives /\ exits' \in [Hosts -> SUBSET (Outcomes \cup {"normal"})]
  <2>1. CASE Leave("fired")
    BY <1>1, <2>1, LeaveTyped DEF Outcomes
  <2>2. CASE Pass /\ exits' = exits
    BY <1>1, <2>2, NextTyped DEF Pass, TypeOK
  <2> QED
    BY <2>1, <2>2 DEF CatchStep, Parked
<1>3. /\ timer' \in [Hosts -> {"none", "armed", "fired", "cancelled"}] /\ alarm' \subseteq Hosts
      /\ status' \in Statuses
  BY <1>1, RowsTyped DEF CatchStep, Parked, TypeOK, Statuses
<1> QED
  BY <1>2, <1>3 DEF CatchStep, TypeOK, Drives, msgs, bounds

LEMMA ScopeStepTyped == ASSUME TypeOK, ScopeStep PROVE TypeOK'
<1>1. drive.at <= Len(order) /\ here \in Hosts
  BY HereTyped DEF ScopeStep, Walking
<1>2. drive' \in Drives /\ exits' \in [Hosts -> SUBSET (Outcomes \cup {"normal"})]
  <2>1. CASE Leave("fired")
    BY <1>1, <2>1, LeaveTyped DEF Outcomes
  <2>2. CASE drive' = [drive EXCEPT !.pc = "inner"] /\ exits' = exits
    BY <2>2 DEF TypeOK, Drives
  <2> QED
    BY <2>1, <2>2 DEF ScopeStep
<1>3. /\ timer' \in [Hosts -> {"none", "armed", "fired", "cancelled"}] /\ alarm' \subseteq Hosts
      /\ status' \in Statuses
  BY <1>1, RowsTyped DEF ScopeStep, EnterScope, TypeOK, Statuses
<1>4. job' \in [Hosts -> {"none", "created", "locked", "completed", "applied", "failed"}]
  BY <1>1, AbandonedTyped DEF ScopeStep, Drained, TypeOK
<1> QED
  BY <1>2, <1>3, <1>4 DEF ScopeStep, TypeOK, Drives, msgs, bounds

LEMMA InnerStepTyped == ASSUME TypeOK, InnerStep PROVE TypeOK'
<1>1. drive.at <= Len(order) /\ here \in Hosts
  BY HereTyped DEF InnerStep, Walking
<1>2. drive' \in Drives /\ exits' \in [Hosts -> SUBSET (Outcomes \cup {"normal"})]
  <2>1. CASE Leave("fired") \/ Leave("normal")
    BY <1>1, <2>1, LeaveTyped DEF Outcomes
  <2>2. CASE Pass /\ exits' = exits
    BY <1>1, <2>2, NextTyped DEF Pass, TypeOK
  <2>3. CASE drive' = [drive EXCEPT !.pc = "raise"] /\ exits' = exits
    BY <2>3 DEF TypeOK, Drives
  <2>4. CASE drive' \in {drive, Idle} /\ exits' = exits
    BY <2>4, IdleTyped DEF TypeOK
  <2> QED
    BY <2>1, <2>2, <2>3, <2>4 DEF InnerStep, Parked, Throw
<1>3. /\ status' \in Statuses /\ broken' \in Hosts /\ alive' \in BOOLEAN /\ ended' \subseteq Hosts
  BY <1>1 DEF InnerStep, Parked, Throw, inst, rows, TypeOK, Statuses
<1>4. job' \in [Hosts -> {"none", "created", "locked", "completed", "applied", "failed"}]
  BY <1>1, RowsTyped DEF InnerStep, Created, rows, TypeOK
<1>5. /\ timer' \in [Hosts -> {"none", "armed", "fired", "cancelled"}]
      /\ decided' \in [Hosts -> Outcomes]
  BY <1>1, CancelTyped DEF InnerStep, rows, TypeOK
<1> QED
  BY <1>2, <1>3, <1>4, <1>5 DEF InnerStep, TypeOK, Drives, msgs, clock, bounds

\* Messages a drive goes through, one of which it may be about to register.
LEMMA DriveTodo ==
  ASSUME TypeOK
  PROVE  /\ drive.todo \in SUBSET Messages
         /\ \A todo \in SUBSET Messages :
              /\ [drive EXCEPT !.todo = todo] \in Drives
              /\ [drive EXCEPT !.pc = "release", !.todo = todo] \in Drives
              /\ \A m \in Messages :
                   [drive EXCEPT !.pc = "register", !.arm = m, !.todo = todo] \in Drives
  BY DEF TypeOK, Drives

LEMMA ApplyTyped ==
  ASSUME TypeOK, drive.at <= Len(order), NEW m \in Messages, Apply(m)
  PROVE  /\ drive' \in Drives /\ exits' \in [Hosts -> SUBSET (Outcomes \cup {"normal"})]
         /\ decided' \in [Hosts -> Outcomes] /\ status' \in Statuses
         /\ timer' \in [Hosts -> {"none", "armed", "fired", "cancelled"}]
         /\ sub' \in [Messages -> {"none", "active", "consumed", "superseded"}]
         /\ ext' \in [Messages -> {"new", "buffered", "matched", "correlated", "claimed", "applied"}]
<1>1. here \in Hosts /\ ArmsOf[here] \subseteq Messages
  BY HereTyped, Shape
<1>2. CASE Claimable(here)
  <2>1. m \in Outcomes
    BY DEF Outcomes
  <2>2. decided' \in [Hosts -> Outcomes]
    BY <1>1, <1>2, <2>1 DEF Apply, Decide, TypeOK
  <2>3. timer' \in [Hosts -> {"none", "armed", "fired", "cancelled"}]
    BY <1>1, <1>2, RowsTyped DEF Apply
  <2>4. drive' \in Drives
    <3>1. {l \in ArmsOf[here] \ {m} : sub[l] = "active"} \in SUBSET Messages
      BY <1>1
    <3> QED
      BY <1>2, <3>1, DriveTodo DEF Apply
  <2>5. ArmsOf[here] \ {m} \in SUBSET Messages
    BY <1>1
  <2>6. Superseded(ArmsOf[here] \ {m}) \in [Messages -> {"none", "active", "consumed", "superseded"}]
    BY <2>5, AbandonedTyped
  <2>7. sub' \in [Messages -> {"none", "active", "consumed", "superseded"}]
    BY <1>2, <2>6 DEF Apply
  <2> QED
    BY <1>2, <2>2, <2>3, <2>4, <2>7 DEF Apply, TypeOK, Statuses
<1>3. CASE ~Claimable(here)
  <2>1. decided[here] \in Outcomes \cup {"normal"}
    BY <1>1 DEF TypeOK
  <2> QED
    BY <1>3, <2>1, LeaveTyped DEF Apply, TypeOK
<1> QED
  BY <1>2, <1>3

LEMMA GateStepTyped == ASSUME TypeOK, GateStep PROVE TypeOK'
<1>1. drive.at <= Len(order) /\ here \in Hosts /\ ArmsOf[here] \subseteq Messages
  BY HereTyped, Shape DEF GateStep, Walking
<1>2. CASE Leave(decided[here]) /\ UNCHANGED <<status, decided, timer, sub, ext, alarm>>
  <2>1. decided[here] \in Outcomes \cup {"normal"}
    BY <1>1 DEF TypeOK
  <2>2. drive' \in Drives /\ exits' \in [Hosts -> SUBSET (Outcomes \cup {"normal"})]
    BY <1>1, <2>1, <1>2, LeaveTyped
  <2> QED
    BY <1>2, <2>2 DEF GateStep, TypeOK, Drives, bounds
<1>3. CASE \E m \in ArmsOf[here] : Apply(m) /\ UNCHANGED alarm
  <2>1. PICK m \in ArmsOf[here] : Apply(m) /\ UNCHANGED alarm
    BY <1>3
  <2>2. m \in Messages
    BY <1>1
  <2>3. /\ drive' \in Drives /\ exits' \in [Hosts -> SUBSET (Outcomes \cup {"normal"})]
        /\ decided' \in [Hosts -> Outcomes] /\ status' \in Statuses
        /\ timer' \in [Hosts -> {"none", "armed", "fired", "cancelled"}]
        /\ sub' \in [Messages -> {"none", "active", "consumed", "superseded"}]
        /\ ext' \in [Messages ->
                        {"new", "buffered", "matched", "correlated", "claimed", "applied"}]
    BY <1>1, <2>1, <2>2, ApplyTyped
  <2> QED
    BY <2>1, <2>3 DEF GateStep, TypeOK, Drives, bounds
<1>4. CASE ParkGate /\ UNCHANGED <<decided, ext, exits>>
  <2>1. /\ timer' \in [Hosts -> {"none", "armed", "fired", "cancelled"}] /\ alarm' \subseteq Hosts
        /\ status' \in Statuses
    BY <1>1, <1>4, RowsTyped DEF ParkGate, TypeOK, Statuses
  <2>2. sub' \in [Messages -> {"none", "active", "consumed", "superseded"}]
    BY <1>4 DEF ParkGate, TypeOK
  <2>3. drive' \in Drives
    BY <1>1, <1>4 DEF ParkGate, TypeOK, Drives
  <2> QED
    BY <1>4, <2>1, <2>2, <2>3 DEF GateStep, TypeOK, Drives, bounds
<1> QED
  BY <1>2, <1>3, <1>4 DEF GateStep

LEMMA LookTyped == ASSUME TypeOK, AtHost, Look PROVE TypeOK'
<1>1. drive.at <= Len(order)
  BY DEF Look, AtHost
<1>2. drive' \in Drives
  <2>1. CASE \E m \in drive.todo :
             drive' = IF drive.again /\ sub[m] # "active"
                      THEN [drive EXCEPT !.todo = @ \ {m}]
                      ELSE [drive EXCEPT !.pc = "register", !.arm = m, !.todo = @ \ {m}]
    <3>1. PICK m \in drive.todo :
                 drive' = IF drive.again /\ sub[m] # "active"
                          THEN [drive EXCEPT !.todo = @ \ {m}]
                          ELSE [drive EXCEPT !.pc = "register", !.arm = m, !.todo = @ \ {m}]
      BY <2>1
    <3>2. drive.todo \in SUBSET Messages
      BY DriveTodo
    <3>3. m \in Messages /\ drive.todo \ {m} \in SUBSET Messages
      BY <3>2
    <3> QED
      BY <3>1, <3>3, DriveTodo
  <2>2. CASE Pass
    BY <1>1, <2>2, NextTyped DEF Pass
  <2> QED
    BY <2>1, <2>2 DEF Look
<1> QED
  BY <1>2 DEF Look, TypeOK, Drives, inst, rows, msgs, clock, bounds

LEMMA RegisterTyped == ASSUME TypeOK, AtHost, Register PROVE TypeOK'
<1>1. drive.arm \in Messages
  BY DEF Register, AtHost
<1>2. drive' \in Drives
  <2>1. drive' \in {[drive EXCEPT !.pc = "apply"], [drive EXCEPT !.pc = "look"]}
    BY DEF Register
  <2>2. drive \in Drives
    BY DEF TypeOK
  <2> QED
    BY <2>1, <2>2 DEF Drives
<1>3. /\ ext' \in [Messages -> {"new", "buffered", "matched", "correlated", "claimed", "applied"}]
      /\ holder' \subseteq Messages
  BY <1>1 DEF Register, TypeOK
<1> QED
  BY <1>2, <1>3 DEF Register, TypeOK, Drives, inst, rows, clock, bounds

LEMMA ApplyClaimedTyped == ASSUME TypeOK, AtHost, ApplyClaimed PROVE TypeOK'
<1>1. drive.at <= Len(order) /\ drive.arm \in Messages
  BY DEF ApplyClaimed, AtHost
<1>2. /\ drive' \in Drives /\ exits' \in [Hosts -> SUBSET (Outcomes \cup {"normal"})]
      /\ decided' \in [Hosts -> Outcomes] /\ status' \in Statuses
      /\ timer' \in [Hosts -> {"none", "armed", "fired", "cancelled"}]
      /\ sub' \in [Messages -> {"none", "active", "consumed", "superseded"}]
      /\ ext' \in [Messages -> {"new", "buffered", "matched", "correlated", "claimed", "applied"}]
  BY <1>1, ApplyTyped DEF ApplyClaimed
<1> QED
  BY <1>2 DEF ApplyClaimed, TypeOK, Drives, clock, bounds

LEMMA ReleaseLosersTyped == ASSUME TypeOK, AtHost, ReleaseLosers PROVE TypeOK'
<1>1. drive.at <= Len(order)
  BY DEF ReleaseLosers, AtHost
<1>2. here \in Hosts
  BY <1>1, HereTyped
<1>3. decided[here] \in Outcomes \cup {"normal"}
  BY <1>2 DEF TypeOK
<1>4. drive' \in Drives /\ exits' \in [Hosts -> SUBSET (Outcomes \cup {"normal"})]
  BY <1>1, <1>3, LeaveTyped DEF ReleaseLosers
<1>5. holder' \subseteq Messages
  BY DEF ReleaseLosers, TypeOK
<1> QED
  BY <1>4, <1>5 DEF ReleaseLosers, TypeOK, Drives, inst, rows, clock, bounds

LEMMA FinishTyped == ASSUME TypeOK, Finish PROVE TypeOK'
<1>1. drive' \in Drives
  BY IdleTyped DEF Finish
<1>2. status' \in Statuses /\ alive' \in BOOLEAN
  BY DEF Finish, CompletedGuarded, TypeOK, Statuses
<1> QED
  BY <1>1, <1>2 DEF Finish, TypeOK, Drives, rows, msgs, clock, bounds

LEMMA DriveTyped == ASSUME TypeOK, AtHost, Drive PROVE TypeOK'
  BY BeginTyped, TaskStepTyped, CatchStepTyped, ScopeStepTyped, InnerStepTyped, GateStepTyped,
     RaiseTyped, LookTyped, RegisterTyped, ApplyClaimedTyped, ReleaseLosersTyped, FinishTyped
  DEF Drive
-----------------------------------------------------------------------------
(* Types across the steps of alarms, workers, publishers and the operator. *)

LEMMA HandlerTyped ==
  ASSUME TypeOK, NEW h \in Hosts
  PROVE  \A pc \in {"idle", "plan", "frozen", "commit", "release", "wake", "missed"} :
           \A subs \in SUBSET Messages : Handler(h, pc, subs) => fire' \in [Hosts -> Fires]
<1> SUFFICES ASSUME NEW pc \in {"idle", "plan", "frozen", "commit", "release", "wake", "missed"},
                    NEW subs \in SUBSET Messages, Handler(h, pc, subs)
             PROVE  fire' \in [Hosts -> Fires]
  OBVIOUS
<1>1. [pc |-> pc, subs |-> subs] \in Fires
  BY DEF Fires
<1> QED
  BY <1>1 DEF Handler, TypeOK

LEMMA TeardownTyped ==
  ASSUME TypeOK, NEW h \in Hosts, Teardown(h)
  PROVE  fire' \in [Hosts -> Fires] /\ alarm' \subseteq Hosts
<1>1. {} \in SUBSET Messages
  OBVIOUS
<1> QED
  BY <1>1, HandlerTyped DEF Teardown, TypeOK

LEMMA RingTyped == ASSUME TypeOK, NEW h \in Hosts, Ring(h) PROVE TypeOK'
<1>1. {} \in SUBSET Messages
  OBVIOUS
<1>2. fire' \in [Hosts -> Fires] /\ alarm' \subseteq Hosts
  BY <1>1, HandlerTyped, TeardownTyped DEF Ring, TypeOK
<1> QED
  BY <1>2 DEF Ring, TypeOK, Drives, inst, rows, msgs, bounds

LEMMA SuppressTyped == ASSUME TypeOK, NEW h \in Hosts, Suppress(h) PROVE TypeOK'
<1>1. {} \in SUBSET Messages /\ "fired" \in Outcomes
  BY DEF Outcomes
<1>2. fire' \in [Hosts -> Fires]
  BY <1>1, HandlerTyped DEF Suppress
<1>3. /\ timer' \in [Hosts -> {"none", "armed", "fired", "cancelled"}]
      /\ decided' \in [Hosts -> Outcomes]
  BY <1>1, RowsTyped DEF Suppress, Claim, TypeOK
<1> QED
  BY <1>2, <1>3 DEF Suppress, TypeOK, Drives, inst, msgs, bounds

LEMMA PlanTyped == ASSUME TypeOK, NEW h \in Hosts, Plan(h) PROVE TypeOK'
<1>1. {m \in ArmsOf[h] : sub[m] = "active"} \in SUBSET Messages
  BY Shape
<1>2. fire' \in [Hosts -> Fires] /\ alarm' \subseteq Hosts
  BY <1>1, HandlerTyped, TeardownTyped DEF Plan, TypeOK
<1>3. timer' \in [Hosts -> {"none", "armed", "fired", "cancelled"}]
  BY RowsTyped DEF Plan, TypeOK
<1> QED
  BY <1>2, <1>3 DEF Plan, TypeOK, Drives, inst, msgs, bounds

LEMMA CommitTyped == ASSUME TypeOK, NEW h \in Hosts, Commit(h) PROVE TypeOK'
<1>1. fire[h].subs \in SUBSET Messages /\ "fired" \in Outcomes
  BY DEF TypeOK, Fires, Outcomes
<1>2. fire' \in [Hosts -> Fires] /\ alarm' \subseteq Hosts
  BY <1>1, HandlerTyped, TeardownTyped DEF Commit, TypeOK
<1>3. timer' \in [Hosts -> {"none", "armed", "fired", "cancelled"}]
  BY RowsTyped DEF Commit, TypeOK
<1>4. decided' \in [Hosts -> Outcomes]
  BY <1>1, RowsTyped DEF Commit, Claim, TypeOK
<1>5. job' \in [Hosts -> {"none", "created", "locked", "completed", "applied", "failed"}]
  BY AbandonedTyped DEF Commit, TypeOK
<1>6. sub' \in [Messages -> {"none", "active", "consumed", "superseded"}] /\ status' \in Statuses
  BY <1>1, AbandonedTyped DEF Commit, TypeOK, Statuses
<1> QED
  BY <1>2, <1>3, <1>4, <1>5, <1>6 DEF Commit, TypeOK, Drives, bounds

LEMMA ReleaseAllTyped == ASSUME TypeOK, NEW h \in Hosts, ReleaseAll(h) PROVE TypeOK'
<1>1. {} \in SUBSET Messages
  OBVIOUS
<1>2. fire' \in [Hosts -> Fires] /\ holder' \subseteq Messages
  BY <1>1, HandlerTyped DEF ReleaseAll, TypeOK
<1> QED
  BY <1>2 DEF ReleaseAll, TypeOK, Drives, inst, rows, clock, bounds

LEMMA WakeTyped == ASSUME TypeOK, NEW h \in Hosts, Wake(h) PROVE TypeOK'
<1>1. fire' \in [Hosts -> Fires] /\ alarm' \subseteq Hosts /\ wanted' \subseteq {"wake", "operator"}
  BY TeardownTyped DEF Wake, TypeOK
<1> QED
  BY <1>1 DEF Wake, TypeOK, Drives, inst, rows, msgs, bounds

LEMMA FaultTyped ==
  ASSUME TypeOK, NEW h \in Hosts, HandlerDies(h) \/ AlarmLost(h) PROVE TypeOK'
<1>1. faults' \in 0..MaxFaults[order]
  BY Limits DEF HandlerDies, AlarmLost, TypeOK
<1>2. {} \in SUBSET Messages
  OBVIOUS
<1>3. fire' \in [Hosts -> Fires] /\ alarm' \subseteq Hosts
  BY <1>2, HandlerTyped DEF HandlerDies, AlarmLost, TypeOK
<1>4. CASE HandlerDies(h)
  BY <1>1, <1>3, <1>4 DEF HandlerDies, TypeOK, Drives, inst, rows, msgs
<1>5. CASE AlarmLost(h)
  BY <1>1, <1>3, <1>5 DEF AlarmLost, TypeOK, Drives, inst, rows, msgs
<1> QED
  BY <1>4, <1>5

LEMMA AlarmTyped ==
  ASSUME TypeOK, NEW h \in Hosts, Deadline(h) \/ Alarm(h) \/ HandlerDies(h) \/ AlarmLost(h)
  PROVE  TypeOK'
<1>1. CASE Deadline(h)
  <2>1. due' \subseteq Hosts
    BY <1>1 DEF Deadline, TypeOK
  <2> QED
    BY <1>1, <2>1 DEF Deadline, TypeOK, Drives, inst, rows, msgs, bounds
<1> QED
  BY <1>1, RingTyped, SuppressTyped, PlanTyped, CommitTyped, ReleaseAllTyped, WakeTyped, FaultTyped
  DEF Alarm

LEMMA WorkTyped == ASSUME TypeOK, NEW h \in Hosts, Activate(h) \/ Report(h) PROVE TypeOK'
<1>1. job' \in [Hosts -> {"none", "created", "locked", "completed", "applied", "failed"}]
  BY RowsTyped DEF Activate, Report
<1>2. wanted' \subseteq {"wake", "operator"}
  BY DEF Activate, Report, TypeOK
<1> QED
  BY <1>1, <1>2 DEF Activate, Report, TypeOK, Drives, inst, msgs, clock, bounds

LEMMA PublisherTyped == ASSUME TypeOK, NEW m \in Messages, Publish(m) \/ Record(m) PROVE TypeOK'
<1>1. ext' \in [Messages -> {"new", "buffered", "matched", "correlated", "claimed", "applied"}]
  BY DEF Publish, Record, TypeOK
<1>2. holder' \subseteq Messages /\ wanted' \subseteq {"wake", "operator"}
  BY DEF Publish, Record, TypeOK
<1> QED
  BY <1>1, <1>2 DEF Publish, Record, TypeOK, Drives, inst, rows, clock, bounds

\* An operator's call, with its count and its place.
LEMMA CallTyped ==
  ASSUME TypeOK, NEW kind \in {"cancel", "retry"}, NEW pc \in {"idle", "clear", "sweep", "close", "reset"},
         Call(kind, pc)
  PROVE  /\ op' \in Ops
         /\ calls' \in [CallKinds -> Nat] /\ \A c \in CallKinds : calls'[c] <= MaxCalls[order][c]
<1>1. CallKinds = {"cancel", "retry"} /\ \A c \in CallKinds : MaxCalls[order][c] \in Nat
  BY Limits DEF CallKinds, TypeOK
<1>2. calls \in [CallKinds -> Nat] /\ \A c \in CallKinds : calls[c] <= MaxCalls[order][c]
  BY DEF TypeOK
<1>3. calls' = [calls EXCEPT ![kind] = @ + 1] /\ calls[kind] < MaxCalls[order][kind]
  BY DEF Call
<1>4. op' \in Ops
  BY DEF Call, Ops
<1>5. calls' \in [CallKinds -> Nat]
  BY <1>1, <1>2, <1>3
<1>6. ASSUME NEW c \in CallKinds PROVE calls'[c] <= MaxCalls[order][c]
  BY <1>1, <1>2, <1>3, <1>6
<1> QED
  BY <1>4, <1>5, <1>6

LEMMA OperatorTyped == ASSUME TypeOK, Operator PROVE TypeOK'
<1>1. CASE Cancel
  <2>1. /\ op' \in Ops
        /\ calls' \in [CallKinds -> Nat]
        /\ \A c \in CallKinds : calls'[c] <= MaxCalls[order][c]
    BY <1>1, CallTyped DEF Cancel
  <2> QED
    BY <1>1, <2>1 DEF Cancel, TypeOK, Drives, inst, rows, msgs, clock
<1>2. CASE Clear
  <2>1. {h \in Hosts : timer[h] = "armed"} \in SUBSET Hosts
    OBVIOUS
  <2>2. op' \in Ops
    BY <1>2, <2>1 DEF Clear, Ops
  <2>3. /\ holder' \subseteq Messages
        /\ sub' \in [Messages -> {"none", "active", "consumed", "superseded"}]
    BY <1>2, AbandonedTyped DEF Clear, ReleaseActive, TypeOK
  <2>4. job' \in [Hosts -> {"none", "created", "locked", "completed", "applied", "failed"}]
    BY <1>2, AbandonedTyped DEF Clear, TypeOK
  <2> QED
    BY <1>2, <2>2, <2>3, <2>4 DEF Clear, TypeOK, Drives, inst, clock, bounds
<1>3. CASE \E h \in Hosts : Sweep(h)
  <2>1. PICK h \in Hosts : Sweep(h)
    BY <1>3
  <2>2. op' \in Ops
    BY <2>1 DEF Sweep, TypeOK, Ops
  <2>3. /\ timer' \in [Hosts -> {"none", "armed", "fired", "cancelled"}]
        /\ decided' \in [Hosts -> Outcomes]
    BY <2>1, RowsTyped, CancelTyped DEF Sweep, TypeOK
  <2> QED
    BY <2>1, <2>2, <2>3 DEF Sweep, TypeOK, Drives, inst, msgs, clock, bounds
<1>4. CASE Close
  <2>1. op' \in Ops
    BY <1>4 DEF Close, Ops
  <2>2. drive' \in Drives
    BY <1>4, IdleTyped DEF Close, TypeOK
  <2>3. status' \in Statuses /\ wanted' \subseteq {"wake", "operator"} /\ alive' \in BOOLEAN
    BY <1>4 DEF Close, TypeOK, Statuses
  <2> QED
    BY <1>4, <2>1, <2>2, <2>3 DEF Close, TypeOK, Drives, rows, msgs, clock, bounds
<1>5. CASE RetryReset
  <2>1. /\ op' \in Ops
        /\ calls' \in [CallKinds -> Nat]
        /\ \A c \in CallKinds : calls'[c] <= MaxCalls[order][c]
    BY <1>5, CallTyped DEF RetryReset
  <2>2. job' \in [Hosts -> {"none", "created", "locked", "completed", "applied", "failed"}]
    BY <1>5 DEF RetryReset, TypeOK
  <2> QED
    BY <1>5, <2>1, <2>2 DEF RetryReset, TypeOK, Drives, inst, msgs, clock
<1>6. CASE RetryResume
  <2>1. op' \in Ops
    BY <1>6 DEF RetryResume, Ops
  <2>2. status' \in Statuses /\ wanted' \subseteq {"wake", "operator"}
    BY <1>6 DEF RetryResume, TypeOK, Statuses
  <2> QED
    BY <1>6, <2>1, <2>2 DEF RetryResume, TypeOK, Drives, rows, msgs, clock, bounds
<1> QED
  BY <1>1, <1>2, <1>3, <1>4, <1>5, <1>6 DEF Operator

LEMMA StepTyped == ASSUME TypeOK, AtHost, [Next]_vars PROVE TypeOK'
<1>1. CASE Backstop
  BY <1>1 DEF Backstop, TypeOK, Drives, inst, rows, msgs, clock, bounds
<1>2. CASE UNCHANGED vars
  BY <1>2 DEF vars, TypeOK, Drives, inst, rows, msgs, clock, bounds
<1> QED
  BY <1>1, <1>2, DriveTyped, OperatorTyped, AlarmTyped, WorkTyped, PublisherTyped DEF Next
-----------------------------------------------------------------------------
(* What a step may do to the rows of a race, and where it leaves the drive. *)

\* A decider is written once, a sweep never decides a gateway, and a host is left on the flow
\* its decider names.
Decides ==
  \A h \in Hosts : decided'[h] # decided[h] =>
    decided[h] = "none" /\ (h \in Gates => decided'[h] # "cancelled")
Departs ==
  \A h \in Hosts : exits'[h] # exits[h] =>
    \E path \in Outcomes \cup {"normal"} :
      /\ exits'[h] = exits[h] \cup {path} /\ path \notin {"none", "cancelled"}
      /\ path = "normal" => decided'[h] = "cancelled"
      /\ path # "normal" => decided'[h] = path
Applies ==
  /\ \A h \in Hosts : Kind[h] = "task" /\ job'[h] = "applied" =>
       job[h] = "applied" \/ decided'[h] = "cancelled"
  /\ \A h \in ended' : h \in ended \/ decided'[h] = "cancelled"
Placed == AtHost' /\ (drive'.pc = "release" => decided'[here'] # "none")
Sound == Decides /\ Departs /\ Applies /\ Placed

\* Steps that decide nothing, leave no host and apply no result.
LEMMA QuietSound ==
  ASSUME TypeOK, AtHost, RaceRecorded, UNCHANGED <<decided, exits, ended, order>>,
         drive' = drive \/ drive'.pc \in {"idle", "walk"},
         \A h \in Hosts : job'[h] = "applied" => job[h] = "applied"
  PROVE  Sound
<1>1. Decides /\ Departs /\ Applies
  BY DEF Decides, Departs, Applies
<1>2. Placed
  BY DEF Placed, AtHost, RaceRecorded, here
<1> QED
  BY <1>1, <1>2 DEF Sound

\* The walk leaves the host it is at.
LEMMA LeaveSound ==
  ASSUME TypeOK, drive.at <= Len(order), NEW path \in Outcomes \cup {"normal"}, Leave(path),
         path \notin {"none", "cancelled"},
         path = "normal" => decided'[here] = "cancelled",
         path # "normal" => decided'[here] = path
  PROVE  Departs /\ Placed
<1>1. here \in Hosts /\ exits \in [Hosts -> SUBSET (Outcomes \cup {"normal"})]
  BY HereTyped DEF TypeOK
<1>2. \A h \in Hosts : h # here => exits'[h] = exits[h]
  BY <1>1 DEF Leave
<1>3. exits'[here] = exits[here] \cup {path}
  BY <1>1 DEF Leave
<1>4. Departs
  BY <1>2, <1>3 DEF Departs
<1>5. drive'.pc = "walk"
  BY DEF Leave, TypeOK, Drives
<1> QED
  BY <1>4, <1>5 DEF Placed, AtHost

LEMMA TaskStepSound == ASSUME TypeOK, RaceRecorded, TaskStep PROVE Sound
<1>1. /\ drive.at <= Len(order) /\ here \in Hosts /\ Kind[here] = "task" /\ here \notin Gates
      /\ decided \in [Hosts -> Outcomes]
      /\ job \in [Hosts -> {"none", "created", "locked", "completed", "applied", "failed"}]
  BY HereTyped DEF TaskStep, Walking, Gates, TypeOK
<1>2. Decides
  BY <1>1 DEF TaskStep, SettleCancel, CancelSettle, Claim, Claimable, Decides, rows
<1>3. Applies
  <2>1. ended' = ended
    BY DEF TaskStep, rows
  <2>2. ASSUME NEW h \in Hosts, job'[h] = "applied" PROVE job[h] = "applied" \/ decided'[h] = "cancelled"
    BY <1>1, <2>2 DEF TaskStep, Created, CancelSettle, Claim, rows
  <2> QED
    BY <2>1, <2>2 DEF Applies
<1>4. Departs /\ Placed
  <2>1. "fired" \in Outcomes /\ "normal" \notin {"none", "cancelled"}
    BY DEF Outcomes
  <2>2. CASE decided[here] = "fired" /\ Leave("fired") /\ UNCHANGED rows
    BY <1>1, <2>1, <2>2, LeaveSound DEF rows
  <2>3. CASE job[here] = "applied" /\ Leave("normal") /\ UNCHANGED rows
    <3>1. decided'[here] = "cancelled"
      BY <1>1, <2>3 DEF RaceRecorded, rows
    <3> QED
      BY <1>1, <2>1, <2>3, <3>1, LeaveSound
  <2>4. CASE CancelSettle(here) /\ Leave("normal")
    <3>1. decided'[here] = "cancelled"
      BY <1>1, <2>4 DEF CancelSettle, Claim
    <3> QED
      BY <1>1, <2>1, <2>4, <3>1, LeaveSound
  <2>5. CASE exits' = exits /\ drive'.pc \in {"idle", "walk", "raise"} /\ drive'.at <= Len(order') + 1
             /\ (drive'.pc = "raise" => drive'.at = drive.at)
    BY <1>1, <2>5 DEF Departs, Placed, AtHost, TaskStep, bounds
  <2>6. /\ Idle.pc = "idle" /\ Idle.at = 1
        /\ (Pass => drive'.pc = "walk" /\ drive'.at = drive.at + 1)
        /\ (drive' = [drive EXCEPT !.pc = "raise"] => drive'.pc = "raise" /\ drive'.at = drive.at)
    BY DEF Idle, Pass, TypeOK, Drives
  <2>7. order' = order /\ Len(order) \in Nat /\ drive.at \in Nat
    BY HereTyped, <1>1, Shape DEF TaskStep, bounds, TypeOK
  <2> QED
    BY <1>1, <2>2, <2>3, <2>4, <2>5, <2>6, <2>7 DEF TaskStep, Parked, Throw
<1> QED
  BY <1>2, <1>3, <1>4 DEF Sound

LEMMA CatchStepSound == ASSUME TypeOK, AtHost, RaceRecorded, CatchStep PROVE Sound
<1>1. drive.at <= Len(order) /\ here \in Hosts
  BY HereTyped DEF CatchStep, Walking
<1>2. /\ decided' = decided /\ ended' = ended /\ job' = job /\ order' = order
  BY DEF CatchStep, bounds
<1>3. CASE decided[here] = "fired" /\ Leave("fired")
  <2>1. Departs /\ Placed
    BY <1>1, <1>2, <1>3, LeaveSound DEF Outcomes
  <2> QED
    BY <1>2, <2>1 DEF Sound, Decides, Applies
<1>4. CASE exits' = exits /\ Pass
  <2>1. drive'.pc = "walk"
    BY <1>4 DEF Pass, TypeOK, Drives
  <2> QED
    BY <1>2, <1>4, <2>1, QuietSound
<1> QED
  BY <1>3, <1>4 DEF CatchStep, Parked

LEMMA ScopeStepSound == ASSUME TypeOK, AtHost, RaceRecorded, ScopeStep PROVE Sound
<1>1. drive.at <= Len(order) /\ here \in Hosts
  BY HereTyped DEF ScopeStep, Walking
<1>2. decided' = decided /\ ended' = ended /\ order' = order
  BY DEF ScopeStep, bounds
<1>3. \A h \in Hosts : job'[h] = "applied" => job[h] = "applied"
  BY <1>1 DEF ScopeStep, Drained, Abandoned, TypeOK
<1>4. Decides /\ Applies
  BY <1>2, <1>3 DEF Decides, Applies
<1>5. CASE decided[here] = "fired" /\ Leave("fired")
  <2>1. Departs /\ Placed
    BY <1>1, <1>2, <1>5, LeaveSound DEF Outcomes
  <2> QED
    BY <1>4, <2>1 DEF Sound
<1>6. CASE exits' = exits /\ drive' = [drive EXCEPT !.pc = "inner"]
  <2>1. drive'.pc = "inner" /\ drive'.at = drive.at
    BY <1>6 DEF TypeOK, Drives
  <2> QED
    BY <1>1, <1>2, <1>4, <1>6, <2>1 DEF Sound, Departs, Placed, AtHost
<1> QED
  BY <1>5, <1>6 DEF ScopeStep

LEMMA InnerStepSound == ASSUME TypeOK, RaceRecorded, InnerStep PROVE Sound
<1>1. /\ drive.at <= Len(order) /\ here \in Hosts /\ Kind[here] = "scope" /\ here \notin Gates
      /\ decided \in [Hosts -> Outcomes] /\ drive.pc = "inner" /\ order' = order
      /\ job \in [Hosts -> {"none", "created", "locked", "completed", "applied", "failed"}]
  BY HereTyped DEF InnerStep, Walking, Gates, TypeOK, bounds
<1>2. Decides
  BY <1>1 DEF InnerStep, CancelSettle, Claim, Claimable, Decides, rows
<1>3. Applies
  <2>1. ASSUME NEW h \in Hosts, Kind[h] = "task" PROVE job'[h] = job[h]
    BY <1>1, <2>1 DEF InnerStep, Created, rows
  <2>2. ASSUME NEW h \in ended' PROVE h \in ended \/ decided'[h] = "cancelled"
    BY <1>1, <2>2 DEF InnerStep, CancelSettle, Claim, rows
  <2> QED
    BY <2>1, <2>2 DEF Applies
<1>4. Departs /\ Placed
  <2>1. "fired" \in Outcomes /\ "normal" \notin {"none", "cancelled"}
    BY DEF Outcomes
  <2>2. CASE decided[here] = "fired" /\ Leave("fired") /\ UNCHANGED rows
    BY <1>1, <2>1, <2>2, LeaveSound DEF rows
  <2>3. CASE here \in ended /\ Leave("normal") /\ UNCHANGED rows
    <3>1. decided'[here] = "cancelled"
      BY <1>1, <2>3 DEF RaceRecorded, rows
    <3> QED
      BY <1>1, <2>1, <2>3, <3>1, LeaveSound
  <2>4. CASE CancelSettle(here) /\ Leave("normal")
    <3>1. decided'[here] = "cancelled"
      BY <1>1, <2>4 DEF CancelSettle, Claim
    <3> QED
      BY <1>1, <2>1, <2>4, <3>1, LeaveSound
  <2>5. CASE exits' = exits /\ drive'.pc \in {"idle", "walk", "raise", "inner"}
             /\ (drive'.pc \in {"inner", "raise"} => drive'.at = drive.at)
    BY <1>1, <2>5 DEF Departs, Placed, AtHost
  <2>6. /\ Idle.pc = "idle" /\ (Pass => drive'.pc = "walk")
        /\ (drive' = [drive EXCEPT !.pc = "raise"] => drive'.pc = "raise" /\ drive'.at = drive.at)
    BY DEF Idle, Pass, TypeOK, Drives
  <2> QED
    BY <1>1, <2>2, <2>3, <2>4, <2>5, <2>6 DEF InnerStep, Parked, Throw
<1> QED
  BY <1>2, <1>3, <1>4 DEF Sound
\* A drive leaves a gateway on the branch gateway_decisions names.
LEMMA LeaveGateSound ==
  ASSUME TypeOK, RaceRecorded, drive.at <= Len(order), here \in Gates, decided[here] # "none",
         decided' = decided, Leave(decided[here])
  PROVE  Departs /\ Placed
<1>1. here \in Hosts
  BY HereTyped
<1>2. decided[here] \in Outcomes /\ decided[here] # "cancelled"
  BY <1>1 DEF TypeOK, RaceRecorded
<1>3. "normal" \notin Outcomes
  BY Shape DEF Outcomes
<1> QED
  BY <1>2, <1>3, LeaveSound

LEMMA ApplySound ==
  ASSUME TypeOK, RaceRecorded, drive.at <= Len(order), here \in Gates, order' = order,
         NEW m \in Messages, Apply(m)
  PROVE  Decides /\ Departs /\ Placed
<1>1. here \in Hosts /\ decided \in [Hosts -> Outcomes]
  BY HereTyped DEF TypeOK
<1>2. CASE Claimable(here)
  <2>1. m \notin {"none", "cancelled"}
    BY Shape
  <2>2. decided' = [decided EXCEPT ![here] = m] /\ exits' = exits
    BY <1>2 DEF Apply, Decide
  <2>3. drive'.pc = "release" /\ drive'.at = drive.at
    BY <1>2, ApplyGoes
  <2>4. Decides
    BY <1>1, <1>2, <2>1, <2>2 DEF Decides, Claimable
  <2>5. Departs
    BY <2>2 DEF Departs
  <2>6. here' = here /\ decided'[here'] = m
    BY <1>1, <2>2, <2>3 DEF here
  <2> QED
    BY <2>1, <2>3, <2>4, <2>5, <2>6 DEF Placed, AtHost
<1>3. CASE ~Claimable(here)
  <2>1. decided' = decided /\ Leave(decided[here]) /\ decided[here] # "none"
    BY <1>3 DEF Apply, Claimable
  <2> QED
    BY <2>1, LeaveGateSound DEF Decides
<1> QED
  BY <1>2, <1>3

LEMMA GateStepSound == ASSUME TypeOK, AtHost, RaceRecorded, GateStep PROVE Sound
<1>1. /\ drive.at <= Len(order) /\ here \in Gates /\ ArmsOf[here] \subseteq Messages
      /\ order' = order /\ job' = job /\ ended' = ended
  BY HereTyped, Shape DEF GateStep, Walking, Gates, bounds
<1>2. CASE ~Claimable(here) /\ Leave(decided[here]) /\ decided' = decided
  <2>1. Departs /\ Placed
    BY <1>1, <1>2, LeaveGateSound DEF Claimable
  <2> QED
    BY <1>1, <1>2, <2>1 DEF Sound, Decides, Applies
<1>3. CASE \E m \in ArmsOf[here] : Apply(m)
  <2>1. Decides /\ Departs /\ Placed
    BY <1>1, <1>3, ApplySound
  <2> QED
    BY <1>1, <2>1 DEF Sound, Applies
<1>4. CASE ParkGate /\ decided' = decided /\ exits' = exits
  <2>1. drive'.pc = "look" /\ drive'.at = drive.at
    BY <1>4 DEF ParkGate, TypeOK, Drives
  <2>2. Placed
    BY <1>1, <2>1 DEF Placed, AtHost, here
  <2> QED
    BY <1>1, <1>4, <2>2 DEF Sound, Decides, Departs, Applies
<1> QED
  BY <1>2, <1>3, <1>4 DEF GateStep

\* The steps of a drive inside a gateway.
LEMMA GatewaySound ==
  ASSUME TypeOK, AtHost, RaceRecorded, Look \/ Register \/ ApplyClaimed \/ ReleaseLosers
  PROVE  Sound
<1>1. drive.at <= Len(order) /\ here \in Gates /\ order' = order /\ job' = job /\ ended' = ended
  BY DEF AtHost, Look, Register, ApplyClaimed, ReleaseLosers, rows, bounds
<1>2. CASE Look
  <2>1. decided' = decided /\ exits' = exits
    BY <1>2 DEF Look, rows
  <2>2. \/ drive'.pc = "walk"
        \/ drive'.pc \in {"look", "register"} /\ drive'.at = drive.at
           /\ (drive'.pc = "register" => drive'.arm \in Messages)
    <3>1. drive.todo \in SUBSET Messages
      BY DriveTodo
    <3>2. CASE Pass
      BY <3>2 DEF Pass, TypeOK, Drives
    <3>3. CASE \E m \in drive.todo :
                 drive' = IF drive.again /\ sub[m] # "active"
                          THEN [drive EXCEPT !.todo = @ \ {m}]
                          ELSE [drive EXCEPT !.pc = "register", !.arm = m, !.todo = @ \ {m}]
      <4>1. PICK m \in drive.todo :
                   drive' \in {[drive EXCEPT !.todo = @ \ {m}],
                              [drive EXCEPT !.pc = "register", !.arm = m, !.todo = @ \ {m}]}
        BY <3>3
      <4>2. drive \in Drives /\ drive.pc = "look" /\ m \in Messages
        BY <1>2, <3>1 DEF Look, TypeOK
      <4> QED
        BY <4>1, <4>2 DEF Drives
    <3> QED
      BY <1>2, <3>2, <3>3 DEF Look
  <2>3. Placed
    BY <1>1, <2>2 DEF Placed, AtHost, here
  <2> QED
    BY <1>1, <2>1, <2>3 DEF Sound, Decides, Departs, Applies
<1>3. CASE Register
  <2>1. decided' = decided /\ exits' = exits
    BY <1>3 DEF Register, rows
  <2>2. drive'.pc \in {"look", "apply"} /\ drive'.at = drive.at /\ drive'.arm = drive.arm
    BY <1>3 DEF Register, TypeOK, Drives
  <2>3. Placed
    BY <1>1, <1>3, <2>2 DEF Placed, AtHost, here, Register
  <2> QED
    BY <1>1, <2>1, <2>3 DEF Sound, Decides, Departs, Applies
<1>4. CASE ApplyClaimed
  <2>1. Decides /\ Departs /\ Placed
    BY <1>1, <1>4, ApplySound DEF ApplyClaimed, AtHost
  <2> QED
    BY <1>1, <2>1 DEF Sound, Applies
<1>5. CASE ReleaseLosers
  <2>1. decided' = decided /\ decided[here] # "none"
    BY <1>5 DEF ReleaseLosers, RaceRecorded, rows
  <2>2. Departs /\ Placed
    BY <1>1, <1>5, <2>1, LeaveGateSound DEF ReleaseLosers
  <2> QED
    BY <1>1, <2>1, <2>2 DEF Sound, Decides, Applies
<1> QED
  BY <1>2, <1>3, <1>4, <1>5

LEMMA DriveSound == ASSUME TypeOK, AtHost, RaceRecorded, Drive PROVE Sound
<1>1. CASE \E by \in {"wake", "operator"} : Begin(by)
  BY <1>1, QuietSound DEF Begin, Idle, rows, bounds
<1>2. CASE Raise \/ Finish
  BY <1>2, QuietSound DEF Raise, Finish, Idle, rows, bounds
<1> QED
  BY <1>1, <1>2, TaskStepSound, CatchStepSound, ScopeStepSound, InnerStepSound, GateStepSound,
     GatewaySound DEF Drive

LEMMA AlarmSound ==
  ASSUME TypeOK, AtHost, RaceRecorded, NEW h \in Hosts, Alarm(h)
  PROVE  Sound
<1>1. CASE Ring(h) \/ Plan(h) \/ ReleaseAll(h) \/ Wake(h)
  <2>1. /\ decided' = decided /\ exits' = exits /\ ended' = ended /\ order' = order
        /\ drive' = drive /\ job' = job
    BY <1>1 DEF Ring, Plan, ReleaseAll, Wake, rows, bounds
  <2> QED
    BY <2>1, QuietSound
<1>2. CASE Suppress(h) \/ Commit(h)
  <2>1. /\ exits' = exits /\ ended' = ended /\ drive' = drive /\ order' = order
        /\ \/ decided' = decided
           \/ Claimable(h) /\ decided' = [decided EXCEPT ![h] = "fired"]
    BY <1>2 DEF Suppress, Commit, Claim, bounds
  <2>2. \A g \in Hosts : job'[g] = "applied" => job[g] = "applied"
    BY <1>2 DEF Suppress, Commit, Abandoned, TypeOK
  <2>3. decided \in [Hosts -> Outcomes]
    BY DEF TypeOK
  <2>4. Decides
    BY <2>1, <2>3 DEF Decides, Claimable
  <2>5. here' = here
    BY <2>1 DEF here
  <2>6. ASSUME drive.pc = "release" PROVE decided'[here] # "none"
    <3>1. here \in Hosts /\ decided[here] # "none"
      BY <2>6, HereTyped DEF AtHost, RaceRecorded
    <3> QED
      BY <2>1, <2>3, <3>1
  <2>7. Placed
    BY <2>1, <2>5, <2>6 DEF Placed, AtHost
  <2> QED
    BY <2>1, <2>2, <2>4, <2>7 DEF Sound, Departs, Applies
<1> QED
  BY <1>1, <1>2 DEF Alarm

LEMMA OperatorSound == ASSUME TypeOK, AtHost, RaceRecorded, Operator PROVE Sound
<1>1. CASE Cancel \/ Close \/ RetryResume
  BY <1>1, QuietSound DEF Cancel, Close, RetryResume, Idle, rows, bounds
<1>2. CASE Clear \/ RetryReset
  <2>1. \A h \in Hosts : job'[h] = "applied" => job[h] = "applied"
    BY <1>2 DEF Clear, RetryReset, Abandoned, TypeOK
  <2> QED
    BY <1>2, <2>1, QuietSound DEF Clear, RetryReset, bounds
<1>3. CASE \E h \in Hosts : Sweep(h)
  <2>1. PICK h \in Hosts : Sweep(h)
    BY <1>3
  <2>2. /\ exits' = exits /\ ended' = ended /\ drive' = drive /\ order' = order /\ job' = job
        /\ \/ decided' = decided
           \/ Claimable(h) /\ h \notin Gates /\ decided' = [decided EXCEPT ![h] = "cancelled"]
    BY <2>1 DEF Sweep, CancelSettle, Claim, bounds
  <2>3. decided \in [Hosts -> Outcomes]
    BY DEF TypeOK
  <2>4. Decides
    BY <2>2, <2>3 DEF Decides, Claimable
  <2>5. here' = here
    BY <2>2 DEF here
  <2>6. ASSUME drive.pc = "release" PROVE decided'[here] # "none"
    <3>1. here \in Hosts /\ decided[here] # "none"
      BY <2>6, HereTyped DEF AtHost, RaceRecorded
    <3> QED
      BY <2>2, <2>3, <3>1
  <2>7. Placed
    BY <2>2, <2>5, <2>6 DEF Placed, AtHost
  <2> QED
    BY <2>2, <2>4, <2>7 DEF Sound, Departs, Applies
<1> QED
  BY <1>1, <1>2, <1>3 DEF Operator

LEMMA StepSound == ASSUME TypeOK, AtHost, RaceRecorded, [Next]_vars PROVE Sound
<1>1. CASE Backstop \/ UNCHANGED vars
  BY <1>1, QuietSound DEF Backstop, vars, rows, bounds
<1>2. ASSUME NEW h \in Hosts, Deadline(h) \/ HandlerDies(h) \/ AlarmLost(h) \/ Activate(h) \/ Report(h)
      PROVE  Sound
  <2>1. \A g \in Hosts : job'[g] = "applied" => job[g] = "applied"
    BY <1>2 DEF Deadline, HandlerDies, AlarmLost, Activate, Report, rows, TypeOK
  <2> QED
    BY <1>2, <2>1, QuietSound DEF Deadline, HandlerDies, AlarmLost, Activate, Report, rows, bounds
<1>3. ASSUME NEW m \in Messages, Publish(m) \/ Record(m) PROVE Sound
  BY <1>3, QuietSound DEF Publish, Record, rows, bounds
<1> QED
  BY <1>1, <1>2, <1>3, DriveSound, AlarmSound, OperatorSound DEF Next

-----------------------------------------------------------------------------
(* The races. *)

\* Whoever left a host left a decider behind, so that the next one takes the same flow.
LEMMA RacePreserved ==
  ASSUME TypeOK, TypeOK', RaceRecorded, OnePath, Sound
  PROVE  RaceRecorded' /\ OnePath'
<1>1. \A h \in Hosts : decided[h] # "none" => decided'[h] = decided[h]
  BY DEF Sound, Decides
<1>2. ASSUME NEW h \in Hosts
      PROVE  exits'[h] \cap {"none", "cancelled"} = {}
  BY <1>2 DEF Sound, Departs, RaceRecorded
<1>3. ASSUME NEW h \in Gates PROVE decided'[h] # "cancelled"
  BY <1>3 DEF Sound, Decides, RaceRecorded, Gates
<1>4. ASSUME NEW h \in Hosts, Kind[h] = "task", job'[h] = "applied" PROVE decided'[h] = "cancelled"
  BY <1>1, <1>4 DEF Sound, Applies, RaceRecorded
<1>5. ASSUME NEW h \in ended' PROVE decided'[h] = "cancelled"
  <2>1. h \in Hosts
    BY <1>5 DEF TypeOK
  <2> QED
    BY <1>1, <1>5, <2>1 DEF Sound, Applies, RaceRecorded
<1>6. RaceRecorded'
  BY <1>2, <1>3, <1>4, <1>5 DEF RaceRecorded, Sound, Placed
<1>7. ASSUME NEW h \in Hosts, NEW path \in exits'[h]
      PROVE  /\ exits'[h] = {path}
             /\ path = "normal" => decided'[h] = "cancelled"
             /\ path # "normal" => decided'[h] = path
  <2>1. ASSUME NEW q \in exits[h]
        PROVE  /\ exits[h] = {q} /\ q \notin {"none", "cancelled"}
               /\ q = "normal" => decided'[h] = "cancelled"
               /\ q # "normal" => decided'[h] = q
    BY <1>1, <2>1 DEF OnePath, RaceRecorded
  <2>2. CASE exits'[h] = exits[h]
    BY <1>7, <2>1, <2>2
  <2>3. CASE exits'[h] # exits[h]
    <3>1. PICK new \in Outcomes \cup {"normal"} :
                 /\ exits'[h] = exits[h] \cup {new} /\ new \notin {"none", "cancelled"}
                 /\ new = "normal" => decided'[h] = "cancelled"
                 /\ new # "normal" => decided'[h] = new
      BY <2>3 DEF Sound, Departs
    <3>2. exits[h] \subseteq {new}
      BY <2>1, <3>1
    <3> QED
      BY <1>7, <3>1, <3>2
  <2> QED
    BY <2>2, <2>3
<1> QED
  BY <1>6, <1>7 DEF OnePath

LEMMA InitIInv == Init => IInv
<1> SUFFICES ASSUME Init PROVE IInv
  OBVIOUS
<1>1. TypeOK
  BY InitTypeOK
<1>2. AtHost
  BY DEF Init, Idle, AtHost
<1>3. RaceRecorded
  BY DEF Init, Idle, RaceRecorded, Gates
<1>4. OnePath
  BY DEF Init, OnePath
<1> QED
  BY <1>1, <1>2, <1>3, <1>4 DEF IInv

LEMMA StepIInv == IInv /\ [Next]_vars => IInv'
<1> SUFFICES ASSUME IInv, [Next]_vars PROVE IInv'
  OBVIOUS
<1>1. TypeOK'
  BY StepTyped DEF IInv
<1>2. Sound
  BY StepSound DEF IInv
<1>3. RaceRecorded' /\ OnePath'
  BY <1>1, <1>2, RacePreserved DEF IInv
<1> QED
  BY <1>1, <1>2, <1>3 DEF IInv, Sound, Placed

(* The deciders and the exits of the hosts stay in step, whatever drives, alarms, workers,      *)
(* publishers and the operator do, in either mode and with any number of lost alarms.           *)
THEOREM Invariance == Spec => []IInv
<1>1. Init => IInv
  BY InitIInv
<1>2. IInv /\ [Next]_vars => IInv'
  BY StepIInv
<1> QED
  BY <1>1, <1>2, PTL DEF Spec

(* Rows, objects and processes keep their shape. *)
THEOREM TypeCorrect == Spec => []TypeOK
<1>1. IInv => TypeOK
  BY DEF IInv
<1> QED
  BY <1>1, Invariance, PTL

(* Of the completion, the messages and the deadline that race for a host exactly one decides,   *)
(* and every drive that leaves the host takes its flow (boundary-timer.ts:6-30,                 *)
(* event-gateway.ts:6-40).                                                                      *)
THEOREM OnePathAlways == Spec => []OnePath
<1>1. IInv => OnePath
  BY DEF IInv
<1> QED
  BY <1>1, Invariance, PTL

-----------------------------------------------------------------------------
(* Nothing of a wait stays open behind the walk: the inductive invariant of    *)
(* that.                                                                       *)

\* A race is decided only after its timer was armed, and its timer is not armed afterwards.
TimersDecided ==
  /\ \A h \in Hosts : decided[h] # "none" => timer[h] \in {"fired", "cancelled"}
  /\ \A h \in Hosts : fire[h].pc # "idle" => timer[h] # "none"
  /\ \A h \in Hosts : fire[h].pc = "frozen" => Kind[h] \in {"scope", "catch"}
  /\ \A h \in op.todo : timer[h] # "none"
  /\ \A h \in Hosts : Kind[h] = "task" => (timer[h] = "none" <=> job[h] = "none")
  /\ drive.pc = "inner" => timer[here] # "none"

\* The branches of a gateway: what is still active is known to whoever decides.
BranchesDecided ==
  /\ \A h \in Gates : \A m \in ArmsOf[h] :
       /\ decided[h] # "none" => sub[m] # "active"
       /\ fire[h].pc = "commit" /\ sub[m] = "active" => m \in fire[h].subs
       /\ timer[h] = "none" => m \notin holder /\ ext[m] \in {"new", "buffered"}
  /\ drive.pc \in {"look", "register", "apply"} => timer[here] # "none"
  /\ drive.pc = "look" => drive.todo \subseteq ArmsOf[here]
  /\ drive.pc = "register" => drive.arm \in ArmsOf[here] /\ drive.todo \subseteq ArmsOf[here]
  /\ drive.pc = "apply" => drive.arm \in ArmsOf[here]

\* The work of a host that was left is over, and no incident is about such a host.
WorkOver ==
  /\ \A h \in Hosts : Kind[h] \notin {"task", "scope"} => job[h] = "none"
  /\ \A h \in Hosts : h \notin Gates => decided[h] \in {"none", "fired", "cancelled"}
  /\ \A h \in ended : job[h] = "applied"
  /\ \A h \in Hosts : "normal" \in exits[h] => job[h] = "applied" /\ (Kind[h] = "scope" => h \in ended)
  /\ \A h \in Hosts : Kind[h] = "task" /\ decided[h] = "fired" => job[h] \notin {"created", "locked"}
  /\ \A h \in Hosts : Kind[h] = "scope" /\ "fired" \in exits[h] => job[h] \notin {"created", "locked"}

Unfinished(h) ==
  exits[h] = {} /\ Kind[h] \in {"task", "scope"} /\ (Kind[h] = "task" => decided[h] = "cancelled")
Incidents ==
  /\ drive.pc = "inner" => Kind[here] = "scope" /\ exits[here] \subseteq {"normal"}
  /\ drive.pc = "raise" => Unfinished(here)
  /\ status = "incident" => drive.pc = "idle" /\ ~alive /\ Unfinished(broken)

CInv == IInv /\ TimersDecided /\ BranchesDecided /\ WorkOver /\ Incidents
-----------------------------------------------------------------------------
(* Timers and deciders. *)

\* Where the drive is after each of the ways to go on.
LEMMA Places ==
  ASSUME TypeOK
  PROVE  /\ \A path \in Outcomes \cup {"normal"} : Leave(path) => drive'.pc = "walk"
         /\ Pass => drive'.pc = "walk"
         /\ drive' = Idle => drive'.pc = "idle"
         /\ \A pc \in {"inner", "raise", "look", "register", "apply", "release"} :
              drive' = [drive EXCEPT !.pc = pc] => drive'.pc = pc /\ drive'.at = drive.at
<1>1. drive \in Drives
  BY DEF TypeOK
<1>2. ASSUME NEW path \in Outcomes \cup {"normal"}, Leave(path) PROVE drive'.pc = "walk"
  BY <1>1, <1>2 DEF Leave, Drives
<1>3. Pass => drive'.pc = "walk"
  BY <1>1 DEF Pass, Drives
<1>4. drive' = Idle => drive'.pc = "idle"
  BY DEF Idle
<1>5. ASSUME NEW pc \in {"inner", "raise", "look", "register", "apply", "release"},
             drive' = [drive EXCEPT !.pc = pc]
      PROVE  drive'.pc = pc /\ drive'.at = drive.at
  BY <1>1, <1>5 DEF Drives
<1> QED
  BY <1>2, <1>3, <1>4, <1>5

LEMMA ArmMoves ==
  ASSUME TypeOK, NEW h \in Hosts, Arm(h)
  PROVE  timer'[h] = "armed" /\ \A g \in Hosts \ {h} : timer'[g] = timer[g]
  BY DEF TypeOK, Arm, ArmedRow

\* Steps that leave the timers alone.
LEMMA TimersStay ==
  ASSUME TimersDecided, UNCHANGED <<decided, timer, order>>,
         \A h \in Hosts : Kind[h] = "task" => (job'[h] = "none" <=> job[h] = "none"),
         \A h \in Hosts : fire'[h].pc # "idle" => fire[h].pc # "idle" \/ timer[h] # "none",
         \A h \in Hosts : fire'[h].pc = "frozen" =>
                           fire[h].pc = "frozen" \/ Kind[h] \in {"scope", "catch"},
         \A h \in op'.todo : timer[h] # "none",
         drive' = drive \/ drive'.pc # "inner"
  PROVE  TimersDecided'
  BY DEF TimersDecided, here

\* Steps that arm a timer at its first visit, or claim and flip it.
LEMMA TimersMove ==
  ASSUME TypeOK, TimersDecided, UNCHANGED <<fire, op, order>>,
         \A h \in Hosts :
           \/ timer'[h] = timer[h] /\ decided'[h] = decided[h]
           \/ timer[h] = "none" /\ timer'[h] = "armed" /\ decided'[h] = decided[h]
           \/ timer[h] # "none" /\ timer'[h] \in {"fired", "cancelled"},
         \A h \in Hosts : Kind[h] = "task" => (timer'[h] = "none" <=> job'[h] = "none"),
         drive'.pc = "inner" => drive'.at = drive.at /\ timer'[here] # "none"
  PROVE  TimersDecided'
<1>1. ASSUME NEW h \in Hosts, decided'[h] # "none" PROVE timer'[h] \in {"fired", "cancelled"}
  BY <1>1 DEF TimersDecided
<1>2. \A h \in Hosts : timer[h] # "none" => timer'[h] # "none"
  OBVIOUS
<1>3. ASSUME NEW h \in Hosts
      PROVE  /\ fire'[h].pc # "idle" => timer'[h] # "none"
             /\ fire'[h].pc = "frozen" => Kind[h] \in {"scope", "catch"}
  BY <1>2, <1>3 DEF TimersDecided
<1>4. ASSUME NEW h \in op'.todo PROVE timer'[h] # "none"
  <2>1. h \in Hosts /\ timer[h] # "none"
    BY <1>4 DEF TypeOK, Ops, TimersDecided
  <2> QED
    BY <1>2, <2>1
<1>5. drive'.pc = "inner" => timer'[here'] # "none"
  BY DEF here
<1> QED
  BY <1>1, <1>3, <1>4, <1>5 DEF TimersDecided

\* Alarms and sweeps flip timers of which they know.
LEMMA TimersChange ==
  ASSUME TypeOK, TimersDecided, UNCHANGED <<drive, order>>,
         \A h \in Hosts :
           \/ timer'[h] = timer[h] /\ decided'[h] = decided[h]
           \/ timer[h] # "none" /\ timer'[h] \in {"fired", "cancelled"},
         \A h \in Hosts : job'[h] = "none" <=> job[h] = "none",
         \A h \in Hosts : /\ fire'[h].pc # "idle" => fire[h].pc # "idle"
                          /\ fire'[h].pc = "frozen" => fire[h].pc = "frozen",
         op'.todo \subseteq op.todo, AtHost
  PROVE  TimersDecided'
<1>1. \A h \in Hosts : timer[h] # "none" <=> timer'[h] # "none"
  OBVIOUS
<1>2. ASSUME NEW h \in Hosts, decided'[h] # "none" PROVE timer'[h] \in {"fired", "cancelled"}
  BY <1>2 DEF TimersDecided
<1>3. ASSUME NEW h \in op'.todo PROVE timer'[h] # "none"
  <2>1. h \in Hosts /\ timer[h] # "none"
    BY <1>3 DEF TypeOK, Ops, TimersDecided
  <2> QED
    BY <1>1, <2>1
<1>4. ASSUME drive.pc = "inner" PROVE timer'[here] # "none"
  BY <1>1, <1>4, HereTyped DEF AtHost, TimersDecided
<1> QED
  BY <1>1, <1>2, <1>3, <1>4 DEF TimersDecided, here

LEMMA FlipMoves ==
  ASSUME TypeOK, NEW h \in Hosts, timer[h] # "none", NEW to \in {"fired", "cancelled"}, Flip(h, to)
  PROVE  /\ timer'[h] \in {"fired", "cancelled"}
         /\ \A g \in Hosts \ {h} : timer'[g] = timer[g]
  BY DEF TypeOK, Flip

LEMMA CancelMoves ==
  ASSUME TypeOK, TimersDecided, NEW h \in Hosts, timer[h] # "none", CancelSettle(h) \/ SettleCancel(h)
  PROVE  \A g \in Hosts :
           \/ timer'[g] = timer[g] /\ decided'[g] = decided[g]
           \/ timer[g] # "none" /\ timer'[g] \in {"fired", "cancelled"}
<1>1. CASE CancelSettle(h)
  <2>1. Flip(h, "cancelled") /\ decided' = [decided EXCEPT ![h] = "cancelled"]
    BY <1>1 DEF CancelSettle, Claim
  <2>2. /\ timer'[h] \in {"fired", "cancelled"}
        /\ \A g \in Hosts \ {h} : timer'[g] = timer[g] /\ decided'[g] = decided[g]
    BY <2>1, FlipMoves DEF TypeOK
  <2> QED
    BY <2>2
<1>2. CASE SettleCancel(h) /\ ~CancelSettle(h)
  BY <1>2 DEF SettleCancel
<1> QED
  BY <1>1, <1>2

LEMMA TaskStepTimers == ASSUME TypeOK, TimersDecided, TaskStep PROVE TimersDecided'
<1>1. /\ here \in Hosts /\ Kind[here] = "task" /\ UNCHANGED <<fire, op, order>>
      /\ job \in [Hosts -> {"none", "created", "locked", "completed", "applied", "failed"}]
      /\ timer \in [Hosts -> {"none", "armed", "fired", "cancelled"}]
  BY HereTyped DEF TaskStep, Walking, bounds, TypeOK
<1>2. drive'.pc # "inner"
  BY Places DEF TaskStep, Parked, Throw, Outcomes
<1>3. CASE UNCHANGED rows
  BY <1>1, <1>2, <1>3, TimersMove DEF rows, TimersDecided
<1>4. CASE job[here] = "none" /\ Created(here) /\ Arm(here) /\ decided' = decided
  <2>1. timer[here] = "none" /\ timer'[here] = "armed" /\ job'[here] = "created"
    BY <1>1, <1>4 DEF TimersDecided, Arm, ArmedRow, Created
  <2>2. \A g \in Hosts \ {here} : timer'[g] = timer[g] /\ job'[g] = job[g]
    BY <1>1, <1>4 DEF Arm, ArmedRow, Created
  <2> QED
    BY <1>1, <1>2, <1>4, <2>1, <2>2, TimersMove DEF TimersDecided
<1>5. CASE job[here] # "none" /\ (CancelSettle(here) \/ SettleCancel(here))
           /\ job' \in {job, [job EXCEPT ![here] = "applied"]}
  <2>1. timer[here] # "none"
    BY <1>1, <1>5 DEF TimersDecided
  <2>2. \A g \in Hosts :
          \/ timer'[g] = timer[g] /\ decided'[g] = decided[g]
          \/ timer[g] # "none" /\ timer'[g] \in {"fired", "cancelled"}
    BY <1>1, <1>5, <2>1, CancelMoves
  <2>3. \A g \in Hosts : job'[g] = "none" <=> job[g] = "none"
    BY <1>1, <1>5
  <2>4. \A g \in Hosts : Kind[g] = "task" => (timer'[g] = "none" <=> job'[g] = "none")
    BY <2>2, <2>3 DEF TimersDecided
  <2> QED
    BY <1>1, <1>2, <2>2, <2>4, TimersMove
<1> QED
  BY <1>3, <1>4, <1>5 DEF TaskStep

LEMMA CatchStepTimers == ASSUME TypeOK, TimersDecided, CatchStep PROVE TimersDecided'
<1>1. here \in Hosts /\ Kind[here] = "catch" /\ UNCHANGED <<fire, op, order, job, decided>>
  BY HereTyped DEF CatchStep, Walking, bounds
<1>2. drive'.pc # "inner"
  BY DEF CatchStep, Leave, Pass, Parked, TypeOK, Drives
<1>3. \A g \in Hosts :
        \/ timer'[g] = timer[g]
        \/ g = here /\ timer[g] = "none" /\ timer'[g] = "armed"
  BY <1>1, ArmMoves DEF CatchStep
<1> QED
  BY <1>1, <1>2, <1>3, TimersMove DEF TimersDecided

LEMMA ScopeStepTimers == ASSUME TypeOK, TimersDecided, ScopeStep PROVE TimersDecided'
<1>1. here \in Hosts /\ Kind[here] = "scope" /\ UNCHANGED <<fire, op, order, decided>>
  BY HereTyped DEF ScopeStep, Walking, bounds
<1>2. drive'.pc = "inner" => drive'.at = drive.at /\ timer'[here] # "none"
  <2>1. CASE Leave("fired")
    BY <2>1 DEF Leave, TypeOK, Drives
  <2>2. CASE EnterScope(here) /\ drive' = [drive EXCEPT !.pc = "inner"]
    BY <1>1, <2>2 DEF EnterScope, Arm, ArmedRow, TypeOK, Drives
  <2> QED
    BY <2>1, <2>2 DEF ScopeStep
<1>3. \A g \in Hosts :
        \/ timer'[g] = timer[g]
        \/ g = here /\ timer[g] = "none" /\ timer'[g] = "armed"
  BY <1>1, ArmMoves DEF ScopeStep, EnterScope
<1>4. \A g \in Hosts : Kind[g] = "task" => job'[g] = job[g]
  BY <1>1 DEF ScopeStep, Drained, TypeOK
<1> QED
  BY <1>1, <1>2, <1>3, <1>4, TimersMove DEF TimersDecided

LEMMA InnerStepTimers == ASSUME TypeOK, TimersDecided, InnerStep PROVE TimersDecided'
<1>1. /\ here \in Hosts /\ Kind[here] = "scope" /\ drive.pc = "inner"
      /\ UNCHANGED <<fire, op, order>> /\ timer[here] # "none"
  BY HereTyped DEF InnerStep, Walking, bounds, TimersDecided
<1>2. drive'.pc = "inner" => drive' = drive
  BY Places DEF InnerStep, Parked, Throw, Outcomes
<1>3. \A g \in Hosts :
        \/ timer'[g] = timer[g] /\ decided'[g] = decided[g]
        \/ timer[g] # "none" /\ timer'[g] \in {"fired", "cancelled"}
  <2>1. CASE UNCHANGED <<timer, decided>>
    BY <2>1
  <2>2. CASE CancelSettle(here)
    BY <1>1, <2>2, CancelMoves
  <2> QED
    BY <2>1, <2>2 DEF InnerStep, rows
<1>4. \A g \in Hosts : Kind[g] = "task" => job'[g] = job[g]
  BY <1>1 DEF InnerStep, Created, rows, TypeOK
<1>5. timer'[here] # "none"
  BY <1>1, <1>3
<1> QED
  BY <1>1, <1>2, <1>3, <1>4, <1>5, TimersMove DEF TimersDecided

\* A message is applied behind the registration of its gateway, or by a drive that parked it.
LEMMA ApplyTimers ==
  ASSUME TypeOK, TimersDecided, drive.at <= Len(order), NEW m \in Messages, Apply(m),
         timer[here] # "none", UNCHANGED <<job, fire, op, order>>
  PROVE  TimersDecided'
<1>1. here \in Hosts
  BY HereTyped
<1>2. drive'.pc # "inner"
  BY ApplyGoes
<1>3. CASE Claimable(here)
  <2>1. Flip(here, "cancelled") /\ decided' = [decided EXCEPT ![here] = m]
    BY <1>3 DEF Apply, Decide
  <2>2. /\ timer'[here] \in {"fired", "cancelled"}
        /\ \A g \in Hosts \ {here} : timer'[g] = timer[g] /\ decided'[g] = decided[g]
    BY <1>1, <2>1, FlipMoves DEF TypeOK
  <2>3. \A g \in Hosts : Kind[g] = "task" => (timer'[g] = "none" <=> job'[g] = "none")
    BY <2>2 DEF TimersDecided
  <2> QED
    BY <1>2, <2>2, <2>3, TimersMove
<1>4. CASE ~Claimable(here)
  BY <1>2, <1>4, TimersStay DEF Apply, TimersDecided
<1> QED
  BY <1>3, <1>4

LEMMA GateStepTimers ==
  ASSUME TypeOK, TimersDecided, BranchesDecided, GateStep PROVE TimersDecided'
<1>1. /\ drive.at <= Len(order) /\ here \in Gates /\ UNCHANGED <<job, fire, op, order>>
      /\ ArmsOf[here] \subseteq Messages /\ here \in Hosts
  BY HereTyped, Shape DEF GateStep, Walking, Gates, bounds
<1>2. CASE Leave(decided[here]) /\ UNCHANGED <<decided, timer>>
  <2>1. drive'.pc # "inner"
    BY <1>2 DEF Leave, TypeOK, Drives
  <2> QED
    BY <1>1, <1>2, <2>1, TimersStay DEF TimersDecided
<1>3. CASE \E m \in ArmsOf[here] : ext[m] = "correlated" /\ Apply(m)
  <2>1. PICK m \in ArmsOf[here] : ext[m] = "correlated" /\ Apply(m)
    BY <1>3
  <2>2. timer[here] # "none"
    BY <1>1, <2>1 DEF BranchesDecided
  <2> QED
    BY <1>1, <2>1, <2>2, ApplyTimers
<1>4. CASE ParkGate /\ decided' = decided
  <2>1. drive'.pc # "inner"
    BY <1>4 DEF ParkGate, TypeOK, Drives
  <2>2. \A g \in Hosts :
          \/ timer'[g] = timer[g]
          \/ g = here /\ timer[g] = "none" /\ timer'[g] = "armed"
    BY <1>1, <1>4, ArmMoves DEF ParkGate
  <2>3. Kind[here] # "task"
    BY <1>1 DEF Gates
  <2> QED
    BY <1>1, <1>4, <2>1, <2>2, <2>3, TimersMove DEF TimersDecided
<1> QED
  BY <1>2, <1>3, <1>4 DEF GateStep
LEMMA DriveTimers ==
  ASSUME TypeOK, AtHost, TimersDecided, BranchesDecided, Drive PROVE TimersDecided'
<1>1. CASE \E by \in {"wake", "operator"} : Begin(by)
  <2>1. UNCHANGED <<decided, timer, order, job, fire, op>>
    BY <1>1 DEF Begin, rows, bounds
  <2>2. drive' = drive \/ drive'.pc # "inner"
    BY <1>1 DEF Begin, Idle
  <2> QED
    BY <2>1, <2>2, TimersStay DEF TimersDecided
<1>2. CASE Raise \/ Look \/ Register \/ ReleaseLosers \/ Finish
  <2>1. UNCHANGED <<decided, timer, order, job, fire, op>>
    BY <1>2 DEF Raise, Look, Register, ReleaseLosers, Finish, rows, bounds
  <2>2. drive'.pc # "inner"
    <3>1. CASE Raise \/ Finish
      BY <3>1, Places DEF Raise, Finish
    <3>2. CASE Look
      <4>1. drive \in Drives /\ drive.pc = "look"
        BY <3>2 DEF Look, TypeOK
      <4>2. CASE Pass
        BY <4>2, Places
      <4>3. ASSUME NEW m \in drive.todo, drive' = [drive EXCEPT !.todo = @ \ {m}]
            PROVE  drive'.pc # "inner"
        BY <4>1, <4>3 DEF Drives
      <4>4. ASSUME NEW m \in drive.todo,
                   drive' = [drive EXCEPT !.pc = "register", !.arm = m, !.todo = @ \ {m}]
            PROVE  drive'.pc # "inner"
        BY <4>1, <4>4 DEF Drives
      <4> QED
        BY <3>2, <4>2, <4>3, <4>4 DEF Look
    <3>3. CASE Register
      <4>1. \E pc \in {"apply", "look"} : drive' = [drive EXCEPT !.pc = pc]
        BY <3>3 DEF Register
      <4> QED
        BY <4>1, Places
    <3>4. CASE ReleaseLosers
      <4>1. Leave(decided[here])
        BY <3>4 DEF ReleaseLosers
      <4>2. drive \in Drives
        BY DEF TypeOK
      <4> QED
        BY <4>1, <4>2 DEF Leave, Drives
    <3> QED
      BY <1>2, <3>1, <3>2, <3>3, <3>4
  <2> QED
    BY <2>1, <2>2, TimersStay DEF TimersDecided
<1>3. CASE ApplyClaimed
  <2>1. drive.at <= Len(order) /\ drive.arm \in Messages /\ timer[here] # "none"
    BY <1>3 DEF ApplyClaimed, AtHost, BranchesDecided
  <2> QED
    BY <1>3, <2>1, ApplyTimers DEF ApplyClaimed, bounds
<1> QED
  BY <1>1, <1>2, <1>3, TaskStepTimers, CatchStepTimers, ScopeStepTimers, InnerStepTimers,
     GateStepTimers DEF Drive

\* What an alarm's handler does to its place.
LEMMA HandlerMoves ==
  ASSUME TypeOK, NEW h \in Hosts
  PROVE  /\ \A pc \in {"idle", "plan", "frozen", "commit", "release", "wake", "missed"} :
              \A subs \in SUBSET Messages :
                Handler(h, pc, subs) => fire'[h].pc = pc /\ fire'[h].subs = subs
                                        /\ \A g \in Hosts \ {h} : fire'[g] = fire[g]
         /\ Teardown(h) => fire'[h].pc = "idle" /\ \A g \in Hosts \ {h} : fire'[g] = fire[g]
  BY DEF Teardown, Handler, TypeOK

LEMMA AlarmTimers ==
  ASSUME TypeOK, AtHost, TimersDecided, NEW h \in Hosts, Alarm(h) PROVE TimersDecided'
<1>1. CASE Ring(h)
  <2>1. UNCHANGED <<decided, timer, order, job, op, drive>>
    BY <1>1 DEF Ring, rows, bounds
  <2>2. {} \in SUBSET Messages
    OBVIOUS
  <2>3. \A g \in Hosts : /\ fire'[g].pc # "idle" => fire[g].pc # "idle" \/ timer[g] # "none"
                         /\ fire'[g].pc = "frozen" => fire[g].pc = "frozen" \/ Kind[g] \in {"scope", "catch"}
    BY <1>1, <2>2, HandlerMoves DEF Ring
  <2> QED
    BY <2>1, <2>3, TimersStay DEF TimersDecided
<1>2. CASE ReleaseAll(h) \/ Wake(h)
  <2>1. UNCHANGED <<decided, timer, order, job, op, drive>> /\ fire[h].pc # "idle"
    BY <1>2 DEF ReleaseAll, Wake, rows, bounds
  <2>2. {} \in SUBSET Messages
    OBVIOUS
  <2>3. \A g \in Hosts : /\ fire'[g].pc # "idle" => fire[g].pc # "idle"
                         /\ fire'[g].pc = "frozen" => fire[g].pc = "frozen"
    BY <1>2, <2>1, <2>2, HandlerMoves DEF ReleaseAll, Wake
  <2> QED
    BY <2>1, <2>3, TimersStay DEF TimersDecided
<1>3. CASE Suppress(h) \/ Plan(h) \/ Commit(h)
  <2>1. fire[h].pc # "idle" /\ timer[h] # "none" /\ UNCHANGED <<order, op, drive>>
    BY <1>3 DEF Suppress, Plan, Commit, TimersDecided, bounds
  <2>2. \A g \in Hosts :
          \/ timer'[g] = timer[g] /\ decided'[g] = decided[g]
          \/ timer[g] # "none" /\ timer'[g] \in {"fired", "cancelled"}
    <3>1. CASE UNCHANGED <<timer, decided>>
      BY <3>1
    <3>2. CASE Claim(h, "fired") /\ Flip(h, "fired")
      BY <2>1, <3>2, FlipMoves DEF Claim, TypeOK
    <3>3. CASE Flip(h, "cancelled") /\ UNCHANGED decided
      BY <2>1, <3>3, FlipMoves
    <3> QED
      BY <1>3, <3>1, <3>2, <3>3 DEF Suppress, Plan, Commit
  <2>3. \A g \in Hosts : job'[g] = "none" <=> job[g] = "none"
    BY <1>3 DEF Suppress, Plan, Commit, Abandoned, TypeOK
  <2>4. fire[h].subs \in SUBSET Messages /\ {m \in ArmsOf[h] : sub[m] = "active"} \in SUBSET Messages
        /\ {} \in SUBSET Messages
    BY Shape DEF TypeOK, Fires
  <2>5. \A g \in Hosts : /\ fire'[g].pc # "idle" => fire[g].pc # "idle"
                         /\ fire'[g].pc = "frozen" => fire[g].pc = "frozen"
    BY <1>3, <2>1, <2>4, HandlerMoves DEF Suppress, Plan, Commit
  <2> QED
    BY <2>1, <2>2, <2>3, <2>5, TimersChange
<1> QED
  BY <1>1, <1>2, <1>3 DEF Alarm

LEMMA OperatorTimers == ASSUME TypeOK, AtHost, TimersDecided, Operator PROVE TimersDecided'
<1>1. CASE Cancel \/ Close \/ RetryResume
  <2>1. UNCHANGED <<decided, timer, order, job, fire>>
    BY <1>1 DEF Cancel, Close, RetryResume, rows, bounds
  <2>2. op'.todo = {} /\ (drive' = drive \/ drive' = Idle)
    BY <1>1 DEF Cancel, Close, RetryResume, Call
  <2>3. drive' = drive \/ drive'.pc # "inner"
    BY <2>2, Places
  <2> QED
    BY <2>1, <2>2, <2>3, TimersStay DEF TimersDecided
<1>2. CASE Clear \/ RetryReset
  <2>1. UNCHANGED <<decided, timer, order, fire, drive>>
    BY <1>2 DEF Clear, RetryReset, bounds
  <2>2. \A g \in Hosts : job'[g] = "none" <=> job[g] = "none"
    BY <1>2 DEF Clear, RetryReset, Abandoned, TypeOK
  <2>3. \A g \in op'.todo : timer[g] # "none"
    BY <1>2 DEF Clear, RetryReset, Call
  <2> QED
    BY <2>1, <2>2, <2>3, TimersStay DEF TimersDecided
<1>3. CASE \E h \in Hosts : Sweep(h)
  <2>1. PICK h \in Hosts : Sweep(h)
    BY <1>3
  <2>2. timer[h] # "none" /\ UNCHANGED <<order, fire, drive, job>> /\ op'.todo \subseteq op.todo
    BY <2>1 DEF Sweep, TimersDecided, bounds, TypeOK, Ops
  <2>3. \A g \in Hosts :
          \/ timer'[g] = timer[g] /\ decided'[g] = decided[g]
          \/ timer[g] # "none" /\ timer'[g] \in {"fired", "cancelled"}
    <3>1. CASE Flip(h, "cancelled") /\ UNCHANGED decided
      BY <2>2, <3>1, FlipMoves
    <3>2. CASE CancelSettle(h)
      BY <2>2, <3>2, CancelMoves
    <3>3. CASE UNCHANGED <<decided, timer>>
      BY <3>3
    <3> QED
      BY <2>1, <3>1, <3>2, <3>3 DEF Sweep
  <2> QED
    BY <2>2, <2>3, TimersChange
<1> QED
  BY <1>1, <1>2, <1>3 DEF Operator

LEMMA StepTimers ==
  ASSUME TypeOK, AtHost, TimersDecided, BranchesDecided, [Next]_vars PROVE TimersDecided'
<1>1. CASE Backstop \/ UNCHANGED vars
  <2>1. UNCHANGED <<decided, timer, order, job, fire, op, drive>>
    BY <1>1 DEF Backstop, vars, rows, bounds
  <2> QED
    BY <2>1, TimersStay DEF TimersDecided
<1>2. ASSUME NEW h \in Hosts, Deadline(h) \/ AlarmLost(h) \/ Activate(h) \/ Report(h)
      PROVE  TimersDecided'
  <2>1. UNCHANGED <<decided, timer, order, fire, op, drive>>
    BY <1>2 DEF Deadline, AlarmLost, Activate, Report, rows, bounds
  <2>2. \A g \in Hosts : job'[g] = "none" <=> job[g] = "none"
    BY <1>2 DEF Deadline, AlarmLost, Activate, Report, rows, TypeOK
  <2> QED
    BY <2>1, <2>2, TimersStay DEF TimersDecided
<1>3. ASSUME NEW h \in Hosts, HandlerDies(h) PROVE TimersDecided'
  <2>1. UNCHANGED <<decided, timer, order, job, op, drive>>
    BY <1>3 DEF HandlerDies, rows
  <2>2. {} \in SUBSET Messages
    OBVIOUS
  <2>3. \A g \in Hosts : fire'[g].pc # "idle" => fire'[g] = fire[g]
    BY <1>3, <2>2, HandlerMoves DEF HandlerDies
  <2> QED
    BY <2>1, <2>3, TimersStay DEF TimersDecided
<1>4. ASSUME NEW m \in Messages, Publish(m) \/ Record(m) PROVE TimersDecided'
  <2>1. UNCHANGED <<decided, timer, order, job, fire, op, drive>>
    BY <1>4 DEF Publish, Record, rows, bounds
  <2> QED
    BY <2>1, TimersStay DEF TimersDecided
<1> QED
  BY <1>1, <1>2, <1>3, <1>4, DriveTimers, AlarmTimers, OperatorTimers DEF Next
-----------------------------------------------------------------------------
(* Branches of gateways. *)

\* Steps that decide no gateway, activate no subscription and hand nothing over.
LEMMA BranchesStay ==
  ASSUME BranchesDecided, order' = order,
         \A h \in Hosts : timer'[h] = "none" => timer[h] = "none",
         \A h \in Gates : decided'[h] # "none" => decided[h] # "none",
         \A m \in Messages : sub'[m] = "active" => sub[m] = "active",
         \A m \in Messages :
           m \notin holder /\ ext[m] \in {"new", "buffered"} =>
             m \notin holder' /\ ext'[m] \in {"new", "buffered"},
         \A h \in Hosts : fire'[h].pc = "commit" => fire'[h] = fire[h],
         \/ /\ drive' = drive
            /\ drive.pc \in {"look", "register", "apply"} => here \in Hosts /\ timer'[here] # "none"
         \/ drive'.pc \notin {"look", "register", "apply"}
  PROVE  BranchesDecided'
<1>1. ASSUME NEW h \in Gates, NEW m \in ArmsOf[h]
      PROVE  /\ decided'[h] # "none" => sub'[m] # "active"
             /\ fire'[h].pc = "commit" /\ sub'[m] = "active" => m \in fire'[h].subs
             /\ timer'[h] = "none" => m \notin holder' /\ ext'[m] \in {"new", "buffered"}
  <2>1. h \in Hosts /\ m \in Messages
    BY <1>1, Shape DEF Gates
  <2> QED
    BY <1>1, <2>1 DEF BranchesDecided
<1>2. CASE /\ drive' = drive
           /\ drive.pc \in {"look", "register", "apply"} => here \in Hosts /\ timer'[here] # "none"
  BY <1>1, <1>2 DEF BranchesDecided, here
<1>3. CASE drive'.pc \notin {"look", "register", "apply"}
  BY <1>1, <1>3 DEF BranchesDecided
<1> QED
  BY <1>2, <1>3

LEMMA WalkBranches ==
  ASSUME TypeOK, TimersDecided, BranchesDecided, TaskStep \/ CatchStep \/ ScopeStep \/ InnerStep
  PROVE  BranchesDecided'
<1>1. here \in Hosts /\ here \notin Gates /\ UNCHANGED <<order, fire>> /\ UNCHANGED msgs
  BY HereTyped DEF TaskStep, CatchStep, ScopeStep, InnerStep, Walking, Gates, bounds
<1>2. \A h \in Hosts : timer'[h] = "none" => timer[h] = "none"
  <2>1. CASE UNCHANGED timer
    BY <2>1
  <2>2. CASE Arm(here)
    BY <1>1, <2>2, ArmMoves
  <2>3. CASE CancelSettle(here) \/ SettleCancel(here)
    BY <1>1, <2>3 DEF CancelSettle, SettleCancel, Flip, TypeOK
  <2> QED
    BY <2>1, <2>2, <2>3 DEF TaskStep, CatchStep, ScopeStep, EnterScope, InnerStep, rows
<1>3. \A h \in Gates : decided'[h] = decided[h]
  <2>1. CASE UNCHANGED decided
    BY <2>1
  <2>2. CASE CancelSettle(here) \/ SettleCancel(here)
    BY <1>1, <2>2 DEF CancelSettle, SettleCancel, Claim, TypeOK, Gates
  <2> QED
    BY <2>1, <2>2 DEF TaskStep, CatchStep, ScopeStep, InnerStep, rows
<1>4. drive'.pc \notin {"look", "register", "apply"}
  <2>1. CASE TaskStep
    BY <2>1, Places DEF TaskStep, Parked, Throw, Outcomes
  <2>2. CASE CatchStep
    BY <2>2, Places DEF CatchStep, Parked, Outcomes
  <2>3. CASE ScopeStep
    BY <2>3, Places DEF ScopeStep, Outcomes
  <2>4. CASE InnerStep
    BY <2>4, Places DEF InnerStep, Walking, Parked, Throw, Outcomes
  <2> QED
    BY <2>1, <2>2, <2>3, <2>4
<1> QED
  BY <1>1, <1>2, <1>3, <1>4, BranchesStay DEF msgs, BranchesDecided

\* The decision of a gateway closes its branches, and no other gateway has them.
LEMMA ApplyBranches ==
  ASSUME TypeOK, BranchesDecided, drive.at <= Len(order), here \in Gates, NEW m \in ArmsOf[here],
         Apply(m), timer[here] # "none", UNCHANGED <<order, fire, holder>>
  PROVE  BranchesDecided'
<1>1. /\ here \in Hosts /\ m \in Messages /\ ArmsOf[here] \subseteq Messages
      /\ timer \in [Hosts -> {"none", "armed", "fired", "cancelled"}]
      /\ sub \in [Messages -> {"none", "active", "consumed", "superseded"}]
      /\ ext \in [Messages -> {"new", "buffered", "matched", "correlated", "claimed", "applied"}]
      /\ decided \in [Hosts -> Outcomes]
  BY HereTyped, Shape DEF TypeOK
<1>2. drive'.pc \notin {"look", "register", "apply"}
  BY ApplyGoes
<1>3. CASE Claimable(here)
  <2>1. /\ \A g \in Gates \ {here} : decided'[g] = decided[g] /\ timer'[g] = timer[g]
        /\ timer'[here] # "none"
    BY <1>1, <1>3 DEF Apply, Decide, Flip, Gates
  <2>2. \A l \in ArmsOf[here] : sub'[l] # "active"
    BY <1>1, <1>3 DEF Apply, Superseded
  <2>3. \A l \in Messages : sub'[l] = "active" => sub[l] = "active"
    BY <1>1, <1>3 DEF Apply, Superseded
  <2>4. \A l \in Messages \ {m} : ext'[l] = ext[l]
    BY <1>1, <1>3 DEF Apply
  <2>5. ASSUME NEW h \in Gates, NEW l \in ArmsOf[h]
        PROVE  /\ decided'[h] # "none" => sub'[l] # "active"
               /\ fire'[h].pc = "commit" /\ sub'[l] = "active" => l \in fire'[h].subs
               /\ timer'[h] = "none" => l \notin holder' /\ ext'[l] \in {"new", "buffered"}
    <3>1. h \in Hosts /\ l \in Messages
      BY <2>5, Shape DEF Gates
    <3>2. CASE h = here
      BY <2>1, <2>2, <2>5, <3>2
    <3>3. CASE h # here
      <4>1. l # m
        BY <2>5, <3>3, Shape
      <4> QED
        BY <2>1, <2>3, <2>4, <2>5, <3>1, <3>3, <4>1 DEF BranchesDecided
    <3> QED
      BY <3>2, <3>3
  <2> QED
    BY <1>2, <2>5 DEF BranchesDecided
<1>4. CASE ~Claimable(here)
  <2>1. UNCHANGED <<decided, timer, sub, ext>>
    BY <1>4 DEF Apply
  <2> QED
    BY <1>2, <2>1, BranchesStay DEF BranchesDecided
<1> QED
  BY <1>3, <1>4

LEMMA GateStepBranches ==
  ASSUME TypeOK, TimersDecided, BranchesDecided, GateStep PROVE BranchesDecided'
<1>1. /\ drive.at <= Len(order) /\ here \in Gates /\ here \in Hosts /\ UNCHANGED <<holder, fire, order>>
      /\ ArmsOf[here] \subseteq Messages
  BY HereTyped, Shape DEF GateStep, Walking, Gates, bounds
<1>2. CASE Leave(decided[here]) /\ UNCHANGED <<decided, timer, sub, ext>>
  <2>1. drive'.pc \notin {"look", "register", "apply"}
    BY <1>2 DEF Leave, TypeOK, Drives
  <2> QED
    BY <1>1, <1>2, <2>1, BranchesStay DEF BranchesDecided
<1>3. CASE \E m \in ArmsOf[here] : ext[m] = "correlated" /\ Apply(m)
  <2>1. PICK m \in ArmsOf[here] : ext[m] = "correlated" /\ Apply(m)
    BY <1>3
  <2>2. timer[here] # "none"
    BY <1>1, <2>1 DEF BranchesDecided
  <2> QED
    BY <1>1, <2>1, <2>2, ApplyBranches
<1>4. CASE ParkGate /\ UNCHANGED <<decided, ext>>
  <2>1. drive'.pc = "look" /\ drive'.at = drive.at /\ drive'.todo = ArmsOf[here]
    BY <1>4 DEF ParkGate, TypeOK, Drives
  <2>2. here' = here
    BY <1>1, <2>1 DEF here
  <2>3. timer'[here] # "none" /\ \A h \in Hosts : timer'[h] = "none" => timer[h] = "none"
    BY <1>1, <1>4, ArmMoves DEF ParkGate
  <2>4. ASSUME NEW h \in Gates, NEW l \in ArmsOf[h]
        PROVE  /\ decided'[h] # "none" => sub'[l] # "active"
               /\ fire'[h].pc = "commit" /\ sub'[l] = "active" => l \in fire'[h].subs
               /\ timer'[h] = "none" => l \notin holder' /\ ext'[l] \in {"new", "buffered"}
    <3>1. h \in Hosts /\ l \in Messages
      BY <2>4, Shape DEF Gates
    <3>2. CASE h = here /\ timer[here] = "none"
      <4>1. decided[here] = "none" /\ fire[here].pc = "idle"
        BY <1>1, <3>2 DEF TimersDecided
      <4> QED
        BY <1>1, <1>4, <2>3, <3>2, <4>1
    <3>3. CASE h # here \/ timer[here] # "none"
      <4>1. sub'[l] = sub[l]
        <5>1. CASE timer[here] # "none"
          BY <1>4, <5>1 DEF ParkGate
        <5>2. CASE h # here
          <6>1. l \notin ArmsOf[here]
            BY <1>1, <2>4, <5>2, Shape
          <6> QED
            BY <1>4, <3>1, <6>1 DEF ParkGate
        <5> QED
          BY <3>3, <5>1, <5>2
      <4> QED
        BY <1>1, <1>4, <2>3, <2>4, <3>1, <4>1 DEF BranchesDecided
    <3> QED
      BY <3>2, <3>3
  <2> QED
    BY <2>1, <2>2, <2>3, <2>4 DEF BranchesDecided
<1> QED
  BY <1>2, <1>3, <1>4 DEF GateStep

LEMMA RegisterBranches ==
  ASSUME TypeOK, AtHost, BranchesDecided, Look \/ Register PROVE BranchesDecided'
<1>1. /\ drive.at <= Len(order) /\ here \in Gates /\ here \in Hosts
      /\ UNCHANGED <<decided, timer, sub, fire, order>> /\ timer[here] # "none"
  <2>1. drive.at <= Len(order) /\ here \in Gates /\ timer[here] # "none"
    BY DEF AtHost, Look, Register, BranchesDecided
  <2>2. UNCHANGED <<decided, timer, sub, fire, order>>
    BY DEF Look, Register, rows, msgs, bounds
  <2> QED
    BY <2>1, <2>2, HereTyped
<1>2. CASE Look
  <2>1. drive.todo \subseteq ArmsOf[here] /\ UNCHANGED <<ext, holder>> /\ drive \in Drives
        /\ drive.pc = "look"
    BY <1>2 DEF Look, BranchesDecided, msgs, TypeOK
  <2>2. CASE Pass
    <3>1. drive'.pc = "walk"
      BY <2>2, Places
    <3> QED
      BY <1>1, <2>1, <3>1, BranchesStay DEF BranchesDecided
  <2>3. CASE \E m \in drive.todo :
               drive' = IF drive.again /\ sub[m] # "active"
                        THEN [drive EXCEPT !.todo = @ \ {m}]
                        ELSE [drive EXCEPT !.pc = "register", !.arm = m, !.todo = @ \ {m}]
    <3>1. PICK m \in drive.todo :
                 drive' \in {[drive EXCEPT !.todo = @ \ {m}],
                            [drive EXCEPT !.pc = "register", !.arm = m, !.todo = @ \ {m}]}
      BY <2>3
    <3>2. /\ drive'.pc \in {"look", "register"} /\ drive'.at = drive.at
          /\ drive'.todo \subseteq ArmsOf[here]
          /\ drive'.pc = "register" => drive'.arm \in ArmsOf[here]
      BY <2>1, <3>1 DEF Drives
    <3>3. here' = here
      BY <1>1, <3>2 DEF here
    <3> QED
      BY <1>1, <2>1, <3>2, <3>3 DEF BranchesDecided
  <2> QED
    BY <1>2, <2>2, <2>3 DEF Look
<1>3. CASE Register
  <2>1. /\ drive.arm \in ArmsOf[here] /\ drive.arm \in Messages /\ drive \in Drives
        /\ drive.todo \subseteq ArmsOf[here] /\ drive.pc = "register"
        /\ ext \in [Messages -> {"new", "buffered", "matched", "correlated", "claimed", "applied"}]
    BY <1>3 DEF Register, BranchesDecided, AtHost, TypeOK
  <2>2. /\ drive'.pc \in {"look", "apply"} /\ drive'.at = drive.at /\ drive'.arm = drive.arm
        /\ drive'.todo = drive.todo
    <3>1. drive' \in {[drive EXCEPT !.pc = "apply"], [drive EXCEPT !.pc = "look"]}
      BY <1>3 DEF Register
    <3> QED
      BY <2>1, <3>1 DEF Drives
  <2>3. here' = here
    BY <1>1, <2>2 DEF here
  <2>4. \A l \in Messages \ {drive.arm} : ext'[l] = ext[l] /\ (l \in holder' <=> l \in holder)
    BY <1>3, <2>1 DEF Register
  <2>5. ASSUME NEW h \in Gates, NEW l \in ArmsOf[h], timer[h] = "none"
        PROVE  l \notin holder' /\ ext'[l] \in {"new", "buffered"}
    <3>1. l \in Messages /\ h # here
      BY <1>1, <2>5, Shape DEF Gates
    <3>2. l # drive.arm
      BY <1>1, <2>1, <2>5, <3>1, Shape
    <3> QED
      BY <2>4, <2>5, <3>1, <3>2 DEF BranchesDecided
  <2> QED
    BY <1>1, <2>1, <2>2, <2>3, <2>5 DEF BranchesDecided
<1> QED
  BY <1>2, <1>3

LEMMA DriveBranches ==
  ASSUME TypeOK, AtHost, TimersDecided, BranchesDecided, Drive PROVE BranchesDecided'
<1>1. drive.pc \in {"look", "register", "apply"} => here \in Hosts /\ timer[here] # "none"
  BY HereTyped DEF AtHost, BranchesDecided
<1>2. CASE (\E by \in {"wake", "operator"} : Begin(by)) \/ Raise \/ ReleaseLosers \/ Finish
  <2>1. UNCHANGED <<decided, timer, order, fire, sub, ext>> /\ holder' \subseteq holder
    BY <1>2 DEF Begin, Raise, ReleaseLosers, Finish, rows, msgs, bounds
  <2>2. drive' = drive \/ drive'.pc \notin {"look", "register", "apply"}
    <3>1. CASE \E by \in {"wake", "operator"} : Begin(by)
      BY <3>1 DEF Begin, Idle
    <3>2. CASE Raise \/ Finish
      BY <3>2, Places DEF Raise, Finish
    <3>3. CASE ReleaseLosers
      BY <3>3 DEF ReleaseLosers, Leave, TypeOK, Drives
    <3> QED
      BY <1>2, <3>1, <3>2, <3>3
  <2> QED
    BY <1>1, <2>1, <2>2, BranchesStay
<1>3. CASE ApplyClaimed
  <2>1. /\ drive.at <= Len(order) /\ here \in Gates /\ drive.arm \in ArmsOf[here]
        /\ timer[here] # "none"
    BY <1>3 DEF ApplyClaimed, AtHost, BranchesDecided
  <2>2. Apply(drive.arm) /\ UNCHANGED <<order, fire, holder>>
    BY <1>3 DEF ApplyClaimed, bounds
  <2> QED
    BY <2>1, <2>2, ApplyBranches
<1> QED
  BY <1>2, <1>3, WalkBranches, GateStepBranches, RegisterBranches DEF Drive

LEMMA CommitBranches ==
  ASSUME TypeOK, AtHost, BranchesDecided, NEW h \in Hosts, Plan(h) \/ Commit(h)
  PROVE  BranchesDecided'
<1>1. /\ sub \in [Messages -> {"none", "active", "consumed", "superseded"}]
      /\ timer \in [Hosts -> {"none", "armed", "fired", "cancelled"}] /\ decided \in [Hosts -> Outcomes]
      /\ fire[h].subs \in SUBSET Messages /\ {m \in ArmsOf[h] : sub[m] = "active"} \in SUBSET Messages
      /\ {} \in SUBSET Messages
  BY Shape DEF TypeOK, Fires
<1>2. UNCHANGED <<order, drive, holder, ext>>
  BY DEF Plan, Commit, msgs, bounds
<1>3. drive.pc \in {"look", "register", "apply"} => here \in Hosts /\ timer[here] # "none"
  BY HereTyped DEF AtHost, BranchesDecided
<1>4. \A g \in Hosts : timer'[g] = "none" <=> timer[g] = "none"
  BY <1>1 DEF Plan, Commit, Flip
<1>5. \A m \in Messages : sub'[m] = "active" => sub[m] = "active"
  BY <1>1 DEF Plan, Commit, Superseded, msgs
<1>6. \A g \in Hosts \ {h} : decided'[g] = decided[g] /\ fire'[g] = fire[g]
  <2>1. \A g \in Hosts \ {h} : fire'[g] = fire[g]
    BY <1>1, HandlerMoves DEF Plan, Commit
  <2>2. \A g \in Hosts \ {h} : decided'[g] = decided[g]
    BY <1>1 DEF Plan, Commit, Claim
  <2> QED
    BY <2>1, <2>2
<1>7. ASSUME NEW m \in ArmsOf[h], h \in Gates
      PROVE  /\ decided'[h] # "none" => sub'[m] # "active"
             /\ fire'[h].pc = "commit" /\ sub'[m] = "active" => m \in fire'[h].subs
  <2>1. m \in Messages
    BY <1>7, Shape
  <2>2. CASE Plan(h)
    <3>1. decided' = decided /\ sub' = sub
      BY <2>2 DEF Plan, msgs
    <3>2. \/ fire'[h].pc = "idle"
          \/ fire'[h].subs = {l \in ArmsOf[h] : sub[l] = "active"}
      BY <1>1, <2>2, HandlerMoves DEF Plan
    <3> QED
      BY <1>7, <3>1, <3>2 DEF BranchesDecided
  <2>3. CASE Commit(h) /\ Claimable(h)
    <3>1. sub[m] = "active" => m \in fire[h].subs
      BY <1>7, <2>3 DEF Commit, BranchesDecided
    <3>2. sub' = Superseded(fire[h].subs)
      BY <2>3 DEF Commit
    <3>3. sub'[m] # "active"
      BY <2>1, <3>1, <3>2 DEF Superseded
    <3> QED
      BY <3>3
  <2>4. CASE Commit(h) /\ ~Claimable(h)
    <3>1. decided[h] # "none" /\ UNCHANGED <<decided, sub>>
      BY <2>4 DEF Commit, Claimable
    <3> QED
      BY <1>7, <3>1 DEF BranchesDecided
  <2> QED
    BY <2>2, <2>3, <2>4
<1>8. ASSUME NEW g \in Gates, NEW m \in ArmsOf[g]
      PROVE  /\ decided'[g] # "none" => sub'[m] # "active"
             /\ fire'[g].pc = "commit" /\ sub'[m] = "active" => m \in fire'[g].subs
             /\ timer'[g] = "none" => m \notin holder' /\ ext'[m] \in {"new", "buffered"}
  <2>1. g \in Hosts /\ m \in Messages
    BY <1>8, Shape DEF Gates
  <2> QED
    BY <1>2, <1>4, <1>5, <1>6, <1>7, <1>8, <2>1 DEF BranchesDecided
<1> QED
  BY <1>2, <1>3, <1>4, <1>8 DEF BranchesDecided, here

LEMMA AlarmBranches ==
  ASSUME TypeOK, AtHost, TimersDecided, BranchesDecided, NEW h \in Hosts, Alarm(h)
  PROVE  BranchesDecided'
<1>1. drive.pc \in {"look", "register", "apply"} => here \in Hosts /\ timer[here] # "none"
  BY HereTyped DEF AtHost, BranchesDecided
<1>2. {} \in SUBSET Messages
  OBVIOUS
<1>3. CASE Ring(h) \/ ReleaseAll(h) \/ Wake(h)
  <2>1. UNCHANGED <<decided, timer, order, drive, sub, ext>> /\ holder' \subseteq holder
    BY <1>3 DEF Ring, ReleaseAll, Wake, rows, msgs, bounds
  <2>2. \A g \in Hosts : fire'[g].pc = "commit" => fire'[g] = fire[g]
    BY <1>2, <1>3, HandlerMoves DEF Ring, ReleaseAll, Wake
  <2> QED
    BY <1>1, <2>1, <2>2, BranchesStay
<1>4. CASE Suppress(h)
  <2>1. UNCHANGED <<order, drive, sub, ext, holder>> /\ h \notin Gates
    BY <1>4 DEF Suppress, TimersDecided, Gates, msgs, bounds
  <2>2. \A g \in Hosts : fire'[g].pc = "commit" => fire'[g] = fire[g]
    BY <1>2, <1>4, HandlerMoves DEF Suppress
  <2>3. /\ \A g \in Hosts : timer'[g] = "none" <=> timer[g] = "none"
        /\ \A g \in Gates : decided'[g] = decided[g]
    BY <1>4, <2>1 DEF Suppress, Claim, Flip, TypeOK, Gates
  <2> QED
    BY <1>1, <2>1, <2>2, <2>3, BranchesStay
<1> QED
  BY <1>3, <1>4, CommitBranches DEF Alarm

LEMMA OperatorBranches ==
  ASSUME TypeOK, AtHost, TimersDecided, BranchesDecided, Operator PROVE BranchesDecided'
<1>1. drive.pc \in {"look", "register", "apply"} => here \in Hosts /\ timer[here] # "none"
  BY HereTyped DEF AtHost, BranchesDecided
<1>2. CASE Cancel \/ Clear \/ Close \/ RetryReset \/ RetryResume
  <2>1. UNCHANGED <<decided, timer, order, fire, ext>> /\ holder' \subseteq holder
    BY <1>2 DEF Cancel, Clear, ReleaseActive, Close, RetryReset, RetryResume, rows, msgs, bounds
  <2>2. \A m \in Messages : sub'[m] = "active" => sub[m] = "active"
    BY <1>2 DEF Cancel, Clear, ReleaseActive, Superseded, Close, RetryReset, RetryResume, msgs
  <2>3. drive' = drive \/ drive'.pc = "idle"
    BY <1>2 DEF Cancel, Clear, Close, Idle, RetryReset, RetryResume
  <2> QED
    BY <1>1, <2>1, <2>2, <2>3, BranchesStay
<1>3. CASE \E h \in Hosts : Sweep(h)
  <2>1. PICK h \in Hosts : Sweep(h)
    BY <1>3
  <2>2. UNCHANGED <<order, drive, sub, ext, holder, fire>>
    BY <2>1 DEF Sweep, msgs, bounds
  <2>3. /\ \A g \in Hosts : timer'[g] = "none" <=> timer[g] = "none"
        /\ \A g \in Gates : decided'[g] = decided[g]
    BY <2>1 DEF Sweep, CancelSettle, Claim, Flip, TypeOK, Gates
  <2> QED
    BY <1>1, <2>2, <2>3, BranchesStay
<1> QED
  BY <1>2, <1>3 DEF Operator

LEMMA StepBranches ==
  ASSUME TypeOK, AtHost, TimersDecided, BranchesDecided, [Next]_vars PROVE BranchesDecided'
<1>1. drive.pc \in {"look", "register", "apply"} => here \in Hosts /\ timer[here] # "none"
  BY HereTyped DEF AtHost, BranchesDecided
<1>2. CASE Backstop \/ UNCHANGED vars
  <2>1. UNCHANGED <<decided, timer, order, fire, drive, sub, ext, holder>>
    BY <1>2 DEF Backstop, vars, rows, msgs, bounds
  <2> QED
    BY <1>1, <2>1, BranchesStay
<1>3. ASSUME NEW h \in Hosts, Deadline(h) \/ HandlerDies(h) \/ AlarmLost(h) \/ Activate(h) \/ Report(h)
      PROVE  BranchesDecided'
  <2>1. UNCHANGED <<decided, timer, order, drive, sub, ext, holder>>
    BY <1>3 DEF Deadline, HandlerDies, AlarmLost, Activate, Report, rows, msgs, bounds
  <2>2. {} \in SUBSET Messages
    OBVIOUS
  <2>3. \A g \in Hosts : fire'[g].pc = "commit" => fire'[g] = fire[g]
    BY <1>3, <2>2, HandlerMoves DEF Deadline, HandlerDies, AlarmLost, Activate, Report
  <2> QED
    BY <1>1, <2>1, <2>3, BranchesStay
<1>4. ASSUME NEW m \in Messages, Publish(m) \/ Record(m) PROVE BranchesDecided'
  <2>1. UNCHANGED <<decided, timer, order, drive, sub, fire>>
    BY <1>4 DEF Publish, Record, rows, bounds
  <2>2. \A l \in Messages :
          l \notin holder /\ ext[l] \in {"new", "buffered"} =>
            l \notin holder' /\ ext'[l] \in {"new", "buffered"}
    BY <1>4 DEF Publish, Record, TypeOK
  <2> QED
    BY <1>1, <2>1, <2>2, BranchesStay
<1> QED
  BY <1>2, <1>3, <1>4, DriveBranches, AlarmBranches, OperatorBranches DEF Next

-----------------------------------------------------------------------------
(* The work of a host. *)

\* What a step may do to the work of a host, seen from what is known of the host.
Leaves ==
  \A h \in Hosts : exits'[h] # exits[h] =>
    \E path \in Outcomes \cup {"normal"} :
      /\ exits'[h] = exits[h] \cup {path}
      /\ path = "normal" => job'[h] = "applied" /\ (Kind[h] = "scope" => h \in ended')
      /\ path = "fired" /\ Kind[h] = "scope" => job'[h] \notin {"created", "locked"}
Ends == ended \subseteq ended' /\ \A h \in ended' : h \in ended \/ job'[h] = "applied"
Works ==
  \A h \in Hosts : job'[h] # job[h] =>
    /\ Kind[h] \in {"task", "scope"} /\ job[h] # "applied"
    /\ job'[h] \in {"created", "locked"} =>
         \/ job[h] \in {"created", "locked"}
         \/ Kind[h] = "task" /\ decided'[h] # "fired"
         \/ Kind[h] = "scope" /\ "fired" \notin exits'[h]
Claims ==
  \A h \in Hosts : decided'[h] # decided[h] =>
    /\ h \in Gates \/ decided'[h] \in {"fired", "cancelled"}
    /\ Kind[h] = "task" /\ decided'[h] = "fired" => job'[h] \notin {"created", "locked"}
Orderly == Leaves /\ Ends /\ Works /\ Claims

LEMMA OrderlyWork ==
  ASSUME TypeOK, TypeOK', WorkOver, Orderly PROVE WorkOver'
<1>1. ASSUME NEW h \in Hosts, Kind[h] \notin {"task", "scope"} PROVE job'[h] = "none"
  BY <1>1 DEF WorkOver, Orderly, Works
<1>2. ASSUME NEW h \in Hosts, h \notin Gates PROVE decided'[h] \in {"none", "fired", "cancelled"}
  BY <1>2 DEF WorkOver, Orderly, Claims
<1>3. \A h \in Hosts : job[h] = "applied" => job'[h] = "applied"
  BY DEF Orderly, Works
<1>4. ASSUME NEW h \in ended' PROVE job'[h] = "applied"
  <2>1. h \in Hosts
    BY <1>4 DEF TypeOK
  <2> QED
    BY <1>3, <1>4, <2>1 DEF WorkOver, Orderly, Ends
<1>5. ASSUME NEW h \in Hosts, "normal" \in exits'[h]
      PROVE  job'[h] = "applied" /\ (Kind[h] = "scope" => h \in ended')
  <2>1. CASE "normal" \in exits[h]
    BY <1>3, <2>1 DEF WorkOver, Orderly, Ends
  <2>2. CASE "normal" \notin exits[h]
    BY <1>5, <2>2 DEF Orderly, Leaves
  <2> QED
    BY <2>1, <2>2
<1>6. ASSUME NEW h \in Hosts, Kind[h] = "task", decided'[h] = "fired"
      PROVE  job'[h] \notin {"created", "locked"}
  <2>1. CASE decided[h] = "fired"
    BY <1>6, <2>1 DEF WorkOver, Orderly, Works
  <2>2. CASE decided[h] # "fired"
    BY <1>6, <2>2 DEF Orderly, Claims
  <2> QED
    BY <2>1, <2>2
<1>7. ASSUME NEW h \in Hosts, Kind[h] = "scope", "fired" \in exits'[h]
      PROVE  job'[h] \notin {"created", "locked"}
  <2>1. CASE "fired" \in exits[h]
    BY <1>7, <2>1 DEF WorkOver, Orderly, Works
  <2>2. CASE "fired" \notin exits[h]
    BY <1>7, <2>2 DEF Orderly, Leaves
  <2> QED
    BY <2>1, <2>2
<1> QED
  BY <1>1, <1>2, <1>4, <1>5, <1>6, <1>7 DEF WorkOver

\* Steps that leave no host: jobs are leased, reported on and abandoned.
LEMMA QuietWork ==
  ASSUME WorkOver, UNCHANGED <<exits, ended>>, Claims,
         \A h \in Hosts :
           \/ job'[h] = job[h]
           \/ /\ job[h] \in {"created", "locked"} /\ job'[h] # "none"
  PROVE  Orderly
<1>1. Leaves /\ Ends
  BY DEF Leaves, Ends
<1>2. Works
  BY DEF Works, WorkOver
<1> QED
  BY <1>1, <1>2 DEF Orderly

LEMMA LeaveWork ==
  ASSUME TypeOK, drive.at <= Len(order), NEW path \in Outcomes \cup {"normal"}, Leave(path),
         path = "normal" => job'[here] = "applied" /\ (Kind[here] = "scope" => here \in ended'),
         path = "fired" /\ Kind[here] = "scope" => job'[here] \notin {"created", "locked"}
  PROVE  Leaves
<1>1. here \in Hosts /\ exits \in [Hosts -> SUBSET (Outcomes \cup {"normal"})]
  BY HereTyped DEF TypeOK
<1>2. \A h \in Hosts \ {here} : exits'[h] = exits[h]
  BY <1>1 DEF Leave
<1>3. exits'[here] = exits[here] \cup {path}
  BY <1>1 DEF Leave
<1> QED
  BY <1>2, <1>3 DEF Leaves

\* A host that is not a gateway and whose timer has not won was left on its normal flow, if at all.
LEMMA NotFired ==
  ASSUME RaceRecorded, OnePath, WorkOver, NEW h \in Hosts, h \notin Gates, decided[h] # "fired"
  PROVE  /\ exits[h] \subseteq {"normal"}
         /\ job[h] # "applied" \/ (Kind[h] = "scope" /\ h \notin ended) => exits[h] = {}
<1>1. ASSUME NEW path \in exits[h] PROVE path = "normal"
  <2>1. path \notin {"none", "cancelled"}
    BY <1>1 DEF RaceRecorded
  <2>2. decided[h] \in {"none", "fired", "cancelled"}
    BY DEF WorkOver
  <2> QED
    BY <1>1, <2>1, <2>2 DEF OnePath
<1>2. "normal" \in exits[h] => job[h] = "applied" /\ (Kind[h] = "scope" => h \in ended)
  BY DEF WorkOver
<1> QED
  BY <1>1, <1>2

LEMMA TaskStepWork == ASSUME TypeOK, WorkOver, TaskStep PROVE Orderly
<1>1. /\ drive.at <= Len(order) /\ here \in Hosts /\ Kind[here] = "task"
      /\ decided \in [Hosts -> Outcomes]
      /\ job \in [Hosts -> {"none", "created", "locked", "completed", "applied", "failed"}]
  BY HereTyped DEF TaskStep, Walking, TypeOK
<1>2. Ends
  BY DEF TaskStep, rows, Ends
<1>3. Works
  <2>1. CASE job' = job
    BY <2>1 DEF Works
  <2>2. CASE Created(here) /\ decided[here] # "fired" /\ decided' = decided /\ job[here] = "none"
    BY <1>1, <2>2 DEF Works, Created
  <2>3. CASE job[here] = "completed" /\ job' = [job EXCEPT ![here] = "applied"]
    BY <1>1, <2>3 DEF Works
  <2> QED
    BY <2>1, <2>2, <2>3 DEF TaskStep, rows
<1>4. Claims
  BY <1>1 DEF TaskStep, SettleCancel, CancelSettle, Claim, rows, Claims
<1>5. Leaves
  <2>1. CASE Leave("fired")
    BY <1>1, <2>1, LeaveWork DEF Outcomes
  <2>2. CASE Leave("normal") /\ job'[here] = "applied"
    BY <1>1, <2>2, LeaveWork
  <2>3. CASE exits' = exits
    BY <2>3 DEF Leaves
  <2>4. Leave("normal") => job'[here] = "applied" \/ exits' = exits \/ Leave("fired")
    BY <1>1 DEF TaskStep, rows
  <2> QED
    BY <2>1, <2>2, <2>3, <2>4 DEF TaskStep, Parked, Throw
<1> QED
  BY <1>2, <1>3, <1>4, <1>5 DEF Orderly

LEMMA CatchStepWork == ASSUME TypeOK, WorkOver, CatchStep PROVE Orderly
<1>1. /\ drive.at <= Len(order) /\ here \in Hosts /\ Kind[here] = "catch"
      /\ UNCHANGED <<job, decided, ended>>
  BY HereTyped DEF CatchStep, Walking
<1>2. Ends /\ Works /\ Claims
  BY <1>1 DEF Ends, Works, Claims
<1>3. CASE exits' = exits
  BY <1>2, <1>3 DEF Orderly, Leaves
<1>4. CASE Leave("fired")
  BY <1>1, <1>2, <1>4, LeaveWork DEF Orderly, Outcomes
<1> QED
  BY <1>3, <1>4 DEF CatchStep

LEMMA ScopeStepWork == ASSUME TypeOK, WorkOver, ScopeStep PROVE Orderly
<1>1. /\ drive.at <= Len(order) /\ here \in Hosts /\ Kind[here] = "scope"
      /\ UNCHANGED <<decided, ended>>
      /\ job \in [Hosts -> {"none", "created", "locked", "completed", "applied", "failed"}]
  BY HereTyped DEF ScopeStep, Walking, TypeOK
<1>2. Ends /\ Claims
  BY <1>1 DEF Ends, Claims
<1>3. CASE Drained(here) /\ Leave("fired")
  <2>1. /\ job'[here] \notin {"created", "locked"} /\ \A h \in Hosts \ {here} : job'[h] = job[h]
        /\ job[here] = "applied" => job'[here] = "applied"
    BY <1>1, <1>3 DEF Drained, Abandoned
  <2>2. Works
    BY <1>1, <2>1 DEF Works
  <2>3. Leaves
    BY <1>1, <1>3, <2>1, LeaveWork DEF Outcomes
  <2> QED
    BY <1>2, <2>2, <2>3 DEF Orderly
<1>4. CASE UNCHANGED <<job, exits>>
  BY <1>2, <1>4 DEF Orderly, Leaves, Works
<1> QED
  BY <1>3, <1>4 DEF ScopeStep

LEMMA InnerStepWork ==
  ASSUME TypeOK, RaceRecorded, OnePath, WorkOver, Incidents, InnerStep PROVE Orderly
<1>1. /\ drive.at <= Len(order) /\ here \in Hosts /\ Kind[here] = "scope"
      /\ decided \in [Hosts -> Outcomes]
      /\ job \in [Hosts -> {"none", "created", "locked", "completed", "applied", "failed"}]
      /\ exits[here] \subseteq {"normal"}
  BY HereTyped DEF InnerStep, Walking, TypeOK, Incidents
<1>2. Ends
  <2>1. \/ ended' = ended
        \/ ended' = ended \cup {here} /\ job[here] = "applied" /\ job' = job
    BY DEF InnerStep, rows
  <2> QED
    BY <2>1 DEF Ends
<1>3. Works
  <2>1. CASE job' = job
    BY <2>1 DEF Works
  <2>2. CASE Created(here) /\ exits' = exits /\ job[here] = "none"
    <3>1. job'[here] = "created" /\ \A h \in Hosts \ {here} : job'[h] = job[h]
      BY <1>1, <2>2 DEF Created
    <3> QED
      BY <1>1, <2>2, <3>1 DEF Works
  <2>3. CASE job[here] = "completed" /\ job' = [job EXCEPT ![here] = "applied"]
    BY <1>1, <2>3 DEF Works
  <2> QED
    BY <2>1, <2>2, <2>3 DEF InnerStep, rows
<1>4. Claims
  BY <1>1 DEF InnerStep, CancelSettle, Claim, rows, Claims
<1>5. Leaves
  <2>1. CASE Leave("fired") /\ job[here] = "applied" /\ job' = job
    BY <1>1, <2>1, LeaveWork DEF Outcomes
  <2>2. CASE Leave("normal") /\ job[here] = "applied" /\ job' = job /\ here \in ended'
    BY <1>1, <2>2, LeaveWork
  <2>3. CASE exits' = exits
    BY <2>3 DEF Leaves
  <2> QED
    BY <2>1, <2>2, <2>3 DEF InnerStep, Parked, Throw, rows
<1> QED
  BY <1>2, <1>3, <1>4, <1>5 DEF Orderly

\* A gateway has no work of its own.
LEMMA LeaveGateWork ==
  ASSUME TypeOK, WorkOver, drive.at <= Len(order), here \in Gates, Leave(decided[here]),
         UNCHANGED <<job, ended, decided>>
  PROVE  Orderly
<1>1. here \in Hosts /\ Kind[here] = "gate"
  BY HereTyped DEF Gates
<1>2. decided[here] \in Outcomes /\ decided[here] # "normal"
  BY <1>1, Shape DEF TypeOK, Outcomes
<1>3. Leaves
  BY <1>1, <1>2, LeaveWork
<1> QED
  BY <1>3 DEF Orderly, Ends, Works, Claims

LEMMA ApplyWork ==
  ASSUME TypeOK, WorkOver, drive.at <= Len(order), here \in Gates, NEW m \in Messages, Apply(m),
         UNCHANGED <<job, ended>>
  PROVE  Orderly
<1>1. here \in Hosts
  BY HereTyped
<1>2. CASE Claimable(here)
  <2>1. \A h \in Hosts \ {here} : decided'[h] = decided[h]
    BY <1>1, <1>2 DEF Apply, Decide, TypeOK
  <2>2. Claims
    BY <2>1 DEF Claims, Gates
  <2> QED
    BY <1>2, <2>2, QuietWork DEF Apply
<1>3. CASE ~Claimable(here)
  BY <1>3, LeaveGateWork DEF Apply
<1> QED
  BY <1>2, <1>3

LEMMA DriveWork ==
  ASSUME TypeOK, AtHost, RaceRecorded, OnePath, WorkOver, Incidents, Drive PROVE Orderly
<1>1. CASE (\E by \in {"wake", "operator"} : Begin(by)) \/ Raise \/ Look \/ Register \/ Finish
  <2>1. UNCHANGED <<job, ended, decided, exits>>
    BY <1>1 DEF Begin, Raise, Look, Register, Finish, rows
  <2> QED
    BY <2>1 DEF Orderly, Leaves, Ends, Works, Claims
<1>2. CASE GateStep
  <2>1. /\ drive.at <= Len(order) /\ here \in Gates /\ UNCHANGED <<job, ended>>
        /\ ArmsOf[here] \subseteq Messages
    BY <1>2, HereTyped, Shape DEF GateStep, Walking, Gates
  <2>2. CASE Leave(decided[here]) /\ decided' = decided
    BY <2>1, <2>2, LeaveGateWork
  <2>3. CASE \E m \in ArmsOf[here] : Apply(m)
    BY <2>1, <2>3, ApplyWork
  <2>4. CASE UNCHANGED <<decided, exits>>
    BY <2>1, <2>4 DEF Orderly, Leaves, Ends, Works, Claims
  <2> QED
    BY <1>2, <2>2, <2>3, <2>4 DEF GateStep
<1>3. CASE ApplyClaimed
  <2>1. drive.at <= Len(order) /\ here \in Gates /\ drive.arm \in Messages
    BY <1>3 DEF ApplyClaimed, AtHost
  <2> QED
    BY <1>3, <2>1, ApplyWork DEF ApplyClaimed
<1>4. CASE ReleaseLosers
  <2>1. drive.at <= Len(order) /\ here \in Gates
    BY <1>4 DEF ReleaseLosers, AtHost
  <2> QED
    BY <1>4, <2>1, LeaveGateWork DEF ReleaseLosers, rows
<1> QED
  BY <1>1, <1>2, <1>3, <1>4, TaskStepWork, CatchStepWork, ScopeStepWork, InnerStepWork DEF Drive

LEMMA AlarmWork ==
  ASSUME TypeOK, TimersDecided, WorkOver, NEW h \in Hosts, Alarm(h) PROVE Orderly
<1>1. /\ decided \in [Hosts -> Outcomes]
      /\ job \in [Hosts -> {"none", "created", "locked", "completed", "applied", "failed"}]
  BY DEF TypeOK
<1>2. CASE Ring(h) \/ Plan(h) \/ ReleaseAll(h) \/ Wake(h)
  <2>1. UNCHANGED <<job, ended, decided, exits>>
    BY <1>2 DEF Ring, Plan, ReleaseAll, Wake, rows
  <2> QED
    BY <2>1 DEF Orderly, Leaves, Ends, Works, Claims
<1>3. CASE Suppress(h)
  <2>1. UNCHANGED <<job, ended, exits>> /\ Kind[h] # "task"
    BY <1>3 DEF Suppress, TimersDecided
  <2>2. Claims
    BY <1>1, <1>3, <2>1 DEF Suppress, Claim, Claims
  <2> QED
    BY <2>1, <2>2, QuietWork
<1>4. CASE Commit(h)
  <2>1. UNCHANGED <<ended, exits>>
    BY <1>4 DEF Commit
  <2>2. /\ \A g \in Hosts \ {h} : job'[g] = job[g] /\ decided'[g] = decided[g]
        /\ decided'[h] # decided[h] => decided'[h] = "fired"
    BY <1>1, <1>4 DEF Commit, Claim
  <2>3. job'[h] = job[h] \/ (job[h] \in {"created", "locked"} /\ job'[h] = "failed")
    BY <1>1, <1>4 DEF Commit, Abandoned
  <2>4. Kind[h] = "task" /\ decided'[h] # decided[h] => job'[h] \notin {"created", "locked"}
    BY <1>1, <1>4 DEF Commit, Abandoned
  <2>5. Claims
    BY <2>2, <2>4 DEF Claims
  <2> QED
    BY <2>1, <2>2, <2>3, <2>5, QuietWork
<1> QED
  BY <1>2, <1>3, <1>4 DEF Alarm

LEMMA OperatorWork ==
  ASSUME TypeOK, WorkOver, Incidents, Operator PROVE Orderly
<1>1. /\ decided \in [Hosts -> Outcomes]
      /\ job \in [Hosts -> {"none", "created", "locked", "completed", "applied", "failed"}]
  BY DEF TypeOK
<1>2. CASE Cancel \/ Close \/ RetryResume
  <2>1. UNCHANGED <<job, ended, decided, exits>>
    BY <1>2 DEF Cancel, Close, RetryResume, rows
  <2> QED
    BY <2>1 DEF Orderly, Leaves, Ends, Works, Claims
<1>3. CASE Clear
  <2>1. UNCHANGED <<ended, decided, exits>>
    BY <1>3 DEF Clear
  <2>2. \A g \in Hosts :
          job'[g] = job[g] \/ (job[g] \in {"created", "locked"} /\ job'[g] # "none")
    BY <1>1, <1>3 DEF Clear, Abandoned
  <2> QED
    BY <2>1, <2>2, QuietWork DEF Claims
<1>4. CASE \E h \in Hosts : Sweep(h)
  <2>1. PICK h \in Hosts : Sweep(h)
    BY <1>4
  <2>2. UNCHANGED <<job, ended, exits>>
    BY <2>1 DEF Sweep
  <2>3. Claims
    BY <1>1, <2>1 DEF Sweep, CancelSettle, Claim, Claims
  <2> QED
    BY <2>2, <2>3, QuietWork
<1>5. CASE RetryReset
  <2>1. UNCHANGED <<ended, decided, exits>> /\ Unfinished(broken) /\ broken \in Hosts
    BY <1>5 DEF RetryReset, Incidents, TypeOK
  <2>2. /\ \A g \in Hosts \ {broken} : job'[g] = job[g]
        /\ job'[broken] # job[broken] => job[broken] # "applied"
    BY <1>1, <1>5, <2>1 DEF RetryReset
  <2>3. Works
    BY <2>1, <2>2 DEF Works, Unfinished
  <2> QED
    BY <2>1, <2>3 DEF Orderly, Leaves, Ends, Claims
<1> QED
  BY <1>2, <1>3, <1>4, <1>5 DEF Operator

LEMMA StepWork ==
  ASSUME IInv, TimersDecided, WorkOver, Incidents, [Next]_vars PROVE Orderly
<1>1. TypeOK /\ AtHost /\ RaceRecorded /\ OnePath
  BY DEF IInv
<1>2. CASE Backstop \/ UNCHANGED vars
  <2>1. UNCHANGED <<job, ended, decided, exits>>
    BY <1>2 DEF Backstop, vars, rows
  <2> QED
    BY <2>1 DEF Orderly, Leaves, Ends, Works, Claims
<1>3. ASSUME NEW h \in Hosts, Deadline(h) \/ HandlerDies(h) \/ AlarmLost(h) PROVE Orderly
  <2>1. UNCHANGED <<job, ended, decided, exits>>
    BY <1>3 DEF Deadline, HandlerDies, AlarmLost, rows
  <2> QED
    BY <2>1 DEF Orderly, Leaves, Ends, Works, Claims
<1>4. ASSUME NEW h \in Hosts, Activate(h) \/ Report(h) PROVE Orderly
  <2>1. UNCHANGED <<ended, decided, exits>>
    BY <1>4 DEF Activate, Report
  <2>2. \A g \in Hosts :
          job'[g] = job[g] \/ (job[g] \in {"created", "locked"} /\ job'[g] # "none")
    BY <1>1, <1>4 DEF Activate, Report, TypeOK
  <2> QED
    BY <2>1, <2>2, QuietWork DEF Claims
<1>5. ASSUME NEW m \in Messages, Publish(m) \/ Record(m) PROVE Orderly
  <2>1. UNCHANGED <<job, ended, decided, exits>>
    BY <1>5 DEF Publish, Record, rows
  <2> QED
    BY <2>1 DEF Orderly, Leaves, Ends, Works, Claims
<1> QED
  BY <1>1, <1>2, <1>3, <1>4, <1>5, DriveWork, AlarmWork, OperatorWork DEF Next

-----------------------------------------------------------------------------
(* Incidents. *)

\* Steps of others: an incident is not theirs to open, and an open one keeps its host.
LEMMA IncidentsOutside ==
  ASSUME TypeOK, AtHost, Incidents, Decides, UNCHANGED <<exits, order, broken>>,
         drive' = drive \/ drive'.pc = "idle",
         status' = status \/ status' # "incident", alive' => alive
  PROVE  Incidents'
<1>1. ASSUME NEW h \in Hosts, Unfinished(h) PROVE Unfinished(h)'
  BY <1>1 DEF Unfinished, Decides
<1>2. drive'.pc \in {"inner", "raise"} => here' = here /\ here \in Hosts /\ drive' = drive
  BY HereTyped DEF AtHost, here
<1>3. drive'.pc = "inner" => Kind[here'] = "scope" /\ exits'[here'] \subseteq {"normal"}
  BY <1>2 DEF Incidents
<1>4. drive'.pc = "raise" => Unfinished(here)'
  BY <1>1, <1>2 DEF Incidents, Unfinished
<1>5. status' = "incident" => drive'.pc = "idle" /\ ~alive' /\ Unfinished(broken)'
  BY <1>1 DEF Incidents, Unfinished, TypeOK
<1> QED
  BY <1>3, <1>4, <1>5 DEF Incidents

\* A drive under way goes on, or ends.
LEMMA DriveGoesOn ==
  ASSUME Incidents, drive.pc # "idle", drive'.pc \notin {"inner", "raise"},
         status' = status \/ status' # "incident"
  PROVE  Incidents'
  BY DEF Incidents

\* A drive that throws opens an incident at its host, if at all.
LEMMA ThrowIncidents ==
  ASSUME TypeOK, Incidents, drive.pc # "idle", Throw,
         exits'[here] = {}, Kind[here] \in {"task", "scope"},
         Kind[here] = "task" => decided'[here] = "cancelled"
  PROVE  Incidents'
<1>1. drive'.pc = "idle" /\ ~alive'
  BY Places DEF Throw
<1>2. status' = "incident" => broken' = here
  BY DEF Throw, Incidents, inst
<1>3. status' = "incident" => Unfinished(broken)'
  BY <1>2 DEF Unfinished
<1> QED
  BY <1>1, <1>3 DEF Incidents

LEMMA TaskStepIncidents ==
  ASSUME TypeOK, RaceRecorded, OnePath, WorkOver, Incidents, TaskStep PROVE Incidents'
<1>1. /\ drive.at <= Len(order) /\ here \in Hosts /\ Kind[here] = "task" /\ here \notin Gates
      /\ drive.pc = "walk" /\ order' = order /\ decided \in [Hosts -> Outcomes]
  BY HereTyped DEF TaskStep, Walking, Gates, bounds, TypeOK
<1>2. CASE decided[here] = "cancelled" /\ job[here] = "completed" /\ Throw /\ UNCHANGED <<rows, exits>>
  <2>1. exits[here] = {}
    BY <1>1, <1>2, NotFired
  <2>2. exits'[here] = {} /\ decided'[here] = "cancelled"
    BY <1>2, <2>1 DEF rows
  <2> QED
    BY <1>1, <1>2, <2>2, ThrowIncidents
<1>3. CASE /\ decided[here] # "fired" /\ job[here] = "failed" /\ SettleCancel(here)
           /\ drive' = [drive EXCEPT !.pc = "raise"] /\ UNCHANGED <<inst, exits>>
  <2>1. exits[here] = {}
    BY <1>1, <1>3, NotFired
  <2>2. decided[here] \in {"none", "cancelled"}
    BY <1>1, <1>3 DEF WorkOver
  <2>3. decided'[here] = "cancelled"
    BY <1>1, <1>3, <2>2 DEF SettleCancel, CancelSettle, Claim, Claimable
  <2>4. drive'.pc = "raise" /\ here' = here
    BY <1>1, <1>3, Places DEF here
  <2>5. status' # "incident"
    BY <1>1, <1>3 DEF Incidents, inst
  <2> QED
    BY <1>1, <1>3, <2>1, <2>3, <2>4, <2>5 DEF Incidents, Unfinished
<1>4. CASE drive'.pc \notin {"inner", "raise"} /\ (status' = status \/ status' # "incident")
  BY <1>1, <1>4, DriveGoesOn
<1>5. CASE Leave("fired") \/ Leave("normal") \/ Pass
  <2>1. drive'.pc = "walk"
    BY <1>5, Places DEF Outcomes
  <2>2. status' = status \/ status' # "incident"
    BY <1>1, <2>1, Places DEF TaskStep, Parked, Throw, inst
  <2> QED
    BY <1>4, <2>1, <2>2
<1> QED
  BY <1>2, <1>3, <1>5 DEF TaskStep, Parked

LEMMA ScopeStepIncidents ==
  ASSUME TypeOK, RaceRecorded, OnePath, WorkOver, Incidents, ScopeStep PROVE Incidents'
<1>1. /\ drive.at <= Len(order) /\ here \in Hosts /\ Kind[here] = "scope" /\ here \notin Gates
      /\ drive.pc = "walk" /\ order' = order /\ (status' = status \/ status' # "incident")
  BY HereTyped DEF ScopeStep, EnterScope, Walking, Gates, bounds
<1>2. CASE Leave("fired")
  BY <1>1, <1>2, Places, DriveGoesOn DEF Outcomes
<1>3. CASE decided[here] # "fired" /\ drive' = [drive EXCEPT !.pc = "inner"] /\ exits' = exits
  <2>1. exits[here] \subseteq {"normal"}
    BY <1>1, <1>3, NotFired
  <2>2. drive'.pc = "inner" /\ here' = here
    BY <1>1, <1>3, Places DEF here
  <2>3. status' # "incident"
    BY <1>1 DEF Incidents
  <2> QED
    BY <1>1, <1>3, <2>1, <2>2, <2>3 DEF Incidents
<1> QED
  BY <1>2, <1>3 DEF ScopeStep

LEMMA InnerStepIncidents ==
  ASSUME TypeOK, RaceRecorded, OnePath, WorkOver, Incidents, InnerStep PROVE Incidents'
<1>1. /\ drive.at <= Len(order) /\ here \in Hosts /\ Kind[here] = "scope" /\ here \notin Gates
      /\ drive.pc = "inner" /\ order' = order /\ exits[here] \subseteq {"normal"}
  BY HereTyped DEF InnerStep, Walking, Gates, bounds, Incidents
<1>2. job[here] # "applied" \/ here \notin ended => exits[here] = {}
  BY <1>1 DEF WorkOver
<1>3. CASE job[here] = "applied" /\ here \notin ended /\ Throw /\ UNCHANGED exits
  <2>1. exits'[here] = {}
    BY <1>2, <1>3
  <2> QED
    BY <1>1, <1>3, <2>1, ThrowIncidents
<1>4. CASE job[here] = "failed" /\ drive' = [drive EXCEPT !.pc = "raise"] /\ UNCHANGED <<inst, exits>>
  <2>1. drive'.pc = "raise" /\ here' = here
    BY <1>1, <1>4, Places DEF here
  <2>2. status' # "incident"
    BY <1>1, <1>4 DEF Incidents, inst
  <2> QED
    BY <1>1, <1>2, <1>4, <2>1, <2>2 DEF Incidents, Unfinished
<1>5. CASE job[here] = "completed" /\ UNCHANGED <<drive, exits>> /\ status' = "running"
  BY <1>1, <1>5 DEF Incidents, here
<1>6. CASE (Leave("fired") \/ Leave("normal") \/ Pass) /\ (status' = status \/ status' # "incident")
  BY <1>1, <1>6, Places, DriveGoesOn DEF Outcomes
<1> QED
  BY <1>3, <1>4, <1>5, <1>6 DEF InnerStep, Parked, inst

LEMMA RaiseIncidents == ASSUME TypeOK, AtHost, Incidents, Raise PROVE Incidents'
<1>1. drive.pc = "raise" /\ Unfinished(here) /\ here \in Hosts
  BY HereTyped DEF Raise, Incidents, AtHost
<1>2. UNCHANGED <<exits, decided>> /\ drive'.pc = "idle" /\ ~alive'
  BY Places DEF Raise, rows
<1>3. status' = "incident" => broken' = here
  BY <1>1 DEF Raise, Incidents, inst
<1> QED
  BY <1>1, <1>2, <1>3 DEF Incidents, Unfinished

LEMMA DriveIncidents ==
  ASSUME TypeOK, AtHost, RaceRecorded, OnePath, WorkOver, Incidents, Drive PROVE Incidents'
<1>1. CASE \E by \in {"wake", "operator"} : Begin(by)
  <2>1. UNCHANGED <<exits, order, broken, decided>> /\ alive' = alive /\ drive.pc = "idle"
    BY <1>1 DEF Begin, rows, bounds
  <2>2. CASE drive' = drive
    BY <1>1, <2>1, <2>2, IncidentsOutside DEF Begin, Decides
  <2>3. CASE drive'.pc = "walk" /\ status' = status /\ (alive \/ status # "incident")
    BY <2>1, <2>3 DEF Incidents
  <2> QED
    BY <1>1, <2>2, <2>3 DEF Begin, Idle, Stopped
<1>2. CASE CatchStep
  <2>1. drive.pc = "walk" /\ drive'.pc = "walk" /\ (status' = status \/ status' # "incident")
    BY <1>2, Places DEF CatchStep, Walking, Parked, Outcomes
  <2> QED
    BY <2>1, DriveGoesOn
<1>3. CASE GateStep \/ ApplyClaimed
  <2>1. drive.pc \in {"walk", "apply"} /\ (status' = status \/ status' # "incident")
    BY <1>3 DEF GateStep, ApplyClaimed, Walking, ParkGate, Apply
  <2>2. drive'.pc \in {"walk", "look", "release"}
    <3>1. ASSUME NEW path, Leave(path) PROVE drive'.pc = "walk"
      BY <3>1 DEF Leave, TypeOK, Drives
    <3>2. ASSUME NEW m, Apply(m) PROVE drive'.pc \in {"walk", "release"}
      BY <3>2, ApplyGoes
    <3>3. ParkGate => drive'.pc = "look"
      BY DEF ParkGate, TypeOK, Drives
    <3> QED
      BY <1>3, <3>1, <3>2, <3>3 DEF GateStep, ApplyClaimed
  <2> QED
    BY <2>1, <2>2, DriveGoesOn
<1>4. CASE Look \/ Register \/ ReleaseLosers
  <2>1. drive.pc # "idle" /\ status' = status
    BY <1>4 DEF Look, Register, ReleaseLosers, inst
  <2>2. drive'.pc \notin {"inner", "raise"}
    <3>1. CASE Look
      <4>1. drive \in Drives /\ drive.pc = "look"
        BY <3>1 DEF Look, TypeOK
      <4>2. CASE Pass
        BY <4>2, Places
      <4>3. CASE ~Pass
        <5>1. PICK m \in drive.todo :
                     drive' \in {[drive EXCEPT !.todo = @ \ {m}],
                                [drive EXCEPT !.pc = "register", !.arm = m, !.todo = @ \ {m}]}
          BY <3>1, <4>3 DEF Look
        <5> QED
          BY <4>1, <5>1 DEF Drives
      <4> QED
        BY <4>2, <4>3
    <3>2. CASE Register
      BY <3>2 DEF Register, TypeOK, Drives
    <3>3. CASE ReleaseLosers
      BY <3>3 DEF ReleaseLosers, Leave, TypeOK, Drives
    <3> QED
      BY <1>4, <3>1, <3>2, <3>3
  <2> QED
    BY <2>1, <2>2, DriveGoesOn
<1>5. CASE Finish
  <2>1. drive.pc = "walk" /\ drive'.pc = "idle" /\ (status' = status \/ status' # "incident")
    BY <1>5, Places DEF Finish, CompletedGuarded
  <2> QED
    BY <2>1, DriveGoesOn
<1> QED
  BY <1>1, <1>2, <1>3, <1>4, <1>5, TaskStepIncidents, ScopeStepIncidents, InnerStepIncidents,
     RaiseIncidents DEF Drive

LEMMA StepIncidents ==
  ASSUME IInv, WorkOver, Incidents, [Next]_vars PROVE Incidents'
<1>1. TypeOK /\ AtHost /\ RaceRecorded /\ OnePath /\ Decides
  BY StepSound DEF IInv, Sound
<1>2. CASE Backstop \/ UNCHANGED vars
  BY <1>1, <1>2, IncidentsOutside DEF Backstop, vars, inst, bounds
<1>3. ASSUME NEW h \in Hosts, Deadline(h) \/ HandlerDies(h) \/ AlarmLost(h) \/ Activate(h) \/ Report(h)
      PROVE  Incidents'
  BY <1>1, <1>3, IncidentsOutside DEF Deadline, HandlerDies, AlarmLost, Activate, Report, inst, bounds
<1>4. ASSUME NEW m \in Messages, Publish(m) \/ Record(m) PROVE Incidents'
  BY <1>1, <1>4, IncidentsOutside DEF Publish, Record, inst, bounds
<1>5. ASSUME NEW h \in Hosts, Alarm(h) PROVE Incidents'
  <2>1. /\ UNCHANGED <<exits, order, broken, drive, alive>>
        /\ status' = status \/ status' = "running"
    BY <1>5 DEF Alarm, Ring, Suppress, Plan, Commit, ReleaseAll, Wake, inst, bounds
  <2> QED
    BY <1>1, <2>1, IncidentsOutside
<1>6. CASE Operator
  <2>1. /\ UNCHANGED <<exits, order, broken>> /\ (drive' = drive \/ drive' = Idle)
        /\ status' = status \/ status' # "incident"
        /\ alive' => alive
    BY <1>6 DEF Operator, Cancel, Clear, Sweep, Close, RetryReset, RetryResume, inst, bounds
  <2>2. drive' = drive \/ drive'.pc = "idle"
    BY <1>1, <2>1, Places
  <2> QED
    BY <1>1, <2>1, <2>2, IncidentsOutside
<1> QED
  BY <1>1, <1>2, <1>3, <1>4, <1>5, <1>6, DriveIncidents DEF Next

-----------------------------------------------------------------------------
(* Theorems. *)

LEMMA InitCInv == Init => CInv
<1> SUFFICES ASSUME Init PROVE CInv
  OBVIOUS
<1>1. IInv
  BY InitIInv
<1>2. TimersDecided
  BY DEF Init, Idle, TimersDecided
<1>3. BranchesDecided
  BY Shape DEF Init, Idle, BranchesDecided, Gates
<1>4. WorkOver
  BY DEF Init, WorkOver
<1>5. Incidents
  BY DEF Init, Idle, Incidents
<1> QED
  BY <1>1, <1>2, <1>3, <1>4, <1>5 DEF CInv

LEMMA StepCInv == CInv /\ [Next]_vars => CInv'
<1> SUFFICES ASSUME CInv, [Next]_vars PROVE CInv'
  OBVIOUS
<1>1. IInv'
  BY StepIInv DEF CInv
<1>2. TimersDecided' /\ BranchesDecided'
  BY StepTimers, StepBranches DEF CInv, IInv
<1>3. Orderly
  BY StepWork DEF CInv
<1>4. WorkOver'
  BY <1>1, <1>3, OrderlyWork DEF CInv, IInv
<1>5. Incidents'
  BY StepIncidents DEF CInv
<1> QED
  BY <1>1, <1>2, <1>4, <1>5 DEF CInv

\* What the invariant says of a host that somebody has left.
LEMMA CInvCloses == CInv => NothingLeftOpen
<1> SUFFICES ASSUME CInv, NEW h \in Hosts, exits[h] # {}
             PROVE  /\ job[h] \notin {"created", "locked"}
                    /\ \A m \in ArmsOf[h] : sub[m] # "active"
                    /\ timer[h] # "armed"
  BY DEF NothingLeftOpen
<1>1. PICK path \in exits[h] : path \notin {"none", "cancelled"}
  BY DEF CInv, IInv, RaceRecorded
<1>2. /\ path = "normal" => decided[h] = "cancelled"
      /\ path # "normal" => decided[h] = path
  BY <1>1 DEF CInv, IInv, OnePath
<1>3. decided[h] # "none"
  BY <1>1, <1>2
<1>4. timer[h] # "armed"
  BY <1>3 DEF CInv, TimersDecided
<1>5. ASSUME NEW m \in ArmsOf[h] PROVE sub[m] # "active"
  <2>1. h \in Gates
    BY <1>5, Shape
  <2> QED
    BY <1>3, <2>1 DEF CInv, BranchesDecided
<1>6. job[h] \notin {"created", "locked"}
  <2>1. CASE path = "normal"
    BY <1>1, <2>1 DEF CInv, WorkOver
  <2>2. CASE path # "normal" /\ h \notin Gates
    <3>1. path = "fired"
      BY <1>1, <1>2, <2>2 DEF CInv, WorkOver
    <3> QED
      BY <1>1, <1>2, <2>2, <3>1 DEF CInv, WorkOver
  <2>3. CASE h \in Gates
    BY <2>3 DEF CInv, WorkOver, Gates
  <2> QED
    BY <2>1, <2>2, <2>3
<1> QED
  BY <1>4, <1>5, <1>6

(* Timers, branches, jobs and incidents stay in step with the deciders, whatever drives, alarms, *)
(* workers, publishers and the operator do, in either mode and with any number of lost alarms.   *)
THEOREM ClosureInvariance == Spec => []CInv
<1>1. Init => CInv
  BY InitCInv
<1>2. CInv /\ [Next]_vars => CInv'
  BY StepCInv
<1> QED
  BY <1>1, <1>2, PTL DEF Spec

(* Once somebody has left a host nobody can lease its task, no branch of it holds an active      *)
(* subscription in D1 and its timer is not armed (timers.ts:116-123, event-gateway.ts:498-515).  *)
THEOREM NothingLeftOpenAlways == Spec => []NothingLeftOpen
  BY ClosureInvariance, CInvCloses, PTL
=============================================================================
