------------------------ MODULE MessageWaitProofs ------------------------
(***************************************************************************)
(* Theorems about MessageWait, for any process of receive tasks, any       *)
(* messages, either execution mode and any number of faults: a visit has   *)
(* one outcome, and a message is applied once.                             *)
(***************************************************************************)
EXTENDS MessageWait, TLAPS

-----------------------------------------------------------------------------
(* The inductive invariant. *)

\* Only a guarded visit has a timer, and only its timer is decided.
UnguardedUntimed ==
  \A v \in Visits : v \notin Guarded => outcome[v] = "none" /\ timer[v] = "none"

\* A planned fire whose claim is still free finds its wait still open.
PlannedStillOpen ==
  \A v \in Visits : fire[v].pc = "planned" =>
    v \in Guarded /\ (outcome[v] = "none" => row[v].st = "active")

\* What D1 says of a visit that was left, or where a payload was merged.
PathsDecided ==
  \A v \in Visits :
    /\ "timeout" \in exits[v] => outcome[v] = "fired"
    /\ "message" \in exits[v] => row[v].st = "consumed" /\ outcome[v] # "fired"
    /\ \A m \in Messages : v \in merged[m] =>
         "message" \in exits[v] /\ (\A n \in Messages : v \in merged[n] => m = n)

\* What the walk has read of the visit it is at still holds where it matters.
WalkIsCurrent ==
  drive.at \in Visits =>
    /\ drive.pc = "sub" /\ row[drive.at].st = "consumed" => outcome[drive.at] # "fired"
    /\ drive.pc \in {"lookup", "register", "call", "link", "create", "apply"} =>
         row[drive.at].st # "consumed"
    /\ drive.pc = "commit" =>
         /\ "message" \notin exits[drive.at]
         /\ drive.fresh => row[drive.at].st = "consumed"

Safe == UnguardedUntimed /\ PlannedStillOpen /\ PathsDecided /\ WalkIsCurrent
IInv == TypeOK /\ Safe

-----------------------------------------------------------------------------
(* Types. *)

\* The places are where a drive may start and where it may go.
LEMMA PlacesOfFlows ==
  /\ First \in Places
  /\ \A v \in Visits : OnMessage[v] \in Places /\ OnTimeout[v] \in Places
  BY Flows DEF Places

LEMMA ShapesTyped ==
  Idle \in Drives /\ NoRow \in Rows /\ Unsent \in Publishers /\ Asleep \in Handlers
  BY PlacesOfFlows
  DEF Idle, Drives, Pcs, NoRow, Rows, Unsent, Publishers, Answers, Asleep, Handlers

LEMMA InitTypeOK == Init => TypeOK
<1> SUFFICES ASSUME Init PROVE TypeOK
  OBVIOUS
<1>1. <<>> \in Seq(Messages) /\ 0 \in 0..MaxFaults /\ 0 \in Nat
  BY FaultsAreNat
<1>2. /\ mode \in Modes /\ status \in {"active", "incident", "completed"}
      /\ holder \in Ids \cup {NoId} /\ buffer \in Seq(Messages) /\ consumed \in BOOLEAN
      /\ drive \in Drives /\ wanted \subseteq Messages \cup {NoMessage}
      /\ faults \in 0..MaxFaults
  BY <1>1, ShapesTyped DEF Init
<1>3. /\ row \in [Visits -> Rows] /\ pub \in [Messages -> Publishers]
      /\ fire \in [Visits -> Handlers]
  BY ShapesTyped DEF Init
<1>4. /\ timer \in [Visits -> {"none", "armed", "fired", "cancelled"}]
      /\ outcome \in [Visits -> {"none", "fired", "cancelled"}]
      /\ alarm \in [Visits -> BOOLEAN] /\ made \in [Visits -> Nat]
  BY <1>1 DEF Init
<1>5. /\ ext \in [Messages -> Answers] /\ link \in [Messages -> Ids \cup {NoId}]
      /\ merged \in [Messages -> SUBSET Visits]
      /\ exits \in [Visits -> SUBSET {"message", "timeout"}]
  BY DEF Init, Answers
<1> QED
  BY <1>2, <1>3, <1>4, <1>5 DEF TypeOK

\* Where a step of a walk leaves the drive and the flows it has taken.
LEMMA GoTyped ==
  ASSUME drive \in Drives, NEW pc \in Pcs, Go(pc)
  PROVE  drive' \in Drives
  BY DEF Go, Drives

LEMMA GoMoves ==
  ASSUME drive \in Drives, NEW pc, Go(pc)
  PROVE  drive'.pc = pc /\ drive'.at = drive.at
  BY DEF Go, Drives

LEMMA LeaveTyped ==
  ASSUME TypeOK, drive.at \in Visits, NEW path \in {"message", "timeout"},
         NEW p \in Messages \cup {NoMessage}, Leave(path, p)
  PROVE  drive' \in Drives /\ exits' \in [Visits -> SUBSET {"message", "timeout"}]
<1>1. drive' \in Drives
  BY ShapesTyped, PlacesOfFlows DEF Leave, Drives, Pcs
<1>2. exits' \in [Visits -> SUBSET {"message", "timeout"}]
  BY DEF Leave, TypeOK
<1> QED
  BY <1>1, <1>2

LEMMA CorrelateTyped ==
  ASSUME TypeOK, NEW m \in Messages \cup {NoMessage}, NEW id \in Ids \cup {NoId}, Correlate(m, id)
  PROVE  ext' \in [Messages -> Answers] /\ link' \in [Messages -> Ids \cup {NoId}]
  BY DEF Correlate, TypeOK, Answers

LEMMA NextIdTyped ==
  ASSUME TypeOK, drive.at \in Visits
  PROVE  NextId \in Ids /\ [made EXCEPT ![drive.at] = @ + 1] \in [Visits -> Nat]
  BY DEF NextId, Ids, TypeOK

LEMMA FieldsTyped ==
  ASSUME TypeOK
  PROVE  /\ drive.pending \in Messages \cup {NoMessage} /\ drive.event \in Messages \cup {NoMessage}
         /\ drive.id \in Ids \cup {NoId} /\ drive.at \in Places /\ drive.fresh \in BOOLEAN
         /\ \A v \in Visits : row[v].id \in Ids \cup {NoId} /\ row[v] \in Rows
  BY DEF TypeOK, Drives, Rows

\* A step of a drive keeps every variable in its type.
LEMMA DriveTypes == TypeOK /\ DriveStep => TypeOK'
<1> SUFFICES ASSUME TypeOK, DriveStep PROVE TypeOK'
  OBVIOUS
<1> USE FieldsTyped
<1>1. CASE Finish
  BY <1>1, ShapesTyped DEF Finish, Park, TypeOK, broker, history
<1>2. CASE ReadTimer
  <2>1. drive' \in Drives /\ exits' \in [Visits -> SUBSET {"message", "timeout"}]
    BY <1>2, LeaveTyped, GoTyped DEF ReadTimer, At, TypeOK, Pcs
  <2> QED
    BY <1>2, <2>1 DEF ReadTimer, TypeOK, d1, broker
<1>3. CASE ReadSub
  <2>1. drive.at \in Visits /\ drive \in Drives
    BY <1>3 DEF ReadSub, At, TypeOK
  <2>2. CASE Leave("message", IF row[drive.at].msg = drive.pending THEN NoMessage ELSE drive.pending)
    <3>1. drive' \in Drives /\ exits' \in [Visits -> SUBSET {"message", "timeout"}]
      BY <2>1, <2>2, LeaveTyped
    <3> QED
      BY <1>3, <3>1 DEF ReadSub, TypeOK, d1, broker
  <2>3. CASE row[drive.at].st # "consumed" /\ exits' = exits
    <3>1. drive' \in Drives
      BY <1>3, <2>1, <2>3, GoTyped DEF ReadSub, Drives, Pcs
    <3> QED
      BY <1>3, <2>3, <3>1 DEF ReadSub, TypeOK, d1, broker
  <2> QED
    BY <1>3, <2>2, <2>3 DEF ReadSub
<1>4. CASE LookUp
  <2>1. ASSUME NEW m \in Messages, drive' = [drive EXCEPT !.pc = "apply", !.event = m]
        PROVE  drive' \in Drives
    BY <2>1 DEF Drives, Pcs, TypeOK
  <2>2. Go("register") => drive' \in Drives
    BY GoTyped DEF Pcs, TypeOK
  <2>3. drive' \in Drives
    BY <1>4, <2>1, <2>2 DEF LookUp, Linked
  <2> QED
    BY <1>4, <2>3 DEF LookUp, TypeOK, d1, broker, history
<1>5. CASE ReadRegistration
  <2>1. drive.at \in Visits /\ drive \in Drives /\ made \in [Visits -> Nat]
    BY <1>5 DEF ReadRegistration, At, TypeOK
  <2>2. ASSUME NEW fresh \in BOOLEAN, NEW id \in Ids \cup {NoId},
               drive' = [drive EXCEPT !.pc = "call", !.fresh = fresh, !.id = id]
        PROVE  drive' \in Drives
    BY <2>1, <2>2 DEF Drives, Pcs
  <2>3. drive' \in Drives
    BY <1>5, <2>1, <2>2, NextIdTyped DEF ReadRegistration
  <2>4. made' \in [Visits -> Nat]
    BY <1>5, <2>1, NextIdTyped DEF ReadRegistration
  <2> QED
    BY <1>5, <2>3, <2>4 DEF ReadRegistration, TypeOK, d1, broker, history
<1>6. CASE CallBroker
  <2>1. Waiting => drive' \in Drives
    BY ShapesTyped, GoTyped DEF Waiting, Park, TypeOK, Pcs
  <2>2. buffer # <<>> => Head(buffer) \in Messages /\ Tail(buffer) \in Seq(Messages)
    BY DEF TypeOK
  <2>5. ASSUME NEW m \in Messages, drive' = [drive EXCEPT !.pc = "link", !.event = m]
        PROVE  drive' \in Drives
    BY <2>5 DEF Drives, Pcs, TypeOK
  <2>6. Go("reject") => drive' \in Drives
    BY GoTyped DEF Pcs, TypeOK
  <2>3. drive' \in Drives /\ buffer' \in Seq(Messages)
    BY <1>6, <2>1, <2>2, <2>5, <2>6 DEF CallBroker, TypeOK, broker
  <2> QED
    BY <1>6, <2>3 DEF CallBroker, TypeOK, d1, broker, history
<1>7. CASE Reject
  BY <1>7, ShapesTyped DEF Reject, Park, TypeOK, broker, history
<1>8. CASE LinkBuffered
  <2>1. drive' \in Drives
    BY <1>8, GoTyped DEF LinkBuffered, TypeOK, Pcs
  <2>2. row' \in [Visits -> Rows]
    BY <1>8 DEF LinkBuffered, At, NoRow, Rows, TypeOK
  <2>3. ext' \in [Messages -> Answers] /\ link' \in [Messages -> Ids \cup {NoId}]
    BY <1>8, CorrelateTyped DEF LinkBuffered
  <2> QED
    BY <1>8, <2>1, <2>2, <2>3 DEF LinkBuffered, TypeOK, broker, history
<1>9. CASE CreateRow
  <2>1. drive' \in Drives
    BY <1>9, GoTyped DEF CreateRow, TypeOK, Pcs
  <2>2. row' \in [Visits -> Rows]
    BY <1>9 DEF CreateRow, At, NoRow, Rows, TypeOK
  <2> QED
    BY <1>9, <2>1, <2>2 DEF CreateRow, TypeOK, broker, history
<1>10. CASE ArmTimer
  <2>1. drive' \in Drives
    BY <1>10, ShapesTyped, GoTyped DEF ArmTimer, Park, TypeOK, Pcs
  <2>2. timer' \in [Visits -> {"none", "armed", "fired", "cancelled"}]
    <3>1. timer' \in {timer, [timer EXCEPT ![drive.at] = IF @ = "none" THEN "armed" ELSE @]}
      BY <1>10 DEF ArmTimer
    <3>2. (IF timer[drive.at] = "none" THEN "armed" ELSE timer[drive.at])
            \in {"none", "armed", "fired", "cancelled"}
      BY <1>10 DEF ArmTimer, At, TypeOK
    <3> QED
      BY <3>1, <3>2, Zenon DEF TypeOK
  <2>3. alarm' = alarm /\ status' = "active"
    BY <1>10 DEF ArmTimer
  <2> QED
    BY <1>10, <2>1, <2>2, <2>3 DEF ArmTimer, TypeOK, broker, history
<1>11. CASE SetAlarm
  BY <1>11, ShapesTyped DEF SetAlarm, At, Park, TypeOK, d1, broker, history
<1>12. CASE ReadBeforeApply
  <2>3. drive.at \in Visits /\ drive \in Drives /\ made \in [Visits -> Nat]
    BY <1>12 DEF ReadBeforeApply, At, TypeOK
  <2>4. ASSUME NEW fresh \in BOOLEAN, NEW id \in Ids \cup {NoId},
               drive' = [drive EXCEPT !.pc = "commit", !.fresh = fresh, !.id = id]
        PROVE  drive' \in Drives
    BY <2>3, <2>4 DEF Drives, Pcs
  <2>1. drive' \in Drives /\ made' \in [Visits -> Nat]
    BY <1>12, <2>3, <2>4, NextIdTyped DEF ReadBeforeApply
  <2>2. row' \in [Visits -> Rows]
    <3>1. drive.at \in Visits /\ row \in [Visits -> Rows]
      BY <1>12 DEF ReadBeforeApply, At, TypeOK
    <3>2. [st |-> "consumed", id |-> NextId, msg |-> drive.event] \in Rows
      BY <3>1, NextIdTyped DEF Rows
    <3> QED
      BY <1>12, <3>1, <3>2 DEF ReadBeforeApply
  <2> QED
    BY <1>12, <2>1, <2>2 DEF ReadBeforeApply, TypeOK, broker, history
<1>13. CASE CommitMessage
  <2>1. drive' \in Drives /\ exits' \in [Visits -> SUBSET {"message", "timeout"}]
    BY <1>13, LeaveTyped DEF CommitMessage, At
  <2>2. row' \in [Visits -> Rows]
    <3>1. drive.at \in Visits /\ row \in [Visits -> Rows]
      BY <1>13 DEF CommitMessage, At, TypeOK
    <3>2. [row[drive.at] EXCEPT !.st = "consumed", !.msg = drive.event] \in Rows
      BY <3>1 DEF Rows
    <3>3. \/ row' = row
          \/ row' = [row EXCEPT ![drive.at] = [@ EXCEPT !.st = "consumed", !.msg = drive.event]]
      BY <1>13 DEF CommitMessage
    <3> QED
      BY <3>1, <3>2, <3>3
  <2>3. ext' \in [Messages -> Answers] /\ link' \in [Messages -> Ids \cup {NoId}]
    BY <1>13, CorrelateTyped DEF CommitMessage
  <2>5. /\ outcome' \in [Visits -> {"none", "fired", "cancelled"}]
        /\ timer' \in [Visits -> {"none", "armed", "fired", "cancelled"}]
    <3>1. \/ UNCHANGED <<outcome, timer>>
          \/ /\ outcome' = [outcome EXCEPT ![drive.at] = "cancelled"]
             /\ timer' = [timer EXCEPT ![drive.at] = IF @ = "armed" THEN "cancelled" ELSE @]
      BY <1>13 DEF CommitMessage
    <3>2. drive.at \in Visits
      BY <1>13 DEF CommitMessage, At
    <3>3. (IF timer[drive.at] = "armed" THEN "cancelled" ELSE timer[drive.at])
            \in {"none", "armed", "fired", "cancelled"}
      BY <3>2 DEF TypeOK
    <3> QED
      BY <3>1, <3>2, <3>3, Zenon DEF TypeOK
  <2>4. merged' \in [Messages -> SUBSET Visits] /\ status' = "active"
    <3>1. merged \in [Messages -> SUBSET Visits] /\ drive.at \in Visits
      BY <1>13 DEF CommitMessage, At, TypeOK
    <3>2. merged' = [merged EXCEPT ![drive.event] = @ \cup {drive.at}] /\ status' = "active"
      BY <1>13 DEF CommitMessage
    <3> QED
      BY <3>1, <3>2
  <2> QED
    BY <1>13, <2>1, <2>2, <2>3, <2>4, <2>5 DEF CommitMessage, TypeOK, broker
<1>14. CASE ConvertOnFire
  <2>1. drive' \in Drives /\ exits' \in [Visits -> SUBSET {"message", "timeout"}]
    BY <1>14, LeaveTyped DEF ConvertOnFire, At
  <2> QED
    BY <1>14, <2>1 DEF ConvertOnFire, TypeOK, d1, broker
<1> QED
  BY <1>1, <1>2, <1>3, <1>4, <1>5, <1>6, <1>7, <1>8, <1>9, <1>10, <1>11, <1>12, <1>13, <1>14
  DEF DriveStep

\* A process that goes on, or a row that is superseded, keeps its other fields.
LEMMA PartsTyped ==
  ASSUME TypeOK
  PROVE  /\ \A v \in Visits : [row[v] EXCEPT !.st = "superseded"] \in Rows
         /\ \A v \in Visits, s \in {"fired", "superseded"} :
              [fire EXCEPT ![v].pc = s] \in [Visits -> Handlers]
         /\ \A m \in Messages, s \in {"recorded", "done"} :
              [pub EXCEPT ![m].pc = s] \in [Messages -> Publishers]
<1>1. ASSUME NEW v \in Visits PROVE [row[v] EXCEPT !.st = "superseded"] \in Rows
  <2>1. row[v] \in Rows
    BY DEF TypeOK
  <2> QED
    BY <2>1 DEF Rows
<1>2. ASSUME NEW v \in Visits, NEW s \in {"fired", "superseded"}
      PROVE  [fire EXCEPT ![v].pc = s] \in [Visits -> Handlers]
  <2>1. fire \in [Visits -> Handlers] /\ fire[v] \in Handlers
    BY DEF TypeOK
  <2>2. [fire[v] EXCEPT !.pc = s] \in Handlers
    BY <2>1 DEF Handlers
  <2> QED
    BY <2>1, <2>2
<1>3. ASSUME NEW m \in Messages, NEW s \in {"recorded", "done"}
      PROVE  [pub EXCEPT ![m].pc = s] \in [Messages -> Publishers]
  <2>1. pub \in [Messages -> Publishers] /\ pub[m] \in Publishers
    BY DEF TypeOK
  <2>2. [pub[m] EXCEPT !.pc = s] \in Publishers
    BY <2>1 DEF Publishers
  <2> QED
    BY <2>1, <2>2
<1> QED
  BY <1>1, <1>2, <1>3

LEMMA NextTypes == TypeOK /\ [Next]_vars => TypeOK'
<1> SUFFICES ASSUME TypeOK, [Next]_vars PROVE TypeOK'
  OBVIOUS
<1>1. ASSUME NEW p \in Messages \cup {NoMessage}, StartDrive(p) PROVE TypeOK'
  <2>1. drive' \in Drives
    BY <1>1, ShapesTyped DEF StartDrive, Drives, Pcs, Idle
  <2> QED
    BY <1>1, <2>1 DEF StartDrive, TypeOK, d1, broker, history
<1>2. CASE DriveStep
  BY <1>2, DriveTypes
<1>3. CASE Backstop
  BY <1>3 DEF Backstop, TypeOK, d1, broker, history
<1>4. ASSUME NEW m \in Messages, Publish(m) PROVE TypeOK'
  <2>1. \A a \in Answers : [pc |-> "answered", ans |-> a, id |-> holder] \in Publishers
    BY DEF TypeOK, Publishers
  <2>2. pub' \in [Messages -> Publishers]
    BY <1>4, <2>1 DEF Publish, TypeOK, Answers
  <2>3. Append(buffer, m) \in Seq(Messages)
    BY <1>4 DEF TypeOK
  <2>4. holder' \in Ids \cup {NoId} /\ buffer' \in Seq(Messages) /\ consumed' \in BOOLEAN
    BY <1>4, <2>3 DEF Publish, TypeOK, broker
  <2> QED
    BY <1>4, <2>2, <2>4 DEF Publish, TypeOK, d1, history
<1>5. ASSUME NEW m \in Messages, Record(m) PROVE TypeOK'
  <2>1. pub[m].ans \in Answers /\ pub[m].id \in Ids \cup {NoId}
    BY <1>5 DEF TypeOK, Publishers
  <2>2. pub' \in [Messages -> Publishers]
    BY <1>5, PartsTyped DEF Record
  <2> QED
    BY <1>5, <2>1, <2>2 DEF Record, TypeOK, broker, history
<1>6. ASSUME NEW m \in Messages, Deliver(m) PROVE TypeOK'
  <2>1. pub' \in [Messages -> Publishers]
    BY <1>6, PartsTyped DEF Deliver
  <2> QED
    BY <1>6, <2>1 DEF Deliver, TypeOK, d1, broker, history
<1>7. ASSUME NEW m \in Messages, PublisherDies(m) PROVE TypeOK'
  <2>1. pub' \in [Messages -> Publishers]
    BY <1>7, PartsTyped DEF PublisherDies
  <2> QED
    BY <1>7, <2>1, FaultsAreNat DEF PublisherDies, Fault, TypeOK, d1, broker, history
<1>8. ASSUME NEW v \in Visits, PlanFire(v) PROVE TypeOK'
  <2>1. fire' \in [Visits -> Handlers]
    BY <1>8, FieldsTyped DEF PlanFire, TypeOK, Handlers
  <2> QED
    BY <1>8, <2>1 DEF PlanFire, TypeOK, d1, broker, history
<1>9. ASSUME NEW v \in Visits, DropAlarm(v) PROVE TypeOK'
  BY <1>9 DEF DropAlarm, TypeOK, d1, broker, history
<1>10. ASSUME NEW v \in Visits, FireBatch(v) PROVE TypeOK'
  <2>1. [fire EXCEPT ![v] = Asleep] \in [Visits -> Handlers]
    BY ShapesTyped DEF TypeOK
  <2>2. fire' \in [Visits -> Handlers]
    BY <1>10, <2>1, PartsTyped DEF FireBatch
  <2>3. [row EXCEPT ![v].st = "superseded"] \in [Visits -> Rows]
    BY PartsTyped DEF TypeOK
  <2>4. row' \in [Visits -> Rows]
    BY <1>10, <2>3 DEF FireBatch, TypeOK
  <2> QED
    BY <1>10, <2>2, <2>4 DEF FireBatch, TypeOK, broker, history
<1>11. ASSUME NEW v \in Visits, Supersede(v) \/ SupersedeFails(v) PROVE TypeOK'
  <2>1. fire' \in [Visits -> Handlers]
    BY <1>11, PartsTyped DEF Supersede, SupersedeFails
  <2> QED
    BY <1>11, <2>1, FaultsAreNat
    DEF Supersede, SupersedeFails, Fault, TypeOK, d1, broker, history
<1>12. ASSUME NEW v \in Visits, Wake(v) \/ HandlerDies(v) PROVE TypeOK'
  <2>1. fire' \in [Visits -> Handlers]
    BY <1>12, ShapesTyped DEF Wake, HandlerDies, TypeOK
  <2>2. CASE Wake(v)
    BY <2>1, <2>2 DEF Wake, TypeOK, d1, broker, history
  <2>3. CASE HandlerDies(v)
    BY <2>1, <2>3, FaultsAreNat DEF HandlerDies, Fault, TypeOK, d1, broker, history
  <2> QED
    BY <1>12, <2>2, <2>3
<1>13. CASE DriveDies \/ ArmFails
  BY <1>13, ShapesTyped, FaultsAreNat
  DEF DriveDies, ArmFails, Park, Fault, TypeOK, d1, broker, history
<1>14. CASE UNCHANGED vars
  BY <1>14 DEF vars, TypeOK, d1, broker, history
<1> QED
  BY <1>1, <1>2, <1>3, <1>4, <1>5, <1>6, <1>7, <1>8, <1>9, <1>10, <1>11, <1>12, <1>13, <1>14
  DEF Next

(* Every row, every call and every process keeps its shape, whatever the      *)
(* process of receive tasks, the mode and the faults.                         *)
THEOREM TypeCorrect == Spec => []TypeOK
  BY InitTypeOK, NextTypes, PTL DEF Spec

-----------------------------------------------------------------------------
(* One outcome. *)

Open == {"lookup", "register", "call", "link", "create", "apply"}
Free == {"idle", "timer", "reject", "arm", "alarm"}

\* A step that decides nothing, and after which the walk relies on nothing new.
Quiet ==
  /\ UNCHANGED <<row, timer, outcome, merged, exits>>
  /\ \A v \in Visits : fire'[v].pc = "planned" => fire[v].pc = "planned"
  /\ \/ drive' = drive \/ drive'.pc \in Free
     \/ drive'.at = drive.at /\ {drive.pc, drive'.pc} \subseteq Open

LEMMA QuietSafe == Safe /\ Quiet => Safe'
<1> SUFFICES ASSUME Safe, Quiet PROVE Safe'
  OBVIOUS
<1>1. UnguardedUntimed' /\ PathsDecided'
  BY DEF Safe, Quiet, UnguardedUntimed, PathsDecided, Guarded
<1>2. PlannedStillOpen'
  BY DEF Safe, Quiet, PlannedStillOpen, Guarded
<1>3. WalkIsCurrent'
  BY DEF Safe, Quiet, WalkIsCurrent, Open, Free
<1> QED
  BY <1>1, <1>2, <1>3 DEF Safe

\* The steps of a drive.
LEMMA DriveSafe == TypeOK /\ Safe /\ DriveStep => Safe'
<1> SUFFICES ASSUME TypeOK, Safe, DriveStep PROVE Safe'
  OBVIOUS
<1> DEFINE v == drive.at
<1>1. CASE Finish \/ Reject \/ SetAlarm
  <2>1. Quiet
    BY <1>1 DEF Finish, Reject, SetAlarm, Park, Idle, Quiet, Free, d1, history
  <2> QED
    BY <2>1, QuietSafe
<1>2. CASE LookUp \/ ReadRegistration \/ CallBroker
  <2>1. \/ drive'.pc \in {"idle", "reject"}
        \/ drive'.at = v /\ {drive.pc, drive'.pc} \subseteq Open
    <3>1. CASE LookUp
      <4>1. drive.pc = "lookup" /\ drive'.pc \in {"apply", "register"} /\ drive'.at = drive.at
        BY <3>1, GoMoves DEF LookUp, At, TypeOK, Drives
      <4> QED
        BY <3>1, <4>1 DEF Open
    <3>2. CASE ReadRegistration
      <4>1. drive.pc = "register" /\ drive'.pc = "call" /\ drive'.at = drive.at
        BY <3>2 DEF ReadRegistration, At, TypeOK, Drives
      <4> QED
        BY <3>2, <4>1 DEF Open
    <3>3. CASE CallBroker
      <4>1. drive.pc = "call" /\ drive \in Drives
        BY <3>3 DEF CallBroker, At, TypeOK
      <4>2. Waiting => drive'.pc = "idle" \/ (drive'.pc = "create" /\ drive'.at = v)
        <5>1. Go("create") => drive'.pc = "create" /\ drive'.at = v
          BY <4>1, GoMoves
        <5>2. Park => drive'.pc = "idle"
          BY DEF Park, Idle
        <5>3. Waiting => Go("create") \/ Park
          BY DEF Waiting
        <5> QED
          BY <5>1, <5>2, <5>3
      <4>3. Go("reject") => drive'.pc = "reject"
        BY <4>1, GoMoves
      <4>4. CASE drive' = [drive EXCEPT !.pc = "link", !.event = Head(buffer)]
        BY <4>1, <4>4 DEF Open, Drives
      <4>5. \/ Waiting \/ Go("reject")
            \/ drive' = [drive EXCEPT !.pc = "link", !.event = Head(buffer)]
        BY <3>3 DEF CallBroker
      <4>6. {"call", "create", "link"} \subseteq Open
        BY DEF Open
      <4> QED
        BY <4>1, <4>2, <4>3, <4>4, <4>5, <4>6
    <3> QED
      BY <1>2, <3>1, <3>2, <3>3
  <2>2. Quiet
    BY <1>2, <2>1 DEF LookUp, ReadRegistration, CallBroker, Quiet, Free, d1, history
  <2> QED
    BY <2>2, QuietSafe
<1>3. CASE ReadTimer
  <2>1. CASE v \in Guarded /\ outcome[v] = "fired"
    <3>1. drive'.pc = "timer" /\ exits' = [exits EXCEPT ![v] = @ \cup {"timeout"}]
      BY <1>3, <2>1 DEF ReadTimer, Leave, Idle
    <3>2. UnguardedUntimed' /\ PlannedStillOpen'
      BY <1>3 DEF ReadTimer, Safe, UnguardedUntimed, PlannedStillOpen, Guarded, d1
    <3>3. PathsDecided'
      BY <1>3, <2>1, <3>1 DEF ReadTimer, At, Safe, PathsDecided, TypeOK, d1
    <3>4. WalkIsCurrent'
      BY <3>1 DEF WalkIsCurrent
    <3> QED
      BY <3>2, <3>3, <3>4 DEF Safe
  <2>2. CASE ~(v \in Guarded /\ outcome[v] = "fired")
    <3>1. outcome[v] # "fired" /\ drive'.pc = "sub" /\ drive'.at = v
      BY <1>3, <2>2 DEF ReadTimer, At, Go, Safe, UnguardedUntimed, TypeOK, Drives
    <3>2. UnguardedUntimed' /\ PlannedStillOpen' /\ PathsDecided'
      BY <1>3, <2>2
      DEF ReadTimer, Safe, UnguardedUntimed, PlannedStillOpen, PathsDecided, Guarded, d1
    <3>3. WalkIsCurrent'
      BY <1>3, <3>1 DEF ReadTimer, WalkIsCurrent, d1
    <3> QED
      BY <3>2, <3>3 DEF Safe
  <2> QED
    BY <2>1, <2>2
<1>4. CASE ReadSub
  <2>1. UnguardedUntimed' /\ PlannedStillOpen'
    BY <1>4 DEF ReadSub, Safe, UnguardedUntimed, PlannedStillOpen, Guarded, d1
  <2>2. CASE row[v].st = "consumed"
    <3>1. drive'.pc = "timer" /\ exits' = [exits EXCEPT ![v] = @ \cup {"message"}]
      BY <1>4, <2>2 DEF ReadSub, Leave, Idle
    <3>2. outcome[v] # "fired"
      BY <1>4, <2>2 DEF ReadSub, At, Safe, WalkIsCurrent
    <3>3. PathsDecided'
      BY <1>4, <2>2, <3>1, <3>2 DEF ReadSub, At, Safe, PathsDecided, TypeOK, d1
    <3>4. WalkIsCurrent'
      BY <3>1 DEF WalkIsCurrent
    <3> QED
      BY <2>1, <3>3, <3>4 DEF Safe
  <2>3. CASE row[v].st # "consumed"
    <3>1. exits' = exits /\ drive'.at = v /\ drive'.pc \in Open
      BY <1>4, <2>3 DEF ReadSub, Go, Open, TypeOK, Drives
    <3>2. PathsDecided'
      BY <1>4, <3>1 DEF ReadSub, Safe, PathsDecided, d1
    <3>3. WalkIsCurrent'
      BY <1>4, <2>3, <3>1 DEF ReadSub, WalkIsCurrent, Open, d1
    <3> QED
      BY <2>1, <3>2, <3>3 DEF Safe
  <2> QED
    BY <2>2, <2>3
<1>5. CASE LinkBuffered \/ CreateRow
  <2>1. v \in Visits /\ row[v].st # "consumed"
    BY <1>5 DEF LinkBuffered, CreateRow, At, Safe, WalkIsCurrent
  <2>2. /\ row' = row \/ row'[v].st = "active"
        /\ \A w \in Visits : w # v => row'[w] = row[w]
        /\ UNCHANGED <<timer, outcome, fire, merged, exits>>
    <3>1. /\ row' = row \/ row' = [row EXCEPT ![v] = [NoRow EXCEPT !.st = "active", !.id = drive.id]]
          /\ UNCHANGED <<timer, outcome, fire, merged, exits>>
      BY <1>5 DEF LinkBuffered, CreateRow, history
    <3>2. [NoRow EXCEPT !.st = "active", !.id = drive.id].st = "active"
      BY DEF NoRow
    <3>3. row \in [Visits -> Rows]
      BY DEF TypeOK
    <3> QED
      BY <2>1, <3>1, <3>2, <3>3
  <2>3. drive'.at = v /\ drive'.pc \in {"apply", "arm"}
    BY <1>5 DEF LinkBuffered, CreateRow, Go, TypeOK, Drives
  <2>4. UnguardedUntimed' /\ PlannedStillOpen'
    BY <2>1, <2>2 DEF Safe, UnguardedUntimed, PlannedStillOpen, Guarded
  <2>5. PathsDecided'
    BY <2>1, <2>2 DEF Safe, PathsDecided
  <2>6. WalkIsCurrent'
    BY <2>1, <2>2, <2>3 DEF WalkIsCurrent
  <2> QED
    BY <2>4, <2>5, <2>6 DEF Safe
<1>6. CASE ArmTimer
  <2>1. drive'.pc \in {"alarm", "idle"}
    BY <1>6 DEF ArmTimer, Go, Park, Idle, TypeOK, Drives
  <2>2. UnguardedUntimed'
    BY <1>6 DEF ArmTimer, Safe, UnguardedUntimed, Guarded, TypeOK
  <2>3. PlannedStillOpen' /\ PathsDecided'
    BY <1>6 DEF ArmTimer, Safe, PlannedStillOpen, PathsDecided, Guarded, history
  <2>4. WalkIsCurrent'
    BY <2>1 DEF WalkIsCurrent
  <2> QED
    BY <2>2, <2>3, <2>4 DEF Safe
<1>7. CASE ReadBeforeApply
  <2>1. v \in Visits /\ row[v].st # "consumed"
    BY <1>7 DEF ReadBeforeApply, At
  <2>2. "message" \notin exits[v]
    BY <2>1 DEF Safe, PathsDecided
  <2>3. /\ drive'.at = v /\ drive'.pc = "commit"
        /\ drive'.fresh => row'[v].st = "consumed"
        /\ row' = row \/ row[v].st # "active"
        /\ \A w \in Visits : w # v => row'[w] = row[w]
        /\ UNCHANGED <<timer, outcome, fire, merged, exits>>
    <3>1. UNCHANGED <<timer, outcome, fire, merged, exits>>
      BY <1>7 DEF ReadBeforeApply, history
    <3>2. CASE row[v].st = "active"
      BY <1>7, <3>1, <3>2 DEF ReadBeforeApply, TypeOK, Drives
    <3>3. CASE row[v].st # "active"
      <4>1. /\ row' = [row EXCEPT ![v] = [st |-> "consumed", id |-> NextId, msg |-> drive.event]]
            /\ drive' = [drive EXCEPT !.pc = "commit", !.fresh = TRUE, !.id = NextId]
        BY <1>7, <3>3 DEF ReadBeforeApply
      <4>2. drive'.at = v /\ drive'.pc = "commit"
        BY <4>1 DEF TypeOK, Drives
      <4>3. row'[v].st = "consumed" /\ \A w \in Visits : w # v => row'[w] = row[w]
        BY <2>1, <4>1 DEF TypeOK
      <4> QED
        BY <3>1, <3>3, <4>2, <4>3
    <3> QED
      BY <3>2, <3>3
  <2>4. UnguardedUntimed' /\ PlannedStillOpen'
    BY <2>1, <2>3 DEF Safe, UnguardedUntimed, PlannedStillOpen, Guarded
  <2>5. PathsDecided'
    BY <2>1, <2>2, <2>3 DEF Safe, PathsDecided
  <2>6. WalkIsCurrent'
    BY <2>2, <2>3 DEF WalkIsCurrent
  <2> QED
    BY <2>4, <2>5, <2>6 DEF Safe
<1>8. CASE CommitMessage
  <2>1. v \in Visits /\ "message" \notin exits[v] /\ (drive.fresh => row[v].st = "consumed")
    BY <1>8 DEF CommitMessage, At, Safe, WalkIsCurrent
  <2>2. outcome[v] = "none"
    BY <1>8, <2>1 DEF CommitMessage, Safe, UnguardedUntimed
  <2>3. row'[v].st = "consumed" /\ \A w \in Visits : w # v => row'[w] = row[w]
    BY <1>8, <2>1 DEF CommitMessage, TypeOK, Rows
  <2>4. /\ v \in Guarded => outcome'[v] = "cancelled"
        /\ v \notin Guarded => outcome'[v] = "none" /\ timer'[v] = timer[v]
        /\ \A w \in Visits : w # v => outcome'[w] = outcome[w] /\ timer'[w] = timer[w]
    BY <1>8, <2>1, <2>2 DEF CommitMessage, TypeOK
  <2>5. /\ exits' = [exits EXCEPT ![v] = @ \cup {"message"}] /\ drive'.pc = "timer"
        /\ merged' = [merged EXCEPT ![drive.event] = @ \cup {v}] /\ fire' = fire
    BY <1>8 DEF CommitMessage, Leave, Idle
  <2>6. UnguardedUntimed'
    BY <2>4 DEF Safe, UnguardedUntimed, Guarded
  <2>7. PlannedStillOpen'
    BY <2>3, <2>4, <2>5 DEF Safe, PlannedStillOpen, Guarded
  <2>8. PathsDecided'
    <3>1. \A m \in Messages : v \notin merged[m]
      BY <2>1 DEF Safe, PathsDecided
    <3>2. "timeout" \notin exits[v]
      BY <2>1, <2>2 DEF Safe, PathsDecided
    <3>3. ASSUME NEW w \in Visits
          PROVE  /\ "timeout" \in exits'[w] => outcome'[w] = "fired"
                 /\ "message" \in exits'[w] => row'[w].st = "consumed" /\ outcome'[w] # "fired"
      BY <2>1, <2>3, <2>4, <2>5, <3>2 DEF Safe, PathsDecided, TypeOK
    <3>4. ASSUME NEW w \in Visits, NEW m \in Messages, w \in merged'[m]
          PROVE  "message" \in exits'[w] /\ \A n \in Messages : w \in merged'[n] => m = n
      <4>1. CASE w = v
        BY <2>1, <2>5, <3>1, <3>4, <4>1 DEF TypeOK
      <4>2. CASE w # v
        BY <2>1, <2>5, <3>4, <4>2 DEF Safe, PathsDecided, TypeOK
      <4> QED
        BY <4>1, <4>2
    <3> QED
      BY <3>3, <3>4 DEF PathsDecided
  <2>9. WalkIsCurrent'
    BY <2>5 DEF WalkIsCurrent
  <2> QED
    BY <2>6, <2>7, <2>8, <2>9 DEF Safe
<1>9. CASE ConvertOnFire
  <2>1. drive'.pc = "timer" /\ exits' = [exits EXCEPT ![v] = @ \cup {"timeout"}]
    BY <1>9 DEF ConvertOnFire, Leave, Idle
  <2>2. UnguardedUntimed' /\ PlannedStillOpen'
    BY <1>9 DEF ConvertOnFire, Safe, UnguardedUntimed, PlannedStillOpen, Guarded, d1
  <2>3. PathsDecided'
    BY <1>9, <2>1 DEF ConvertOnFire, At, Safe, PathsDecided, TypeOK, d1
  <2>4. WalkIsCurrent'
    BY <2>1 DEF WalkIsCurrent
  <2> QED
    BY <2>2, <2>3, <2>4 DEF Safe
<1> QED
  BY <1>1, <1>2, <1>3, <1>4, <1>5, <1>6, <1>7, <1>8, <1>9 DEF DriveStep

LEMMA NextSafe == TypeOK /\ Safe /\ [Next]_vars => Safe'
<1> SUFFICES ASSUME TypeOK, Safe, [Next]_vars PROVE Safe'
  OBVIOUS
<1>1. ASSUME NEW p \in Messages \cup {NoMessage}, StartDrive(p) PROVE Safe'
  <2>1. Quiet
    BY <1>1 DEF StartDrive, Idle, Quiet, Free, d1, history
  <2> QED
    BY <2>1, QuietSafe
<1>2. CASE DriveStep
  BY <1>2, DriveSafe
<1>3. ASSUME Backstop \/ \E m \in Messages : Publish(m) \/ Record(m) \/ Deliver(m) \/ PublisherDies(m)
      PROVE  Safe'
  <2>1. Quiet
    BY <1>3 DEF Backstop, Publish, Record, Deliver, PublisherDies, Quiet, d1, history
  <2> QED
    BY <2>1, QuietSafe
<1>4. ASSUME NEW v \in Visits, PlanFire(v) PROVE Safe'
  <2>1. v \in Guarded /\ row[v].st = "active"
    BY <1>4 DEF PlanFire, MayFire, Safe, UnguardedUntimed
  <2>2. UNCHANGED <<row, timer, outcome, merged, exits, drive>>
        /\ \A w \in Visits : w # v => fire'[w] = fire[w]
    BY <1>4 DEF PlanFire, TypeOK, d1, history
  <2>3. PlannedStillOpen'
    BY <2>1, <2>2 DEF Safe, PlannedStillOpen, Guarded
  <2>4. UnguardedUntimed' /\ PathsDecided' /\ WalkIsCurrent'
    BY <2>2 DEF Safe, UnguardedUntimed, PathsDecided, WalkIsCurrent, Guarded
  <2> QED
    BY <2>3, <2>4 DEF Safe
<1>5. ASSUME NEW v \in Visits, FireBatch(v) PROVE Safe'
  <2>1. CASE outcome[v] # "none"
    <3>1. fire' = [fire EXCEPT ![v] = Asleep] /\ UNCHANGED <<row, timer, outcome, merged, exits, drive>>
      BY <1>5, <2>1 DEF FireBatch, history
    <3>2. Quiet
      BY <3>1 DEF Quiet, Asleep, TypeOK
    <3> QED
      BY <3>2, QuietSafe
  <2>2. CASE outcome[v] = "none"
    <3>1. v \in Guarded /\ row[v].st = "active"
      BY <1>5, <2>2 DEF FireBatch, Safe, PlannedStillOpen
    <3>2. /\ outcome' = [outcome EXCEPT ![v] = "fired"] /\ timer' = [timer EXCEPT ![v] = "fired"]
          /\ row' = row \/ row' = [row EXCEPT ![v].st = "superseded"]
          /\ fire' = [fire EXCEPT ![v].pc = "fired"]
          /\ UNCHANGED <<merged, exits, drive>>
      BY <1>5, <2>2 DEF FireBatch, history
    <3>3. row'[v].st # "consumed" /\ \A w \in Visits : w # v => row'[w] = row[w]
      BY <3>1, <3>2 DEF TypeOK, Rows
    <3>4. fire'[v].pc = "fired" /\ \A w \in Visits : w # v => fire'[w] = fire[w]
      BY <3>2 DEF TypeOK, Handlers
    <3>5. UnguardedUntimed'
      BY <3>1, <3>2 DEF Safe, UnguardedUntimed, Guarded, TypeOK
    <3>6. PlannedStillOpen'
      BY <3>2, <3>3, <3>4 DEF Safe, PlannedStillOpen, Guarded, TypeOK
    <3>7. PathsDecided'
      BY <3>1, <3>2, <3>3 DEF Safe, PathsDecided, TypeOK
    <3>8. WalkIsCurrent'
      BY <3>1, <3>2, <3>3 DEF Safe, WalkIsCurrent, TypeOK
    <3> QED
      BY <3>5, <3>6, <3>7, <3>8 DEF Safe
  <2> QED
    BY <2>1, <2>2
<1>6. ASSUME NEW v \in Visits, DropAlarm(v) \/ Supersede(v) \/ SupersedeFails(v) \/ Wake(v) \/ HandlerDies(v)
      PROVE  Safe'
  <2>1. /\ UNCHANGED <<row, timer, outcome, merged, exits, drive>>
        /\ \/ fire' = fire \/ fire' = [fire EXCEPT ![v].pc = "superseded"]
           \/ fire' = [fire EXCEPT ![v] = Asleep]
    BY <1>6 DEF DropAlarm, Supersede, SupersedeFails, Wake, HandlerDies, d1, history
  <2>2. Quiet
    <3>1. fire \in [Visits -> Handlers]
      BY DEF TypeOK
    <3>2. CASE fire' = fire
      BY <2>1, <3>2 DEF Quiet
    <3>3. CASE fire' = [fire EXCEPT ![v].pc = "superseded"]
      <4>1. [fire[v] EXCEPT !.pc = "superseded"].pc = "superseded"
        BY <3>1 DEF Handlers
      <4> QED
        BY <2>1, <3>1, <3>3, <4>1 DEF Quiet
    <3>4. CASE fire' = [fire EXCEPT ![v] = Asleep]
      BY <2>1, <3>1, <3>4 DEF Quiet, Asleep
    <3> QED
      BY <2>1, <3>2, <3>3, <3>4
  <2> QED
    BY <2>2, QuietSafe
<1>7. CASE DriveDies \/ ArmFails \/ UNCHANGED vars
  <2>1. Quiet
    BY <1>7 DEF DriveDies, ArmFails, Park, Idle, vars, Quiet, Free, d1, history
  <2> QED
    BY <2>1, QuietSafe
<1> QED
  BY <1>1, <1>2, <1>3, <1>4, <1>5, <1>6, <1>7 DEF Next

LEMMA InitSafe == Init => Safe
<1> SUFFICES ASSUME Init PROVE Safe
  OBVIOUS
<1>1. UnguardedUntimed /\ PlannedStillOpen /\ PathsDecided
  BY DEF Init, UnguardedUntimed, PlannedStillOpen, PathsDecided, Guarded, Asleep
<1>2. WalkIsCurrent
  BY DEF Init, WalkIsCurrent, Idle
<1> QED
  BY <1>1, <1>2 DEF Safe

(* The claims, the paths the walks took and what a walk in progress has read  *)
(* agree in every reachable state.                                            *)
THEOREM Invariance == Spec => []IInv
<1>1. Init => TypeOK /\ Safe
  BY InitTypeOK, InitSafe
<1>2. TypeOK /\ Safe /\ [Next]_vars => (TypeOK /\ Safe)'
  BY NextTypes, NextSafe
<1> QED
  BY <1>1, <1>2, PTL DEF Spec, IInv

(* A visit is left on one path, takes at most one message, and takes it only  *)
(* if it is left on the message's path.                                       *)
THEOREM OneOutcomeAlways == Spec => []OneOutcome
<1>1. IInv => OneOutcome
  <2> SUFFICES ASSUME IInv, NEW v \in Visits
               PROVE  /\ exits[v] # {"message", "timeout"}
                      /\ \A m \in Messages : v \in merged[m] =>
                           /\ "timeout" \notin exits[v] /\ outcome[v] # "fired"
                           /\ \A n \in Messages : v \in merged[n] => m = n
    BY DEF OneOutcome
  <2> QED
    BY DEF IInv, Safe, PathsDecided
<1> QED
  BY <1>1, Invariance, PTL

-----------------------------------------------------------------------------
(* The walk behind a drive. *)

\* Where the walk went on from a visit somebody has left.
Onward(v) == IF "timeout" \in exits[v] THEN OnTimeout[v] ELSE OnMessage[v]

\* The n steps of a walk over visits that were left.
Walk(s, n) ==
  \A i \in 0..(n - 1) : s[i] \in Visits /\ exits[s[i]] # {} /\ s[i + 1] = Onward(s[i])
Leads(x, y) ==
  \E n \in Nat : \E s \in [0..n -> Places] : s[0] = x /\ s[n] = y /\ Walk(s, n)

-----------------------------------------------------------------------------
(* The inductive invariant. *)

\* The drive has taken m from the broker, from D1 or from its delivery, to apply it.
Handling(m) == drive.pc \in {"link", "apply", "commit"} /\ drive.event = m

\* The rows and the drive name subscriptions of their visit, and a consumed row its message.
IdsOfVisits ==
  /\ \A v \in Visits : row[v].st # "none" => row[v].id \in Ids /\ row[v].id.visit = v
  /\ drive.pc \in {"lookup", "call", "link", "create", "commit"} =>
       drive.at \in Visits /\ drive.id \in Ids /\ drive.id.visit = drive.at
  /\ drive.pc = "commit" => row[drive.at].st # "none"
  /\ drive.pc = "commit" /\ drive.fresh => row[drive.at].msg = drive.event
  /\ \A m \in Messages : \A v \in merged[m] :
       row[v].msg = m /\ (ext[m] = "correlated" => link[m] \in Ids /\ link[m].visit = v)

\* A message is with its publisher, in the buffer, or on its way to one visit.
OnePlace ==
  /\ \A i, j \in DOMAIN buffer : buffer[i] = buffer[j] => i = j
  /\ \A i \in DOMAIN buffer :
       /\ pub[buffer[i]].pc # "unsent" /\ pub[buffer[i]].ans = "buffered"
       /\ ext[buffer[i]] \in {"none", "buffered"} /\ merged[buffer[i]] = {} /\ ~Handling(buffer[i])
  /\ \A m \in Messages :
       pub[m].pc = "unsent" \/ (pub[m].pc = "answered" /\ pub[m].ans = "correlated") =>
         ext[m] = "none" /\ merged[m] = {} /\ ~Handling(m)
  /\ \A m \in Messages : pub[m].pc = "recorded" => pub[m].ans = "correlated"
  /\ \A m \in Messages : m \in wanted \/ drive.pending = m =>
       pub[m].pc = "done" /\ pub[m].ans = "correlated"
  /\ drive.pc \in {"link", "apply", "commit"} => drive.event \in Messages
  /\ \A m \in Messages : Handling(m) => merged[m] = {}

\* A drive comes by the visit its message was applied at before it reaches an open one.
Behind ==
  /\ drive.pc # "idle" => Leads(First, drive.at)
  /\ \A m \in Messages : \A v \in merged[m] : Leads(First, v)
  /\ \A m \in Messages : \A v \in merged[m] :
       drive.pc \in {"timer", "sub"} /\ drive.pending = m => Leads(drive.at, v)
  /\ drive.pc \notin {"idle", "timer"} => drive.at \in Visits /\ "timeout" \notin exits[drive.at]

Once == IdsOfVisits /\ OnePlace /\ Behind /\ AppliedOnce
OInv == IInv /\ Once

-----------------------------------------------------------------------------
(* Walks. *)

\* A walk of no steps.
LEMMA LeadsSelf == \A x \in Places : Leads(x, x)
<1> SUFFICES ASSUME NEW x \in Places PROVE Leads(x, x)
  OBVIOUS
<1> DEFINE s == [i \in 0..0 |-> x]
<1>1. s \in [0..0 -> Places] /\ s[0] = x /\ Walk(s, 0)
  BY DEF Walk
<1> QED
  BY <1>1 DEF Leads

\* One step further.
LEMMA LeadsOn ==
  ASSUME NEW x, NEW v \in Visits, Leads(x, v), exits[v] # {}
  PROVE  Leads(x, Onward(v))
<1>0. PICK n \in Nat : \E s \in [0..n -> Places] : s[0] = x /\ s[n] = v /\ Walk(s, n)
  BY DEF Leads
<1>1. PICK s \in [0..n -> Places] : s[0] = x /\ s[n] = v /\ Walk(s, n)
  BY <1>0
<1>2. Onward(v) \in Places
  BY PlacesOfFlows DEF Onward
<1> DEFINE t == [i \in 0..(n + 1) |-> IF i = n + 1 THEN Onward(v) ELSE s[i]]
<1>3. t \in [0..(n + 1) -> Places] /\ t[0] = x /\ t[n + 1] = Onward(v)
  BY <1>1, <1>2
<1>4. ASSUME NEW i \in 0..n
      PROVE  t[i] \in Visits /\ exits[t[i]] # {} /\ t[i + 1] = Onward(t[i])
  <2>1. CASE i = n
    BY <1>1, <2>1
  <2>2. CASE i # n
    <3>1. i \in 0..(n - 1) /\ t[i] = s[i] /\ t[i + 1] = s[i + 1]
      BY <2>2
    <3> QED
      BY <1>1, <3>1 DEF Walk
  <2> QED
    BY <2>1, <2>2
<1>5. Walk(t, n + 1)
  <2>1. 0..((n + 1) - 1) = 0..n
    OBVIOUS
  <2> HIDE DEF t
  <2> QED
    BY <1>4, <2>1 DEF Walk
<1>6. n + 1 \in Nat
  OBVIOUS
<1> QED
  BY <1>3, <1>5, <1>6 DEF Leads

\* A walk to somewhere else starts with the step from where it is.
LEMMA LeadsNext ==
  ASSUME NEW x, NEW y, Leads(x, y), x # y
  PROVE  x \in Visits /\ exits[x] # {} /\ Leads(Onward(x), y)
<1>0. PICK n \in Nat : \E s \in [0..n -> Places] : s[0] = x /\ s[n] = y /\ Walk(s, n)
  BY DEF Leads
<1>1. PICK s \in [0..n -> Places] : s[0] = x /\ s[n] = y /\ Walk(s, n)
  BY <1>0
<1>2. n # 0
  BY <1>1
<1>3. x \in Visits /\ exits[x] # {} /\ s[1] = Onward(x)
  BY <1>1, <1>2 DEF Walk
<1> DEFINE t == [i \in 0..(n - 1) |-> s[i + 1]]
<1>4. t \in [0..(n - 1) -> Places] /\ t[0] = Onward(x) /\ t[n - 1] = y
  BY <1>1, <1>2, <1>3
<1>5. ASSUME NEW i \in 0..(n - 2)
      PROVE  t[i] \in Visits /\ exits[t[i]] # {} /\ t[i + 1] = Onward(t[i])
  <2>1. i + 1 \in 0..(n - 1) /\ t[i] = s[i + 1] /\ t[i + 1] = s[(i + 1) + 1]
    BY <1>2
  <2> QED
    BY <1>1, <2>1 DEF Walk
<1>6. Walk(t, n - 1)
  <2>1. 0..((n - 1) - 1) = 0..(n - 2)
    OBVIOUS
  <2> HIDE DEF t
  <2> QED
    BY <1>5, <2>1 DEF Walk
<1>7. n - 1 \in Nat
  BY <1>2
<1> QED
  BY <1>3, <1>4, <1>6, <1>7 DEF Leads

\* A visit is left on one flow, so what was a walk stays one.
LEMMA LeadsStay ==
  ASSUME IInv', \A v \in Visits : exits[v] \subseteq exits'[v],
         NEW x, NEW y, Leads(x, y)
  PROVE  Leads(x, y)'
<1>0. PICK n \in Nat : \E s \in [0..n -> Places] : s[0] = x /\ s[n] = y /\ Walk(s, n)
  BY DEF Leads
<1>1. PICK s \in [0..n -> Places] : s[0] = x /\ s[n] = y /\ Walk(s, n)
  BY <1>0
<1>2. ASSUME NEW v \in Visits, exits[v] # {} PROVE exits'[v] # {} /\ Onward(v)' = Onward(v)
  <2>1. exits'[v] \subseteq {"message", "timeout"} /\ exits'[v] # {"message", "timeout"}
    BY DEF IInv, TypeOK, Safe, PathsDecided
  <2>2. "timeout" \in exits[v] <=> "timeout" \in exits'[v]
    BY <1>2, <2>1
  <2> QED
    BY <1>2, <2>2 DEF Onward
<1>3. ASSUME NEW i \in 0..(n - 1)
      PROVE  s[i] \in Visits /\ exits'[s[i]] # {} /\ s[i + 1] = Onward(s[i])'
  <2>1. s[i] \in Visits /\ exits[s[i]] # {} /\ s[i + 1] = Onward(s[i])
    BY <1>1 DEF Walk
  <2> QED
    BY <1>2, <2>1
<1>4. Walk(s, n)'
  BY <1>3 DEF Walk
<1> QED
  BY <1>1, <1>4 DEF Leads

-----------------------------------------------------------------------------
(* What the steps of a drive do to its fields. *)

LEMMA GoKeeps ==
  ASSUME TypeOK, NEW pc, Go(pc)
  PROVE  /\ drive'.pc = pc /\ drive'.at = drive.at /\ drive'.pending = drive.pending
         /\ drive'.event = drive.event /\ drive'.id = drive.id /\ drive'.fresh = drive.fresh
  BY DEF Go, TypeOK, Drives

LEMMA ParkMoves == Park => drive'.pc = "idle" /\ drive'.pending = NoMessage
  BY DEF Park, Idle

LEMMA LeaveMoves ==
  ASSUME TypeOK, drive.at \in Visits, NEW path \in {"message", "timeout"}, NEW p, Leave(path, p)
  PROVE  /\ drive'.pc = "timer" /\ drive'.pending = p
         /\ drive'.at = IF path = "timeout" THEN OnTimeout[drive.at] ELSE OnMessage[drive.at]
         /\ exits'[drive.at] = exits[drive.at] \cup {path}
         /\ \A v \in Visits \ {drive.at} : exits'[v] = exits[v]
  BY DEF Leave, Idle, TypeOK

-----------------------------------------------------------------------------
(* Subscription ids. *)

Named == {"lookup", "call", "link", "create", "commit"}

\* Steps that make no subscription and merge nothing.
LEMMA IdsStay ==
  ASSUME TypeOK, IdsOfVisits, merged' = merged,
         \A v \in Visits :
           /\ row'[v].id = row[v].id /\ row'[v].msg = row[v].msg
           /\ row[v].st = "none" <=> row'[v].st = "none",
         \A m \in Messages :
           merged[m] # {} /\ ext'[m] = "correlated" => ext[m] = "correlated" /\ link'[m] = link[m],
         \/ drive'.pc \notin Named
         \/ /\ drive'.pc \in Named /\ drive.pc \in Named /\ drive'.at = drive.at /\ drive'.id = drive.id
            /\ drive'.pc = "commit" => drive' = drive
  PROVE  IdsOfVisits'
<1>1. \A v \in Visits : row'[v].st # "none" => row'[v].id \in Ids /\ row'[v].id.visit = v
  BY DEF IdsOfVisits
<1>2. drive'.pc \in Named => drive'.at \in Visits /\ drive'.id \in Ids /\ drive'.id.visit = drive'.at
  BY DEF IdsOfVisits, Named
<1>3. /\ drive'.pc = "commit" => row'[drive'.at].st # "none"
      /\ drive'.pc = "commit" /\ drive'.fresh => row'[drive'.at].msg = drive'.event
  BY DEF IdsOfVisits, Named
<1>4. ASSUME NEW m \in Messages, NEW v \in merged'[m]
      PROVE  row'[v].msg = m /\ (ext'[m] = "correlated" => link'[m] \in Ids /\ link'[m].visit = v)
  <2>1. v \in Visits /\ v \in merged[m] /\ merged[m] # {}
    BY <1>4 DEF TypeOK
  <2> QED
    BY <2>1 DEF IdsOfVisits
<1> QED
  BY <1>1, <1>2, <1>3, <1>4 DEF IdsOfVisits, Named

\* No payload was merged where the row is not consumed.
LEMMA OpenUnmerged ==
  ASSUME Safe, NEW v \in Visits, row[v].st # "consumed"
  PROVE  "message" \notin exits[v] /\ \A m \in Messages : v \notin merged[m]
  BY DEF Safe, PathsDecided

\* A drive makes the row of the visit it is at.
LEMMA IdsMake ==
  ASSUME TypeOK, Safe, IdsOfVisits, merged' = merged, drive.at \in Visits,
         row[drive.at].st # "consumed",
         NEW r \in Rows, r.id \in Ids, r.id.visit = drive.at, r.st # "none",
         row' = [row EXCEPT ![drive.at] = r],
         \A m \in Messages :
           merged[m] # {} /\ ext'[m] = "correlated" => ext[m] = "correlated" /\ link'[m] = link[m],
         drive'.at = drive.at, drive'.id = r.id,
         drive'.pc = "commit" /\ drive'.fresh => r.msg = drive'.event
  PROVE  IdsOfVisits'
<1>1. row'[drive.at] = r /\ \A v \in Visits \ {drive.at} : row'[v] = row[v]
  BY DEF TypeOK
<1>2. \A v \in Visits : row'[v].st # "none" => row'[v].id \in Ids /\ row'[v].id.visit = v
  BY <1>1 DEF IdsOfVisits
<1>3. ASSUME NEW m \in Messages, NEW v \in merged'[m]
      PROVE  row'[v].msg = m /\ (ext'[m] = "correlated" => link'[m] \in Ids /\ link'[m].visit = v)
  <2>1. v \in Visits /\ v \in merged[m] /\ merged[m] # {} /\ v # drive.at
    BY <1>3, OpenUnmerged DEF TypeOK
  <2> QED
    BY <1>1, <2>1 DEF IdsOfVisits
<1> QED
  BY <1>1, <1>2, <1>3 DEF IdsOfVisits

\* A correlation of the message in hand touches no link of another.
LEMMA CorrelateOther ==
  ASSUME TypeOK, NEW m \in Messages, NEW id, Correlate(m, id)
  PROVE  /\ \A n \in Messages \ {m} : ext'[n] = ext[n] /\ link'[n] = link[n]
         /\ ext'[m] = "correlated" /\ ext[m] # "none" => link'[m] = id
         /\ ext[m] = "none" <=> ext'[m] = "none"
  BY DEF Correlate, TypeOK

\* The batch of applyMessage writes the message into the row of its visit.
LEMMA CommitIds ==
  ASSUME TypeOK, Safe, IdsOfVisits, OnePlace, CommitMessage
  PROVE  IdsOfVisits'
<1>1. /\ drive.at \in Visits /\ drive.pc = "commit" /\ drive.id \in Ids /\ drive.id.visit = drive.at
      /\ merged[drive.event] = {} /\ "message" \notin exits[drive.at] /\ row[drive.at].st # "none"
      /\ drive.event \in Messages
  BY DEF CommitMessage, At, IdsOfVisits, OnePlace, Handling, Safe, WalkIsCurrent
<1>2. \A m \in Messages : drive.at \notin merged[m]
  BY <1>1 DEF Safe, PathsDecided
<1>3. /\ merged'[drive.event] = {drive.at}
      /\ \A m \in Messages \ {drive.event} : merged'[m] = merged[m]
  BY <1>1 DEF CommitMessage, TypeOK
<1>4. drive'.pc \notin Named
  BY <1>1, LeaveMoves DEF CommitMessage, Named
<1>5. /\ row'[drive.at].id = row[drive.at].id /\ row'[drive.at].msg = drive.event
      /\ \A v \in Visits \ {drive.at} : row'[v] = row[v]
  <2>1. CASE drive.fresh
    <3>1. row' = row
      BY <2>1 DEF CommitMessage
    <3> QED
      BY <1>1, <2>1, <3>1 DEF IdsOfVisits
  <2>2. CASE ~drive.fresh
    <3>1. row' = [row EXCEPT ![drive.at] = [@ EXCEPT !.st = "consumed", !.msg = drive.event]]
      BY <2>2 DEF CommitMessage
    <3>2. row \in [Visits -> Rows]
      BY DEF TypeOK
    <3>3. /\ row'[drive.at] = [row[drive.at] EXCEPT !.st = "consumed", !.msg = drive.event]
          /\ \A v \in Visits \ {drive.at} : row'[v] = row[v]
      BY <1>1, <3>1, <3>2
    <3> QED
      BY <1>1, <3>2, <3>3 DEF Rows
  <2> QED
    BY <2>1, <2>2
<1>6. \A v \in Visits : row'[v].st # "none" => row'[v].id \in Ids /\ row'[v].id.visit = v
  BY <1>1, <1>5 DEF IdsOfVisits
<1>7. ASSUME NEW m \in Messages, NEW v \in merged'[m]
      PROVE  row'[v].msg = m /\ (ext'[m] = "correlated" => link'[m] \in Ids /\ link'[m].visit = v)
  <2>1. Correlate(drive.event, drive.id)
    BY DEF CommitMessage
  <2>2. CASE m = drive.event
    <3>1. v = drive.at
      BY <1>3, <1>7, <2>2
    <3>2. ext'[m] = "correlated" => link'[m] = drive.id
      BY <1>1, <2>1, <2>2, CorrelateOther
    <3> QED
      BY <1>1, <1>5, <2>2, <3>1, <3>2
  <2>3. CASE m # drive.event
    <3>1. v \in merged[m] /\ v \in Visits /\ v # drive.at
      BY <1>2, <1>3, <1>7, <2>3 DEF TypeOK
    <3>2. ext'[m] = ext[m] /\ link'[m] = link[m]
      BY <1>1, <2>1, <2>3, CorrelateOther
    <3>3. row[v].msg = m /\ (ext[m] = "correlated" => link[m] \in Ids /\ link[m].visit = v)
      BY <3>1 DEF IdsOfVisits
    <3>4. row'[v] = row[v]
      BY <1>5, <3>1
    <3> QED
      BY <3>2, <3>3, <3>4
  <2> QED
    BY <2>2, <2>3
<1> QED
  BY <1>4, <1>6, <1>7 DEF IdsOfVisits, Named

\* The cases of IdsStay in which the rows and the links stand.
LEMMA IdsRest ==
  ASSUME TypeOK, IdsOfVisits, UNCHANGED <<row, ext, link, merged>>,
         \/ drive'.pc \notin Named \/ drive' = drive
         \/ /\ drive'.pc \in Named \ {"commit"} /\ drive.pc \in Named
            /\ drive'.at = drive.at /\ drive'.id = drive.id
  PROVE  IdsOfVisits'
<1>1. \/ drive'.pc \notin Named
      \/ /\ drive'.pc \in Named /\ drive.pc \in Named /\ drive'.at = drive.at /\ drive'.id = drive.id
         /\ drive'.pc = "commit" => drive' = drive
  OBVIOUS
<1> QED
  BY <1>1, IdsStay

\* What is correlated by a drive was merged nowhere.
LEMMA CorrelateFresh ==
  ASSUME TypeOK, OnePlace, drive.pc \in {"link", "commit"}, Correlate(drive.event, drive.id)
  PROVE  \A m \in Messages :
           merged[m] # {} /\ ext'[m] = "correlated" => ext[m] = "correlated" /\ link'[m] = link[m]
<1>1. drive.event \in Messages /\ merged[drive.event] = {}
  BY DEF OnePlace, Handling
<1> QED
  BY <1>1, CorrelateOther

\* Every step of a drive names subscriptions of the visit it is at.
LEMMA DriveIds ==
  ASSUME TypeOK, Safe, IdsOfVisits, OnePlace, DriveStep
  PROVE  IdsOfVisits'
<1> USE FieldsTyped
<1>0. drive \in Drives
  BY DEF TypeOK
<1>1. CASE Finish \/ Reject \/ SetAlarm
  BY <1>1, IdsRest, ParkMoves DEF Finish, Reject, SetAlarm, d1, history, Named
<1>2. CASE ReadTimer
  <2>1. drive'.pc \in {"timer", "sub"}
    BY <1>2, LeaveMoves, GoKeeps DEF ReadTimer, At
  <2> QED
    BY <1>2, <2>1, IdsRest DEF ReadTimer, d1, Named
<1>3. CASE ReadSub
  <2>1. drive.at \in Visits /\ UNCHANGED <<row, ext, link, merged>>
    BY <1>3 DEF ReadSub, At, d1
  <2>2. CASE \E p : Leave("message", p)
    BY <2>1, <2>2, IdsRest, LeaveMoves DEF Named
  <2>3. CASE drive' = [drive EXCEPT !.pc = "apply", !.event = drive.pending]
    BY <1>0, <2>1, <2>3, IdsRest DEF Named, Drives
  <2>4. CASE /\ row[drive.at].st = "active"
             /\ drive' = [drive EXCEPT !.pc = "lookup", !.id = row[drive.at].id]
    <3>1. drive'.pc = "lookup" /\ drive'.at = drive.at /\ drive'.id = row[drive.at].id
      BY <1>0, <2>4 DEF Drives
    <3> QED
      BY <2>1, <2>4, <3>1 DEF IdsOfVisits
  <2>5. CASE Go("register")
    BY <2>1, <2>5, IdsRest, GoKeeps DEF Named
  <2> QED
    BY <1>3, <2>2, <2>3, <2>4, <2>5 DEF ReadSub
<1>4. CASE LookUp
  <2>1. drive'.pc \in {"apply", "register"}
    BY <1>0, <1>4, GoKeeps DEF LookUp, Drives
  <2> QED
    BY <1>4, <2>1, IdsRest DEF LookUp, d1, history, Named
<1>5. CASE ReadRegistration
  <2>1. drive.at \in Visits /\ UNCHANGED <<row, ext, link, merged>>
    BY <1>5 DEF ReadRegistration, At, d1, history
  <2>2. /\ drive'.pc = "call" /\ drive'.at = drive.at
        /\ drive'.id = IF row[drive.at].st = "active" THEN row[drive.at].id ELSE NextId
    BY <1>0, <1>5 DEF ReadRegistration, Drives
  <2>3. NextId \in Ids /\ NextId.visit = drive.at
    BY <2>1, NextIdTyped DEF NextId
  <2> QED
    BY <2>1, <2>2, <2>3 DEF IdsOfVisits
<1>6. CASE CallBroker
  <2>1. drive.pc = "call" /\ UNCHANGED <<row, ext, link, merged>>
    BY <1>6 DEF CallBroker, At, d1, history
  <2>2. CASE Waiting
    BY <2>1, <2>2, IdsRest, GoKeeps, ParkMoves DEF Waiting, Named
  <2>3. CASE Go("reject")
    BY <2>1, <2>3, IdsRest, GoKeeps DEF Named
  <2>4. CASE drive' = [drive EXCEPT !.pc = "link", !.event = Head(buffer)]
    <3>1. drive'.pc = "link" /\ drive'.at = drive.at /\ drive'.id = drive.id
      BY <1>0, <2>4 DEF Drives
    <3> QED
      BY <2>1, <3>1, IdsRest DEF Named
  <2> QED
    BY <1>6, <2>2, <2>3, <2>4 DEF CallBroker
<1>7. CASE LinkBuffered
  <2>1. /\ drive.pc = "link" /\ drive.at \in Visits /\ drive.id \in Ids /\ drive.id.visit = drive.at
        /\ row[drive.at].st # "consumed" /\ merged' = merged
    BY <1>7 DEF LinkBuffered, At, IdsOfVisits, Safe, WalkIsCurrent, history
  <2>2. \A m \in Messages :
          merged[m] # {} /\ ext'[m] = "correlated" => ext[m] = "correlated" /\ link'[m] = link[m]
    BY <1>7, <2>1, CorrelateFresh DEF LinkBuffered
  <2>3. drive'.pc = "apply" /\ drive'.at = drive.at /\ drive'.id = drive.id
    BY <1>7, GoKeeps DEF LinkBuffered
  <2>4. CASE drive.fresh
    <3> DEFINE r == [NoRow EXCEPT !.st = "active", !.id = drive.id]
    <3>1. r \in Rows /\ r.id = drive.id /\ r.st = "active"
      BY <2>1 DEF NoRow, Rows
    <3>2. row' = [row EXCEPT ![drive.at] = r]
      BY <1>7, <2>4 DEF LinkBuffered
    <3> HIDE DEF r
    <3> QED
      BY <2>1, <2>2, <2>3, <3>1, <3>2, IdsMake
  <2>5. CASE ~drive.fresh
    <3>1. row' = row
      BY <1>7, <2>5 DEF LinkBuffered
    <3> QED
      BY <2>1, <2>2, <2>3, <3>1, IdsStay DEF Named
  <2> QED
    BY <2>4, <2>5
<1>8. CASE CreateRow
  <2>1. /\ drive.pc = "create" /\ drive.at \in Visits /\ drive.id \in Ids /\ drive.id.visit = drive.at
        /\ row[drive.at].st # "consumed" /\ UNCHANGED <<merged, ext, link>>
    BY <1>8 DEF CreateRow, At, IdsOfVisits, Safe, WalkIsCurrent, history
  <2>2. drive'.pc = "arm" /\ drive'.at = drive.at /\ drive'.id = drive.id
    BY <1>8, GoKeeps DEF CreateRow
  <2> DEFINE r == [NoRow EXCEPT !.st = "active", !.id = drive.id]
  <2>3. r \in Rows /\ r.id = drive.id /\ r.st = "active"
    BY <2>1 DEF NoRow, Rows
  <2>4. row' = [row EXCEPT ![drive.at] = r]
    BY <1>8 DEF CreateRow
  <2> HIDE DEF r
  <2> QED
    BY <2>1, <2>2, <2>3, <2>4, IdsMake
<1>9. CASE ArmTimer
  <2>1. drive'.pc \in {"alarm", "idle"}
    BY <1>9, GoKeeps, ParkMoves DEF ArmTimer
  <2> QED
    BY <1>9, <2>1, IdsRest DEF ArmTimer, history, Named
<1>10. CASE ReadBeforeApply
  <2>1. /\ drive.at \in Visits /\ row[drive.at].st # "consumed" /\ UNCHANGED <<merged, ext, link>>
    BY <1>10 DEF ReadBeforeApply, At, history
  <2>2. CASE row[drive.at].st = "active"
    <3>1. /\ row' = row
          /\ drive' = [drive EXCEPT !.pc = "commit", !.fresh = FALSE, !.id = row[drive.at].id]
      BY <1>10, <2>2 DEF ReadBeforeApply
    <3>2. drive'.at = drive.at /\ drive'.id = row[drive.at].id /\ ~drive'.fresh
      BY <1>0, <3>1 DEF Drives
    <3> QED
      BY <2>1, <2>2, <3>1, <3>2 DEF IdsOfVisits
  <2>3. CASE row[drive.at].st # "active"
    <3> DEFINE r == [st |-> "consumed", id |-> NextId, msg |-> drive.event]
    <3>1. NextId \in Ids /\ NextId.visit = drive.at
      BY <2>1, NextIdTyped DEF NextId
    <3>2. r \in Rows /\ r.id = NextId /\ r.st = "consumed" /\ r.msg = drive.event
      BY <3>1 DEF Rows
    <3>3. row' = [row EXCEPT ![drive.at] = r]
      BY <1>10, <2>3 DEF ReadBeforeApply
    <3>4. drive'.at = drive.at /\ drive'.id = NextId /\ drive'.event = drive.event
      BY <1>0, <1>10, <2>3 DEF ReadBeforeApply, Drives
    <3> HIDE DEF r
    <3> QED
      BY <2>1, <3>1, <3>2, <3>3, <3>4, IdsMake
  <2> QED
    BY <2>2, <2>3
<1>11. CASE CommitMessage
  BY <1>11, CommitIds
<1>12. CASE ConvertOnFire
  BY <1>12, IdsRest, LeaveMoves DEF ConvertOnFire, At, d1, Named
<1> QED
  BY <1>1, <1>2, <1>3, <1>4, <1>5, <1>6, <1>7, <1>8, <1>9, <1>10, <1>11, <1>12 DEF DriveStep

\* Nor does a publisher, an alarm or a fault rename one.
LEMMA StepIds ==
  ASSUME TypeOK, Safe, IdsOfVisits, OnePlace, [Next]_vars
  PROVE  IdsOfVisits'
<1>1. ASSUME NEW p \in Messages \cup {NoMessage}, StartDrive(p) PROVE IdsOfVisits'
  BY <1>1, IdsRest DEF StartDrive, Idle, d1, history, Named
<1>2. CASE DriveStep
  BY <1>2, DriveIds
<1>3. ASSUME NEW m \in Messages, Publish(m) \/ Deliver(m) \/ PublisherDies(m) PROVE IdsOfVisits'
  BY <1>3, IdsRest DEF Publish, Deliver, PublisherDies, d1, history
<1>4. ASSUME NEW m \in Messages, Record(m) PROVE IdsOfVisits'
  <2>1. UNCHANGED <<row, merged, drive>>
    BY <1>4 DEF Record, history
  <2>2. \A n \in Messages \ {m} : ext'[n] = ext[n] /\ link'[n] = link[n]
    BY <1>4 DEF Record, TypeOK
  <2>3. merged[m] = {} \/ ext'[m] # "correlated"
    BY <1>4 DEF Record, TypeOK, OnePlace
  <2> QED
    BY <2>1, <2>2, <2>3, IdsStay
<1>5. ASSUME NEW v \in Visits, FireBatch(v) PROVE IdsOfVisits'
  <2>1. UNCHANGED <<ext, link, merged, drive>>
    BY <1>5 DEF FireBatch, history
  <2>2. row' = row \/ (row[v].st = "active" /\ row' = [row EXCEPT ![v].st = "superseded"])
    BY <1>5 DEF FireBatch
  <2>3. \A w \in Visits :
          /\ row'[w].id = row[w].id /\ row'[w].msg = row[w].msg
          /\ row[w].st = "none" <=> row'[w].st = "none"
    <3>1. row \in [Visits -> Rows]
      BY DEF TypeOK
    <3>2. CASE row[v].st = "active" /\ row' = [row EXCEPT ![v].st = "superseded"]
      <4>1. /\ row'[v] = [row[v] EXCEPT !.st = "superseded"]
            /\ \A w \in Visits \ {v} : row'[w] = row[w]
        BY <3>1, <3>2
      <4>2. row'[v].id = row[v].id /\ row'[v].msg = row[v].msg /\ row'[v].st = "superseded"
        BY <3>1, <4>1 DEF Rows
      <4> QED
        BY <3>2, <4>1, <4>2
    <3> QED
      BY <2>2, <3>2
  <2> QED
    BY <2>1, <2>3, IdsStay
<1>6. ASSUME NEW v \in Visits,
             \/ PlanFire(v) \/ DropAlarm(v) \/ Supersede(v) \/ Wake(v)
             \/ HandlerDies(v) \/ SupersedeFails(v)
      PROVE  IdsOfVisits'
  BY <1>6, IdsRest
  DEF PlanFire, DropAlarm, Supersede, Wake, HandlerDies, SupersedeFails, d1, history
<1>7. CASE DriveDies \/ ArmFails
  BY <1>7, IdsRest, ParkMoves DEF DriveDies, ArmFails, d1, history, Named
<1>8. CASE Backstop \/ UNCHANGED vars
  BY <1>8, IdsRest DEF Backstop, vars, d1, history
<1> QED
  BY <1>1, <1>2, <1>3, <1>4, <1>5, <1>6, <1>7, <1>8 DEF Next

-----------------------------------------------------------------------------
(* Where a message is. *)

Hands == {"link", "apply", "commit"}

\* What is buffered was published.
LEMMA BufferedTyped == TypeOK => \A i \in DOMAIN buffer : buffer[i] \in Messages
  BY DEF TypeOK

\* Steps that take no message in hand; one that is in hand may be correlated.
LEMMA PlacesStay ==
  ASSUME TypeOK, OnePlace, UNCHANGED <<buffer, merged, pub>>,
         \A m \in Messages : ext'[m] = ext[m] \/ Handling(m),
         wanted' \subseteq wanted \cup {NoMessage},
         drive'.pending \in {drive.pending, NoMessage} \cup wanted,
         drive'.pc \notin Hands \/ (drive.pc \in Hands /\ drive'.event = drive.event)
  PROVE  OnePlace'
<1>1. \A m : Handling(m)' => Handling(m)
  BY DEF Handling, Hands
<1>2. \A i \in DOMAIN buffer :
        /\ pub'[buffer[i]].pc # "unsent" /\ pub'[buffer[i]].ans = "buffered"
        /\ ext'[buffer[i]] \in {"none", "buffered"} /\ merged'[buffer[i]] = {} /\ ~Handling(buffer[i])'
  BY <1>1, BufferedTyped DEF OnePlace
<1>3. ASSUME NEW m \in Messages,
             pub'[m].pc = "unsent" \/ (pub'[m].pc = "answered" /\ pub'[m].ans = "correlated")
      PROVE  ext'[m] = "none" /\ merged'[m] = {} /\ ~Handling(m)'
  BY <1>1, <1>3 DEF OnePlace
<1>4. ASSUME NEW m \in Messages, m \in wanted' \/ drive'.pending = m
      PROVE  pub'[m].pc = "done" /\ pub'[m].ans = "correlated"
  BY <1>4, Fresh DEF OnePlace
<1>5. /\ \A m \in Messages : pub'[m].pc = "recorded" => pub'[m].ans = "correlated"
      /\ \A m \in Messages : Handling(m)' => merged'[m] = {}
      /\ drive'.pc \in Hands => drive'.event \in Messages
  BY <1>1 DEF OnePlace, Hands
<1>6. \A i, j \in DOMAIN buffer : buffer[i] = buffer[j] => i = j
  BY DEF OnePlace
<1> QED
  BY <1>2, <1>3, <1>4, <1>5, <1>6 DEF OnePlace, Hands

\* A drive takes a message in hand that it knows to be correlated and not yet applied.
LEMMA PlacesTake ==
  ASSUME TypeOK, OnePlace, UNCHANGED <<buffer, merged, pub, ext, wanted>>,
         drive'.pc \in Hands, drive'.pending = drive.pending,
         NEW e \in Messages, drive'.event = e, merged[e] = {},
         ext[e] = "correlated" \/ (pub[e].pc = "done" /\ pub[e].ans = "correlated")
  PROVE  OnePlace'
<1>1. \A m : Handling(m)' => m = e
  BY DEF Handling
<1>2. ASSUME NEW i \in DOMAIN buffer
      PROVE  /\ pub'[buffer[i]].pc # "unsent" /\ pub'[buffer[i]].ans = "buffered"
             /\ ext'[buffer[i]] \in {"none", "buffered"} /\ merged'[buffer[i]] = {}
             /\ ~Handling(buffer[i])'
  BY <1>1 DEF OnePlace
<1>3. ASSUME NEW m \in Messages,
             pub'[m].pc = "unsent" \/ (pub'[m].pc = "answered" /\ pub'[m].ans = "correlated")
      PROVE  ext'[m] = "none" /\ merged'[m] = {} /\ ~Handling(m)'
  BY <1>1, <1>3 DEF OnePlace
<1>4. \A m \in Messages : Handling(m)' => merged'[m] = {}
  BY <1>1
<1>5. /\ \A i, j \in DOMAIN buffer : buffer[i] = buffer[j] => i = j
      /\ \A m \in Messages : pub[m].pc = "recorded" => pub[m].ans = "correlated"
      /\ \A m \in Messages : m \in wanted \/ drive.pending = m =>
           pub[m].pc = "done" /\ pub[m].ans = "correlated"
  BY DEF OnePlace
<1> QED
  BY <1>2, <1>3, <1>4, <1>5 DEF OnePlace, Hands

\* The oldest message leaves the buffer for good.
LEMMA HeadLeaves ==
  ASSUME TypeOK, OnePlace, buffer # <<>>, buffer' = Tail(buffer)
  PROVE  /\ \E k \in DOMAIN buffer : Head(buffer) = buffer[k]
         /\ \A i, j \in DOMAIN buffer' : buffer'[i] = buffer'[j] => i = j
         /\ \A i \in DOMAIN buffer' :
              buffer'[i] # Head(buffer) /\ \E j \in DOMAIN buffer : buffer'[i] = buffer[j]
<1>1. 1 \in DOMAIN buffer /\ Head(buffer) = buffer[1]
  BY DEF TypeOK
<1>2. \A i \in DOMAIN buffer' : i + 1 \in DOMAIN buffer /\ buffer'[i] = buffer[i + 1] /\ i \in Nat \ {0}
  BY DEF TypeOK
<1>3. \A i, j \in DOMAIN buffer : buffer[i] = buffer[j] => i = j
  BY DEF OnePlace
<1>4. ASSUME NEW i \in DOMAIN buffer', NEW j \in DOMAIN buffer', buffer'[i] = buffer'[j] PROVE i = j
  <2>1. i + 1 = j + 1
    BY <1>2, <1>3, <1>4
  <2> QED
    BY <1>2, <2>1
<1>5. ASSUME NEW i \in DOMAIN buffer'
      PROVE  buffer'[i] # Head(buffer) /\ \E j \in DOMAIN buffer : buffer'[i] = buffer[j]
  <2>1. i + 1 \in DOMAIN buffer /\ i + 1 # 1 /\ buffer'[i] = buffer[i + 1]
    BY <1>2
  <2> QED
    BY <1>1, <1>3, <2>1
<1> QED
  BY <1>1, <1>4, <1>5

\* The broker hands a drive a message it kept.
LEMMA PlacesHand ==
  ASSUME TypeOK, OnePlace, UNCHANGED <<merged, pub, ext, wanted>>,
         drive'.pc \in Hands, drive'.pending = drive.pending,
         NEW e, drive'.event = e,
         \E k \in DOMAIN buffer : e = buffer[k],
         \A i, j \in DOMAIN buffer' : buffer'[i] = buffer'[j] => i = j,
         \A i \in DOMAIN buffer' : buffer'[i] # e /\ \E j \in DOMAIN buffer : buffer'[i] = buffer[j]
  PROVE  OnePlace'
<1>1. \A m : Handling(m)' => m = e
  BY DEF Handling
<1>2. e \in Messages /\ pub[e].pc # "unsent" /\ pub[e].ans = "buffered" /\ merged[e] = {}
  BY BufferedTyped DEF OnePlace
<1>3. ASSUME NEW i \in DOMAIN buffer'
      PROVE  /\ pub'[buffer'[i]].pc # "unsent" /\ pub'[buffer'[i]].ans = "buffered"
             /\ ext'[buffer'[i]] \in {"none", "buffered"} /\ merged'[buffer'[i]] = {}
             /\ drive'.event # buffer'[i]
  <2>1. PICK j \in DOMAIN buffer : buffer'[i] = buffer[j]
    OBVIOUS
  <2>2. /\ pub[buffer[j]].pc # "unsent" /\ pub[buffer[j]].ans = "buffered"
        /\ ext[buffer[j]] \in {"none", "buffered"} /\ merged[buffer[j]] = {}
    BY DEF OnePlace
  <2> QED
    BY <2>1, <2>2
<1>4. ASSUME NEW m \in Messages,
             pub'[m].pc = "unsent" \/ (pub'[m].pc = "answered" /\ pub'[m].ans = "correlated")
      PROVE  ext'[m] = "none" /\ merged'[m] = {} /\ ~Handling(m)'
  BY <1>1, <1>2, <1>4 DEF OnePlace
<1>5. \A m \in Messages : Handling(m)' => merged'[m] = {}
  BY <1>1, <1>2
<1>6. /\ \A m \in Messages : pub[m].pc = "recorded" => pub[m].ans = "correlated"
      /\ \A m \in Messages : m \in wanted \/ drive.pending = m =>
           pub[m].pc = "done" /\ pub[m].ans = "correlated"
  BY DEF OnePlace
<1> QED
  BY <1>2, <1>3, <1>4, <1>5, <1>6 DEF OnePlace, Handling

\* Nothing was merged of a message whose delivery has reached an open wait.
LEMMA PendingUnmerged ==
  ASSUME TypeOK, Safe, Behind, drive.pc = "sub", NEW m \in Messages, drive.pending = m,
         row[drive.at].st # "consumed"
  PROVE  merged[m] = {}
<1>1. drive.at \in Visits /\ "timeout" \notin exits[drive.at]
  BY DEF Behind
<1>2. "message" \notin exits[drive.at] /\ drive.at \notin merged[m]
  BY <1>1, OpenUnmerged
<1>3. exits[drive.at] = {}
  BY <1>1, <1>2 DEF TypeOK
<1>4. ASSUME NEW v \in merged[m] PROVE FALSE
  <2>1. Leads(drive.at, v) /\ v # drive.at
    BY <1>2 DEF Behind
  <2> QED
    BY <1>3, <2>1, LeadsNext
<1> QED
  BY <1>4

\* A message that is applied is out of the drive's hands.
LEMMA CommitPlaces ==
  ASSUME TypeOK, Safe, IdsOfVisits, OnePlace, CommitMessage
  PROVE  OnePlace'
<1> DEFINE e == drive.event
<1>1. drive.pc = "commit" /\ drive.at \in Visits /\ e \in Messages /\ Handling(e)
  BY DEF CommitMessage, At, OnePlace, Handling
<1>2. drive'.pc = "timer" /\ drive'.pending = NoMessage /\ UNCHANGED <<buffer, pub, wanted>>
  BY <1>1, LeaveMoves DEF CommitMessage, broker
<1>3. \A m \in Messages \ {e} : merged'[m] = merged[m] /\ ext'[m] = ext[m]
  BY <1>1, CorrelateOther DEF CommitMessage, TypeOK
<1>4. \A m : ~Handling(m)'
  BY <1>2 DEF Handling
<1> HIDE DEF e
<1>5. ASSUME NEW i \in DOMAIN buffer
      PROVE  /\ pub'[buffer[i]].pc # "unsent" /\ pub'[buffer[i]].ans = "buffered"
             /\ ext'[buffer[i]] \in {"none", "buffered"} /\ merged'[buffer[i]] = {}
  BY <1>1, <1>2, <1>3, BufferedTyped DEF OnePlace
<1>6. ASSUME NEW m \in Messages,
             pub'[m].pc = "unsent" \/ (pub'[m].pc = "answered" /\ pub'[m].ans = "correlated")
      PROVE  ext'[m] = "none" /\ merged'[m] = {}
  BY <1>1, <1>2, <1>3, <1>6 DEF OnePlace
<1>7. /\ \A i, j \in DOMAIN buffer : buffer[i] = buffer[j] => i = j
      /\ \A m \in Messages : pub[m].pc = "recorded" => pub[m].ans = "correlated"
      /\ \A m \in Messages : m \in wanted \/ drive'.pending = m =>
           pub[m].pc = "done" /\ pub[m].ans = "correlated"
  BY <1>2, Fresh DEF OnePlace
<1>8. drive'.pc \notin {"link", "apply", "commit"}
  BY <1>2
<1> QED
  BY <1>2, <1>4, <1>5, <1>6, <1>7, <1>8 DEF OnePlace

\* A drive takes a message from the broker, from D1 or from its delivery, and from one of them.
LEMMA DrivePlaces ==
  ASSUME TypeOK, Safe, IdsOfVisits, OnePlace, Behind, DriveStep
  PROVE  OnePlace'
<1> USE FieldsTyped
<1>0. drive \in Drives
  BY DEF TypeOK
<1>1. CASE Finish \/ Reject \/ SetAlarm
  BY <1>1, PlacesStay, ParkMoves DEF Finish, Reject, SetAlarm, d1, broker, history, Hands
<1>2. CASE ReadTimer
  <2>1. drive'.pc \in {"timer", "sub"} /\ drive'.pending = drive.pending
    BY <1>2, LeaveMoves, GoKeeps DEF ReadTimer, At
  <2> QED
    BY <1>2, <2>1, PlacesStay DEF ReadTimer, d1, broker, Hands
<1>3. CASE ReadSub
  <2>1. /\ drive.at \in Visits /\ drive.pc = "sub"
        /\ UNCHANGED <<buffer, pub, ext, merged, wanted>>
    BY <1>3 DEF ReadSub, At, d1, broker
  <2>2. CASE \E p \in {drive.pending, NoMessage} : Leave("message", p)
    BY <2>1, <2>2, PlacesStay, LeaveMoves DEF Hands
  <2>3. CASE /\ row[drive.at].st # "consumed" /\ drive.pending # NoMessage
             /\ drive' = [drive EXCEPT !.pc = "apply", !.event = drive.pending]
    <3>1. drive'.pc = "apply" /\ drive'.event = drive.pending /\ drive'.pending = drive.pending
      BY <1>0, <2>3 DEF Drives
    <3>2. drive.pending \in Messages /\ merged[drive.pending] = {}
      BY <2>1, <2>3, PendingUnmerged
    <3>3. pub[drive.pending].pc = "done" /\ pub[drive.pending].ans = "correlated"
      BY <3>2 DEF OnePlace
    <3>4. drive'.pc \in Hands
      BY <3>1 DEF Hands
    <3> QED
      BY <2>1, <3>1, <3>2, <3>3, <3>4, PlacesTake
  <2>4. CASE drive' = [drive EXCEPT !.pc = "lookup", !.id = row[drive.at].id]
    <3>1. drive'.pc = "lookup" /\ drive'.pending = drive.pending
      BY <1>0, <2>4 DEF Drives
    <3> QED
      BY <2>1, <3>1, PlacesStay DEF Hands
  <2>5. CASE Go("register")
    BY <2>1, <2>5, PlacesStay, GoKeeps DEF Hands
  <2> QED
    BY <1>3, <2>2, <2>3, <2>4, <2>5 DEF ReadSub
<1>4. CASE LookUp
  <2>1. /\ drive.at \in Visits /\ drive.pc = "lookup"
        /\ UNCHANGED <<buffer, pub, ext, merged, wanted>>
    BY <1>4 DEF LookUp, At, d1, broker, history
  <2>2. ASSUME NEW m \in Linked(drive.id), drive' = [drive EXCEPT !.pc = "apply", !.event = m]
        PROVE  OnePlace'
    <3>1. drive'.pc = "apply" /\ drive'.event = m /\ drive'.pending = drive.pending
      BY <1>0, <2>2 DEF Drives
    <3>2. m \in Messages /\ ext[m] = "correlated" /\ link[m] = drive.id
      BY DEF Linked
    <3>3. drive.at \notin merged[m] /\ drive.id.visit = drive.at
      BY <2>1, <3>2, OpenUnmerged DEF Safe, WalkIsCurrent, IdsOfVisits
    <3>4. merged[m] = {}
      BY <3>2, <3>3 DEF IdsOfVisits
    <3>5. drive'.pc \in Hands
      BY <3>1 DEF Hands
    <3> QED
      BY <2>1, <3>1, <3>2, <3>4, <3>5, PlacesTake
  <2>3. CASE Go("register")
    BY <2>1, <2>3, PlacesStay, GoKeeps DEF Hands
  <2> QED
    BY <1>4, <2>2, <2>3 DEF LookUp
<1>5. CASE ReadRegistration
  <2>1. drive'.pc = "call" /\ drive'.pending = drive.pending
    BY <1>0, <1>5 DEF ReadRegistration, Drives
  <2> QED
    BY <1>5, <2>1, PlacesStay DEF ReadRegistration, d1, broker, history, Hands
<1>6. CASE CallBroker
  <2>1. UNCHANGED <<pub, ext, merged, wanted>>
    BY <1>6 DEF CallBroker, d1, history
  <2>2. CASE buffer' = buffer /\ (Waiting \/ Go("reject"))
    <3>1. /\ drive'.pc \in {"create", "idle", "reject"}
          /\ drive'.pending \in {drive.pending, NoMessage}
      BY <2>2, GoKeeps, ParkMoves DEF Waiting
    <3> QED
      BY <2>1, <2>2, <3>1, PlacesStay DEF Hands
  <2>3. CASE /\ buffer # <<>> /\ buffer' = Tail(buffer)
             /\ drive' = [drive EXCEPT !.pc = "link", !.event = Head(buffer)]
    <3>1. drive'.pc = "link" /\ drive'.event = Head(buffer) /\ drive'.pending = drive.pending
      BY <1>0, <2>3 DEF Drives
    <3>2. drive'.pc \in Hands
      BY <3>1 DEF Hands
    <3> QED
      BY <2>1, <2>3, <3>1, <3>2, HeadLeaves, PlacesHand
  <2> QED
    BY <1>6, <2>2, <2>3 DEF CallBroker, broker
<1>7. CASE LinkBuffered
  <2>1. drive.pc = "link" /\ UNCHANGED <<buffer, pub, merged, wanted>>
    BY <1>7 DEF LinkBuffered, At, broker, history
  <2>2. drive'.pc = "apply" /\ drive'.event = drive.event /\ drive'.pending = drive.pending
    BY <1>7, GoKeeps DEF LinkBuffered
  <2>3. \A m \in Messages : ext'[m] = ext[m] \/ Handling(m)
    <3>1. drive.event \in Messages
      BY <2>1 DEF OnePlace
    <3> QED
      BY <1>7, <2>1, <3>1, CorrelateOther DEF LinkBuffered, Handling
  <2> QED
    BY <2>1, <2>2, <2>3, PlacesStay DEF Hands
<1>8. CASE CreateRow
  <2>1. drive'.pc = "arm" /\ drive'.pending = drive.pending
    BY <1>8, GoKeeps DEF CreateRow
  <2> QED
    BY <1>8, <2>1, PlacesStay DEF CreateRow, broker, history, Hands
<1>9. CASE ArmTimer
  <2>1. drive'.pc \in {"alarm", "idle"} /\ drive'.pending \in {drive.pending, NoMessage}
    BY <1>9, GoKeeps, ParkMoves DEF ArmTimer
  <2> QED
    BY <1>9, <2>1, PlacesStay DEF ArmTimer, broker, history, Hands
<1>10. CASE ReadBeforeApply
  <2>1. /\ drive.pc = "apply" /\ drive'.pc = "commit" /\ drive'.event = drive.event
        /\ drive'.pending = drive.pending
    BY <1>0, <1>10 DEF ReadBeforeApply, At, Drives
  <2> QED
    BY <1>10, <2>1, PlacesStay DEF ReadBeforeApply, broker, history, Hands
<1>11. CASE CommitMessage
  BY <1>11, CommitPlaces
<1>12. CASE ConvertOnFire
  <2>1. drive'.pc = "timer" /\ drive'.pending = NoMessage
    BY <1>12, LeaveMoves DEF ConvertOnFire, At
  <2> QED
    BY <1>12, <2>1, PlacesStay DEF ConvertOnFire, d1, broker, Hands
<1> QED
  BY <1>1, <1>2, <1>3, <1>4, <1>5, <1>6, <1>7, <1>8, <1>9, <1>10, <1>11, <1>12 DEF DriveStep

\* A publisher that goes on leaves the buffer and the message in hand alone.
LEMMA PlacesPub ==
  ASSUME TypeOK, OnePlace, NEW m \in Messages, UNCHANGED <<buffer, merged, drive>>,
         \A n \in Messages \ {m} : pub'[n] = pub[n] /\ ext'[n] = ext[n],
         wanted' \subseteq wanted \cup {m, NoMessage},
         pub'[m].pc # "unsent",
         pub'[m].pc = "answered" => pub[m].pc = "unsent" /\ ext'[m] = ext[m],
         pub'[m].pc = "recorded" => pub'[m].ans = "correlated",
         pub[m].pc # "unsent" => pub'[m].ans = pub[m].ans,
         ext'[m] = ext[m] \/ ext'[m] = pub[m].ans,
         pub[m].pc # "done", m \in wanted' => pub'[m].pc = "done" /\ pub'[m].ans = "correlated"
  PROVE  OnePlace'
<1>1. \A n : Handling(n)' <=> Handling(n)
  BY DEF Handling
<1>2. ASSUME NEW i \in DOMAIN buffer
      PROVE  /\ pub'[buffer[i]].pc # "unsent" /\ pub'[buffer[i]].ans = "buffered"
             /\ ext'[buffer[i]] \in {"none", "buffered"} /\ merged'[buffer[i]] = {}
             /\ ~Handling(buffer[i])
  BY BufferedTyped DEF OnePlace
<1>3. ASSUME NEW n \in Messages,
             pub'[n].pc = "unsent" \/ (pub'[n].pc = "answered" /\ pub'[n].ans = "correlated")
      PROVE  ext'[n] = "none" /\ merged'[n] = {} /\ ~Handling(n)
  BY <1>3 DEF OnePlace
<1>4. ASSUME NEW n \in Messages, n \in wanted' \/ drive'.pending = n
      PROVE  pub'[n].pc = "done" /\ pub'[n].ans = "correlated"
  BY <1>4, Fresh DEF OnePlace
<1>5. \A n \in Messages : pub'[n].pc = "recorded" => pub'[n].ans = "correlated"
  BY DEF OnePlace
<1>6. /\ \A i, j \in DOMAIN buffer : buffer[i] = buffer[j] => i = j
      /\ \A n \in Messages : Handling(n) => merged[n] = {}
      /\ drive.pc \in {"link", "apply", "commit"} => drive.event \in Messages
  BY DEF OnePlace
<1>7. \A i \in DOMAIN buffer : ~Handling(buffer[i])'
  BY <1>1, <1>2
<1> QED
  BY <1>1, <1>2, <1>3, <1>4, <1>5, <1>6, <1>7 DEF OnePlace

\* The broker keeps a message nobody waits for.
LEMMA PlacesKept ==
  ASSUME TypeOK, OnePlace, NEW m \in Messages, UNCHANGED <<merged, drive, ext, wanted>>,
         pub[m].pc = "unsent", buffer' = Append(buffer, m),
         \A n \in Messages \ {m} : pub'[n] = pub[n],
         pub'[m].pc = "answered", pub'[m].ans = "buffered"
  PROVE  OnePlace'
<1>1. \A n : Handling(n)' <=> Handling(n)
  BY DEF Handling
<1>2. ASSUME NEW i \in DOMAIN buffer'
      PROVE  \/ i \in DOMAIN buffer /\ buffer'[i] = buffer[i]
             \/ i = Len(buffer) + 1 /\ buffer'[i] = m
  <2>1. /\ buffer \in Seq(Messages) /\ Len(buffer) \in Nat /\ DOMAIN buffer = 1..Len(buffer)
        /\ DOMAIN Append(buffer, m) = 1..(Len(buffer) + 1)
    BY DEF TypeOK
  <2>2. i \in 1..Len(buffer) \/ i = Len(buffer) + 1
    BY <2>1
  <2>3. /\ i \in 1..Len(buffer) => Append(buffer, m)[i] = buffer[i]
        /\ Append(buffer, m)[Len(buffer) + 1] = m
    BY <2>1
  <2> QED
    BY <2>1, <2>2, <2>3
<1>3. \A i \in DOMAIN buffer : buffer[i] # m
  BY DEF OnePlace
<1>4. ASSUME NEW i \in DOMAIN buffer', NEW j \in DOMAIN buffer', buffer'[i] = buffer'[j] PROVE i = j
  BY <1>2, <1>3, <1>4 DEF OnePlace
<1>5. ext[m] = "none" /\ merged[m] = {} /\ ~Handling(m)
  BY DEF OnePlace
<1>6. ASSUME NEW i \in DOMAIN buffer'
      PROVE  /\ pub'[buffer'[i]].pc # "unsent" /\ pub'[buffer'[i]].ans = "buffered"
             /\ ext'[buffer'[i]] \in {"none", "buffered"} /\ merged'[buffer'[i]] = {}
             /\ ~Handling(buffer'[i])
  <2>1. CASE i \in DOMAIN buffer /\ buffer'[i] = buffer[i]
    BY <1>3, <2>1, BufferedTyped DEF OnePlace
  <2>2. CASE buffer'[i] = m
    BY <1>5, <2>2
  <2> QED
    BY <1>2, <2>1, <2>2
<1>7. ASSUME NEW n \in Messages,
             pub'[n].pc = "unsent" \/ (pub'[n].pc = "answered" /\ pub'[n].ans = "correlated")
      PROVE  ext'[n] = "none" /\ merged'[n] = {} /\ ~Handling(n)
  BY <1>7 DEF OnePlace
<1>8. ASSUME NEW n \in Messages, n \in wanted \/ drive.pending = n
      PROVE  pub'[n].pc = "done" /\ pub'[n].ans = "correlated"
  BY <1>8 DEF OnePlace
<1>9. \A n \in Messages : pub'[n].pc = "recorded" => pub'[n].ans = "correlated"
  BY DEF OnePlace
<1>10. /\ \A n \in Messages : Handling(n) => merged[n] = {}
       /\ drive.pc \in {"link", "apply", "commit"} => drive.event \in Messages
  BY DEF OnePlace
<1> QED
  BY <1>4, <1>6, <1>7, <1>8, <1>9, <1>10 DEF OnePlace, Handling

\* A publisher gives its message to the broker once, and delivers it only if it was correlated.
LEMMA StepPlaces ==
  ASSUME TypeOK, Safe, IdsOfVisits, OnePlace, Behind, [Next]_vars
  PROVE  OnePlace'
<1>1. ASSUME NEW p \in Messages \cup {NoMessage}, StartDrive(p) PROVE OnePlace'
  <2>1. drive'.pc \notin Hands /\ drive'.pending \in {NoMessage} \cup wanted
    BY <1>1 DEF StartDrive, Idle, Hands
  <2> QED
    BY <1>1, <2>1, PlacesStay DEF StartDrive, d1, broker, history
<1>2. CASE DriveStep
  BY <1>2, DrivePlaces
<1>3. ASSUME NEW m \in Messages, Publish(m) PROVE OnePlace'
  <2>1. UNCHANGED <<ext, merged, drive, wanted>> /\ pub[m].pc = "unsent"
    BY <1>3 DEF Publish, d1, history
  <2>2. ASSUME NEW a \in {"correlated", "late"}, buffer' = buffer,
               pub' = [pub EXCEPT ![m] = [pc |-> "answered", ans |-> a, id |-> holder]]
        PROVE  OnePlace'
    <3>1. pub'[m].pc = "answered" /\ \A n \in Messages \ {m} : pub'[n] = pub[n]
      BY <2>2 DEF TypeOK
    <3>2. m \notin wanted
      BY <2>1 DEF OnePlace
    <3> QED
      BY <2>1, <2>2, <3>1, <3>2, PlacesPub
  <2>3. CASE /\ buffer' = Append(buffer, m)
             /\ pub' = [pub EXCEPT ![m] = [pc |-> "answered", ans |-> "buffered", id |-> holder]]
    <3>1. /\ pub'[m].pc = "answered" /\ pub'[m].ans = "buffered"
          /\ \A n \in Messages \ {m} : pub'[n] = pub[n]
      BY <2>3 DEF TypeOK
    <3> QED
      BY <2>1, <2>3, <3>1, PlacesKept
  <2> QED
    BY <1>3, <2>2, <2>3 DEF Publish, broker
<1>4. ASSUME NEW m \in Messages, Record(m) \/ Deliver(m) \/ PublisherDies(m) PROVE OnePlace'
  <2>1. UNCHANGED <<buffer, merged, drive>> /\ pub[m].pc \in {"answered", "recorded"}
    BY <1>4 DEF Record, Deliver, PublisherDies, d1, broker, history
  <2>2. /\ \A n \in Messages \ {m} : pub'[n] = pub[n] /\ ext'[n] = ext[n]
        /\ pub'[m].ans = pub[m].ans /\ (ext'[m] = ext[m] \/ ext'[m] = pub[m].ans)
        /\ pub'[m].pc \in {"recorded", "done"}
        /\ pub'[m].pc = "recorded" => pub[m].ans = "correlated"
    <3>1. pub \in [Messages -> Publishers] /\ ext \in [Messages -> Answers]
      BY DEF TypeOK
    <3>2. PICK pc \in {"recorded", "done"} :
            /\ pub' = [pub EXCEPT ![m].pc = pc] /\ (pc = "recorded" => pub[m].ans = "correlated")
      BY <1>4 DEF Record, Deliver, PublisherDies
    <3>3. ext' = ext \/ ext' = [ext EXCEPT ![m] = pub[m].ans]
      BY <1>4 DEF Record, Deliver, PublisherDies, d1
    <3>4. pub'[m] = [pub[m] EXCEPT !.pc = pc] /\ \A n \in Messages \ {m} : pub'[n] = pub[n]
      BY <3>1, <3>2
    <3>5. pub'[m].pc = pc /\ pub'[m].ans = pub[m].ans
      BY <3>1, <3>4 DEF Publishers
    <3> QED
      BY <3>1, <3>2, <3>3, <3>4, <3>5
  <2>3. wanted' \subseteq wanted \cup {m, NoMessage} /\ m \notin wanted
    BY <1>4, <2>1 DEF Record, Deliver, PublisherDies, OnePlace
  <2>4. m \in wanted' => pub'[m].pc = "done" /\ pub'[m].ans = "correlated"
    <3>1. m \in wanted' => pub[m].pc = "recorded" /\ pub' = [pub EXCEPT ![m].pc = "done"]
      BY <1>4, <2>3 DEF Record, Deliver, PublisherDies
    <3> QED
      BY <2>2, <3>1 DEF OnePlace, TypeOK, Publishers
  <2> QED
    BY <2>1, <2>2, <2>3, <2>4, PlacesPub
<1>5. ASSUME NEW v \in Visits,
             \/ PlanFire(v) \/ DropAlarm(v) \/ FireBatch(v) \/ Supersede(v) \/ Wake(v)
             \/ HandlerDies(v) \/ SupersedeFails(v)
      PROVE  OnePlace'
  <2>1. UNCHANGED <<buffer, merged, pub, ext, drive>> /\ wanted' \subseteq wanted \cup {NoMessage}
    BY <1>5
    DEF PlanFire, DropAlarm, FireBatch, Supersede, Wake, HandlerDies, SupersedeFails, d1, broker,
        history
  <2> QED
    BY <2>1, PlacesStay
<1>6. CASE DriveDies \/ ArmFails
  <2>1. drive'.pc \notin Hands /\ drive'.pending = NoMessage
    BY <1>6, ParkMoves DEF DriveDies, ArmFails, Hands
  <2> QED
    BY <1>6, <2>1, PlacesStay DEF DriveDies, ArmFails, d1, broker, history
<1>7. CASE Backstop \/ UNCHANGED vars
  BY <1>7, PlacesStay DEF Backstop, vars, d1, broker, history
<1> QED
  BY <1>1, <1>2, <1>3, <1>4, <1>5, <1>6, <1>7 DEF Next

-----------------------------------------------------------------------------
(* Where a walk has been. *)

\* LeadsOn and LeadsNext of the state after a step.
LEMMA LeadsOnAfter == (\A x : \A v \in Visits : Leads(x, v) /\ exits[v] # {} => Leads(x, Onward(v)))'
<1>1. \A x : \A v \in Visits : Leads(x, v) /\ exits[v] # {} => Leads(x, Onward(v))
  BY LeadsOn
<1> QED
  BY <1>1, PTL

LEMMA LeadsNextAfter == (\A x, y : Leads(x, y) /\ x # y => Leads(Onward(x), y))'
<1>1. \A x, y : Leads(x, y) /\ x # y => Leads(Onward(x), y)
  BY LeadsNext
<1> QED
  BY <1>1, PTL

\* A drive that stays where it is, starts over, or stops.
LEMMA BehindStay ==
  ASSUME Behind, UNCHANGED <<exits, merged>>,
         \/ drive'.pc = "idle"
         \/ drive'.pc = drive.pc /\ drive'.at = drive.at /\ drive'.pending = drive.pending
         \/ /\ drive.pc \notin {"idle", "timer"} /\ drive'.pc \notin {"idle", "timer", "sub"}
            /\ drive'.at = drive.at
         \/ /\ drive.pc = "timer" /\ drive'.pc = "sub"
            /\ drive'.at = drive.at /\ drive'.pending = drive.pending
            /\ drive.at \in Visits /\ "timeout" \notin exits[drive.at]
         \/ drive'.pc = "timer" /\ drive'.at = First
  PROVE  Behind'
<1>1. \A x, y : Leads(x, y)' <=> Leads(x, y)
  BY DEF Leads, Walk, Onward
<1>2. ASSUME drive'.pc # "idle" PROVE Leads(First, drive'.at)
  BY <1>2, LeadsSelf, PlacesOfFlows DEF Behind
<1>3. ASSUME NEW m \in Messages, NEW v \in merged[m],
             drive'.pc \in {"timer", "sub"}, drive'.pending = m
      PROVE  Leads(drive'.at, v)
  BY <1>3 DEF Behind
<1>4. drive'.pc \notin {"idle", "timer"} => drive'.at \in Visits /\ "timeout" \notin exits'[drive'.at]
  BY DEF Behind
<1> QED
  BY <1>1, <1>2, <1>3, <1>4 DEF Behind

\* A drive that leaves its visit: a delivery it keeps was not applied there.
LEMMA BehindLeave ==
  ASSUME Behind, IInv', drive.at \in Visits, drive.pc # "idle",
         NEW path \in {"message", "timeout"}, drive'.pc = "timer",
         drive'.at = (IF path = "timeout" THEN OnTimeout[drive.at] ELSE OnMessage[drive.at]),
         exits'[drive.at] = exits[drive.at] \cup {path},
         \A v \in Visits \ {drive.at} : exits'[v] = exits[v],
         \A m \in Messages : \A v \in merged'[m] : v \in merged[m] \/ v = drive.at,
         \A m \in Messages : drive'.pending = m =>
           /\ drive.pending = m /\ drive.pc \in {"timer", "sub"}
           /\ merged'[m] = merged[m] /\ drive.at \notin merged[m]
  PROVE  Behind'
<1>1. \A v \in Visits : exits[v] \subseteq exits'[v]
  OBVIOUS
<1>2. \A x, y : Leads(x, y) => Leads(x, y)'
  BY <1>1, LeadsStay
<1>3. exits'[drive.at] # {} /\ exits'[drive.at] # {"message", "timeout"}
      /\ exits'[drive.at] \subseteq {"message", "timeout"}
  BY DEF IInv, TypeOK, Safe, PathsDecided
<1>4. PICK a \in Visits : a = drive.at
  OBVIOUS
<1>5. drive'.at = Onward(a)'
  BY <1>3, <1>4 DEF Onward
<1>6. Leads(First, a)'
  BY <1>2, <1>4 DEF Behind
<1>7. Leads(First, Onward(a))'
  BY <1>3, <1>4, <1>6, LeadsOnAfter
<1>8. ASSUME NEW m \in Messages, NEW v \in merged'[m] PROVE Leads(First, v)'
  <2>1. Leads(First, v)
    BY <1>8 DEF Behind
  <2> QED
    BY <1>2, <2>1
<1>9. ASSUME NEW m \in Messages, NEW v \in merged'[m], drive'.pending = m
      PROVE  Leads(Onward(a), v)'
  <2>1. Leads(a, v) /\ v # a
    BY <1>4, <1>9 DEF Behind
  <2>2. Leads(a, v)'
    BY <1>2, <2>1
  <2> QED
    BY <2>1, <2>2, LeadsNextAfter
<1> QED
  BY <1>5, <1>7, <1>8, <1>9 DEF Behind

\* A drive keeps its delivery until it comes by the visit that took it.
LEMMA DriveBehind ==
  ASSUME TypeOK, Safe, IInv', IdsOfVisits, OnePlace, Behind, DriveStep
  PROVE  Behind'
<1> USE FieldsTyped
<1>0. drive \in Drives
  BY DEF TypeOK
<1>1. CASE Finish \/ Reject \/ SetAlarm
  BY <1>1, BehindStay, ParkMoves DEF Finish, Reject, SetAlarm, history
<1>2. CASE ReadTimer
  <2>1. drive.at \in Visits /\ drive.pc = "timer" /\ merged' = merged
    BY <1>2 DEF ReadTimer, At
  <2>2. CASE outcome[drive.at] = "fired" /\ Leave("timeout", drive.pending)
    <3>1. \A m \in Messages : drive.at \notin merged[m]
      BY <2>1, <2>2 DEF Safe, PathsDecided
    <3> QED
      BY <2>1, <2>2, <3>1, LeaveMoves, BehindLeave
  <2>3. CASE ~(drive.at \in Guarded /\ outcome[drive.at] = "fired") /\ Go("sub") /\ UNCHANGED exits
    <3>1. "timeout" \notin exits[drive.at]
      BY <2>1, <2>3 DEF Safe, PathsDecided, UnguardedUntimed
    <3> QED
      BY <2>1, <2>3, <3>1, GoKeeps, BehindStay
  <2> QED
    BY <1>2, <2>2, <2>3 DEF ReadTimer
<1>3. CASE ReadSub
  <2>1. drive.at \in Visits /\ drive.pc = "sub" /\ merged' = merged
    BY <1>3 DEF ReadSub, At
  <2>2. CASE Leave("message", IF row[drive.at].msg = drive.pending THEN NoMessage ELSE drive.pending)
    <3>1. drive'.pending = IF row[drive.at].msg = drive.pending THEN NoMessage ELSE drive.pending
      BY <2>1, <2>2, LeaveMoves
    <3>2. \A m \in Messages : drive'.pending = m => drive.pending = m /\ drive.at \notin merged[m]
      BY <3>1, Fresh DEF IdsOfVisits
    <3> QED
      BY <2>1, <2>2, <3>2, LeaveMoves, BehindLeave
  <2>3. CASE /\ exits' = exits
             /\ \/ drive' = [drive EXCEPT !.pc = "apply", !.event = drive.pending]
                \/ drive' = [drive EXCEPT !.pc = "lookup", !.id = row[drive.at].id]
                \/ Go("register")
    <3>1. drive'.pc \in {"apply", "lookup", "register"} /\ drive'.at = drive.at
      BY <1>0, <2>3, GoKeeps DEF Drives
    <3> QED
      BY <2>1, <2>3, <3>1, BehindStay
  <2> QED
    BY <1>3, <2>2, <2>3 DEF ReadSub
<1>4. CASE LookUp \/ ReadRegistration
  <2>1. /\ drive.pc \in {"lookup", "register"} /\ UNCHANGED <<exits, merged>>
        /\ drive'.pc \in {"apply", "register", "call"} /\ drive'.at = drive.at
    BY <1>0, <1>4, GoKeeps DEF LookUp, ReadRegistration, At, history, Drives
  <2> QED
    BY <2>1, BehindStay
<1>5. CASE CallBroker
  <2>1. drive.pc = "call" /\ UNCHANGED <<exits, merged>>
    BY <1>5 DEF CallBroker, At, history
  <2>2. CASE Waiting \/ Go("reject")
    <3>1. drive'.pc = "idle" \/ (drive'.pc \in {"create", "reject"} /\ drive'.at = drive.at)
      BY <2>2, GoKeeps, ParkMoves DEF Waiting
    <3> QED
      BY <2>1, <3>1, BehindStay
  <2>3. CASE drive' = [drive EXCEPT !.pc = "link", !.event = Head(buffer)]
    <3>1. drive'.pc = "link" /\ drive'.at = drive.at
      BY <1>0, <2>3 DEF Drives
    <3> QED
      BY <2>1, <3>1, BehindStay
  <2> QED
    BY <1>5, <2>2, <2>3 DEF CallBroker
<1>6. CASE LinkBuffered \/ CreateRow
  <2>1. /\ drive.pc \in {"link", "create"} /\ UNCHANGED <<exits, merged>>
        /\ drive'.pc \in {"apply", "arm"} /\ drive'.at = drive.at
    BY <1>6, GoKeeps DEF LinkBuffered, CreateRow, At, history
  <2> QED
    BY <2>1, BehindStay
<1>7. CASE ArmTimer
  <2>1. /\ drive.pc = "arm" /\ UNCHANGED <<exits, merged>>
        /\ drive'.pc = "idle" \/ (drive'.pc = "alarm" /\ drive'.at = drive.at)
    BY <1>7, GoKeeps, ParkMoves DEF ArmTimer, At, history
  <2> QED
    BY <2>1, BehindStay
<1>8. CASE ReadBeforeApply
  <2>1. /\ drive.pc = "apply" /\ UNCHANGED <<exits, merged>>
        /\ drive'.pc = "commit" /\ drive'.at = drive.at
    BY <1>0, <1>8 DEF ReadBeforeApply, At, history, Drives
  <2> QED
    BY <2>1, BehindStay
<1>9. CASE CommitMessage
  <2>1. drive.at \in Visits /\ drive.pc = "commit" /\ drive.event \in Messages
    BY <1>9 DEF CommitMessage, At, OnePlace
  <2>2. Leave("message", NoMessage) /\ merged' = [merged EXCEPT ![drive.event] = @ \cup {drive.at}]
    BY <1>9 DEF CommitMessage
  <2>3. \A m \in Messages : \A v \in merged'[m] : v \in merged[m] \/ v = drive.at
    BY <2>2 DEF TypeOK
  <2>4. \A m \in Messages : drive'.pending # m
    BY <2>1, <2>2, LeaveMoves, Fresh
  <2> QED
    BY <2>1, <2>2, <2>3, <2>4, LeaveMoves, BehindLeave
<1>10. CASE ConvertOnFire
  <2>1. /\ drive.at \in Visits /\ drive.pc = "commit" /\ merged' = merged
        /\ Leave("timeout", NoMessage)
    BY <1>10 DEF ConvertOnFire, At
  <2>2. \A m \in Messages : drive'.pending # m
    BY <2>1, LeaveMoves, Fresh
  <2> QED
    BY <2>1, <2>2, LeaveMoves, BehindLeave
<1> QED
  BY <1>1, <1>2, <1>3, <1>4, <1>5, <1>6, <1>7, <1>8, <1>9, <1>10 DEF DriveStep

\* Nobody else moves a drive, and one that starts over starts at the first visit.
LEMMA StepBehind ==
  ASSUME TypeOK, Safe, IInv', IdsOfVisits, OnePlace, Behind, [Next]_vars
  PROVE  Behind'
<1>1. ASSUME NEW p \in Messages \cup {NoMessage}, StartDrive(p) PROVE Behind'
  <2>1. /\ drive'.pc = "idle" \/ (drive'.pc = "timer" /\ drive'.at = First)
        /\ UNCHANGED <<exits, merged>>
    BY <1>1 DEF StartDrive, Idle, history
  <2> QED
    BY <2>1, BehindStay
<1>2. CASE DriveStep
  BY <1>2, DriveBehind
<1>3. CASE DriveDies \/ ArmFails
  BY <1>3, BehindStay, ParkMoves DEF DriveDies, ArmFails, history
<1>4. CASE UNCHANGED <<drive, exits, merged>>
  BY <1>4, BehindStay
<1>5. ASSUME NEW m \in Messages, Publish(m) \/ Record(m) \/ Deliver(m) \/ PublisherDies(m)
      PROVE  Behind'
  BY <1>4, <1>5 DEF Publish, Record, Deliver, PublisherDies, history
<1>6. ASSUME NEW v \in Visits,
             \/ PlanFire(v) \/ DropAlarm(v) \/ FireBatch(v) \/ Supersede(v) \/ Wake(v)
             \/ HandlerDies(v) \/ SupersedeFails(v)
      PROVE  Behind'
  BY <1>4, <1>6
  DEF PlanFire, DropAlarm, FireBatch, Supersede, Wake, HandlerDies, SupersedeFails, history
<1>7. CASE Backstop \/ UNCHANGED vars
  BY <1>4, <1>7 DEF Backstop, vars, history
<1> QED
  BY <1>1, <1>2, <1>3, <1>5, <1>6, <1>7 DEF Next

-----------------------------------------------------------------------------
(* Once. *)

\* At first nothing was published and no drive has moved.
LEMMA InitOnce == Init => Once
<1> SUFFICES ASSUME Init PROVE Once
  OBVIOUS
<1>1. IdsOfVisits
  BY DEF Init, IdsOfVisits, NoRow, Idle
<1>2. OnePlace
  <2>1. /\ DOMAIN buffer = {} /\ drive.pc = "idle" /\ drive.pending = NoMessage /\ wanted = {NoMessage}
        /\ \A m \in Messages : pub[m].pc = "unsent" /\ ext[m] = "none" /\ merged[m] = {}
    BY DEF Init, Idle, Unsent
  <2> QED
    BY <2>1, Fresh DEF OnePlace, Handling
<1>3. Behind /\ AppliedOnce
  BY DEF Init, Behind, AppliedOnce, Idle
<1> QED
  BY <1>1, <1>2, <1>3 DEF Once

\* What a drive has in hand was merged nowhere before.
LEMMA StepApplied ==
  ASSUME TypeOK, OnePlace, AppliedOnce, [Next]_vars
  PROVE  AppliedOnce'
<1>1. CASE merged' = merged
  BY <1>1 DEF AppliedOnce
<1>2. CASE CommitMessage
  <2>1. drive.event \in Messages /\ merged[drive.event] = {}
    BY <1>2 DEF CommitMessage, At, OnePlace, Handling
  <2>2. merged' = [merged EXCEPT ![drive.event] = @ \cup {drive.at}]
    BY <1>2 DEF CommitMessage
  <2>3. \A m \in Messages \ {drive.event} : merged'[m] = merged[m]
    BY <2>2 DEF TypeOK
  <2>4. merged'[drive.event] = {drive.at}
    BY <2>1, <2>2 DEF TypeOK
  <2> QED
    BY <2>3, <2>4 DEF AppliedOnce
<1>3. merged' = merged \/ CommitMessage
  <2>1. DriveStep => merged' = merged \/ CommitMessage
    BY DEF DriveStep, Finish, ReadTimer, ReadSub, LookUp, ReadRegistration, CallBroker, Reject,
       LinkBuffered, CreateRow, ArmTimer, SetAlarm, ReadBeforeApply, ConvertOnFire, history
  <2>2. CASE \/ \E p \in Messages \cup {NoMessage} : StartDrive(p)
             \/ Backstop \/ DriveDies \/ ArmFails \/ UNCHANGED vars
    BY <2>2 DEF StartDrive, Backstop, DriveDies, ArmFails, vars, history
  <2>3. CASE \E m \in Messages : Publish(m) \/ Record(m) \/ Deliver(m) \/ PublisherDies(m)
    BY <2>3 DEF Publish, Record, Deliver, PublisherDies, history
  <2>4. CASE \E v \in Visits :
               \/ PlanFire(v) \/ DropAlarm(v) \/ FireBatch(v) \/ Supersede(v) \/ Wake(v)
               \/ HandlerDies(v) \/ SupersedeFails(v)
    BY <2>4
    DEF PlanFire, DropAlarm, FireBatch, Supersede, Wake, HandlerDies, SupersedeFails, history
  <2> QED
    BY <2>1, <2>2, <2>3, <2>4 DEF Next
<1> QED
  BY <1>1, <1>2, <1>3

\* Every step keeps the whole of it.
LEMMA StepOnce == TypeOK /\ Safe /\ Once /\ [Next]_vars => Once'
<1> SUFFICES ASSUME TypeOK, Safe, Once, [Next]_vars PROVE Once'
  OBVIOUS
<1>1. IInv'
  BY NextTypes, NextSafe DEF IInv
<1>2. IdsOfVisits' /\ OnePlace' /\ Behind' /\ AppliedOnce'
  BY <1>1, StepIds, StepPlaces, StepBehind, StepApplied DEF Once
<1> QED
  BY <1>2 DEF Once

(* A message is with its publisher, in the buffer, with the one drive that    *)
(* holds it, or merged; the rows and links it goes by are those of the visit  *)
(* they name; and a drive comes by the visit that took its message before it  *)
(* reaches one still open.                                                    *)
THEOREM OnceInvariance == Spec => []OInv
<1>1. Init => OInv
  BY InitTypeOK, InitSafe, InitOnce DEF OInv, IInv
<1>2. OInv /\ [Next]_vars => OInv'
  BY NextTypes, NextSafe, StepOnce DEF OInv, IInv
<1> QED
  BY <1>1, <1>2, PTL DEF Spec

(* No message advances the instance twice: it is merged at one visit at most, *)
(* whatever deliveries, lookups and re-walks meet and whichever of them die.  *)
THEOREM AppliedOnceAlways == Spec => []AppliedOnce
<1>1. OInv => AppliedOnce
  BY DEF OInv, Once
<1> QED
  BY <1>1, OnceInvariance, PTL
=============================================================================
