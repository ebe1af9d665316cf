------------------------- MODULE CallActivityProofs -------------------------
(***************************************************************************)
(* Theorems about CallActivity for any tree of calls, any number of tasks, *)
(* operator calls and lost notifications.                                  *)
(***************************************************************************)
EXTENDS CallActivity, SequenceTheorems, WellFoundedInduction, TLAPS

-----------------------------------------------------------------------------
(* The tree and its steps. *)

\* A set of naturals that has a member has a least one ...
LEMMA Least ==
  ASSUME NEW S \in SUBSET Nat, S # {}
  PROVE  \E m \in S : \A n \in S : m <= n
<1>1. PICK m \in S : \A n \in S : ~(<<n, m>> \in OpToRel(<, Nat))
  BY WFMin, NatLessThanWellFounded
<1>2. \A n \in S : ~(n < m)
  BY <1>1 DEF OpToRel
<1> QED
  BY <1>2

\* ... and a bounded one a greatest.
LEMMA Greatest ==
  ASSUME NEW L \in Nat, NEW S \in SUBSET (1..L), S # {}
  PROVE  \E m \in S : \A n \in S : n <= m
<1> DEFINE T == {k \in Nat : L - k \in S}
<1>1. T # {}
  <2>1. PICK n \in S : TRUE
    OBVIOUS
  <2>2. L - n \in Nat /\ L - (L - n) = n
    BY <2>1
  <2> QED
    BY <2>1, <2>2
<1>2. PICK k \in T : \A j \in T : k <= j
  BY <1>1, Least
<1>3. ASSUME NEW n \in S PROVE n <= L - k
  <2>1. L - n \in Nat /\ L - (L - n) = n
    BY <1>3
  <2>2. L - n \in T
    BY <1>3, <2>1
  <2>3. k <= L - n
    BY <1>2, <2>2
  <2> QED
    BY <1>3, <2>1, <2>3
<1> QED
  BY <1>2, <1>3

\* The body of a process is a sequence of steps, and no step is in two places.
LEMMA Bodies ==
  /\ Root \in Instances /\ Children \subseteq Instances /\ Tasks \cap Instances = {}
  /\ \A i \in Instances : /\ Len(Body[i]) \in Nat /\ DOMAIN Body[i] = 1..Len(Body[i])
                          /\ \A k \in DOMAIN Body[i] : Body[i][k] \in Steps
                          /\ StepsOf(i) \subseteq Steps /\ ChildrenOf(i) \subseteq Children
                          /\ Owned(i) \subseteq Tasks
  /\ \A i, j \in Instances : \A k \in DOMAIN Body[i], l \in DOMAIN Body[j] :
       Body[i][k] = Body[j][l] => i = j /\ k = l
<1>1. \A i \in Instances : Body[i] \in Seq(Steps)
  BY Tree
<1>2. \A i \in Instances : /\ Len(Body[i]) \in Nat /\ DOMAIN Body[i] = 1..Len(Body[i])
                           /\ \A k \in DOMAIN Body[i] : Body[i][k] \in Steps
  BY <1>1, LenProperties, ElementOfSeq
<1> QED
  BY <1>2, Tree DEF StepsOf, ChildrenOf, Owned, Children, Steps

LEMMA Owners ==
  ASSUME NEW s \in Steps
  PROVE  Owner(s) \in Instances /\ s \in StepsOf(Owner(s))
  BY Tree DEF Owner

\* The instance a step belongs to is the one it is found in.
LEMMA OwnersAreUnique ==
  ASSUME NEW i \in Instances, NEW j \in Instances, NEW s \in StepsOf(i), s \in StepsOf(j)
  PROVE  i = j
  BY Bodies DEF StepsOf

\* The walk stands at the first step that is not behind it, or past the last.
LEMMA Frontiers ==
  ASSUME NEW i \in Instances
  PROVE  /\ Frontier(i) \in 1..(Len(Body[i]) + 1)
         /\ \A l \in DOMAIN Body[i] : l < Frontier(i) => Passed(Body[i][l])
<1>1. Len(Body[i]) \in Nat /\ DOMAIN Body[i] = 1..Len(Body[i]) /\ Ahead(i) \in SUBSET Nat
  BY Bodies DEF Ahead
<1>2. CASE Ahead(i) = {}
  <2>1. Frontier(i) = Len(Body[i]) + 1
    BY <1>2 DEF Frontier
  <2>2. \A l \in DOMAIN Body[i] : Passed(Body[i][l])
    BY <1>2 DEF Ahead
  <2> QED
    BY <1>1, <2>1, <2>2
<1>3. CASE Ahead(i) # {}
  <2>1. Frontier(i) \in Ahead(i) /\ \A l \in Ahead(i) : Frontier(i) <= l
    BY <1>1, <1>3, Least DEF Frontier, First
  <2>2. Ahead(i) \subseteq DOMAIN Body[i]
    BY DEF Ahead
  <2>3. ASSUME NEW l \in DOMAIN Body[i], l < Frontier(i) PROVE l \notin Ahead(i)
    BY <1>1, <2>1, <2>2, <2>3
  <2>4. \A l \in DOMAIN Body[i] : l \notin Ahead(i) => Passed(Body[i][l])
    BY DEF Ahead
  <2> QED
    BY <1>1, <2>1, <2>2, <2>3, <2>4
<1> QED
  BY <1>2, <1>3

\* The step a reverse pass undoes is owed, and the last one that is.
LEMMA LastOwedIsLast ==
  ASSUME NEW i \in Instances, Owed(i) # {}
  PROVE  \E k \in Owed(i) : LastOwed(i) = Body[i][k] /\ \A l \in Owed(i) : l <= k
<1> DEFINE m == CHOOSE k \in Owed(i) : \A l \in Owed(i) : l <= k
<1>1. Len(Body[i]) \in Nat /\ Owed(i) \in SUBSET (1..Len(Body[i]))
  BY Bodies DEF Owed
<1>2. \E k \in Owed(i) : \A l \in Owed(i) : l <= k
  BY <1>1, Greatest
<1>3. m \in Owed(i) /\ \A l \in Owed(i) : l <= m
  BY <1>2
<1> QED
  BY <1>3 DEF LastOwed

LEMMA UndoingOwed ==
  ASSUME NEW i \in Instances, NEW s, Undoing(i, s)
  PROVE  s \in StepsOf(i) /\ s \in Steps /\ ledger[s] \in {"pending", "failed"}
<1>1. Owed(i) # {} /\ LastOwed(i) = s
  BY DEF Undoing
<1>2. PICK k \in Owed(i) : LastOwed(i) = Body[i][k]
  BY <1>1, LastOwedIsLast
<1> QED
  BY <1>1, <1>2, Bodies DEF Owed, StepsOf
-----------------------------------------------------------------------------
(* Types. *)

\* The items of a list of children.
LEMMA ListTyped ==
  ASSUME status \in [Instances -> Statuses], NEW i \in Instances,
         NEW what \in {"visit", "descend"}
  PROVE  List(what, i) \in Seq(Work)
<1>1. Len(Body[i]) \in Nat /\ DOMAIN Body[i] = 1..Len(Body[i])
  BY Bodies
<1>2. ASSUME NEW s PROVE Listed(what, s) \in Work
  BY Bodies DEF Listed, Do, Work, Statuses
<1> QED
  BY <1>1, <1>2 DEF List

LEMMA ItemsTyped ==
  ASSUME NEW i \in Instances, NEW seen \in Statuses,
         NEW what \in {"visit", "abandon", "settle", "descend", "heal", "reset", "move", "join",
                       "disarm"}
  PROVE  Do(what, i) \in Work /\ [Do(what, i) EXCEPT !.seen = seen] \in Work
  BY DEF Do, Work, Statuses

LEMMA ElementsTyped ==
  ASSUME NEW i \in Instances
  PROVE  Elements(i) \in Seq(Work)
<1>1. Len(Body[i]) \in Nat /\ DOMAIN Body[i] = 1..Len(Body[i])
  BY Bodies
<1>2. "starting" \in Statuses /\ Root \in Instances
  BY Bodies DEF Statuses
<1>3. ASSUME NEW s
      PROVE  (IF s \in Instances THEN [Do("visit", s) EXCEPT !.seen = "starting"]
              ELSE Do("visit", Root)) \in Work
  <2>1. CASE s \in Instances
    BY <1>2, <2>1, ItemsTyped
  <2>2. CASE s \notin Instances
    BY <1>2, <2>2, ItemsTyped
  <2> QED
    BY <2>1, <2>2
<1> QED
  BY <1>1, <1>3 DEF Elements

\* What an item puts in front of the rest of its list.
LEMMA UnfoldsTyped ==
  ASSUME status \in [Instances -> Statuses], NEW w \in Work, NEW rest \in Seq(Work)
  PROVE  Unfolds(w) \o rest \in Seq(Work)
<1>1. w.at \in Instances
  BY DEF Work
<1>2. Visits(w.at) \in Seq(Work)
  BY <1>1, ListTyped DEF Visits
<1>3. <<Do("abandon", w.at), Do("disarm", w.at), Do("settle", w.at)>> \in Seq(Work)
  <2>1. /\ Do("abandon", w.at) \in Work /\ Do("disarm", w.at) \in Work
        /\ Do("settle", w.at) \in Work
    BY <1>1, ItemsTyped DEF Statuses
  <2> QED
    BY <2>1
<1>4. Unfolds(w) \in Seq(Work)
  BY <1>2, <1>3, ConcatProperties DEF Unfolds
<1> QED
  BY <1>4, ConcatProperties

LEMMA HeadsTyped ==
  ASSUME NEW todo \in Seq(Work), todo # <<>>
  PROVE  Head(todo) \in Work /\ Head(todo).at \in Instances /\ Tail(todo) \in Seq(Work)
<1>1. Head(todo) \in Work /\ Tail(todo) \in Seq(Work)
  BY HeadTailProperties
<1> QED
  BY <1>1 DEF Work

\* What a step makes of the drive of one instance.
LEMMA DrivesTyped ==
  ASSUME drive \in [Instances -> Drives], NEW i \in Instances, NEW pc \in Pcs
  PROVE  /\ NoDrive \in Drives /\ [drive EXCEPT ![i] = NoDrive] \in [Instances -> Drives]
         /\ [drive EXCEPT ![i].pc = pc] \in [Instances -> Drives]
         /\ \A c \in Instances : \A back \in {"look", "scan"} :
              /\ [drive EXCEPT ![i].pc = pc, ![i].child = c] \in [Instances -> Drives]
              /\ [drive EXCEPT ![i].pc = pc, ![i].back = back] \in [Instances -> Drives]
              /\ [drive EXCEPT ![i].pc = pc, ![i].back = back, ![i].child = c]
                   \in [Instances -> Drives]
         /\ \A todo \in Seq(Work) : \A back \in {"look", "scan"} :
              [drive EXCEPT ![i].pc = pc, ![i].back = back, ![i].todo = todo]
                \in [Instances -> Drives]
         /\ \A todo \in Seq(Work) : [drive EXCEPT ![i].todo = todo] \in [Instances -> Drives]
<1>1. NoDrive \in Drives
  BY EmptySeq, Bodies DEF NoDrive, Drives, Pcs
<1>2. drive[i] \in Drives
  OBVIOUS
<1>3. ASSUME NEW d \in Drives PROVE [drive EXCEPT ![i] = d] \in [Instances -> Drives]
  OBVIOUS
<1>4. [drive[i] EXCEPT !.pc = pc] \in Drives
  BY <1>2 DEF Drives
<1>5. ASSUME NEW c \in Instances, NEW back \in {"look", "scan"}
      PROVE  /\ [drive[i] EXCEPT !.pc = pc, !.child = c] \in Drives
             /\ [drive[i] EXCEPT !.pc = pc, !.back = back] \in Drives
             /\ [drive[i] EXCEPT !.pc = pc, !.back = back, !.child = c] \in Drives
  BY <1>2 DEF Drives
<1>6. ASSUME NEW todo \in Seq(Work), NEW back \in {"look", "scan"}
      PROVE  /\ [drive[i] EXCEPT !.pc = pc, !.back = back, !.todo = todo] \in Drives
             /\ [drive[i] EXCEPT !.todo = todo] \in Drives
  BY <1>2 DEF Drives
<1> QED
  BY <1>1, <1>3, <1>4, <1>5, <1>6

LEMMA InitTyped == Init => TypeOK
<1> SUFFICES ASSUME Init PROVE TypeOK
  OBVIOUS
<1>1. NoDrive \in Drives /\ NoCall \in Operators
  BY EmptySeq, Bodies DEF NoDrive, Drives, Pcs, NoCall, Operators
<1>2. MaxCalls \in Nat /\ MaxLost \in Nat
  BY Bounds
<1> QED
  BY <1>1, <1>2, Bodies DEF Init, TypeOK, Statuses, JobStates, Off

\* TypeOK by groups of variables, and what is typed of a step that leaves the others alone.
LEMMA RowsShape ==
  ASSUME TypeOK
  PROVE  status \in [Instances -> Statuses] /\ committed \subseteq Instances
         /\ pos \in [Instances -> Nat] /\ \A i \in Instances : pos[i] <= Len(Body[i]) + 1
  BY DEF TypeOK

LEMMA VisitShape ==
  ASSUME TypeOK
  PROVE  bound \in [Children -> {"none", "invoked", "outputApplied"}]
         /\ timer \in [Children -> {"none", "armed", "fired", "cancelled"}]
  BY DEF TypeOK

Marks == {"none", "pending", "committed", "compensated", "failed", "notRequired"}

LEMMA JobsShape ==
  ASSUME TypeOK
  PROVE  job \in [Tasks -> JobStates] /\ comp \in [Tasks -> JobStates] /\ ledger \in [Steps -> Marks]
  BY DEF TypeOK, Marks

LEMMA DrivesShape ==
  ASSUME TypeOK
  PROVE  drive \in [Instances -> Drives] /\ wanted \subseteq Instances
         /\ asked \subseteq Instances /\ alive \subseteq Instances
  BY DEF TypeOK

\* A step of a drive or of an alarm: what it writes is typed.
StepTyped ==
  /\ status' \in [Instances -> Statuses] /\ committed' \subseteq Instances
  /\ pos' \in [Instances -> Nat] /\ \A i \in Instances : pos'[i] <= Len(Body[i]) + 1
  /\ bound' \in [Children -> {"none", "invoked", "outputApplied"}]
  /\ timer' \in [Children -> {"none", "armed", "fired", "cancelled"}]
  /\ job' \in [Tasks -> JobStates] /\ comp' \in [Tasks -> JobStates] /\ ledger' \in [Steps -> Marks]
  /\ drive' \in [Instances -> Drives] /\ wanted' \subseteq Instances
  /\ asked' \subseteq Instances /\ alive' \subseteq Instances

LEMMA StepTypedAndRest ==
  ASSUME TypeOK, StepTyped, UNCHANGED <<alarms, op, bounds>>
  PROVE  TypeOK'
  BY DEF TypeOK, StepTyped, Marks, alarms, bounds

LEMMA GoesTyped ==
  ASSUME TypeOK, NEW i \in Instances
  PROVE  /\ \A pc \in Pcs : Goes(i, pc) => drive' \in [Instances -> Drives]
         /\ Parks(i) => drive' \in [Instances -> Drives]
<1>1. ASSUME NEW pc \in Pcs, Goes(i, pc) PROVE drive' \in [Instances -> Drives]
  BY <1>1, DrivesShape, DrivesTyped DEF Goes
<1>2. ASSUME Parks(i) PROVE drive' \in [Instances -> Drives]
  <2>1. "sync" \in Pcs
    BY DEF Pcs
  <2>2. CASE drive[i].flow
    BY <1>2, <2>2, <2>1, DrivesShape, DrivesTyped DEF Parks
  <2>3. CASE ~drive[i].flow
    <3>1. drive' = [drive EXCEPT ![i].pc = "sync"]
      BY <1>2, <2>3 DEF Parks
    <3> QED
      BY <2>1, <3>1, DrivesShape, DrivesTyped
  <2> QED
    BY <2>2, <2>3
<1> QED
  BY <1>1, <1>2

LEMMA StatusTyped ==
  ASSUME TypeOK, NEW i \in Instances, NEW st \in Statuses
  PROVE  [status EXCEPT ![i] = st] \in [Instances -> Statuses]
  BY RowsShape

\* The steps of a drive that walks.
LEMMA StartTyped ==
  ASSUME TypeOK, NEW i \in Instances, StartDrive(i)
  PROVE  TypeOK'
<1>1. \A nested \in BOOLEAN : Enter(i, nested) => drive' \in [Instances -> Drives]
  <2>1. EntersAt(i) \in Pcs /\ NoDrive \in Drives
    BY DrivesShape, DrivesTyped DEF EntersAt, Pcs
  <2>2. ASSUME NEW nested \in BOOLEAN, NEW flow \in BOOLEAN
        PROVE  [NoDrive EXCEPT !.nested = nested, !.flow = flow, !.pc = EntersAt(i)] \in Drives
    BY <2>1 DEF Drives
  <2> QED
    BY <2>2, DrivesShape DEF Enter
<1>2. drive' \in [Instances -> Drives] /\ wanted' \subseteq Instances
  BY <1>1, DrivesShape DEF StartDrive
<1> QED
  BY <1>2 DEF StartDrive, TypeOK, rows, visit, jobs, alarms, bounds

LEMMA TaskStepsTyped ==
  ASSUME TypeOK, NEW i \in Instances, NEW t \in Tasks,
         CreateJob(i, t) \/ ParkTask(i, t) \/ ApplyTask(i, t) \/ TaskFails(i, t)
  PROVE  TypeOK'
<1>1. CASE CreateJob(i, t)
  <2>1. job' \in [Tasks -> JobStates]
    BY <1>1, JobsShape DEF CreateJob, JobStates
  <2> QED
    BY <1>1, <2>1 DEF CreateJob, TypeOK, rows, visit, jobs, sched, alarms, bounds
<1>2. CASE ParkTask(i, t)
  <2>1. status' \in [Instances -> Statuses] /\ drive' \in [Instances -> Drives]
    BY <1>2, RowsShape, GoesTyped DEF ParkTask, Statuses
  <2> QED
    BY <1>2, <2>1 DEF ParkTask, TypeOK, rows, visit, jobs, sched, alarms, bounds
<1>3. CASE ApplyTask(i, t)
  <2>1. t \in Steps
    BY DEF Steps
  <2>2. job' \in [Tasks -> JobStates] /\ status' \in [Instances -> Statuses]
    BY <1>3, JobsShape, RowsShape DEF ApplyTask, JobStates, Statuses
  <2>3. ledger' \in [Steps -> Marks]
    BY <1>3, <2>1, JobsShape DEF ApplyTask, Marks
  <2> QED
    BY <1>3, <2>2, <2>3 DEF ApplyTask, TypeOK, visit, sched, alarms, bounds, Marks
<1>4. CASE TaskFails(i, t)
  <2>1. drive' \in [Instances -> Drives]
    BY <1>4, GoesTyped DEF TaskFails, Pcs
  <2>2. status' \in [Instances -> Statuses]
    BY <1>4, RowsShape DEF TaskFails, Incident, Statuses
  <2> QED
    BY <1>4, <2>1, <2>2 DEF TaskFails, TypeOK, visit, jobs, sched, alarms, bounds
<1> QED
  BY <1>1, <1>2, <1>3, <1>4

LEMMA InvokeTyped ==
  ASSUME TypeOK, NEW i \in Instances, NEW c \in ChildrenOf(i), Invoke(i, c)
  PROVE  TypeOK'
<1>1. c \in Children /\ c \in Instances
  BY Bodies
<1>2. drive' \in [Instances -> Drives] /\ asked' \subseteq Instances
      /\ wanted' \subseteq Instances /\ alive' \subseteq Instances
  <2>1. "inner" \in Pcs /\ "look" \in Pcs
    BY DEF Pcs
  <2>2. CASE mode = "direct"
    <3>1. drive' = [drive EXCEPT ![i].pc = "inner", ![i].back = "look", ![i].child = c]
      BY <2>2 DEF Invoke, Start
    <3>2. drive' \in [Instances -> Drives]
      BY <1>1, <2>1, <3>1, DrivesShape, DrivesTyped
    <3> QED
      BY <1>1, <2>2, <3>2, DrivesShape DEF Invoke, Start
  <2>3. CASE mode # "direct"
    BY <1>1, <2>1, <2>3, DrivesShape, GoesTyped DEF Invoke, Start
  <2> QED
    BY <2>2, <2>3
<1>3. status' \in [Instances -> Statuses]
  <2>1. status' = status \/ status' = [status EXCEPT ![c] = "starting"]
    BY DEF Invoke, NewChild
  <2> QED
    BY <1>1, <2>1, RowsShape DEF Statuses
<1>4. bound' \in [Children -> {"none", "invoked", "outputApplied"}]
  <2>1. bound' = bound \/ bound' = [bound EXCEPT ![c] = "invoked"]
    BY DEF Invoke, NewChild, visit
  <2> QED
    BY <1>1, <2>1, VisitShape
<1>5. timer' \in [Children -> {"none", "armed", "fired", "cancelled"}]
  <2>1. timer' = timer \/ timer' = [timer EXCEPT ![c] = "armed"]
    BY DEF Invoke, visit
  <2> QED
    BY <1>1, <2>1, VisitShape
<1> QED
  BY <1>2, <1>3, <1>4, <1>5 DEF Invoke, TypeOK, jobs, alarms, bounds

\* The answers of a drive to the state of a call's child.
LEMMA CallStepsTyped ==
  ASSUME TypeOK, NEW i \in Instances, NEW c \in ChildrenOf(i),
         \/ ApplyChild(i, c) \/ RouteError(i, c) \/ FlipUncaught(i, c)
         \/ StopAtUncaught(i, c) \/ ParkCall(i, c) \/ TimerExit(i, c)
  PROVE  TypeOK'
<1>1. c \in Children /\ c \in Instances /\ c \in Steps
  BY Bodies DEF Steps
<1>2. status' \in [Instances -> Statuses]
  <2>1. status' \in {status, [status EXCEPT ![i] = "running"], [status EXCEPT ![i] = "waiting"]}
    BY DEF ApplyChild, RouteError, FlipUncaught, StopAtUncaught, ParkCall, TimerExit, rows
  <2> QED
    BY <2>1, RowsShape DEF Statuses
<1>3. bound' \in [Children -> {"none", "invoked", "outputApplied"}]
  <2>1. bound' \in {bound, [bound EXCEPT ![c] = "outputApplied"]}
    BY DEF ApplyChild, RouteError, FlipUncaught, StopAtUncaught, ParkCall, TimerExit, visit
  <2> QED
    BY <1>1, <2>1, VisitShape
<1>4. timer' \in [Children -> {"none", "armed", "fired", "cancelled"}]
  <2>1. timer' \in {timer, [timer EXCEPT ![c] = "cancelled"]}
    BY DEF ApplyChild, RouteError, FlipUncaught, StopAtUncaught, ParkCall, TimerExit, visit
  <2> QED
    BY <1>1, <2>1, VisitShape
<1>5. ledger' \in [Steps -> Marks]
  <2>1. \/ ledger' = ledger
        \/ ledger' = [ledger EXCEPT ![c] = IF @ = "none" THEN "pending" ELSE @]
    BY DEF ApplyChild, RouteError, FlipUncaught, StopAtUncaught, ParkCall, TimerExit
  <2> QED
    BY <1>1, <2>1, JobsShape DEF Marks
<1>6. drive' \in [Instances -> Drives]
  <2>1. {"walk", "raise", "sync", "retain"} \subseteq Pcs
    BY DEF Pcs
  <2>2. CASE ApplyChild(i, c) \/ RouteError(i, c) \/ FlipUncaught(i, c) \/ StopAtUncaught(i, c)
    <3>1. drive' = drive \/ \E pc \in {"walk", "raise", "sync"} : Goes(i, pc)
      BY <2>2 DEF ApplyChild, RouteError, FlipUncaught, StopAtUncaught
    <3> QED
      BY <2>1, <3>1, GoesTyped, DrivesShape
  <2>3. CASE ParkCall(i, c)
    BY <2>3, GoesTyped DEF ParkCall
  <2>4. CASE TimerExit(i, c)
    <3>1. Listed("visit", c) \in Work
      BY <1>1, RowsShape DEF Listed, Work
    <3>2. <<Listed("visit", c)>> \in Seq(Work)
      BY <3>1
    <3> QED
      BY <2>1, <2>4, <3>2, DrivesShape, DrivesTyped DEF TimerExit
  <2> QED
    BY <2>2, <2>3, <2>4
<1>7. /\ UNCHANGED <<committed, pos, jobs, sched, alarms, op, bounds>>
  BY DEF ApplyChild, RouteError, FlipUncaught, StopAtUncaught, ParkCall, TimerExit, rows, jobs
<1> QED
  BY <1>2, <1>3, <1>4, <1>5, <1>6, <1>7 DEF TypeOK, Marks, jobs, sched, alarms, bounds

\* The end of a walk and of a drive.
LEMMA WalkEndsTyped ==
  ASSUME TypeOK, NEW i \in Instances,
         \/ Return(i) \/ RaiseUncaught(i) \/ LookOn(i) \/ TimerExited(i)
         \/ Commit(i) \/ Complete(i) \/ EndErrored(i)
  PROVE  TypeOK'
<1>1. status' \in [Instances -> Statuses]
  <2>1. \E st \in Statuses : status' = status \/ status' = [status EXCEPT ![i] = st]
    BY RowsShape DEF Return, RaiseUncaught, LookOn, TimerExited, Commit, Complete, EndErrored,
                     Incident, rows, Statuses
  <2> QED
    BY <2>1, RowsShape
<1>2. committed' \subseteq Instances
  BY RowsShape DEF Return, RaiseUncaught, LookOn, TimerExited, Commit, Complete, EndErrored, rows
<1>3. ledger' \in [Steps -> Marks]
  <2>1. \/ ledger' = ledger
        \/ ledger' = [s \in Steps |-> IF s \in StepsOf(i) /\ ledger[s] = "pending"
                                      THEN "committed" ELSE ledger[s]]
    BY DEF Return, RaiseUncaught, LookOn, TimerExited, Commit, Complete, EndErrored
  <2> QED
    BY <2>1, JobsShape DEF Marks
<1>4. drive' \in [Instances -> Drives]
  <2>1. CASE Return(i)
    <3>1. drive[i].back \in Pcs
      BY DrivesShape DEF Drives, Pcs
    <3> QED
      BY <2>1, <3>1, Bodies, DrivesShape, DrivesTyped DEF Return
  <2>2. CASE ~Return(i)
    <3>1. drive' = drive \/ \E pc \in {"walk", "sync"} : Goes(i, pc)
      BY <2>2 DEF RaiseUncaught, LookOn, TimerExited, Commit, Complete, EndErrored
    <3>2. {"walk", "sync"} \subseteq Pcs
      BY DEF Pcs
    <3> QED
      BY <3>1, <3>2, GoesTyped, DrivesShape
  <2> QED
    BY <2>1, <2>2
<1>5. UNCHANGED <<pos, visit, jobs, sched, alarms, op, bounds>>
  BY DEF Return, RaiseUncaught, LookOn, TimerExited, Commit, Complete, EndErrored, rows
<1> QED
  BY <1>1, <1>2, <1>3, <1>4, <1>5 DEF TypeOK, Marks, visit, jobs, sched, alarms, bounds

LEMMA SyncTyped == ASSUME TypeOK, NEW i \in Instances, Sync(i) PROVE TypeOK'
<1>1. Len(Body[i]) \in Nat /\ Frontier(i) \in 1..(Len(Body[i]) + 1)
  BY Bodies, Frontiers
<1>2. pos' \in [Instances -> Nat] /\ \A j \in Instances : pos'[j] <= Len(Body[j]) + 1
  <2> DEFINE p == IF status[i] \in Terminal THEN 0 ELSE Frontier(i)
  <2>1. p \in Nat /\ p <= Len(Body[i]) + 1
    BY <1>1
  <2>2. pos' = [pos EXCEPT ![i] = p]
    BY DEF Sync
  <2> HIDE DEF p
  <2> QED
    BY <2>1, <2>2, RowsShape
<1>3. drive' \in [Instances -> Drives]
  BY GoesTyped DEF Sync, Pcs
<1> QED
  BY <1>2, <1>3 DEF Sync, TypeOK, visit, jobs, sched, alarms, bounds

LEMMA TickleTyped ==
  ASSUME TypeOK, NEW before \in SUBSET Instances, NEW i \in Instances, Tickle(before, i)
  PROVE  wanted' \subseteq Instances /\ lost' \in 0..MaxLost
  BY Bounds DEF Tickle, TypeOK

LEMMA LeaveTyped == ASSUME TypeOK, NEW i \in Instances, Leave(i) PROVE TypeOK'
<1>1. drive' \in [Instances -> Drives] /\ asked' \subseteq Instances /\ alive' \subseteq Instances
  <2>1. "tail" \in Pcs
    BY DEF Pcs
  <2> QED
    BY <2>1, DrivesShape, DrivesTyped DEF Leave
<1>2. /\ wanted' \subseteq Instances /\ lost' \in 0..MaxLost
      /\ notify' \in [Children -> 0..Tries \cup {Off}]
  <2> DEFINE left == IF drive[i].flow THEN wanted \ {i} ELSE wanted
  <2>1. left \in SUBSET Instances
    BY DrivesShape
  <2>2. CASE Notifies(i)
    <3>1. i \in Children /\ Owner(i) \in Instances
      BY <2>2, Owners DEF Notifies, Steps, Children
    <3>2. Tickle(left, Owner(i)) /\ notify' = [notify EXCEPT ![i] = 0]
      BY <2>2 DEF Leave
    <3>3. notify \in [Children -> 0..Tries \cup {Off}] /\ 0 \in 0..Tries
      BY DEF TypeOK, Tries
    <3> QED
      BY <2>1, <3>1, <3>2, <3>3, TickleTyped
  <2>3. CASE ~Notifies(i)
    BY <2>1, <2>3 DEF Leave, TypeOK
  <2> QED
    BY <2>2, <2>3
<1> QED
  BY <1>1, <1>2 DEF Leave, TypeOK, rows, visit, jobs

\* The cascade of a cancel: an item of a list, done by a drive or by the operator.
LEMMA CascadesTyped ==
  ASSUME TypeOK, NEW w \in Work, Cascades(w)
  PROVE  /\ status' \in [Instances -> Statuses] /\ UNCHANGED <<bound, comp>>
         /\ job' \in [Tasks -> JobStates]
         /\ timer' \in [Children -> {"none", "armed", "fired", "cancelled"}]
         /\ wanted' \subseteq Instances /\ alive' \subseteq Instances
         /\ Drained(w) \in [Instances -> Drives]
<1>1. w.at \in Instances
  BY DEF Work
<1>2. UNCHANGED <<bound, comp>>
  BY DEF Cascades, visit, jobs
<1>3. status' \in [Instances -> Statuses]
  <2>1. status' = status \/ status' = [status EXCEPT ![w.at] = Settled(w.at)]
    BY DEF Cascades
  <2>2. Settled(w.at) \in Statuses
    BY <1>1, RowsShape DEF Settled, Statuses
  <2> QED
    BY <1>1, <2>1, <2>2, RowsShape
<1>4. job' \in [Tasks -> JobStates]
  <2>1. job' = job \/ ForwardAbandoned(w.at)
    BY DEF Cascades, jobs
  <2> QED
    BY <2>1, JobsShape DEF ForwardAbandoned, JobStates
<1>5. timer' \in [Children -> {"none", "armed", "fired", "cancelled"}]
  <2>1. timer' = timer \/ TimersCancelled(w.at)
    BY DEF Cascades, visit
  <2> QED
    BY <2>1, VisitShape DEF TimersCancelled
<1>6. wanted' \subseteq Instances /\ alive' \subseteq Instances
  BY DrivesShape DEF Cascades, Terminated
<1>7. Drained(w) \in [Instances -> Drives]
  <2>1. "idle" \in Pcs
    BY DEF Pcs
  <2> QED
    BY <1>1, <2>1, DrivesShape, DrivesTyped DEF Drained, Killed
<1> QED
  BY <1>2, <1>3, <1>4, <1>5, <1>6, <1>7

LEMMA CascadeTyped == ASSUME TypeOK, NEW i \in Instances, Cascade(i) PROVE TypeOK'
<1> DEFINE w == Head(drive[i].todo)
<1>1. drive[i].todo \in Seq(Work) /\ drive[i].todo # <<>> /\ Cascades(w)
  BY DrivesShape DEF Cascade, Drives
<1>2. w \in Work /\ Tail(drive[i].todo) \in Seq(Work)
  BY <1>1, HeadsTyped
<1>3. Unfolds(w) \o Tail(drive[i].todo) \in Seq(Work)
  BY <1>2, RowsShape, UnfoldsTyped
<1>4. ASSUME NEW d \in [Instances -> Drives], NEW todo \in Seq(Work)
      PROVE  [d EXCEPT ![i].todo = todo] \in [Instances -> Drives]
  <2>1. [d[i] EXCEPT !.todo = todo] \in Drives
    BY DEF Drives
  <2> QED
    BY <2>1
<1>5. drive' = [Drained(w) EXCEPT ![i].todo = Unfolds(w) \o Tail(drive[i].todo)]
  BY DEF Cascade
<1>6. drive' \in [Instances -> Drives]
  BY <1>1, <1>2, <1>3, <1>4, <1>5, CascadesTyped
<1>7. UNCHANGED <<committed, pos, ledger, asked, alarms, op, bounds>>
  BY DEF Cascade
<1> QED
  BY <1>1, <1>2, <1>6, <1>7, CascadesTyped DEF TypeOK, alarms, bounds

\* The reverse pass.
LEMMA ScanTyped ==
  ASSUME TypeOK, NEW i \in Instances,
         \/ \E t \in Owned(i) : ScanTask(i, t)
         \/ \E c \in ChildrenOf(i) : ScanCall(i, c) \/ RetainCall(i, c)
         \/ ScanNothing(i)
  PROVE  TypeOK'
<1>1. pos' \in [Instances -> Nat] /\ \A j \in Instances : pos'[j] <= Len(Body[j]) + 1
  <2>1. pos' = pos \/ pos' = [pos EXCEPT ![i] = 0]
    BY DEF ScanTask, ScanCall, RetainCall, ScanNothing
  <2>2. 0 <= Len(Body[i]) + 1
    BY Bodies
  <2> QED
    BY <2>1, <2>2, RowsShape
<1>2. ledger' \in [Steps -> Marks]
  <2>1. \/ ledger' = ledger
        \/ \E s \in Steps : \E as \in {"pending", "notRequired"} : ledger' = Recorded(s, as)
    BY Bodies DEF ScanTask, ScanCall, RetainCall, ScanNothing, Steps
  <2> QED
    BY <2>1, JobsShape DEF Recorded, Marks
<1>3. drive' \in [Instances -> Drives]
  <2>1. {"pass", "retain"} \subseteq Pcs
    BY DEF Pcs
  <2>2. CASE Goes(i, "pass")
    BY <2>1, <2>2, GoesTyped
  <2>3. ASSUME NEW c \in ChildrenOf(i), ScanCall(i, c), ~Goes(i, "pass")
        PROVE  drive' \in [Instances -> Drives]
    <3>1. Listed("visit", c) \in Work
      BY Bodies, RowsShape DEF Listed, Work
    <3>2. <<Listed("visit", c)>> \in Seq(Work)
      BY <3>1
    <3>3. drive' = [drive EXCEPT ![i].pc = "retain", ![i].back = "scan",
                                 ![i].todo = <<Listed("visit", c)>>]
      BY <2>3 DEF ScanCall
    <3> QED
      BY <2>1, <3>2, <3>3, DrivesShape, DrivesTyped
  <2> QED
    BY <2>2, <2>3 DEF ScanTask, RetainCall, ScanNothing
<1>4. UNCHANGED <<status, committed, visit, jobs, sched, alarms, op, bounds>>
  BY DEF ScanTask, ScanCall, RetainCall, ScanNothing
<1> QED
  BY <1>1, <1>2, <1>3, <1>4 DEF TypeOK, Marks, visit, jobs, sched, alarms, bounds

LEMMA PassTyped ==
  ASSUME TypeOK, NEW i \in Instances,
         \/ \E t \in Owned(i) : CreateUndo(i, t)
         \/ \E s \in StepsOf(i) : MarkUndone(i, s) \/ MarkFailed(i, s)
         \/ \E c \in ChildrenOf(i) : BeginChild(i, c)
         \/ Settle(i) \/ ParkPass(i)
  PROVE  TypeOK'
<1>1. comp' \in [Tasks -> JobStates]
  <2>1. \/ comp' = comp
        \/ \E t \in Tasks : comp' = [comp EXCEPT ![t] = "created"]
    BY Bodies DEF CreateUndo, MarkUndone, MarkFailed, BeginChild, Settle, ParkPass, jobs
  <2> QED
    BY <2>1, JobsShape DEF JobStates
<1>2. ledger' \in [Steps -> Marks]
  <2>1. \/ ledger' = ledger
        \/ \E s \in Steps : \E mark \in {"compensated", "failed"} :
             ledger' = [ledger EXCEPT ![s] = mark]
    BY Bodies DEF CreateUndo, MarkUndone, MarkFailed, BeginChild, Settle, ParkPass
  <2> QED
    BY <2>1, JobsShape DEF Marks
<1>3. status' \in [Instances -> Statuses]
  <2>1. \/ status' = status
        \/ \E j \in Instances : \E st \in Statuses : status' = [status EXCEPT ![j] = st]
    <3>1. CASE Settle(i)
      <4>1. status' = [status EXCEPT ![i] = IF @ = "compensating" THEN "compensated" ELSE @]
        BY <3>1 DEF Settle
      <4>2. (IF status[i] = "compensating" THEN "compensated" ELSE status[i]) \in Statuses
        BY RowsShape DEF Statuses
      <4> QED
        BY <4>1, <4>2
    <3>2. ASSUME NEW c \in ChildrenOf(i), BeginChild(i, c)
          PROVE  \E j \in Instances : \E st \in Statuses : status' = [status EXCEPT ![j] = st]
      BY <3>2, Bodies DEF BeginChild, Statuses
    <3> QED
      BY <3>1, <3>2 DEF CreateUndo, MarkUndone, MarkFailed, ParkPass, rows, Statuses
  <2> QED
    BY <2>1, RowsShape
<1>4. drive' \in [Instances -> Drives]
  <2>1. {"scan", "tail", "begun"} \subseteq Pcs
    BY DEF Pcs
  <2>2. ASSUME NEW c \in ChildrenOf(i), BeginChild(i, c) PROVE drive' \in [Instances -> Drives]
    BY <2>1, <2>2, Bodies, DrivesShape, DrivesTyped DEF BeginChild
  <2>3. drive' = drive \/ (\E pc \in {"scan", "tail"} : Goes(i, pc))
        \/ \E c \in ChildrenOf(i) : BeginChild(i, c)
    BY DEF CreateUndo, MarkUndone, MarkFailed, Settle, ParkPass
  <2> QED
    BY <2>1, <2>2, <2>3, GoesTyped, DrivesShape
<1>5. UNCHANGED <<committed, pos, visit, job, sched, alarms, op, bounds>>
  BY DEF CreateUndo, MarkUndone, MarkFailed, BeginChild, Settle, ParkPass, rows, jobs
<1> QED
  BY <1>1, <1>2, <1>3, <1>4, <1>5 DEF TypeOK, Marks, visit, sched, alarms, bounds

LEMMA ShortCutTyped ==
  ASSUME TypeOK, NEW i \in Instances, NEW c \in ChildrenOf(i),
         CountOwed(i, c) \/ ShortCut(i, c)
  PROVE  TypeOK'
<1>1. c \in Instances /\ {"scan", "inner", "counted"} \subseteq Pcs /\ Root \in Instances
  BY Bodies DEF Pcs
<1>2. drive' \in [Instances -> Drives]
  <2>1. \/ drive' = [drive EXCEPT ![i].pc = "scan", ![i].child = Root]
        \/ drive' = [drive EXCEPT ![i].pc = "inner", ![i].back = "scan"]
        \/ Goes(i, "counted")
    BY DEF CountOwed, ShortCut
  <2>2. Goes(i, "counted") => drive' \in [Instances -> Drives]
    BY <1>1, GoesTyped
  <2>3. /\ [drive EXCEPT ![i].pc = "scan", ![i].child = Root] \in [Instances -> Drives]
        /\ [drive EXCEPT ![i].pc = "inner", ![i].back = "scan"] \in [Instances -> Drives]
    BY <1>1, DrivesShape, DrivesTyped
  <2> QED
    BY <2>1, <2>2, <2>3
<1>3. status' \in [Instances -> Statuses]
  <2>1. \/ status' = status
        \/ status' = [status EXCEPT ![c] = IF @ = "compensating" THEN "compensated" ELSE @]
    BY DEF CountOwed, ShortCut, rows
  <2>2. (IF status[c] = "compensating" THEN "compensated" ELSE status[c]) \in Statuses
    BY <1>1, RowsShape DEF Statuses
  <2> QED
    BY <1>1, <2>1, <2>2, RowsShape
<1>4. asked' = asked \/ asked' = asked \cup {c}
  BY DEF CountOwed, ShortCut
<1>5. UNCHANGED <<committed, pos, visit, jobs, ledger, wanted, alive, alarms, op, bounds>>
  BY DEF CountOwed, ShortCut, rows
<1> QED
  BY <1>1, <1>2, <1>3, <1>4, <1>5 DEF TypeOK, visit, jobs, alarms, bounds

\* Workers, the Workflow's backstop and the alarms.
LEMMA WorkerTyped == ASSUME TypeOK, NEW t \in Tasks, Worker(t) PROVE TypeOK'
<1>1. Owner(t) \in Instances
  BY Owners DEF Steps
<1>2. job' \in [Tasks -> JobStates] /\ comp' \in [Tasks -> JobStates]
  <2>1. \E end \in {"done", "failed"} :
          \/ job' = [job EXCEPT ![t] = end] /\ UNCHANGED comp
          \/ comp' = [comp EXCEPT ![t] = end] /\ UNCHANGED job
    BY DEF Worker
  <2> QED
    BY <2>1, JobsShape DEF JobStates
<1> QED
  BY <1>1, <1>2 DEF Worker, TypeOK, rows, visit, alarms, bounds

LEMMA BackstopTyped == ASSUME TypeOK, NEW i \in Instances, Backstop(i) PROVE TypeOK'
  BY DEF Backstop, TypeOK, rows, visit, jobs, alarms, bounds

LEMMA AlarmsTyped ==
  ASSUME TypeOK, NEW c \in Children, PlanFire(c) \/ CommitFire(c) \/ Ring(c) \/ Hush(c)
  PROVE  TypeOK'
<1>1. Owner(c) \in Instances
  BY Owners DEF Steps
<1>2. CASE PlanFire(c)
  BY <1>2 DEF PlanFire, TypeOK, rows, visit, jobs, sched, bounds
<1>3. CASE CommitFire(c)
  <2>1. /\ timer' = timer \/ timer' = [timer EXCEPT ![c] = "fired"]
        /\ status' = status \/ status' = [status EXCEPT ![Owner(c)] = "running"]
        /\ wanted' \in {wanted, wanted \cup {Owner(c)}} /\ fire' = fire \ {c}
    BY <1>3 DEF CommitFire
  <2>2. timer' \in [Children -> {"none", "armed", "fired", "cancelled"}]
    BY <2>1, VisitShape
  <2>3. status' \in [Instances -> Statuses]
    BY <1>1, <2>1, RowsShape DEF Statuses
  <2> QED
    BY <1>1, <1>3, <2>1, <2>2, <2>3 DEF CommitFire, TypeOK, jobs, bounds
<1>4. CASE Ring(c)
  <2>1. notify' \in [Children -> 0..Tries \cup {Off}]
    <3>1. notify' = notify \/ (notify[c] < Tries /\ notify' = [notify EXCEPT ![c] = @ + 1])
      BY <1>4 DEF Ring
    <3>2. notify \in [Children -> 0..Tries \cup {Off}]
      BY DEF TypeOK
    <3> QED
      BY <3>1, <3>2 DEF Tries, Off
  <2>2. wanted' \subseteq Instances /\ lost' \in 0..MaxLost
    <3>1. Tickle(wanted, Owner(c)) \/ UNCHANGED <<wanted, lost>>
      BY <1>4 DEF Ring
    <3> QED
      BY <1>1, <3>1, TickleTyped DEF TypeOK
  <2> QED
    BY <1>4, <2>1, <2>2 DEF Ring, TypeOK, rows, visit, jobs
<1>5. CASE Hush(c)
  <2>1. notify' \in [Children -> 0..Tries \cup {Off}]
    BY <1>5 DEF Hush, TypeOK
  <2> QED
    BY <1>5, <2>1 DEF Hush, TypeOK, rows, visit, jobs, sched, bounds
<1> QED
  BY <1>2, <1>3, <1>4, <1>5

\* The operator's calls.
LEMMA OpsTyped ==
  ASSUME op \in Operators, NEW todo \in Seq(Work), NEW healed \in SUBSET Instances,
         NEW pc \in {"idle", "abandon", "cascade", "decide", "close", "open", "resume", "heal",
                     "root"}
  PROVE  /\ NoCall \in Operators /\ [op EXCEPT !.pc = pc] \in Operators
         /\ [op EXCEPT !.pc = pc, !.todo = todo] \in Operators
         /\ [op EXCEPT !.todo = todo] \in Operators
         /\ [op EXCEPT !.todo = todo, !.healed = @ \cup healed] \in Operators
  BY EmptySeq DEF NoCall, Operators

LEMMA CancelTyped ==
  ASSUME TypeOK, Cancel \/ AbandonRoot \/ CascadeAll \/ TerminateRoot \/ Decide \/ Close \/ Open
                 \/ Resume
  PROVE  TypeOK'
<1>1. op \in Operators /\ Root \in Instances /\ op.todo \in Seq(Work)
  BY Bodies DEF TypeOK, Operators
<1>2. CASE Cancel
  <2>1. op' \in Operators
    BY <1>1, <1>2, OpsTyped DEF Cancel
  <2> QED
    BY <1>2, <2>1, Bounds DEF Cancel, CallOnRoot, TypeOK, rows, visit, jobs, sched, alarms
<1>3. CASE AbandonRoot
  <2>1. job' \in [Tasks -> JobStates]
    BY <1>3, JobsShape DEF AbandonRoot, ForwardAbandoned, JobStates
  <2>2. timer' \in [Children -> {"none", "armed", "fired", "cancelled"}]
    BY <1>3, VisitShape DEF AbandonRoot, TimersCancelled
  <2>3. op' \in Operators
    BY <1>1, <1>3, OpsTyped, ElementsTyped DEF AbandonRoot
  <2> QED
    BY <1>3, <2>1, <2>2, <2>3 DEF AbandonRoot, TypeOK, rows, sched, alarms, bounds
<1>4. CASE CascadeAll
  <2> DEFINE w == Head(op.todo)
  <2>1. w \in Work /\ Tail(op.todo) \in Seq(Work) /\ Cascades(w) /\ drive' = Drained(w)
    BY <1>1, <1>4, HeadsTyped DEF CascadeAll
  <2>2. Unfolds(w) \o Tail(op.todo) \in Seq(Work)
    BY <2>1, RowsShape, UnfoldsTyped
  <2>3. op' = [op EXCEPT !.todo = Unfolds(w) \o Tail(op.todo)]
    BY <1>4 DEF CascadeAll
  <2>4. op' \in Operators
    BY <1>1, <2>2, <2>3 DEF Operators
  <2>5. UNCHANGED <<committed, pos, ledger, asked, alarms, bounds>>
    BY <1>4 DEF CascadeAll
  <2> HIDE DEF w
  <2> QED
    BY <2>1, <2>4, <2>5, CascadesTyped DEF TypeOK, alarms, bounds
<1>5. CASE TerminateRoot
  <2>1. "idle" \in Pcs
    BY DEF Pcs
  <2>2. drive' \in [Instances -> Drives]
    BY <1>1, <1>5, <2>1, DrivesShape, DrivesTyped DEF TerminateRoot, Killed
  <2>3. op' \in Operators
    BY <1>1, <1>5, OpsTyped DEF TerminateRoot
  <2> QED
    BY <1>5, <2>2, <2>3 DEF TerminateRoot, Terminated, TypeOK, rows, visit, jobs, alarms, bounds
<1>6. CASE Decide
  <2>1. op' \in Operators
    BY <1>1, <1>6 DEF Decide, Operators
  <2> QED
    BY <1>6, <2>1 DEF Decide, TypeOK, rows, visit, jobs, sched, alarms, bounds
<1>7. CASE Close \/ Open
  <2>1. op' \in Operators
    BY <1>1, <1>7, OpsTyped, EmptySeq DEF Close, Open
  <2>2. status' \in [Instances -> Statuses]
    BY <1>1, <1>7, RowsShape DEF Close, Open, Statuses
  <2> QED
    BY <1>7, <2>1, <2>2 DEF Close, Open, TypeOK, visit, jobs, sched, alarms, bounds
<1>8. CASE Resume
  <2>1. op' \in Operators
    BY <1>1, <1>8, EmptySeq DEF Resume, NoCall, Operators
  <2> QED
    BY <1>1, <1>8, <2>1 DEF Resume, TypeOK, rows, visit, jobs, alarms, bounds
<1> QED
  BY <1>2, <1>3, <1>4, <1>5, <1>6, <1>7, <1>8

LEMMA HealWithTyped ==
  ASSUME TypeOK, NEW items \in Seq(Work), NEW healed \in SUBSET Instances, op.todo # <<>>,
         HealWith(items, healed)
  PROVE  op' \in Operators
<1>1. op \in Operators /\ op.todo \in Seq(Work)
  BY DEF TypeOK, Operators
<1>2. Tail(op.todo) \in Seq(Work)
  BY <1>1, HeadsTyped
<1>3. items \o Tail(op.todo) \in Seq(Work)
  BY <1>2, ConcatProperties
<1>4. op' = [op EXCEPT !.todo = items \o Tail(op.todo), !.healed = @ \cup healed]
  BY DEF HealWith
<1> QED
  BY <1>1, <1>3, <1>4 DEF Operators

\* The item at the head of the operator's list.
LEMMA AtTyped ==
  ASSUME TypeOK, op.todo # <<>>
  PROVE  At \in Instances /\ Head(op.todo) \in Work
<1>1. op.todo \in Seq(Work)
  BY DEF TypeOK, Operators
<1> QED
  BY <1>1, HeadsTyped DEF At

LEMMA ReopensTyped ==
  ASSUME TypeOK, NEW i \in Instances, ReopenUndo(i) \/ ReopenTask(i)
  PROVE  job' \in [Tasks -> JobStates] /\ comp' \in [Tasks -> JobStates]
         /\ ledger' \in [Steps -> Marks]
<1>1. CASE ReopenUndo(i)
  <2>1. PICK s \in Failed(i) :
          /\ comp' = IF s \in Tasks THEN [comp EXCEPT ![s] = "created"] ELSE comp
          /\ ledger' = [ledger EXCEPT ![s] = "pending"] /\ UNCHANGED job
    BY <1>1 DEF ReopenUndo
  <2>2. s \in Steps
    BY Bodies DEF Failed
  <2> QED
    BY <2>1, <2>2, JobsShape DEF JobStates, Marks
<1>2. CASE ReopenTask(i)
  <2>1. job' = job \/ \E t \in Tasks : job' = [job EXCEPT ![t] = "created"]
    BY <1>2 DEF ReopenTask
  <2> QED
    BY <1>2, <2>1, JobsShape DEF ReopenTask, JobStates
<1> QED
  BY <1>1, <1>2

LEMMA RetryTyped ==
  ASSUME TypeOK, Retry \/ Descend \/ Heal \/ Reset \/ Move \/ Join \/ RetryRoot \/ RetryDone
  PROVE  TypeOK'
<1>1. op \in Operators /\ Root \in Instances /\ op.todo \in Seq(Work)
  BY Bodies DEF TypeOK, Operators
<1>2. NoCall \in Operators
  BY <1>1, EmptySeq DEF NoCall, Operators
<1>3. \A i \in Instances : Descents(i) \in Seq(Work)
  BY ListTyped, RowsShape DEF Descents
<1>4. CASE Retry
  <2>1. op' \in Operators
    BY <1>1, <1>3, <1>4, OpsTyped DEF Retry
  <2> QED
    BY <1>4, <2>1, Bounds DEF Retry, CallOnRoot, TypeOK, rows, visit, jobs, sched, alarms
<1>5. CASE Descend
  <2>1. op.todo # <<>> /\ At \in Instances /\ Head(op.todo) \in Work
    BY <1>5, AtTyped DEF Descend, Heals
  <2>2. [Head(op.todo) EXCEPT !.do = "heal"] \in Work
    BY <2>1 DEF Work
  <2>3. <<[Head(op.todo) EXCEPT !.do = "heal"]>> \in Seq(Work)
    BY <2>2
  <2>4. Descents(At) \o <<[Head(op.todo) EXCEPT !.do = "heal"]>> \in Seq(Work)
    BY <1>3, <2>1, <2>3, ConcatProperties
  <2>5. \E items \in Seq(Work) : HealWith(items, {})
    BY <1>5, <2>4, EmptySeq DEF Descend
  <2>6. op' \in Operators
    BY <2>1, <2>5, HealWithTyped
  <2> QED
    BY <1>5, <2>6 DEF Descend, TypeOK, rows, visit, jobs, sched, alarms, bounds
<1>6. CASE Heal
  <2>1. op.todo # <<>> /\ At \in Instances
    BY <1>6, AtTyped DEF Heal, Heals
  <2>2. Do("reset", At) \in Work
    BY <2>1, ItemsTyped DEF Statuses
  <2>3. <<Do("reset", At)>> \in Seq(Work)
    BY <2>2
  <2>5. \E items \in Seq(Work) : HealWith(items, {})
    BY <1>6, <2>3, EmptySeq DEF Heal
  <2>6. op' \in Operators
    BY <2>1, <2>5, HealWithTyped
  <2> QED
    BY <1>6, <2>6 DEF Heal, TypeOK, rows, visit, jobs, sched, alarms, bounds
<1>7. CASE Reset
  <2>1. op.todo # <<>> /\ At \in Instances
    BY <1>7, AtTyped DEF Reset, Heals
  <2>2. UNCHANGED <<rows, visit, drive, asked, alive, alarms, bounds>>
    BY <1>7 DEF Reset
  <2>3. CASE Refused /\ UNCHANGED <<jobs, ledger>>
    BY <1>1, <1>2, <2>2, <2>3 DEF Refused, TypeOK, rows, visit, jobs, alarms, bounds
  <2>4. CASE /\ ReopenUndo(At) \/ ReopenTask(At)
             /\ HealWith(<<[Do("move", At) EXCEPT !.seen = status[At]]>>, {}) /\ UNCHANGED wanted
    <3>1. [Do("move", At) EXCEPT !.seen = status[At]] \in Work
      BY <2>1, RowsShape, ItemsTyped
    <3>2. <<[Do("move", At) EXCEPT !.seen = status[At]]>> \in Seq(Work)
      BY <3>1
    <3> DEFINE items == <<[Do("move", At) EXCEPT !.seen = status[At]]>>
    <3>4. HealWith(items, {}) /\ {} \in SUBSET Instances
      BY <2>4
    <3> HIDE DEF items
    <3>3. op' \in Operators
      BY <2>1, <3>2, <3>4, HealWithTyped DEF items
    <3> QED
      BY <2>1, <2>2, <2>4, <3>3, ReopensTyped DEF TypeOK, Marks, rows, visit, alarms, bounds
  <2> QED
    BY <1>7, <2>3, <2>4 DEF Reset
<1>8. CASE Move
  <2>1. op.todo # <<>> /\ At \in Instances
    BY <1>8, AtTyped DEF Move, Heals
  <2>2. Do("join", At) \in Work
    BY <2>1, ItemsTyped DEF Statuses
  <2>3. <<Do("join", At)>> \in Seq(Work)
    BY <2>2
  <2>4. CASE status[At] = Head(op.todo).seen
    <3>3. HealWith(<<Do("join", At)>>, {At}) /\ {At} \in SUBSET Instances
      BY <1>8, <2>1, <2>4 DEF Move
    <3>1. op' \in Operators
      BY <2>1, <2>3, <3>3, HealWithTyped
    <3>2. status' \in [Instances -> Statuses] /\ wanted' = wanted \cup {At}
      BY <1>8, <2>1, <2>4, RowsShape DEF Move, Statuses
    <3> QED
      BY <1>8, <2>1, <3>1, <3>2 DEF Move, TypeOK, visit, jobs, alarms, bounds
  <2>5. CASE status[At] # Head(op.todo).seen
    BY <1>1, <1>2, <1>8, <2>5 DEF Move, Refused, TypeOK, visit, jobs, alarms, bounds
  <2> QED
    BY <2>4, <2>5
<1>9. CASE Join
  <2>1. op' \in Operators
    BY <1>9, EmptySeq, HealWithTyped DEF Join, Heals
  <2> QED
    BY <1>9, <2>1 DEF Join, TypeOK, rows, visit, jobs, sched, alarms, bounds
<1>10. CASE RetryRoot \/ RetryDone
  <2>1. <<Do("reset", Root)>> \in Seq(Work)
    <3>1. Do("reset", Root) \in Work
      BY <1>1, ItemsTyped DEF Statuses
    <3> QED
      BY <3>1
  <2>2. op' \in Operators /\ wanted' \subseteq Instances
    BY <1>1, <1>2, <1>10, <2>1, OpsTyped, DrivesShape DEF RetryRoot, RetryDone, sched
  <2> QED
    BY <1>10, <2>2 DEF RetryRoot, RetryDone, TypeOK, rows, visit, jobs, sched, alarms, bounds
<1> QED
  BY <1>4, <1>5, <1>6, <1>7, <1>8, <1>9, <1>10

LEMMA NextTyped == TypeOK /\ [Next]_vars => TypeOK'
<1> SUFFICES ASSUME TypeOK, [Next]_vars PROVE TypeOK'
  OBVIOUS
<1>1. ASSUME NEW i \in Instances, Forward(i) PROVE TypeOK'
  <2>1. Owned(i) \subseteq Tasks
    BY Bodies
  <2> QED
    BY <1>1, <2>1, StartTyped, TaskStepsTyped, InvokeTyped, CallStepsTyped, WalkEndsTyped,
       SyncTyped, LeaveTyped
    DEF Forward
<1>2. ASSUME NEW i \in Instances, Backward(i) PROVE TypeOK'
  BY <1>2, ScanTyped, PassTyped, ShortCutTyped DEF Backward
<1>3. CASE Operator
  BY <1>3, CancelTyped, RetryTyped DEF Operator
<1>4. CASE UNCHANGED vars
  BY <1>4 DEF TypeOK, vars, rows, visit, jobs, sched, alarms, bounds
<1> QED
  BY <1>1, <1>2, <1>3, <1>4, CascadeTyped, BackstopTyped, WorkerTyped, AlarmsTyped
  DEF Next, Timers, Notifications

\* Every row, alarm and process keeps its shape, whatever drives, alarms, workers and the
\* operator do to the tree.
THEOREM TypeCorrect == Spec => []TypeOK
  BY InitTyped, NextTyped, PTL DEF Spec

-----------------------------------------------------------------------------
(* Who writes what.                                                            *)

\* No instance becomes compensated or cancelled.
NoneEnds ==
  \A j \in Instances : status'[j] = status[j] \/ status'[j] \notin {"compensated", "cancelled"}

LEMMA ForwardWrites ==
  ASSUME TypeOK, NEW i \in Instances, Forward(i)
  PROVE  /\ comp' = comp
         /\ job' = job \/ \E t \in Owned(i) : CreateJob(i, t) \/ ApplyTask(i, t)
         /\ \/ ledger' = ledger \/ Commit(i)
            \/ (\E t \in Owned(i) : ApplyTask(i, t)) \/ \E c \in ChildrenOf(i) : ApplyChild(i, c)
         /\ pos' = pos \/ Sync(i)
         /\ \/ UNCHANGED <<bound, timer>>
            \/ \E c \in ChildrenOf(i) :
                 Invoke(i, c) \/ ApplyChild(i, c) \/ RouteError(i, c) \/ FlipUncaught(i, c)
<1> USE DEF rows, visit, jobs
<1>1. ASSUME NEW t \in Owned(i), ParkTask(i, t) \/ TaskFails(i, t) \/ CreateJob(i, t)
      PROVE  UNCHANGED <<comp, ledger, pos, bound, timer>> /\ (job' = job \/ CreateJob(i, t))
  BY <1>1 DEF ParkTask, TaskFails, CreateJob
<1>2. ASSUME NEW t \in Owned(i), ApplyTask(i, t) PROVE UNCHANGED <<comp, pos, bound, timer>>
  BY <1>2 DEF ApplyTask
<1>3. ASSUME NEW c \in ChildrenOf(i), StopAtUncaught(i, c) \/ ParkCall(i, c) \/ TimerExit(i, c)
      PROVE  UNCHANGED <<comp, ledger, pos, bound, timer, job>>
  BY <1>3 DEF StopAtUncaught, ParkCall, TimerExit
<1>4. ASSUME NEW c \in ChildrenOf(i),
             Invoke(i, c) \/ ApplyChild(i, c) \/ RouteError(i, c) \/ FlipUncaught(i, c)
      PROVE  UNCHANGED <<comp, pos, job>> /\ (ledger' = ledger \/ ApplyChild(i, c))
  BY <1>4 DEF Invoke, ApplyChild, RouteError, FlipUncaught
<1>5. ASSUME StartDrive(i) \/ Return(i) \/ RaiseUncaught(i) \/ LookOn(i) \/ TimerExited(i)
             \/ Complete(i) \/ EndErrored(i) \/ Leave(i)
      PROVE  UNCHANGED <<comp, ledger, pos, bound, timer, job>>
  BY <1>5 DEF StartDrive, Return, RaiseUncaught, LookOn, TimerExited, Complete, EndErrored, Leave
<1>6. ASSUME Commit(i) \/ Sync(i)
      PROVE  /\ UNCHANGED <<comp, bound, timer, job>>
             /\ ledger' = ledger \/ Commit(i)
             /\ pos' = pos \/ Sync(i)
  BY <1>6 DEF Commit, Sync
<1> QED
  BY <1>1, <1>2, <1>3, <1>4, <1>5, <1>6 DEF Forward

LEMMA ForwardEndsNone == ASSUME TypeOK, NEW i \in Instances, Forward(i) PROVE NoneEnds
<1> USE RowsShape DEF rows, NoneEnds, Incident
<1>1. ASSUME NEW t \in Owned(i), ParkTask(i, t) \/ TaskFails(i, t) \/ CreateJob(i, t)
                                 \/ ApplyTask(i, t)
      PROVE  NoneEnds
  BY <1>1 DEF ParkTask, TaskFails, CreateJob, ApplyTask
<1>2. ASSUME NEW c \in ChildrenOf(i), StopAtUncaught(i, c) \/ ParkCall(i, c) \/ TimerExit(i, c)
      PROVE  NoneEnds
  BY <1>2 DEF StopAtUncaught, ParkCall, TimerExit
<1>3. ASSUME NEW c \in ChildrenOf(i),
             ApplyChild(i, c) \/ RouteError(i, c) \/ FlipUncaught(i, c)
      PROVE  NoneEnds
  BY <1>3 DEF ApplyChild, RouteError, FlipUncaught
<1>4. ASSUME NEW c \in ChildrenOf(i), Invoke(i, c) PROVE NoneEnds
  <2>1. status' = status \/ status' = [status EXCEPT ![c] = "starting"]
    BY <1>4 DEF Invoke, NewChild
  <2> QED
    BY <2>1
<1>5. ASSUME StartDrive(i) \/ Return(i) \/ RaiseUncaught(i) \/ LookOn(i) \/ TimerExited(i)
             \/ Leave(i) \/ Sync(i)
      PROVE  NoneEnds
  BY <1>5 DEF StartDrive, Return, RaiseUncaught, LookOn, TimerExited, Leave, Sync
<1>6. ASSUME Complete(i) \/ EndErrored(i) \/ Commit(i) PROVE NoneEnds
  BY <1>6 DEF Complete, EndErrored, Commit
<1> QED
  BY <1>1, <1>2, <1>3, <1>4, <1>5, <1>6 DEF Forward

LEMMA BackwardWrites ==
  ASSUME TypeOK, NEW i \in Instances, Backward(i)
  PROVE  /\ UNCHANGED <<job, bound, timer>>
         /\ comp' = comp \/ \E t \in Owned(i) : CreateUndo(i, t)
         /\ \/ ledger' = ledger
            \/ \E t \in Owned(i) : ScanTask(i, t)
            \/ \E c \in ChildrenOf(i) : RetainCall(i, c)
            \/ \E s \in StepsOf(i) : MarkUndone(i, s) \/ MarkFailed(i, s)
         /\ pos' = pos \/ pos' = [pos EXCEPT ![i] = 0]
         /\ NoneEnds \/ Settle(i) \/ \E c \in ChildrenOf(i) : ShortCut(i, c)
<1> USE DEF rows, visit, jobs
<1>1. ASSUME NEW t \in Owned(i), ScanTask(i, t) \/ CreateUndo(i, t)
      PROVE  /\ UNCHANGED <<job, bound, timer, status>> /\ (comp' = comp \/ CreateUndo(i, t))
             /\ ledger' = ledger \/ ScanTask(i, t)
             /\ pos' = pos \/ pos' = [pos EXCEPT ![i] = 0]
  BY <1>1 DEF ScanTask, CreateUndo
<1>2. ASSUME NEW c \in ChildrenOf(i), ScanCall(i, c) \/ RetainCall(i, c)
      PROVE  /\ UNCHANGED <<job, bound, timer, status, comp>>
             /\ ledger' = ledger \/ RetainCall(i, c)
             /\ pos' = pos \/ pos' = [pos EXCEPT ![i] = 0]
  BY <1>2 DEF ScanCall, RetainCall
<1>3. ASSUME NEW c \in ChildrenOf(i), BeginChild(i, c)
      PROVE  UNCHANGED <<job, bound, timer, comp, ledger, pos>> /\ NoneEnds
  BY <1>3, RowsShape DEF BeginChild, NoneEnds
<1>4. ASSUME NEW s \in StepsOf(i), MarkUndone(i, s) \/ MarkFailed(i, s)
      PROVE  UNCHANGED <<job, bound, timer, comp, pos>> /\ NoneEnds
  BY <1>4, RowsShape DEF MarkUndone, MarkFailed, NoneEnds
<1>5. ASSUME \/ Settle(i)
             \/ \E c \in ChildrenOf(i) : CountOwed(i, c) \/ ShortCut(i, c)
      PROVE  UNCHANGED <<job, bound, timer, comp, ledger, pos>>
  BY <1>5 DEF Settle, CountOwed, ShortCut
<1>8. ASSUME NEW c \in ChildrenOf(i), CountOwed(i, c) PROVE status' = status
  BY <1>8 DEF CountOwed
<1>6. ASSUME ScanNothing(i) \/ ParkPass(i)
      PROVE  /\ UNCHANGED <<job, bound, timer, comp, ledger, status>>
             /\ pos' = pos \/ pos' = [pos EXCEPT ![i] = 0]
  BY <1>6 DEF ScanNothing, ParkPass
<1>7. status' = status => NoneEnds
  BY DEF NoneEnds
<1> QED
  BY <1>1, <1>2, <1>3, <1>4, <1>5, <1>6, <1>7, <1>8 DEF Backward

\* A cascade, of a drive or of the operator, abandons, disarms and cancels, and leaves the
\* ledger to the reverse pass.
Cancels(w) ==
  /\ UNCHANGED <<bound, comp, ledger, pos>>
  /\ job' = job \/ ForwardAbandoned(w.at)
  /\ timer' = timer \/ TimersCancelled(w.at)
  /\ status' = status \/ status' = [status EXCEPT ![w.at] = Settled(w.at)]

LEMMA CascadeWrites ==
  /\ \A i \in Instances : Cascade(i) => Cancels(Head(drive[i].todo))
  /\ CascadeAll => Cancels(Head(op.todo))
<1>1. \A w : Cascades(w) /\ UNCHANGED <<pos, ledger>> => Cancels(w)
  BY DEF Cascades, Cancels, visit, jobs, Terminated
<1> QED
  BY <1>1 DEF Cascade, CascadeAll

\* The alarms and the backstop.
LEMMA AlarmWrites ==
  ASSUME TypeOK, \/ \E i \in Instances : Backstop(i)
                 \/ \E c \in Children : Timers(c) \/ Notifications(c)
  PROVE  /\ UNCHANGED <<bound, job, comp, ledger, pos>> /\ NoneEnds
         /\ timer' = timer
            \/ \E c \in Children : timer[c] = "armed" /\ timer' = [timer EXCEPT ![c] = "fired"]
<1> USE DEF rows, visit, jobs
<1>1. ASSUME NEW i \in Instances, Backstop(i)
      PROVE  UNCHANGED <<bound, job, comp, ledger, pos, timer, status>>
  BY <1>1 DEF Backstop
<1>2. ASSUME NEW c \in Children, PlanFire(c) \/ Ring(c) \/ Hush(c)
      PROVE  UNCHANGED <<bound, job, comp, ledger, pos, timer, status>>
  BY <1>2 DEF PlanFire, Ring, Hush
<1>3. ASSUME NEW c \in Children, CommitFire(c)
      PROVE  /\ UNCHANGED <<bound, job, comp, ledger, pos>> /\ NoneEnds
             /\ timer' = timer
                \/ (timer[c] = "armed" /\ timer' = [timer EXCEPT ![c] = "fired"])
  BY <1>3, RowsShape DEF CommitFire, NoneEnds
<1>4. status' = status => NoneEnds
  BY DEF NoneEnds
<1> QED
  BY <1>1, <1>2, <1>3, <1>4 DEF Timers, Notifications

LEMMA OperatorWrites ==
  ASSUME TypeOK, Operator, ~CascadeAll
  PROVE  /\ UNCHANGED <<bound, pos>>
         /\ job' = job \/ (AbandonRoot /\ ForwardAbandoned(Root)) \/ Reset
         /\ comp' = comp \/ Reset
         /\ ledger' = ledger \/ Reset
         /\ timer' = timer \/ TimersCancelled(Root)
         /\ NoneEnds \/ (Close /\ \A c \in Children : status'[c] = status[c])
<1> USE DEF rows, visit, jobs
<1>1. CASE Cancel \/ TerminateRoot \/ Decide \/ Resume \/ Retry
  <2>1. UNCHANGED <<bound, pos, job, comp, ledger, timer, status>>
    BY <1>1 DEF Cancel, TerminateRoot, Decide, Resume, Retry, CallOnRoot
  <2> QED
    BY <2>1 DEF NoneEnds
<1>2. CASE Descend \/ Heal \/ Join \/ RetryRoot \/ RetryDone
  <2>1. UNCHANGED <<bound, pos, job, comp, ledger, timer, status>>
    BY <1>2 DEF Descend, Heal, Join, RetryRoot, RetryDone
  <2> QED
    BY <2>1 DEF NoneEnds
<1>3. CASE AbandonRoot
  <2>1. UNCHANGED <<bound, pos, comp, ledger, status>> /\ ForwardAbandoned(Root)
        /\ TimersCancelled(Root)
    BY <1>3 DEF AbandonRoot
  <2> QED
    BY <1>3, <2>1 DEF NoneEnds
<1>4. CASE Reset
  <2>1. UNCHANGED <<bound, pos, timer, status>>
    BY <1>4 DEF Reset
  <2> QED
    BY <1>4, <2>1 DEF NoneEnds
<1>5. CASE Move
  <2>1. UNCHANGED <<bound, pos, job, comp, ledger, timer>>
    BY <1>5 DEF Move
  <2>2. At \in Instances
    BY <1>5, AtTyped DEF Move, Heals
  <2>3. \E st : st \notin {"compensated", "cancelled"}
                /\ (status' = status \/ status' = [status EXCEPT ![At] = st])
    BY <1>5 DEF Move
  <2> QED
    BY <2>1, <2>2, <2>3, RowsShape DEF NoneEnds
<1>6. CASE Close \/ Open
  <2>1. UNCHANGED <<bound, pos, job, comp, ledger, timer>>
    BY <1>6 DEF Close, Open
  <2>2. Open => NoneEnds
    BY RowsShape, Bodies DEF Open, NoneEnds
  <2>3. Close => \A c \in Children : status'[c] = status[c]
    BY RowsShape, Bodies DEF Close, Children
  <2> QED
    BY <1>6, <2>1, <2>2, <2>3
<1> QED
  BY <1>1, <1>2, <1>3, <1>4, <1>5, <1>6 DEF Operator

LEMMA WorkerWrites ==
  ASSUME NEW t \in Tasks, Worker(t)
  PROVE  UNCHANGED <<status, pos, bound, timer, ledger>>
  BY DEF Worker, rows, visit

-----------------------------------------------------------------------------
(* What a step may make of a job, of a call's visit and of a row of the ledger. *)

\* A drive that takes a straggling call into the ledger found it invoked.
Retaining ==
  \A i \in Instances :
    Pc(i, "retain") /\ drive[i].back = "scan" /\ pos[i] \in DOMAIN Body[i]
      /\ Body[i][pos[i]] \in Children
    => bound[Body[i][pos[i]]] # "none"

JobMove(t) ==
  \/ job'[t] = job[t]
  \/ job[t] = "none" /\ job'[t] = "created" /\ \E i \in Instances : WalksAt(i, t)
  \/ job[t] = "created" /\ job'[t] \in {"done", "failed"}
  \/ job[t] = "failed" /\ job'[t] = "created"
  \/ job[t] = "done" /\ job'[t] = "applied" /\ ledger'[t] # "none"

VisitMove(c) ==
  /\ \/ bound'[c] = bound[c]
     \/ bound[c] = "none" /\ bound'[c] = "invoked" /\ \E i \in Instances : WalksAt(i, c)
     \/ bound[c] = "invoked" /\ bound'[c] = "outputApplied"
  /\ timer[c] = "fired" => timer'[c] = "fired"

CompMove(t) ==
  \/ comp'[t] = comp[t]
  \/ comp[t] = "none" /\ comp'[t] = "created" /\ \E i \in Instances : Undoing(i, t)
  \/ comp[t] = "created" /\ comp'[t] \in {"done", "failed"}
  \/ comp'[t] = "created" /\ ledger[t] = "failed" /\ ledger'[t] = "pending"

LedgerMove(s) ==
  \/ ledger'[s] = ledger[s]
  \/ /\ ledger[s] = "none" /\ ledger'[s] \in {"pending", "notRequired"}
     /\ s \in Tasks => job'[s] \in {"done", "applied"}
     /\ s \in Children => bound[s] # "none"
     /\ \E i \in Instances :
          s \in StepsOf(i) /\ (pos[i] \in DOMAIN Body[i] \/ status'[i] = "running")
  \/ ledger[s] = "pending" /\ ledger'[s] = "committed"
  \/ /\ ledger[s] \in {"pending", "failed"} /\ ledger'[s] = "compensated"
     /\ s \in Tasks => comp[s] = "done" /\ comp'[s] = "done"
     /\ s \in Children => status[s] = "compensated"
  \/ /\ ledger[s] \in {"pending", "failed"} /\ ledger'[s] = "failed"
     /\ s \in Tasks => comp[s] = "failed" /\ comp'[s] = "failed"
  \/ ledger[s] = "failed" /\ ledger'[s] = "pending"

LEMMA WalksOn ==
  ASSUME NEW i \in Instances, NEW s, WalksAt(i, s)
  PROVE  /\ Frontier(i) \in DOMAIN Body[i] /\ Body[i][Frontier(i)] = s
         /\ \A l \in DOMAIN Body[i] : l < Frontier(i) => Behind(Body[i][l])
<1>1. /\ Frontier(i) \in 1..(Len(Body[i]) + 1) /\ Frontier(i) <= Len(Body[i])
      /\ Body[i][Frontier(i)] = s
  BY Frontiers DEF WalksAt, Walking
<1>2. Frontier(i) \in DOMAIN Body[i]
  BY <1>1, Bodies
<1>3. \A r : Passed(r) => Behind(r)
  BY DEF Passed, Behind
<1> QED
  BY <1>1, <1>2, <1>3, Frontiers

LEMMA NoJobMoves ==
  /\ job' = job => \A t \in Tasks : JobMove(t)
  /\ bound' = bound /\ timer' = timer => \A c \in Children : VisitMove(c)
  /\ comp' = comp => \A t \in Tasks : CompMove(t)
  /\ ledger' = ledger => \A s \in Steps : LedgerMove(s)
  BY DEF JobMove, VisitMove, CompMove, LedgerMove

LEMMA ReopenMoves ==
  ASSUME TypeOK, Reset
  PROVE  /\ \A t \in Tasks : JobMove(t) /\ CompMove(t)
         /\ \A s \in Steps : LedgerMove(s)
<1>1. \/ UNCHANGED <<job, comp, ledger>>
      \/ (At \in Instances /\ (ReopenUndo(At) \/ ReopenTask(At)))
  BY AtTyped DEF Reset, Heals, jobs
<1>2. CASE ReopenTask(At) /\ At \in Instances
  <2>1. comp' = comp /\ ledger' = ledger
    BY <1>2 DEF ReopenTask
  <2>2. job' = job \/ \E t \in Tasks : job[t] = "failed" /\ job' = [job EXCEPT ![t] = "created"]
    BY <1>2 DEF ReopenTask
  <2>3. \A t \in Tasks : JobMove(t)
    BY <2>2, JobsShape DEF JobMove
  <2> QED
    BY <2>1, <2>3, NoJobMoves
<1>3. CASE ReopenUndo(At) /\ At \in Instances
  <2>1. PICK s \in Failed(At) :
          /\ comp' = IF s \in Tasks THEN [comp EXCEPT ![s] = "created"] ELSE comp
          /\ ledger' = [ledger EXCEPT ![s] = "pending"] /\ UNCHANGED job
    BY <1>3 DEF ReopenUndo
  <2>2. s \in Steps /\ ledger[s] = "failed"
    BY <1>3, Bodies DEF Failed
  <2>3. ledger'[s] = "pending" /\ \A r \in Steps \ {s} : ledger'[r] = ledger[r]
    BY <2>1, <2>2, JobsShape
  <2>4. \A t \in Tasks : comp'[t] = comp[t] \/ (t = s /\ comp'[t] = "created")
    BY <2>1, JobsShape
  <2>5. \A t \in Tasks : CompMove(t)
    BY <2>2, <2>3, <2>4 DEF CompMove
  <2>6. \A r \in Steps : LedgerMove(r)
    BY <2>2, <2>3 DEF LedgerMove
  <2> QED
    BY <2>1, <2>5, <2>6, NoJobMoves
<1> QED
  BY <1>1, <1>2, <1>3, NoJobMoves

LEMMA AbandonMoves ==
  ASSUME TypeOK, NEW i, ForwardAbandoned(i)
  PROVE  \A t \in Tasks : JobMove(t)
  BY JobsShape DEF ForwardAbandoned, JobMove

LEMMA DisarmMoves ==
  ASSUME TypeOK, NEW i, TimersCancelled(i) \/ timer' = timer, bound' = bound
  PROVE  \A c \in Children : VisitMove(c)
  BY VisitShape DEF TimersCancelled, VisitMove

LEMMA ForwardMoves ==
  ASSUME TypeOK, NEW i \in Instances, Forward(i)
  PROVE  /\ \A t \in Tasks : JobMove(t) /\ CompMove(t)
         /\ \A c \in Children : VisitMove(c)
         /\ \A s \in Steps : LedgerMove(s)
<1>1. \A t \in Tasks : JobMove(t)
  <2>1. ASSUME NEW t \in Owned(i), CreateJob(i, t) PROVE \A u \in Tasks : JobMove(u)
    <3>1. t \in Tasks /\ WalksAt(i, t) /\ job[t] = "none" /\ job' = [job EXCEPT ![t] = "created"]
      BY <2>1, Bodies DEF CreateJob
    <3> QED
      BY <3>1, JobsShape DEF JobMove
  <2>2. ASSUME NEW t \in Owned(i), ApplyTask(i, t) PROVE \A u \in Tasks : JobMove(u)
    <3>1. t \in Tasks /\ t \in Steps /\ job[t] = "done" /\ job' = [job EXCEPT ![t] = "applied"]
      BY <2>2, Bodies DEF ApplyTask, Steps
    <3>2. ledger'[t] # "none"
      BY <2>2, <3>1, JobsShape DEF ApplyTask
    <3> QED
      BY <3>1, <3>2, JobsShape DEF JobMove
  <2> QED
    BY <2>1, <2>2, ForwardWrites, NoJobMoves
<1>2. \A c \in Children : VisitMove(c)
  <2>1. ASSUME NEW c \in ChildrenOf(i), Invoke(i, c) PROVE \A d \in Children : VisitMove(d)
    <3>1. /\ bound' = bound \/ (bound[c] = "none" /\ bound' = [bound EXCEPT ![c] = "invoked"])
          /\ timer' = timer \/ timer' = [timer EXCEPT ![c] = "armed"]
          /\ WalksAt(i, c) /\ timer[c] # "fired" /\ c \in Children
      BY <2>1, Bodies DEF Invoke, NewChild, visit
    <3> QED
      BY <3>1, VisitShape DEF VisitMove
  <2>2. ASSUME NEW c \in ChildrenOf(i), ApplyChild(i, c) \/ RouteError(i, c) \/ FlipUncaught(i, c)
        PROVE  \A d \in Children : VisitMove(d)
    <3>1. /\ bound' = bound \/ bound' = [bound EXCEPT ![c] = "outputApplied"]
          /\ bound[c] = "invoked" /\ c \in Children
          /\ timer' = timer \/ (timer[c] = "armed" /\ timer' = [timer EXCEPT ![c] = "cancelled"])
      BY <2>2, Bodies DEF ApplyChild, RouteError, FlipUncaught, ToApply
    <3> QED
      BY <3>1, VisitShape DEF VisitMove
  <2> QED
    BY <2>1, <2>2, ForwardWrites, NoJobMoves
<1>3. \A s \in Steps : LedgerMove(s)
  <2>1. ASSUME NEW t \in Owned(i), ApplyTask(i, t) PROVE \A s \in Steps : LedgerMove(s)
    <3>1. /\ t \in Tasks /\ t \in Steps /\ t \in StepsOf(i) /\ t \notin Children
          /\ ledger' = [ledger EXCEPT ![t] = IF @ = "none" THEN "pending" ELSE @]
          /\ job'[t] = "applied" /\ status'[i] = "running"
      BY <2>1, Bodies, JobsShape, RowsShape DEF ApplyTask, Steps, Owned, Children
    <3>2. /\ \A s \in Steps \ {t} : ledger'[s] = ledger[s]
          /\ ledger'[t] = ledger[t] \/ (ledger[t] = "none" /\ ledger'[t] = "pending")
      BY <3>1, JobsShape
    <3> QED
      BY <3>1, <3>2 DEF LedgerMove
  <2>2. ASSUME NEW c \in ChildrenOf(i), ApplyChild(i, c) PROVE \A s \in Steps : LedgerMove(s)
    <3>1. /\ c \in Steps /\ c \in StepsOf(i) /\ c \notin Tasks
          /\ ledger' = [ledger EXCEPT ![c] = IF @ = "none" THEN "pending" ELSE @]
          /\ bound[c] = "invoked" /\ status'[i] = "running"
      BY <2>2, Bodies, RowsShape DEF ApplyChild, ToApply, Steps, ChildrenOf
    <3>2. /\ \A s \in Steps \ {c} : ledger'[s] = ledger[s]
          /\ ledger'[c] = ledger[c] \/ (ledger[c] = "none" /\ ledger'[c] = "pending")
      BY <3>1, JobsShape
    <3> QED
      BY <3>1, <3>2 DEF LedgerMove
  <2>3. CASE Commit(i)
    <3>1. \A s \in Steps : ledger'[s] = ledger[s] \/ (ledger[s] = "pending" /\ ledger'[s] = "committed")
      BY <2>3 DEF Commit
    <3> QED
      BY <3>1 DEF LedgerMove
  <2> QED
    BY <2>1, <2>2, <2>3, ForwardWrites, NoJobMoves
<1> QED
  BY <1>1, <1>2, <1>3, ForwardWrites, NoJobMoves

LEMMA BackwardMoves ==
  ASSUME TypeOK, Retaining, NEW i \in Instances, Backward(i)
  PROVE  /\ \A t \in Tasks : JobMove(t) /\ CompMove(t)
         /\ \A c \in Children : VisitMove(c)
         /\ \A s \in Steps : LedgerMove(s)
<1>1. \A t \in Tasks : CompMove(t)
  <2>1. ASSUME NEW t \in Owned(i), CreateUndo(i, t) PROVE \A u \in Tasks : CompMove(u)
    <3>1. /\ t \in Tasks /\ comp[t] = "none" /\ comp' = [comp EXCEPT ![t] = "created"]
          /\ Undoing(i, t)
      BY <2>1, Bodies DEF CreateUndo
    <3> QED
      BY <3>1, JobsShape DEF CompMove
  <2> QED
    BY <2>1, BackwardWrites, NoJobMoves
<1>2. \A s \in Steps : LedgerMove(s)
  <2>1. ASSUME NEW t \in Owned(i), ScanTask(i, t) PROVE \A s \in Steps : LedgerMove(s)
    <3>1. /\ t \in Tasks /\ t \in Steps /\ t \in StepsOf(i) /\ t \notin Children
          /\ ledger' = ledger \/ (job[t] \in {"done", "applied"} /\ ledger' = Recorded(t, "pending"))
          /\ job' = job /\ pos[i] \in DOMAIN Body[i]
      BY <2>1, Bodies DEF ScanTask, Steps, Owned, Children, jobs
    <3>2. /\ \A s \in Steps \ {t} : ledger'[s] = ledger[s]
          /\ \/ ledger'[t] = ledger[t]
             \/ job[t] \in {"done", "applied"} /\ ledger[t] = "none" /\ ledger'[t] = "pending"
      BY <3>1, JobsShape DEF Recorded
    <3> QED
      BY <3>1, <3>2 DEF LedgerMove
  <2>2. ASSUME NEW c \in ChildrenOf(i), RetainCall(i, c) PROVE \A s \in Steps : LedgerMove(s)
    <3>1. /\ c \in Steps /\ c \in StepsOf(i) /\ c \in Children /\ c \notin Tasks
          /\ pos[i] \in DOMAIN Body[i] /\ Body[i][pos[i]] = c
          /\ Pc(i, "retain") /\ drive[i].back = "scan"
      BY <2>2, Bodies DEF RetainCall, Steps, ChildrenOf, Pc
    <3>2. bound[c] # "none"
      BY <3>1 DEF Retaining
    <3>3. \E as \in {"pending", "notRequired"} : ledger' = Recorded(c, as)
      BY <2>2 DEF RetainCall
    <3>4. /\ \A s \in Steps \ {c} : ledger'[s] = ledger[s]
          /\ \/ ledger'[c] = ledger[c]
             \/ ledger[c] = "none" /\ ledger'[c] \in {"pending", "notRequired"}
      BY <3>1, <3>3, JobsShape DEF Recorded
    <3> QED
      BY <3>1, <3>2, <3>4 DEF LedgerMove
  <2>3. ASSUME NEW s \in StepsOf(i), MarkUndone(i, s) \/ MarkFailed(i, s)
        PROVE  \A r \in Steps : LedgerMove(r)
    <3>1. s \in Steps /\ ledger[s] \in {"pending", "failed"} /\ comp' = comp
          /\ (s \in Children => s \notin Tasks)
      BY <2>3, UndoingOwed, Bodies DEF MarkUndone, MarkFailed, jobs, Children
    <3>2. \/ /\ ledger' = [ledger EXCEPT ![s] = "compensated"]
             /\ s \in Tasks => comp[s] = "done"
             /\ s \notin Tasks => status[s] = "compensated"
          \/ /\ ledger' = [ledger EXCEPT ![s] = "failed"]
             /\ s \in Tasks => comp[s] = "failed"
      BY <2>3 DEF MarkUndone, MarkFailed
    <3>3. /\ \A r \in Steps \ {s} : ledger'[r] = ledger[r]
          /\ \/ /\ ledger'[s] = "compensated" /\ (s \in Tasks => comp[s] = "done")
                /\ s \notin Tasks => status[s] = "compensated"
             \/ ledger'[s] = "failed" /\ (s \in Tasks => comp[s] = "failed")
      BY <3>1, <3>2, JobsShape
    <3> QED
      BY <3>1, <3>3 DEF LedgerMove
  <2> QED
    BY <2>1, <2>2, <2>3, BackwardWrites, NoJobMoves
<1> QED
  BY <1>1, <1>2, BackwardWrites, NoJobMoves

LEMMA WorkerMoves ==
  ASSUME TypeOK, NEW t \in Tasks, Worker(t)
  PROVE  \A u \in Tasks : JobMove(u) /\ CompMove(u)
<1>1. \E end \in {"done", "failed"} :
        \/ job[t] = "created" /\ job' = [job EXCEPT ![t] = end] /\ UNCHANGED comp
        \/ comp[t] = "created" /\ comp' = [comp EXCEPT ![t] = end] /\ UNCHANGED job
  BY DEF Worker
<1> QED
  BY <1>1, JobsShape DEF JobMove, CompMove

\* Every step moves every job, visit and row of the ledger along these lines.
LEMMA Moves ==
  ASSUME TypeOK, Retaining, Next
  PROVE  /\ \A t \in Tasks : JobMove(t) /\ CompMove(t)
         /\ \A c \in Children : VisitMove(c)
         /\ \A s \in Steps : LedgerMove(s)
<1>1. ASSUME NEW w, Cancels(w)
      PROVE  /\ \A t \in Tasks : JobMove(t) /\ CompMove(t)
             /\ \A c \in Children : VisitMove(c)
             /\ \A s \in Steps : LedgerMove(s)
  BY <1>1, AbandonMoves, DisarmMoves, NoJobMoves DEF Cancels
<1>2. ASSUME NEW i \in Instances, Cascade(i) PROVE Cancels(Head(drive[i].todo))
  BY <1>2, CascadeWrites
<1>3. CASE CascadeAll
  BY <1>1, <1>3, CascadeWrites
<1>4. CASE Operator /\ ~CascadeAll
  <2>1. \A t \in Tasks : JobMove(t)
    BY <1>4, OperatorWrites, AbandonMoves, ReopenMoves, NoJobMoves
  <2>2. \A t \in Tasks : CompMove(t)
    BY <1>4, OperatorWrites, ReopenMoves, NoJobMoves
  <2>3. \A c \in Children : VisitMove(c)
    BY <1>4, OperatorWrites, DisarmMoves
  <2>4. \A s \in Steps : LedgerMove(s)
    BY <1>4, OperatorWrites, ReopenMoves, NoJobMoves
  <2> QED
    BY <2>1, <2>2, <2>3, <2>4
<1>5. CASE \/ \E i \in Instances : Backstop(i)
           \/ \E c \in Children : Timers(c) \/ Notifications(c)
  <2>1. \A c \in Children : VisitMove(c)
    BY <1>5, AlarmWrites, VisitShape DEF VisitMove
  <2> QED
    BY <1>5, <2>1, AlarmWrites, NoJobMoves
<1>6. ASSUME NEW t \in Tasks, Worker(t)
      PROVE  /\ \A u \in Tasks : JobMove(u) /\ CompMove(u)
             /\ \A c \in Children : VisitMove(c)
             /\ \A s \in Steps : LedgerMove(s)
  BY <1>6, WorkerMoves, WorkerWrites, NoJobMoves
<1> QED
  BY <1>1, <1>2, <1>3, <1>4, <1>5, <1>6, ForwardMoves, BackwardMoves DEF Next

-----------------------------------------------------------------------------
(* A drive that retains a straggler stays at it.                               *)

Retains ==
  \A j \in Instances : drive'[j].pc = "retain" /\ drive'[j].back = "scan" =>
    drive[j].pc = "retain" /\ drive[j].back = "scan" /\ pos'[j] = pos[j]

LEMMA OthersStand ==
  ASSUME NEW i \in Instances, drive'[i].pc # "retain" \/ drive'[i].back # "scan",
         \A j \in Instances \ {i} : drive'[j] = drive[j] /\ pos'[j] = pos[j]
  PROVE  Retains
  BY DEF Retains

LEMMA GoesRetains ==
  ASSUME TypeOK, NEW i \in Instances, NEW pc, pc # "retain", Goes(i, pc),
         \A j \in Instances \ {i} : pos'[j] = pos[j]
  PROVE  Retains
<1>1. drive'[i].pc = pc /\ \A j \in Instances \ {i} : drive'[j] = drive[j]
  BY DrivesShape DEF Goes, Drives
<1> QED
  BY <1>1, OthersStand

LEMMA StandsRetains == drive' = drive /\ pos' = pos => Retains
  BY DEF Retains

LEMMA ForwardRetains == ASSUME TypeOK, NEW i \in Instances, Forward(i) PROVE Retains
<1>1. pos' = pos \/ Sync(i)
  BY ForwardWrites
<1>2. \A j \in Instances \ {i} : pos'[j] = pos[j]
  BY <1>1, RowsShape DEF Sync
<1>3. CASE \E pc \in {"walk", "raise", "sync", "tail", "look"} : Goes(i, pc)
  BY <1>2, <1>3, GoesRetains
<1>4. ASSUME NEW d, drive' = [drive EXCEPT ![i] = d], d.pc # "retain" \/ d.back # "scan"
      PROVE  Retains
  <2>1. drive'[i] = d /\ \A j \in Instances \ {i} : drive'[j] = drive[j]
    BY <1>4, DrivesShape
  <2> QED
    BY <1>2, <1>4, <2>1, OthersStand
<1>5. CASE StartDrive(i)
  <2>1. \E nested \in BOOLEAN : Enter(i, nested)
    BY <1>5 DEF StartDrive
  <2>2. EntersAt(i) # "retain"
    BY DEF EntersAt
  <2>3. ASSUME NEW nested, NEW flow
        PROVE  [NoDrive EXCEPT !.nested = nested, !.flow = flow, !.pc = EntersAt(i)].pc # "retain"
    BY <2>2 DEF NoDrive
  <2> QED
    BY <1>4, <2>1, <2>3 DEF Enter
<1>6. CASE Parks(i)
  <2>1. CASE drive[i].flow
    BY <1>4, <1>6, <2>1 DEF Parks, NoDrive
  <2>2. CASE ~drive[i].flow
    <3>1. [drive[i] EXCEPT !.pc = "sync"].pc = "sync"
      BY DrivesShape DEF Drives
    <3> QED
      BY <1>4, <1>6, <2>2, <3>1 DEF Parks
  <2> QED
    BY <2>1, <2>2
<1>7. ASSUME NEW c \in ChildrenOf(i), Invoke(i, c) PROVE Retains
  <2>1. \/ drive' = [drive EXCEPT ![i].pc = "inner", ![i].back = "look", ![i].child = c]
        \/ Goes(i, "look")
    BY <1>7 DEF Invoke, Start
  <2>2. [drive[i] EXCEPT !.pc = "inner", !.back = "look", !.child = c].pc = "inner"
    BY DrivesShape DEF Drives
  <2> QED
    BY <1>3, <1>4, <2>1, <2>2
<1>8. ASSUME NEW c \in ChildrenOf(i), TimerExit(i, c) PROVE Retains
  <2>1. drive' = [drive EXCEPT ![i].pc = "retain", ![i].back = "look",
                               ![i].todo = <<Listed("visit", c)>>]
    BY <1>8 DEF TimerExit
  <2>2. [drive[i] EXCEPT !.pc = "retain", !.back = "look",
                         !.todo = <<Listed("visit", c)>>].back = "look"
    BY DrivesShape DEF Drives
  <2> QED
    BY <1>4, <2>1, <2>2
<1>9. CASE Return(i)
  <2>1. drive' = [drive EXCEPT ![i].pc = drive[i].back, ![i].child = Root]
    BY <1>9 DEF Return
  <2>2. [drive[i] EXCEPT !.pc = drive[i].back, !.child = Root].pc # "retain"
    BY DrivesShape DEF Drives
  <2> QED
    BY <1>4, <2>1, <2>2
<1>10. CASE Leave(i)
  BY <1>4, <1>10 DEF Leave, NoDrive
<1>11. CASE drive' = drive /\ pos' = pos
  BY <1>11, StandsRetains
<1>12. ASSUME NEW t \in Owned(i),
              CreateJob(i, t) \/ ParkTask(i, t) \/ ApplyTask(i, t) \/ TaskFails(i, t)
       PROVE  Retains
  <2>1. \/ drive' = drive /\ pos' = pos
        \/ Parks(i) \/ Goes(i, "sync")
    BY <1>12 DEF CreateJob, ParkTask, ApplyTask, TaskFails, rows
  <2> QED
    BY <1>3, <1>6, <1>11, <2>1
<1>13. ASSUME NEW c \in ChildrenOf(i),
              ApplyChild(i, c) \/ RouteError(i, c) \/ FlipUncaught(i, c)
                \/ StopAtUncaught(i, c) \/ ParkCall(i, c)
       PROVE  Retains
  <2>1. \/ drive' = drive /\ pos' = pos
        \/ Parks(i) \/ Goes(i, "sync") \/ Goes(i, "walk") \/ Goes(i, "raise")
    BY <1>13 DEF ApplyChild, RouteError, FlipUncaught, StopAtUncaught, ParkCall, rows
  <2> QED
    BY <1>3, <1>6, <1>11, <2>1
<1>14. ASSUME RaiseUncaught(i) \/ LookOn(i) \/ TimerExited(i) \/ Commit(i) \/ Complete(i)
              \/ EndErrored(i) \/ Sync(i)
       PROVE  Retains
  <2>1. \/ drive' = drive /\ pos' = pos
        \/ Goes(i, "sync") \/ Goes(i, "walk") \/ Goes(i, "tail")
    BY <1>14 DEF RaiseUncaught, LookOn, TimerExited, Commit, Complete, EndErrored, Sync
  <2> QED
    BY <1>3, <1>11, <2>1
<1> QED
  BY <1>5, <1>7, <1>8, <1>9, <1>10, <1>12, <1>13, <1>14 DEF Forward

LEMMA BackwardRetains ==
  ASSUME TypeOK, NEW i \in Instances, Backward(i)
  PROVE  \/ Retains
         \/ \E c \in ChildrenOf(i) :
              /\ bound[c] # "none" /\ pos[i] \in DOMAIN Body[i] /\ Body[i][pos[i]] = c
              /\ pos' = pos /\ \A j \in Instances \ {i} : drive'[j] = drive[j]
<1>1. \A j \in Instances \ {i} : pos'[j] = pos[j]
  BY BackwardWrites, RowsShape
<1>2. Goes(i, "pass") \/ Goes(i, "scan") \/ Goes(i, "tail") => Retains
  BY <1>1, GoesRetains
<1>3. ASSUME NEW d, drive' = [drive EXCEPT ![i] = d], d.pc # "retain"
      PROVE  Retains
  <2>1. drive'[i] = d /\ \A j \in Instances \ {i} : drive'[j] = drive[j]
    BY <1>3, DrivesShape
  <2> QED
    BY <1>1, <1>3, <2>1, OthersStand
<1>4. ASSUME NEW c \in ChildrenOf(i), BeginChild(i, c) PROVE Retains
  <2>1. drive' = [drive EXCEPT ![i].pc = "begun", ![i].child = c]
    BY <1>4 DEF BeginChild
  <2>2. [drive[i] EXCEPT !.pc = "begun", !.child = c].pc = "begun"
    BY DrivesShape DEF Drives
  <2> QED
    BY <1>3, <2>1, <2>2
<1>5. ASSUME NEW c \in ChildrenOf(i), CountOwed(i, c) \/ ShortCut(i, c) PROVE Retains
  <2>1. \/ drive' = [drive EXCEPT ![i].pc = "scan", ![i].child = Root]
        \/ drive' = [drive EXCEPT ![i].pc = "inner", ![i].back = "scan"]
        \/ drive' = [drive EXCEPT ![i].pc = "counted"]
    BY <1>5 DEF CountOwed, ShortCut, Goes
  <2>2. /\ [drive[i] EXCEPT !.pc = "scan", !.child = Root].pc = "scan"
        /\ [drive[i] EXCEPT !.pc = "inner", !.back = "scan"].pc = "inner"
        /\ [drive[i] EXCEPT !.pc = "counted"].pc = "counted"
    BY DrivesShape DEF Drives
  <2> QED
    BY <1>3, <2>1, <2>2
<1>6. ASSUME NEW t \in Owned(i), ScanTask(i, t) \/ CreateUndo(i, t) PROVE Retains
  <2>1. (drive' = drive /\ pos' = pos) \/ Goes(i, "pass")
    BY <1>6 DEF ScanTask, CreateUndo, rows
  <2> QED
    BY <1>2, <2>1, StandsRetains
<1>7. ASSUME NEW c \in ChildrenOf(i), ScanCall(i, c), ~Goes(i, "pass")
      PROVE  /\ bound[c] # "none" /\ pos[i] \in DOMAIN Body[i] /\ Body[i][pos[i]] = c
             /\ pos' = pos /\ \A j \in Instances \ {i} : drive'[j] = drive[j]
  BY <1>7, DrivesShape DEF ScanCall
<1>8. ASSUME \/ \E c \in ChildrenOf(i) : RetainCall(i, c)
             \/ \E s \in StepsOf(i) : MarkUndone(i, s) \/ MarkFailed(i, s)
             \/ ScanNothing(i) \/ Settle(i) \/ ParkPass(i)
      PROVE  Retains
  <2>1. Goes(i, "pass") \/ Goes(i, "scan") \/ Goes(i, "tail")
    BY <1>8 DEF RetainCall, MarkUndone, MarkFailed, ScanNothing, Settle, ParkPass
  <2> QED
    BY <1>2, <2>1
<1> QED
  BY <1>2, <1>4, <1>5, <1>6, <1>7, <1>8 DEF Backward

LEMMA DrainedRetains ==
  ASSUME TypeOK, NEW w, NEW j \in Instances
  PROVE  Drained(w)[j] \in {drive[j], NoDrive}
  BY DrivesShape DEF Drained, Killed

LEMMA RestRetains ==
  ASSUME TypeOK, Next, ~\E i \in Instances : Forward(i) \/ Backward(i)
  PROVE  Retains
<1>1. CASE pos' = pos /\ \A j \in Instances : drive'[j] \in {drive[j], NoDrive}
  BY <1>1 DEF Retains, NoDrive
<1>2. ASSUME NEW i \in Instances, Cascade(i) PROVE Retains
  <2> DEFINE w == Head(drive[i].todo)
             d == Drained(w)
             todo == Unfolds(w) \o Tail(drive[i].todo)
  <2>1. drive' = [d EXCEPT ![i].todo = todo] /\ pos' = pos /\ Cascades(w)
    BY <1>2 DEF Cascade
  <2>2. d \in [Instances -> Drives] /\ \A j \in Instances : d[j] \in {drive[j], NoDrive}
    <3>1. \A j \in Instances : d[j] \in {drive[j], NoDrive}
      BY DrainedRetains
    <3>2. w \in Work
      BY <1>2, HeadsTyped, DrivesShape DEF Cascade, Drives
    <3>3. d \in [Instances -> Drives]
      BY <2>1, <3>2, CascadesTyped
    <3> QED
      BY <3>1, <3>3
  <2> HIDE DEF d, todo, w
  <2>3. \A j \in Instances : drive'[j].pc = d[j].pc /\ drive'[j].back = d[j].back
    BY <2>1, <2>2 DEF Drives
  <2> QED
    BY <2>1, <2>2, <2>3 DEF Retains, NoDrive
<1>3. ASSUME NEW i \in Instances, Backstop(i) PROVE Retains
  BY <1>3, StandsRetains DEF Backstop, rows
<1>4. ASSUME NEW t \in Tasks, Worker(t) PROVE Retains
  BY <1>4, StandsRetains DEF Worker, rows
<1>5. ASSUME NEW c \in Children, Timers(c) \/ Notifications(c) PROVE Retains
  BY <1>5, StandsRetains DEF Timers, Notifications, PlanFire, CommitFire, Ring, Hush, rows
<1>6. CASE Operator
  <2>1. CASE CascadeAll
    BY <1>1, <2>1, DrainedRetains DEF CascadeAll
  <2>2. CASE TerminateRoot
    BY <1>1, <2>2, DrivesShape DEF TerminateRoot, Killed, rows
  <2>3. CASE Cancel \/ AbandonRoot \/ Decide \/ Close \/ Open \/ Resume
    BY <2>3, StandsRetains DEF Cancel, AbandonRoot, Decide, Close, Open, Resume, CallOnRoot, rows
  <2>4. CASE Retry \/ Descend \/ Heal \/ Reset \/ Move \/ Join \/ RetryRoot \/ RetryDone
    BY <2>4, StandsRetains
    DEF Retry, Descend, Heal, Reset, Move, Join, RetryRoot, RetryDone, CallOnRoot, rows
  <2> QED
    BY <1>6, <2>1, <2>2, <2>3, <2>4 DEF Operator
<1> QED
  BY <1>2, <1>3, <1>4, <1>5, <1>6 DEF Next

LEMMA RetainingKept == ASSUME TypeOK, Retaining, Next PROVE Retaining'
<1>1. \A c \in Children : bound[c] # "none" => bound'[c] # "none"
  BY Moves DEF VisitMove
<1>2. ASSUME Retains PROVE Retaining'
  BY <1>1, <1>2 DEF Retains, Retaining, Pc
<1>3. ASSUME NEW i \in Instances, NEW c \in ChildrenOf(i),
             bound[c] # "none", pos[i] \in DOMAIN Body[i], Body[i][pos[i]] = c,
             pos' = pos, \A j \in Instances \ {i} : drive'[j] = drive[j]
      PROVE  Retaining'
  <2>1. c \in Children
    BY Bodies
  <2> QED
    BY <1>1, <1>3, <2>1 DEF Retaining, Pc
<1> QED
  BY <1>2, <1>3, ForwardRetains, BackwardRetains, RestRetains

-----------------------------------------------------------------------------
(* The invariants.                                                             *)

IInv == TypeOK /\ Retaining /\ WalkInOrder /\ LedgerTrue /\ RootOwesNothing

LEMMA InitInv == Init => IInv
<1> SUFFICES ASSUME Init PROVE IInv
  OBVIOUS
<1>1. \A s \in Steps : ~Begun(s) /\ ledger[s] = "none"
  BY Bodies DEF Init, Begun, Steps, Children
<1>2. Retaining
  BY DEF Init, Retaining, Pc, NoDrive
<1>3. WalkInOrder
  BY <1>1, Bodies DEF WalkInOrder
<1>4. LedgerTrue
  BY <1>1 DEF Init, LedgerTrue, Steps
<1>5. RootOwesNothing
  BY Bodies DEF Init, RootOwesNothing
<1> QED
  BY <1>2, <1>3, <1>4, <1>5, InitTyped DEF IInv

\* What is behind the walk stays behind it, and a step begins where a walk stands.
LEMMA WalkInOrderKept == ASSUME TypeOK, Retaining, WalkInOrder, Next PROVE WalkInOrder'
<1>1. ASSUME NEW s \in Steps, Behind(s) PROVE Behind(s)'
  <2>1. (s \in Tasks => JobMove(s)) /\ (s \notin Tasks => s \in Children /\ VisitMove(s))
    BY Moves DEF Steps
  <2> QED
    BY <1>1, <2>1 DEF Behind, JobMove, VisitMove
<1>2. ASSUME NEW s \in Steps, Begun(s)' PROVE Begun(s) \/ \E i \in Instances : WalksAt(i, s)
  <2>1. (s \in Tasks => JobMove(s)) /\ (s \notin Tasks => s \in Children /\ VisitMove(s))
    BY Moves DEF Steps
  <2> QED
    BY <1>2, <2>1 DEF Begun, JobMove, VisitMove
<1>3. ASSUME NEW i \in Instances, NEW k \in DOMAIN Body[i], NEW l \in DOMAIN Body[i], l < k,
             Begun(Body[i][k])'
      PROVE  Behind(Body[i][l])'
  <2>1. Body[i][k] \in Steps /\ Body[i][l] \in Steps
    BY Bodies
  <2>2. CASE Begun(Body[i][k])
    BY <1>1, <1>3, <2>1, <2>2 DEF WalkInOrder
  <2>3. ASSUME NEW j \in Instances, WalksAt(j, Body[i][k]) PROVE Behind(Body[i][l])'
    <3>1. Frontier(j) \in DOMAIN Body[j] /\ Body[j][Frontier(j)] = Body[i][k]
      BY <2>3, WalksOn
    <3>2. j = i /\ Frontier(i) = k
      BY <3>1, Bodies
    <3> QED
      BY <1>1, <1>3, <2>1, <2>3, <3>2, WalksOn
  <2> QED
    BY <1>2, <1>3, <2>1, <2>2, <2>3
<1> QED
  BY <1>3 DEF WalkInOrder

LEMMA LedgerTrueKept == ASSUME TypeOK, Retaining, LedgerTrue, Next PROVE LedgerTrue'
<1>1. ASSUME NEW t \in Tasks
      PROVE  /\ job'[t] = "applied" => ledger'[t] # "none"
             /\ ledger'[t] # "none" => job'[t] \in {"done", "applied"}
             /\ comp'[t] # "none" => ledger'[t] # "none"
             /\ ledger'[t] = "compensated" => comp'[t] = "done"
             /\ ledger'[t] = "failed" => comp'[t] = "failed"
  <2>1. JobMove(t) /\ CompMove(t) /\ LedgerMove(t) /\ t \in Steps
    BY Moves DEF Steps
  <2>2. (\E i \in Instances : Undoing(i, t)) => ledger[t] \in {"pending", "failed"}
    BY UndoingOwed
  <2>3. ledger[t] # "none" => ledger'[t] # "none"
    BY <2>1 DEF LedgerMove
  <2>4. job'[t] = "applied" => ledger'[t] # "none"
    BY <2>1, <2>3 DEF JobMove, LedgerTrue
  <2>5. ledger'[t] # "none" => job'[t] \in {"done", "applied"}
    BY <2>1 DEF JobMove, LedgerMove, LedgerTrue
  <2>6. comp'[t] # "none" => ledger'[t] # "none"
    BY <2>1, <2>2, <2>3 DEF CompMove, LedgerTrue
  <2>7. /\ ledger'[t] = "compensated" => comp'[t] = "done"
        /\ ledger'[t] = "failed" => comp'[t] = "failed"
    BY <2>1, <2>2 DEF CompMove, LedgerMove, LedgerTrue
  <2> QED
    BY <2>4, <2>5, <2>6, <2>7
<1>2. ASSUME NEW c \in Children, ledger'[c] # "none" PROVE bound'[c] # "none"
  <2>1. LedgerMove(c) /\ VisitMove(c)
    BY Moves DEF Steps
  <2> QED
    BY <1>2, <2>1 DEF LedgerMove, VisitMove, LedgerTrue
<1> QED
  BY <1>1, <1>2 DEF LedgerTrue

\* The root becomes compensated only when it owes nothing, and is not it any more when a step
\* puts something into its ledger or its token.
LEMMA CompensatedSteps ==
  ASSUME TypeOK, RootOwesNothing, Next, status'[Root] = "compensated"
  PROVE  /\ Owed(Root) = {} /\ pos[Root] = 0
         /\ status[Root] = "compensated" \/ UNCHANGED <<ledger, pos>>
<1> Root \in Instances
  BY Bodies
<1>1. CASE status[Root] = "compensated"
  BY <1>1 DEF RootOwesNothing
<1>2. CASE status[Root] # "compensated"
  <2>1. NoneEnds => FALSE
    BY <1>2 DEF NoneEnds
  <2>2. ASSUME NEW w, Cancels(w) PROVE FALSE
    <3>1. status'[Root] \in {status[Root], Settled(w.at)}
      BY <2>2, RowsShape DEF Cancels
    <3>2. w.at \notin Instances \/ w.at = Root \/ status'[Root] = status[Root]
      BY <2>2, RowsShape DEF Cancels
    <3>3. Settled(Root) \in {status[Root], "cancelled"}
      BY DEF Settled
    <3>4. status'[Root] \in {status[Root], "cancelled"}
      BY <2>2, <3>3, RowsShape DEF Cancels
    <3> QED
      BY <1>2, <3>4
  <2>3. \E j \in Instances : Settle(j)
    <3>1. \A t \in Tasks : ~Worker(t)
      BY <1>2, WorkerWrites
    <3>2. ~Operator
      <4>1. ~CascadeAll
        BY <2>2, CascadeWrites
      <4>2. Close => status'[Root] = status[Root] \/ status'[Root] = "cancelled"
        BY RowsShape, Bodies DEF Close
      <4> QED
        BY <1>2, <2>1, <4>1, <4>2, OperatorWrites
    <3>3. \A j \in Instances : ~Cascade(j) /\ ~Forward(j)
      BY <2>1, <2>2, CascadeWrites, ForwardEndsNone
    <3>4. /\ \A j \in Instances : ~Backstop(j)
          /\ \A c \in Children : ~Timers(c) /\ ~Notifications(c)
      BY <2>1, AlarmWrites
    <3>5. PICK j \in Instances : Backward(j)
      BY <3>1, <3>2, <3>3, <3>4 DEF Next
    <3>6. ASSUME NEW c \in ChildrenOf(j), ShortCut(j, c) PROVE FALSE
      <4>1. c \in Instances /\ c # Root
        BY Bodies DEF Children
      <4>2. \/ status' = status
            \/ status' = [status EXCEPT ![c] = IF @ = "compensating" THEN "compensated" ELSE @]
        BY <3>6 DEF ShortCut
      <4> QED
        BY <1>2, <4>1, <4>2, RowsShape, Bodies
    <3> QED
      BY <2>1, <3>5, <3>6, BackwardWrites
  <2>4. PICK j \in Instances : Settle(j)
    BY <2>3
  <2>5. Root = j
    BY <1>2, <2>4, RowsShape, Bodies DEF Settle
  <2> QED
    BY <2>4, <2>5 DEF Settle
<1> QED
  BY <1>1, <1>2

LEMMA CompensatedKept ==
  ASSUME TypeOK, Retaining, RootOwesNothing, Next
  PROVE  RootOwesNothing'
<1> SUFFICES ASSUME status'[Root] = "compensated"
             PROVE  Owed(Root)' = {} /\ pos'[Root] = 0
  BY DEF RootOwesNothing
<1> Root \in Instances
  BY Bodies
<1>1. /\ Owed(Root) = {} /\ pos[Root] = 0
      /\ status[Root] = "compensated" \/ UNCHANGED <<ledger, pos>>
  BY CompensatedSteps
<1>2. CASE UNCHANGED <<ledger, pos>>
  BY <1>1, <1>2 DEF Owed
<1>3. CASE status[Root] = "compensated" /\ ~UNCHANGED <<ledger, pos>>
  <2>1. ASSUME NEW k \in DOMAIN Body[Root] PROVE ledger'[Body[Root][k]] \notin {"pending", "failed"}
    <3> DEFINE s == Body[Root][k]
    <3>1. s \in Steps /\ s \in StepsOf(Root)
      BY Bodies DEF StepsOf
    <3>2. ledger[s] \notin {"pending", "failed"}
      BY <1>1 DEF Owed
    <3>3. LedgerMove(s)
      BY <3>1, Moves
    <3>4. ASSUME NEW j \in Instances, s \in StepsOf(j),
                 pos[j] \in DOMAIN Body[j] \/ status'[j] = "running"
          PROVE  FALSE
      <4>1. j = Root
        BY <3>1, <3>4, OwnersAreUnique
      <4>2. 0 \notin DOMAIN Body[Root]
        BY Bodies
      <4> QED
        BY <1>1, <3>4, <4>1, <4>2
    <3> HIDE DEF s
    <3>5. ledger'[s] \notin {"pending", "failed"}
      BY <3>2, <3>3, <3>4 DEF LedgerMove
    <3> QED
      BY <3>5 DEF s
  <2>2. pos'[Root] = 0
    <3>1. pos' = pos \/ (\E j \in Instances : pos' = [pos EXCEPT ![j] = 0])
          \/ \E j \in Instances : Sync(j)
      BY ForwardWrites, BackwardWrites, AlarmWrites, OperatorWrites, WorkerWrites, CascadeWrites
      DEF Next, Cancels
    <3>2. ASSUME NEW j \in Instances, Sync(j) PROVE pos'[Root] = 0
      BY <1>1, <1>3, <3>2, RowsShape DEF Sync, Terminal
    <3> QED
      BY <1>1, <3>1, <3>2, RowsShape
  <2> QED
    BY <2>1, <2>2 DEF Owed
<1> QED
  BY <1>1, <1>2, <1>3

LEMMA InvKept == IInv /\ [Next]_vars => IInv'
<1> SUFFICES ASSUME IInv, [Next]_vars PROVE IInv'
  OBVIOUS
<1>1. CASE Next
  BY <1>1, NextTyped, RetainingKept, WalkInOrderKept, LedgerTrueKept, CompensatedKept DEF IInv
<1>2. CASE UNCHANGED vars
  <2>1. UNCHANGED <<status, pos, bound, timer, job, comp, ledger, drive>>
    BY <1>2 DEF vars, rows, visit, jobs
  <2>2. WalkInOrder'
    BY <2>1 DEF IInv, WalkInOrder, Begun, Behind
  <2>3. LedgerTrue' /\ Retaining'
    BY <2>1 DEF IInv, LedgerTrue, Retaining, Pc
  <2>4. RootOwesNothing'
    BY <2>1 DEF IInv, RootOwesNothing, Owed
  <2> QED
    BY <1>2, <2>2, <2>3, <2>4, NextTyped DEF IInv
<1> QED
  BY <1>1, <1>2

THEOREM Invariance == Spec => []IInv
  BY InitInv, InvKept, PTL DEF Spec

\* A step of a process begins only when every step before it is behind the walk, whichever
\* drives walk: the Workflow's, a parent's, a retry's or one a cancel left running.
THEOREM WalkInOrderAlways == Spec => []WalkInOrder
<1>1. IInv => WalkInOrder
  BY DEF IInv
<1> QED
  BY <1>1, Invariance, PTL

\* The ledger says of every step what its jobs and its call say.
THEOREM LedgerTrueAlways == Spec => []LedgerTrue
<1>1. IInv => LedgerTrue
  BY DEF IInv
<1> QED
  BY <1>1, Invariance, PTL

\* The root never reports compensated while it owes a compensation or has a token, whatever
\* late answers, retries and drives the cancel left running do to the tree.
THEOREM RootOwesNothingAlways == Spec => []RootOwesNothing
<1>1. IInv => RootOwesNothing
  BY DEF IInv
<1> QED
  BY <1>1, Invariance, PTL

-----------------------------------------------------------------------------
(* What a step may never do.                                                   *)

\* A reverse pass that gives out the compensation of a step is at the last one it owes.
LEMMA NothingOwedAfter ==
  ASSUME NEW i \in Instances, NEW j \in Instances, NEW k \in DOMAIN Body[i],
         NEW l \in DOMAIN Body[i], k < l, Undoing(j, Body[i][k])
  PROVE  ledger[Body[i][l]] \notin {"pending", "failed"}
<1>1. Owed(j) # {} /\ LastOwed(j) = Body[i][k]
  BY DEF Undoing
<1>2. PICK m \in Owed(j) : LastOwed(j) = Body[j][m] /\ \A n \in Owed(j) : n <= m
  BY <1>1, LastOwedIsLast
<1>3. j = i /\ m = k
  BY <1>1, <1>2, Bodies DEF Owed
<1>4. k \in Nat /\ l \in Nat
  BY Bodies
<1>5. l \notin Owed(i)
  BY <1>2, <1>3, <1>4
<1> QED
  BY <1>5 DEF Owed

\* A step that is settled keeps its mark, its finished compensation and its result: no drive
\* and no retry writes a sealed, exempt or compensated row or a job that is done.
THEOREM UndoneOnceAlways == Spec => UndoneOnce
<1> DEFINE Kept ==
      /\ \A s \in Steps :
           ledger[s] \in {"compensated", "committed", "notRequired"} => ledger'[s] = ledger[s]
      /\ \A t \in Tasks : comp[t] = "done" => comp'[t] = "done"
      /\ \A t \in Tasks : job[t] = "applied" => job'[t] = "applied"
<1>1. ASSUME IInv, Next PROVE Kept
  <2>1. /\ \A t \in Tasks : JobMove(t) /\ CompMove(t)
        /\ \A s \in Steps : LedgerMove(s)
    BY <1>1, Moves DEF IInv
  <2>2. ASSUME NEW s \in Steps, ledger[s] \in {"compensated", "committed", "notRequired"}
        PROVE  ledger'[s] = ledger[s]
    BY <2>1, <2>2 DEF LedgerMove
  <2>3. ASSUME NEW t \in Tasks, comp[t] = "done" PROVE comp'[t] = "done"
    <3>1. ledger[t] # "failed"
      BY <1>1, <2>3 DEF IInv, LedgerTrue
    <3> QED
      BY <2>1, <2>3, <3>1 DEF CompMove
  <2>4. ASSUME NEW t \in Tasks, job[t] = "applied" PROVE job'[t] = "applied"
    BY <2>1, <2>4 DEF JobMove
  <2> QED
    BY <2>2, <2>3, <2>4
<1>2. IInv /\ [Next]_vars => [Kept]_vars
  BY <1>1
<1> QED
  BY <1>2, Invariance, PTL DEF Spec, UndoneOnce

\* A task's compensation is given out only when nothing after it in its process is owed, in
\* any instance of the tree.
THEOREM ReverseThroughTreeAlways == Spec => ReverseThroughTree
<1> DEFINE Ordered == \A i \in Instances : \A k, l \in DOMAIN Body[i] :
             LET t == Body[i][k]
                 s == Body[i][l]
             IN  t \in Tasks /\ k < l /\ comp[t] = "none" /\ comp'[t] = "created" =>
                   IF s \in Tasks
                   THEN job[s] = "applied" =>
                          \/ ledger[s] \in {"committed", "notRequired"}
                          \/ ledger[s] = "compensated" /\ comp[s] = "done"
                   ELSE ledger[s] \notin {"pending", "failed"}
<1>1. ASSUME IInv, Next PROVE Ordered
  <2>1. ASSUME NEW i \in Instances, NEW k \in DOMAIN Body[i], NEW l \in DOMAIN Body[i],
               Body[i][k] \in Tasks, k < l,
               comp[Body[i][k]] = "none", comp'[Body[i][k]] = "created"
        PROVE  ledger[Body[i][l]] \notin {"pending", "failed"}
    <3> DEFINE t == Body[i][k]
    <3>1. CompMove(t)
      BY <1>1, <2>1, Moves DEF IInv
    <3>2. ledger[t] # "failed"
      BY <1>1, <2>1 DEF IInv, LedgerTrue
    <3>3. PICK j \in Instances : Undoing(j, t)
      BY <2>1, <3>1, <3>2 DEF CompMove
    <3> QED
      BY <2>1, <3>3, NothingOwedAfter
  <2>2. ASSUME NEW s \in Tasks, job[s] = "applied", ledger[s] \notin {"pending", "failed"}
        PROVE  \/ ledger[s] \in {"committed", "notRequired"}
               \/ ledger[s] = "compensated" /\ comp[s] = "done"
    <3>1. ledger[s] # "none" /\ (ledger[s] = "compensated" => comp[s] = "done")
      BY <1>1, <2>2 DEF IInv, LedgerTrue
    <3>2. s \in Steps /\ ledger \in [Steps -> Marks]
      BY <1>1, JobsShape DEF IInv, Steps
    <3> QED
      BY <2>2, <3>1, <3>2 DEF Marks
  <2> QED
    BY <2>1, <2>2
<1>2. IInv /\ [Next]_vars => [Ordered]_vars
  <2> HIDE DEF Ordered
  <2> QED
    BY <1>1
<1> QED
  BY <1>2, Invariance, PTL DEF Spec, ReverseThroughTree

\* A cancel takes back only a child that lives or waits for the operator, though its list is
\* older than the update, and leaves the child's ledger to the reverse pass.
THEOREM CascadeOnlyTheLivingAlways == Spec => CascadeOnlyTheLiving
<1> DEFINE Living == \A c \in Children : status[c] # "cancelled" /\ status'[c] = "cancelled" =>
             /\ status[c] \notin Consumable \cup {"compensating", "absent"}
             /\ \A s \in StepsOf(c) : ledger'[s] = ledger[s]
<1>1. ASSUME TypeOK, Next PROVE Living
  <2> SUFFICES ASSUME NEW c \in Children, status[c] # "cancelled", status'[c] = "cancelled"
               PROVE  /\ status[c] \notin Consumable \cup {"compensating", "absent"}
                      /\ \A s \in StepsOf(c) : ledger'[s] = ledger[s]
    OBVIOUS
  <2>1. c \in Instances /\ c # Root
    BY Bodies DEF Children
  <2>2. ~NoneEnds
    BY <2>1 DEF NoneEnds
  <2>3. ASSUME NEW w, Cancels(w) PROVE Settled(c) = "cancelled" /\ ledger' = ledger
    BY <2>1, <2>3, <1>1, RowsShape DEF Cancels
  <2>4. \E w : Cancels(w)
    <3>1. ASSUME NEW i \in Instances PROVE ~Forward(i) /\ ~Backstop(i)
      BY <1>1, <2>2, ForwardEndsNone, AlarmWrites
    <3>2. ASSUME NEW i \in Instances PROVE ~Backward(i)
      <4>1. ~Settle(i)
        BY <1>1, <2>1, RowsShape DEF Settle
      <4>2. ASSUME NEW d \in ChildrenOf(i), ShortCut(i, d) PROVE FALSE
        <5>1. \/ status' = [status EXCEPT ![d] = IF @ = "compensating" THEN "compensated" ELSE @]
              \/ status' = status
          BY <4>2 DEF ShortCut
        <5> QED
          BY <1>1, <2>1, <5>1, RowsShape
      <4> QED
        BY <1>1, <2>2, <4>1, <4>2, BackwardWrites
    <3>3. /\ \A t \in Tasks : ~Worker(t)
          /\ \A d \in Children : ~Timers(d) /\ ~Notifications(d)
      BY <1>1, <2>2, WorkerWrites, AlarmWrites
    <3>4. Operator => CascadeAll
      BY <1>1, <2>2, OperatorWrites
    <3> QED
      BY <1>1, <3>1, <3>2, <3>3, <3>4, CascadeWrites DEF Next
  <2>5. Settled(c) = "cancelled" /\ ledger' = ledger
    BY <2>3, <2>4
  <2>6. status[c] = "incident" \/ ~Ineligible(c)
    BY <2>5 DEF Settled
  <2>7. status[c] \notin Consumable \cup {"compensating", "absent"}
    BY <2>6 DEF Ineligible, Consumable, Terminal
  <2> QED
    BY <2>5, <2>7
<1>2. IInv /\ [Next]_vars => [Living]_vars
  <2> HIDE DEF Living
  <2> QED
    BY <1>1 DEF IInv
<1> QED
  BY <1>2, Invariance, PTL DEF Spec, CascadeOnlyTheLiving

=============================================================================
