-------------------------- MODULE NavigationProofs --------------------------
(* Theorems about NavigationNode, for every queue length, cascade of        *)
(* recovery behaviours, limit on retries and set of goals.                  *)
EXTENDS NavigationNode, SequenceTheorems, WellFoundedInduction, TLAPS

\* HaltIsStill is not inductive: a stop leaves a Nav2 task alone in the states that it does
\* not list, so the invariant says which states hold one, that a recovery holds none, and
\* that a deactivated node holds none when it gets a new docking controller.
Holding == driving /\ docking.phase = "IDLE"

IInv ==
  /\ docking \in Dock
  /\ Holding => state = "EXECUTING" /\ level \notin HardStop /\ ~IsActive(recovery)
  /\ ~active => ~driving

LEMMA Stops == ~MotionBlocked => level \notin HardStop
BY DEF MotionBlocked, HardStop, MotionPermitted

DockPhase == {"IDLE", "APPROACHING", "ALIGNING", "FINAL_APPROACH", "CONTACT", "FAILED"}

LEMMA TransitionType ==
  ASSUME NEW d \in Dock, NEW phase \in DockPhase
  PROVE  Transition(d, phase) \in Dock /\ Transition(d, phase).phase = phase
BY DEF Dock, DockPhase, Transition

\* A phase is begun again, or the docking has failed: neither is IDLE.
LEMMA RetryType ==
  ASSUME NEW d \in Dock, NEW phase \in DockPhase \ {"IDLE"}
  PROVE  Retry(d, phase) \in Dock /\ Retry(d, phase).phase # "IDLE"
<1>1. CASE d.retry_count < MaxDockAttempts
  <2> DEFINE t == Transition(d, phase)
  <2>1. t \in Dock /\ t.phase = phase /\ t.retry_count = d.retry_count
    BY DEF Dock, DockPhase, Transition
  <2>2. t.retry_count + 1 \in 0..MaxDockAttempts
    BY <1>1, <2>1, DockAssumption DEF Dock
  <2>3. Retry(d, phase) = [t EXCEPT !.retry_count = @ + 1]
    BY <1>1 DEF Retry
  <2> HIDE DEF t
  <2> QED BY <2>1, <2>2, <2>3 DEF Dock, DockPhase
<1>2. CASE ~(d.retry_count < MaxDockAttempts)
  BY <1>2 DEF Retry, Dock
<1> QED BY <1>1, <1>2

\* tick() keeps a controller in its type and never leads back to IDLE.
LEMMA TickType ==
  ASSUME NEW d \in Dock, NEW s \in Reading
  PROVE  /\ Tick(d, s) \in Dock
         /\ Tick(d, s).phase = "IDLE" => d.phase = "IDLE"
<1>0. CASE ~d.enabled
  BY <1>0 DEF Tick
<1> SUFFICES ASSUME d.enabled PROVE /\ Tick(d, s) \in Dock
                                    /\ Tick(d, s).phase = "IDLE" => d.phase = "IDLE"
  BY <1>0
<1>1. CASE d.phase = "APPROACHING"
  <2>1. [d EXCEPT !.phase = "FAILED"] \in Dock /\ [d EXCEPT !.phase = "FAILED"].phase = "FAILED"
    BY DEF Dock
  <2> QED BY <1>1, <2>1, TransitionType DEF Tick, DockPhase
<1>2. CASE d.phase = "ALIGNING"
  BY <1>2, TransitionType, RetryType DEF Tick, DockPhase
<1>3. CASE d.phase = "FINAL_APPROACH"
  BY <1>3, TransitionType, RetryType DEF Tick, DockPhase
<1>4. CASE d.phase \notin {"APPROACHING", "ALIGNING", "FINAL_APPROACH"}
  BY <1>4 DEF Tick
<1> QED BY <1>1, <1>2, <1>3, <1>4

LEMMA StartDockType ==
  ASSUME NEW d \in Dock
  PROVE  StartDock(d) \in Dock /\ StartDock(d).phase # "IDLE"
BY DockAssumption DEF StartDock, Controller, Dock

LEMMA NoDockType == NoDock \subseteq Dock
<1>1. \A e \in DockingSettings : Controller(e, "IDLE") \in Dock
  BY DockAssumption DEF Controller, Dock
<1> QED BY <1>1 DEF NoDock

\* A goal that is started holds a Nav2 task only while motion is permitted; where it leads to
\* a docking, the controller is no longer idle.
LEMMA StartGoalInv ==
  ASSUME IInv, active, NEW m, NEW recov, StartGoal(m, recov), ~IsActive(recov), ~Holding,
         active' = active, level' = level
  PROVE  IInv'
<1> USE DEF IInv, Holding
<1>1. CASE MotionBlocked
  BY <1>1 DEF StartGoal
<1>2. CASE ~MotionBlocked /\ m.active.charger
  BY <1>2, StartDockType DEF StartGoal
<1>3. CASE ~MotionBlocked /\ ~m.active.charger
  <2>1. docking' = docking
    BY <1>3 DEF StartGoal
  <2>2. CASE state' = "EXECUTING" /\ driving' = TRUE /\ recovery' = recov
    BY <1>3, <2>1, <2>2, Stops DEF IsActive
  <2>3. CASE driving' = driving
    BY <2>1, <2>3
  <2>4. CASE StartRecovery(RecordPlanFailure(m))
    BY <2>1, <2>4 DEF StartRecovery
  <2> QED BY <1>3, <2>2, <2>3, <2>4 DEF StartGoal
<1> QED BY <1>1, <1>2, <1>3

\* After Nav2's answer no task is held, whatever the answer leads to.
LEMMA AnswerInv ==
  ASSUME IInv, active, NEW m, Answer(m), docking' \in Dock, active' = active
  PROVE  IInv'
BY DEF Answer, IInv, Holding

-----------------------------------------------------------------------------
LEMMA InitHalt == ASSUME Init PROVE IInv
BY NoDockType DEF Init, IInv, Holding

LEMMA NextHalt == ASSUME IInv, [Next]_vars PROVE IInv'
<1> USE DEF IInv, Holding
<1>1. CASE OnActivate
  BY <1>1 DEF OnActivate, bridge
<1>2. CASE OnDeactivate
  BY <1>2 DEF OnDeactivate, bridge
<1>3. CASE OnReconfigure
  BY <1>3, NoDockType DEF OnReconfigure
<1>4. CASE OnStopNavigation
  BY <1>4 DEF OnStopNavigation, bridge
<1>5. ASSUME NEW p \in Priorities, NEW c \in BOOLEAN, OnRecommendation(p, c) PROVE IInv'
  BY <1>5 DEF OnRecommendation, bridge
<1>6. ASSUME NEW e \in BOOLEAN, SrvNavigateTo(e) PROVE IInv'
  BY <1>6 DEF SrvNavigateTo, bridge
<1>7. ASSUME NEW id \in 0..MaxGoals, SrvCancel(id) PROVE IInv'
  BY <1>7 DEF SrvCancel, bridge
<1>8. CASE DockingTick
  <2>1. PICK s \in Reading :
          /\ docking' = Tick(docking, s)
          /\ driving' \in IF AsksForWay(docking, s) THEN {driving, TRUE} ELSE {driving}
    BY <1>8 DEF DockingTick
  <2>2. docking' \in Dock /\ (docking'.phase = "IDLE" => docking.phase = "IDLE")
    BY <2>1, TickType
  <2>3. docking.phase = "IDLE" => driving' = driving
    BY <2>1 DEF AsksForWay
  <2>4. /\ active /\ active' = active /\ level' = level /\ recovery' = recovery
        /\ state = "DOCKING"
    BY <1>8 DEF DockingTick, bridge
  <2> QED BY <2>2, <2>3, <2>4
<1>9. CASE RecoveryTick
  <2> DEFINE r == Step(recovery)
  <2>1. active /\ active' = active /\ level' = level /\ IsActive(recovery)
    BY <1>9 DEF RecoveryTick, bridge
  <2>2. ~Holding
    BY <2>1
  <2>3. CASE r.outcome = "SUCCEEDED" /\ StartGoal(goals, r)
    BY <2>1, <2>2, <2>3, StartGoalInv DEF IsActive
  <2>4. CASE UNCHANGED <<driving, docking>>
    BY <2>1, <2>2, <2>4
  <2> QED BY <1>9, <2>3, <2>4 DEF RecoveryTick
<1>10. CASE TimeoutTick
  BY <1>10 DEF TimeoutTick, bridge
<1>11. CASE StuckTick
  BY <1>11 DEF StuckTick, StartRecovery, bridge
<1>12. CASE RoutineTick
  <2>1. /\ active /\ active' = active /\ level' = level
        /\ ~IsActive(recovery)
    BY <1>12 DEF RoutineTick, Free, bridge
  <2>2. CASE state = "IDLE" /\ StartGoal(ActivateNext(RouteToCharger), recovery)
    BY <2>1, <2>2, StartGoalInv
  <2>3. CASE StartedAndAnswered(ActivateNext(RouteToCharger))
    <3>1. docking' \in Dock
      BY <2>3, StartDockType DEF StartedAndAnswered
    <3> QED BY <2>1, <2>3, <3>1, AnswerInv DEF StartedAndAnswered
  <2>4. CASE CheckNav2Result(RouteToCharger) /\ UNCHANGED docking
    <3>1. CASE driving /\ Answer(RouteToCharger)
      BY <2>1, <2>4, <3>1, AnswerInv
    <3>2. CASE UNCHANGED <<state, driving, recovery>>
      BY <2>1, <2>4, <3>2
    <3> QED BY <2>4, <3>1, <3>2 DEF CheckNav2Result
  <2> QED BY <1>12, <2>2, <2>3, <2>4 DEF RoutineTick
<1>13. ASSUME NEW l \in Levels, OnSafetyState(l) PROVE IInv'
  BY <1>13 DEF OnSafetyState
<1>14. ASSUME NEW b \in Batteries, OnBattery(b) PROVE IInv'
  BY <1>14 DEF OnBattery, bridge
<1>15. CASE OnOdom \/ SupervisorSilent
  BY <1>15 DEF OnOdom, SupervisorSilent, bridge
<1>16. CASE GoalExpires
  BY <1>16 DEF GoalExpires, bridge
<1>17. CASE PhaseExpires
  BY <1>17 DEF PhaseExpires, bridge, Dock
<1>18. CASE BehaviorExpires
  BY <1>18 DEF BehaviorExpires, bridge
<1>19. CASE UNCHANGED vars
  BY <1>19 DEF vars
<1> QED BY <1>1, <1>2, <1>3, <1>4, <1>5, <1>6, <1>7, <1>8, <1>9, <1>10, <1>11, <1>12,
           <1>13, <1>14, <1>15, <1>16, <1>17, <1>18, <1>19 DEF Next, NavLoop

\* Before the first docking no Nav2 task is held while the last safety message says stop,
\* whatever requests, recoveries, timeouts, preemptions and redeployments come in between
\* (_on_safety_state, _start_goal).
THEOREM HaltIsStillHolds == Spec => []HaltIsStill
<1>1. Init => IInv
  BY InitHalt
<1>2. IInv /\ [Next]_vars => IInv'
  BY NextHalt
<1>3. IInv => HaltIsStill
  BY DEF IInv, Holding, HaltIsStill
<1> QED BY <1>1, <1>2, <1>3, PTL DEF Spec

-----------------------------------------------------------------------------
(* The first goal is the last. *)

\* All that the argument needs of the manager is that it is a record with these fields.
IsManager(m) ==
  m \in [queue : {m.queue}, active : {m.active}, plan_fail_count : {m.plan_fail_count},
         late : {m.late}, history : {m.history}]

\* The manager k comes from m without an activation.
Keeps(m, k) == IsManager(k) /\ k.active \in {m.active, NoGoal}

LEMMA MarkEndedKeeps ==
  ASSUME NEW m, IsManager(m), NEW outcome
  PROVE  Keeps(m, MarkEnded(m, outcome)) /\ Keeps(m, CancelActive(m))
BY DEF IsManager, Keeps, MarkEnded, CancelActive

\* What an operation may do to a manager besides ending the active goal.
Put(k, queue, history) == [k EXCEPT !.queue = queue, !.history = history]
PutQueue(k, queue) == [k EXCEPT !.queue = queue]

LEMMA PutKeeps ==
  ASSUME NEW m, NEW k, Keeps(m, k), NEW queue, NEW history
  PROVE  Keeps(m, Put(k, queue, history)) /\ Keeps(m, PutQueue(k, queue))
BY DEF IsManager, Keeps, Put, PutQueue

LEMMA CancelKeeps ==
  ASSUME NEW m, IsManager(m), NEW id
  PROVE  Keeps(m, CancelAll(m)) /\ Keeps(m, CancelGoal(m, id))
<1>1. Keeps(m, m) /\ Keeps(m, CancelActive(m))
  BY MarkEndedKeeps DEF Keeps
<1> DEFINE cancelled(G) == {Ended(g, "CANCELLED") : g \in G}
<1>2. Keeps(m, CancelAll(m))
  <2>1. CancelAll(m) = Put(CancelActive(m), <<>>,
                           CancelActive(m).history \cup cancelled(ToSet(m.queue)))
    BY DEF CancelAll, Put
  <2> QED BY <1>1, <2>1, PutKeeps
<1>3. Keeps(m, CancelGoal(m, id))
  <2>1. CASE m.active.id = id
    BY <1>1, <2>1 DEF CancelGoal
  <2>2. CASE m.active.id # id
    <3> DEFINE at == {i \in 1..Len(m.queue) : m.queue[i].id = id}
               first == CHOOSE i \in at : \A j \in at : i <= j
    <3>1. CASE at = {}
      BY <1>1, <2>2, <3>1 DEF CancelGoal
    <3>2. CASE at # {}
      <4>1. CancelGoal(m, id) = Put(m, RemoveAt(m.queue, first),
                                    m.history \cup cancelled({m.queue[first]}))
        BY <2>2, <3>2 DEF CancelGoal, Put
      <4> QED BY <1>1, <4>1, PutKeeps
    <3> QED BY <3>1, <3>2
  <2> QED BY <2>1, <2>2
<1> QED BY <1>2, <1>3

LEMMA EnqueueKeeps ==
  ASSUME NEW m, IsManager(m), NEW goal, NEW preempt
  PROVE  Keeps(m, Enqueue(m, goal, preempt))
<1> DEFINE kept == IF preempt THEN PutQueue(CancelActive(m), <<>>) ELSE m
           room == IF Len(kept.queue) >= MaxQueue THEN DropLowestPriority(kept.queue) ELSE kept.queue
<1>1. Keeps(m, m) /\ Keeps(m, CancelActive(m))
  BY MarkEndedKeeps DEF Keeps
<1>2. Keeps(m, kept)
  BY <1>1, PutKeeps
<1>3. Enqueue(m, goal, preempt) = PutQueue(kept, InsertByPriority(room, goal))
  BY DEF Enqueue, PutQueue
<1> HIDE DEF kept, room
<1> QED BY <1>2, <1>3, PutKeeps

\* Once IDLE is left, it is not entered again, and no goal is activated.
Stays == /\ IsManager(goals')
         /\ state # "IDLE" => state' # "IDLE" /\ Keeps(goals, goals')

LEMMA KeepsItself == ASSUME IsManager(goals) PROVE Keeps(goals, goals)
BY DEF Keeps

\* Outside IDLE a manager that is kept, with a state that is kept or not IDLE, will do.
LEMMA KeptStays ==
  ASSUME Keeps(goals, goals'), state' = state \/ state' # "IDLE"
  PROVE  Stays
BY DEF Stays, Keeps

LEMMA PlanFailureKeeps ==
  ASSUME NEW m, IsManager(m), PlanFailure(m)
  PROVE  Keeps(m, goals') /\ state' # "IDLE"
<1>1. CASE Fail(m)
  BY <1>1, MarkEndedKeeps DEF Fail
<1>2. CASE StartRecovery(RecordPlanFailure(m))
  BY <1>2 DEF StartRecovery, RecordPlanFailure, IsManager, Keeps
<1> QED BY <1>1, <1>2 DEF PlanFailure

LEMMA AnswerKeeps ==
  ASSUME NEW m, IsManager(m), Answer(m)
  PROVE  Keeps(m, goals') /\ (state' = state \/ state' # "IDLE")
<1>1. CASE goals' = m /\ state' = state
  BY <1>1 DEF Keeps
<1>2. CASE goals' = MarkEnded(m, "SUCCEEDED") /\ state' = "ARRIVED"
  BY <1>2, MarkEndedKeeps
<1>3. CASE PlanFailure(m)
  BY <1>3, PlanFailureKeeps
<1> QED BY <1>1, <1>2, <1>3 DEF Answer

\* Starting a goal activates no other one and does not lead to IDLE.
LEMMA StartGoalKeeps ==
  ASSUME NEW m, IsManager(m), NEW recov, StartGoal(m, recov)
  PROVE  Keeps(m, goals') /\ state' # "IDLE"
<1>1. Keeps(m, m)
  BY DEF Keeps
<1>2. CASE goals' = m /\ state' \in {"DOCKING", "EXECUTING"}
  BY <1>1, <1>2
<1>3. CASE goals' = MarkEnded(m, "FAILED") /\ state' \in {"SAFETY_STOPPED", "FAILED"}
  BY <1>3, MarkEndedKeeps
<1>4. CASE ~Unreachable(m) /\ StartRecovery(RecordPlanFailure(m))
  BY <1>4, PlanFailureKeeps DEF PlanFailure
<1> QED BY <1>2, <1>3, <1>4 DEF StartGoal, Fail

LEMMA RouteKeeps == ASSUME IsManager(goals) PROVE Keeps(goals, RouteToCharger)
BY EnqueueKeeps, KeepsItself DEF RouteToCharger

LEMMA KeepsTwice ==
  ASSUME NEW m, NEW k, NEW l, Keeps(m, k), Keeps(k, l) PROVE Keeps(m, l)
BY DEF Keeps

LEMMA ActivateIsManager == ASSUME NEW m, IsManager(m) PROVE IsManager(ActivateNext(m))
BY DEF IsManager, ActivateNext

LEMMA StepStays == ASSUME IsManager(goals), [Next]_vars PROVE Stays
<1>1. CASE goals' = goals /\ state' = state
  BY <1>1, KeepsItself, KeptStays
<1>2. CASE OnDeactivate
  BY <1>2, CancelKeeps, KeptStays DEF OnDeactivate
<1>3. CASE OnReconfigure
  BY <1>3, KeptStays DEF OnReconfigure, EmptyManager, IsManager, Keeps
<1>4. CASE OnStopNavigation
  BY <1>4, CancelKeeps, KeptStays DEF OnStopNavigation
<1>5. ASSUME NEW p \in Priorities, NEW c \in BOOLEAN, OnRecommendation(p, c) PROVE Stays
  BY <1>5, EnqueueKeeps, KeptStays DEF OnRecommendation, Request
<1>6. ASSUME NEW e \in BOOLEAN, SrvNavigateTo(e) PROVE Stays
  BY <1>6, EnqueueKeeps, KeptStays DEF SrvNavigateTo, Request
<1>7. ASSUME NEW id \in 0..MaxGoals, SrvCancel(id) PROVE Stays
  BY <1>7, CancelKeeps, KeptStays DEF SrvCancel
<1>8. CASE DockingTick
  BY <1>8, MarkEndedKeeps, KeepsItself, KeptStays DEF DockingTick
<1>9. CASE RecoveryTick
  <2>1. CASE StartGoal(goals, Step(recovery))
    BY <2>1, StartGoalKeeps, KeptStays
  <2>2. CASE Fail(goals)
    BY <2>2, MarkEndedKeeps, KeptStays DEF Fail
  <2> QED BY <1>1, <1>9, <2>1, <2>2 DEF RecoveryTick
<1>10. CASE TimeoutTick
  BY <1>10, MarkEndedKeeps, KeptStays DEF TimeoutTick, Fail
<1>11. CASE StuckTick
  BY <1>1, <1>11, KeepsItself, KeptStays DEF StuckTick, StartRecovery
<1>12. CASE RoutineTick
  <2> DEFINE m == RouteToCharger
  <2>1. Keeps(goals, m) /\ IsManager(m)
    BY RouteKeeps DEF Keeps
  <2> HIDE DEF m
  <2>2. CASE state = "IDLE" /\ StartGoal(ActivateNext(m), recovery)
    BY <2>1, <2>2, ActivateIsManager, StartGoalKeeps DEF Stays, Keeps
  <2>3. CASE state = "IDLE" /\ StartedAndAnswered(ActivateNext(m))
    BY <2>1, <2>3, ActivateIsManager, AnswerKeeps DEF StartedAndAnswered, Stays, Keeps
  <2>4. CASE CheckNav2Result(m)
    <3>1. CASE goals' = m /\ state' = state
      BY <2>1, <3>1, KeptStays
    <3>2. CASE Answer(m)
      BY <2>1, <3>2, AnswerKeeps, KeepsTwice, KeptStays
    <3> QED BY <2>4, <3>1, <3>2 DEF CheckNav2Result
  <2> QED BY <1>12, <2>2, <2>3, <2>4 DEF RoutineTick, m
<1>13. ASSUME NEW l \in Levels, OnSafetyState(l) PROVE Stays
  BY <1>1, <1>13, MarkEndedKeeps, KeepsItself, KeptStays DEF OnSafetyState
<1>14. CASE GoalExpires
  BY <1>14, KeptStays DEF GoalExpires, IsManager, Keeps
<1> QED
  BY <1>1, <1>2, <1>3, <1>4, <1>5, <1>6, <1>7, <1>8, <1>9, <1>10, <1>11, <1>12, <1>13, <1>14
     DEF Next, NavLoop, OnActivate, OnBattery, OnOdom, SupervisorSilent, PhaseExpires,
         BehaviorExpires, vars

\* The node activates at most one goal: after the first start no step leads to IDLE, and the
\* active goal is kept or given up, never replaced (_nav_loop, _start_goal).
THEOREM FirstGoalOnlyHolds == Spec => FirstGoalOnly
<1>1. Init => IsManager(goals)
  BY DEF Init, EmptyManager, IsManager
<1>2. IsManager(goals) /\ [Next]_vars => IsManager(goals)'
  BY StepStays DEF Stays, IsManager
<1>3. IsManager(goals) /\ [Next]_vars =>
        [state # "IDLE" => state' # "IDLE" /\ goals'.active.id \in {0, goals.active.id}]_vars
  BY StepStays DEF Stays, Keeps, NoGoal
<1> QED BY <1>1, <1>2, <1>3, PTL DEF Spec, FirstGoalOnly

-----------------------------------------------------------------------------
(* Each goal ends once, and the queue is in order. *)

\* A set of numbers has a least one: the choices of the manager are defined.
LEMMA Least == ASSUME NEW S \in SUBSET Nat, S # {} PROVE \E i \in S : \A j \in S : i <= j
<1>1. PICK i \in S : \A j \in S : ~(<<j, i>> \in OpToRel(<, Nat))
  BY NatLessThanWellFounded, WFMin
<1>2. ASSUME NEW j \in S PROVE i <= j
  <2>1. i \in Nat /\ j \in Nat
    OBVIOUS
  <2>2. ~(j < i)
    BY <1>1, <2>1 DEF OpToRel
  <2> QED BY <2>1, <2>2
<1> QED BY <1>2

\* What RemoveAt and InsertAt of the community modules do, element by element.
LEMMA RemoveAtProperties ==
  ASSUME NEW S, NEW s \in Seq(S), NEW i \in 1..Len(s)
  PROVE  /\ RemoveAt(s, i) \in Seq(S)
         /\ Len(RemoveAt(s, i)) = Len(s) - 1
         /\ \A j \in 1..Len(s) - 1 : RemoveAt(s, i)[j] = s[IF j < i THEN j ELSE j + 1]
<1> DEFINE a == SubSeq(s, 1, i - 1)
           b == SubSeq(s, i + 1, Len(s))
<1>1. Len(s) \in Nat /\ \A j \in 1..Len(s) : s[j] \in S
  BY LenProperties, ElementOfSeq
<1>2. a \in Seq(S) /\ Len(a) = i - 1 /\ \A j \in 1..i - 1 : a[j] = s[j]
  <2>1. \A j \in 1..i - 1 : s[j] \in S
    BY <1>1
  <2> HIDE DEF a
  <2>2. /\ a \in Seq(S)
        /\ Len(a) = (IF 1 <= i - 1 THEN i - 1 - 1 + 1 ELSE 0)
        /\ \A j \in 1..i - 1 - 1 + 1 : a[j] = s[1 + j - 1]
    BY <2>1, <1>1, SubSeqProperties DEF a
  <2> QED BY <2>2, <1>1
<1>3. b \in Seq(S) /\ Len(b) = Len(s) - i /\ \A j \in 1..Len(s) - i : b[j] = s[i + j]
  <2>1. \A j \in i + 1..Len(s) : s[j] \in S
    BY <1>1
  <2> HIDE DEF b
  <2>2. /\ b \in Seq(S)
        /\ Len(b) = (IF i + 1 <= Len(s) THEN Len(s) - (i + 1) + 1 ELSE 0)
        /\ \A j \in 1..Len(s) - (i + 1) + 1 : b[j] = s[i + 1 + j - 1]
    BY <2>1, <1>1, SubSeqProperties DEF b
  <2> QED BY <2>2, <1>1
<1>4. RemoveAt(s, i) = a \o b
  BY DEF RemoveAt
<1> HIDE DEF a, b
<1>5. /\ a \o b \in Seq(S) /\ Len(a \o b) = Len(a) + Len(b)
      /\ \A j \in 1..Len(a) + Len(b) : (a \o b)[j] = IF j <= Len(a) THEN a[j] ELSE b[j - Len(a)]
  BY <1>2, <1>3, ConcatProperties
<1>6. ASSUME NEW j \in 1..Len(s) - 1
      PROVE  (a \o b)[j] = s[IF j < i THEN j ELSE j + 1]
  <2>1. j \in 1..Len(a) + Len(b) /\ j \in Nat /\ i \in Nat
    BY <1>1, <1>2, <1>3
  <2>2. (a \o b)[j] = IF j <= Len(a) THEN a[j] ELSE b[j - Len(a)]
    BY <1>5, <2>1
  <2>3. CASE j < i
    <3>1. j <= Len(a) /\ j \in 1..i - 1
      BY <1>2, <2>1, <2>3
    <3> QED BY <1>2, <2>2, <2>3, <3>1
  <2>4. CASE ~(j < i)
    <3>1. ~(j <= Len(a)) /\ j - Len(a) = j - i + 1 /\ j - i + 1 \in 1..Len(s) - i
      BY <1>1, <1>2, <2>1, <2>4
    <3>2. b[j - i + 1] = s[i + (j - i + 1)] /\ i + (j - i + 1) = j + 1
      BY <1>3, <2>1, <3>1
    <3> QED BY <2>2, <2>4, <3>1, <3>2
  <2> QED BY <2>3, <2>4
<1>7. Len(a \o b) = Len(s) - 1
  BY <1>1, <1>2, <1>3, <1>5
<1> DEFINE r == a \o b
<1>8. r \in Seq(S) /\ Len(r) = Len(s) - 1 /\ RemoveAt(s, i) = r
  BY <1>4, <1>5, <1>7
<1>9. \A j \in 1..Len(s) - 1 : r[j] = s[IF j < i THEN j ELSE j + 1]
  BY <1>6
<1> HIDE DEF r
<1> QED BY <1>8, <1>9

\* The same for InsertAt.
LEMMA InsertAtProperties ==
  ASSUME NEW S, NEW s \in Seq(S), NEW i \in 1..Len(s), NEW e \in S
  PROVE  /\ InsertAt(s, i, e) \in Seq(S)
         /\ Len(InsertAt(s, i, e)) = Len(s) + 1
         /\ \A j \in 1..Len(s) + 1 :
              InsertAt(s, i, e)[j] = IF j < i THEN s[j] ELSE IF j = i THEN e ELSE s[j - 1]
<1> DEFINE a == SubSeq(s, 1, i - 1)
           b == SubSeq(s, i, Len(s))
<1>1. Len(s) \in Nat /\ \A j \in 1..Len(s) : s[j] \in S
  BY LenProperties, ElementOfSeq
<1>2. a \in Seq(S) /\ Len(a) = i - 1 /\ \A j \in 1..i - 1 : a[j] = s[j]
  <2>1. \A j \in 1..i - 1 : s[j] \in S
    BY <1>1
  <2> HIDE DEF a
  <2>2. /\ a \in Seq(S)
        /\ Len(a) = (IF 1 <= i - 1 THEN i - 1 - 1 + 1 ELSE 0)
        /\ \A j \in 1..i - 1 - 1 + 1 : a[j] = s[1 + j - 1]
    BY <2>1, <1>1, SubSeqProperties DEF a
  <2> QED BY <2>2, <1>1
<1>3. b \in Seq(S) /\ Len(b) = Len(s) - i + 1 /\ \A j \in 1..Len(s) - i + 1 : b[j] = s[i + j - 1]
  <2>1. \A j \in i..Len(s) : s[j] \in S
    BY <1>1
  <2> HIDE DEF b
  <2>2. /\ b \in Seq(S)
        /\ Len(b) = (IF i <= Len(s) THEN Len(s) - i + 1 ELSE 0)
        /\ \A j \in 1..Len(s) - i + 1 : b[j] = s[i + j - 1]
    BY <2>1, <1>1, SubSeqProperties DEF b
  <2> QED BY <2>2, <1>1
<1>4. InsertAt(s, i, e) = (a \o <<e>>) \o b
  BY DEF InsertAt
<1>5. a \o <<e>> = Append(a, e)
  BY <1>2, AppendIsConcat
<1> DEFINE c == Append(a, e)
<1> HIDE DEF a, b
<1>6. /\ c \in Seq(S) /\ Len(c) = i
      /\ \A j \in 1..i - 1 : c[j] = s[j]
      /\ c[i] = e
  BY <1>1, <1>2, AppendProperties
<1> DEFINE d == c \o b
<1> HIDE DEF c
<1>7. /\ d \in Seq(S) /\ Len(d) = Len(c) + Len(b)
      /\ \A j \in 1..Len(c) + Len(b) : d[j] = IF j <= Len(c) THEN c[j] ELSE b[j - Len(c)]
  BY <1>3, <1>6, ConcatProperties
<1>8. InsertAt(s, i, e) = d
  BY <1>4, <1>5 DEF c
<1> HIDE DEF d
<1>9. ASSUME NEW j \in 1..Len(s) + 1
      PROVE  d[j] = IF j < i THEN s[j] ELSE IF j = i THEN e ELSE s[j - 1]
  <2>1. CASE j <= i
    BY <1>1, <1>3, <1>6, <1>7, <2>1
  <2>2. CASE i < j
    <3>1. d[j] = b[j - i] /\ j - i \in 1..Len(s) - i + 1
      BY <1>1, <1>3, <1>6, <1>7, <2>2
    <3>2. b[j - i] = s[i + (j - i) - 1] /\ i + (j - i) - 1 = j - 1
      BY <1>1, <1>3, <3>1
    <3> QED BY <2>2, <3>1, <3>2
  <2> QED BY <1>1, <2>1, <2>2
<1> QED BY <1>1, <1>3, <1>6, <1>7, <1>8, <1>9

-----------------------------------------------------------------------------
(* The queue and the manager. *)

\* g is served before h, and they are not the same goal.
Before(g, h) ==
  /\ g.id # h.id
  /\ g.priority > h.priority \/ (g.priority = h.priority /\ g.id < h.id)

\* A queue of goals older than n, each once and in the order of service.
QueueOK(queue, n) ==
  /\ queue \in Seq(Goal)
  /\ \A i \in 1..Len(queue) : queue[i].id < n
  /\ \A i, j \in 1..Len(queue) : i < j => Before(queue[i], queue[j])

\* A history of goals older than n, each with one outcome.
HistoryOK(history, n) ==
  /\ history \subseteq [id : Nat \ {0}, outcome : Outcome]
  /\ \A e \in history : e.id < n
  /\ \A e, f \in history : e.id = f.id => e = f

\* Queue, active goal and history have no goal in common.
Apart(queue, goal, history) ==
  /\ \A i \in 1..Len(queue) : queue[i].id # goal.id /\ \A e \in history : e.id # queue[i].id
  /\ \A e \in history : e.id # goal.id

\* A manager whose goals are all older than n.
ManagerOK(m, n) ==
  /\ m \in Manager
  /\ QueueOK(m.queue, n) /\ Len(m.queue) <= MaxQueue
  /\ HistoryOK(m.history, n)
  /\ m.active.id < n
  /\ Apart(m.queue, m.active, m.history)

\* The number 0 belongs to no goal.
LEMMA NoGoalType == NoGoal.id = 0 /\ \A g \in Goal : g.id \in Nat \ {0} /\ g.priority \in 0..3
BY DEF NoGoal, Goal

\* The empty queue is in order.
LEMMA EmptyQueueOK == ASSUME NEW n \in Nat PROVE QueueOK(<<>>, n) /\ Len(<<>>) = 0
BY EmptySeq DEF QueueOK

\* Taking a goal out leaves a queue, and only goals that were in it.
LEMMA RemoveKeepsQueue ==
  ASSUME NEW n \in Nat, NEW queue, QueueOK(queue, n), NEW i \in 1..Len(queue)
  PROVE  LET rest == RemoveAt(queue, i)
         IN  /\ QueueOK(rest, n) /\ Len(rest) = Len(queue) - 1
             /\ \A j \in 1..Len(rest) : \E k \in 1..Len(queue) : k # i /\ rest[j] = queue[k]
<1> DEFINE rest == RemoveAt(queue, i)
           from(j) == IF j < i THEN j ELSE j + 1
<1>1. queue \in Seq(Goal) /\ Len(queue) \in Nat
  BY LenProperties DEF QueueOK
<1>2. /\ rest \in Seq(Goal) /\ Len(rest) = Len(queue) - 1
      /\ \A j \in 1..Len(queue) - 1 : rest[j] = queue[from(j)]
  BY <1>1, RemoveAtProperties
<1>3. /\ \A j \in 1..Len(rest) : from(j) \in 1..Len(queue) /\ from(j) # i
      /\ \A j, k \in 1..Len(rest) : j < k => from(j) < from(k)
  BY <1>1, <1>2
<1> HIDE DEF rest, from
<1>4. \A j \in 1..Len(rest) : rest[j].id < n
  BY <1>2, <1>3 DEF QueueOK
<1>5. \A j, k \in 1..Len(rest) : j < k => Before(rest[j], rest[k])
  BY <1>2, <1>3 DEF QueueOK
<1>6. QueueOK(rest, n)
  BY <1>2, <1>4, <1>5 DEF QueueOK
<1>7. \A j \in 1..Len(rest) : from(j) \in 1..Len(queue) /\ from(j) # i /\ rest[j] = queue[from(j)]
  BY <1>2, <1>3
<1> QED BY <1>2, <1>6, <1>7 DEF rest

\* There is always a goal to drop: the lowest priority occurs, and occurs first somewhere.
LEMMA DropKeepsQueue ==
  ASSUME NEW n \in Nat, NEW queue, QueueOK(queue, n), queue # <<>>
  PROVE  LET rest == DropLowestPriority(queue)
         IN  /\ QueueOK(rest, n) /\ Len(rest) = Len(queue) - 1
             /\ \A j \in 1..Len(rest) : \E k \in 1..Len(queue) : rest[j] = queue[k]
<1> DEFINE P == {queue[i].priority : i \in 1..Len(queue)}
<1>1. queue \in Seq(Goal) /\ Len(queue) \in Nat \ {0}
  BY EmptySeq DEF QueueOK
<1>2. \A i \in 1..Len(queue) : queue[i] \in Goal
  BY <1>1, ElementOfSeq
<1>3. \A i \in 1..Len(queue) : queue[i].priority \in Nat
  BY <1>2, NoGoalType
<1>4. PICK p \in P : \A q \in P : p <= q
  <2>1. P \subseteq Nat
    BY <1>3
  <2>2. queue[1].priority \in P
    BY <1>1
  <2> HIDE DEF P
  <2> QED BY <2>1, <2>2, Least
<1> DEFINE L == {i \in 1..Len(queue) : queue[i].priority = p}
<1>5. PICK i \in L : \A j \in L : i <= j
  <2>1. L # {} /\ L \subseteq Nat
    BY <1>4
  <2> HIDE DEF L
  <2> QED BY <2>1, Least
<1>6. /\ i \in 1..Len(queue)
      /\ \A j \in 1..Len(queue) : queue[i].priority <= queue[j].priority
  BY <1>4, <1>5
<1>7. ASSUME NEW j \in 1..i - 1 PROVE queue[i].priority < queue[j].priority
  <2>1. j \in 1..Len(queue) /\ ~(i <= j)
    BY <1>1, <1>6
  <2>2. queue[j].priority # p
    BY <1>5, <2>1
  <2> QED BY <1>3, <1>4, <1>5, <1>6, <2>1, <2>2
<1>8. PICK k \in 1..Len(queue) : DropLowestPriority(queue) = RemoveAt(queue, k)
  BY <1>6, <1>7 DEF DropLowestPriority
<1>9. LET rest == RemoveAt(queue, k)
      IN  /\ QueueOK(rest, n) /\ Len(rest) = Len(queue) - 1
          /\ \A j \in 1..Len(rest) : \E l \in 1..Len(queue) : l # k /\ rest[j] = queue[l]
  BY RemoveKeepsQueue
<1> QED BY <1>8, <1>9

\* A new goal, the youngest of all, takes its place: behind its equals.
LEMMA InsertKeepsQueue ==
  ASSUME NEW n \in Nat, NEW queue, QueueOK(queue, n), NEW goal \in Goal, goal.id = n
  PROVE  LET longer == InsertByPriority(queue, goal)
         IN  /\ QueueOK(longer, n + 1) /\ Len(longer) = Len(queue) + 1
             /\ \A j \in 1..Len(longer) :
                  longer[j] = goal \/ \E k \in 1..Len(queue) : longer[j] = queue[k]
<1> DEFINE behind == {i \in 1..Len(queue) : goal.priority > queue[i].priority}
           longer == InsertByPriority(queue, goal)
<1>1. queue \in Seq(Goal) /\ Len(queue) \in Nat /\ \A i \in 1..Len(queue) : queue[i] \in Goal
  BY LenProperties, ElementOfSeq DEF QueueOK
<1>2. /\ goal.priority \in Nat
      /\ \A i \in 1..Len(queue) : queue[i].priority \in Nat /\ queue[i].id \in Nat /\ queue[i].id < n
  BY <1>1, NoGoalType DEF QueueOK
<1>3. PICK i \in 1..Len(queue) + 1 :
        /\ longer \in Seq(Goal) /\ Len(longer) = Len(queue) + 1
        /\ \A j \in 1..Len(queue) + 1 :
             longer[j] = IF j < i THEN queue[j] ELSE IF j = i THEN goal ELSE queue[j - 1]
        /\ \A j \in 1..Len(queue) :
             IF j < i THEN queue[j].priority >= goal.priority ELSE queue[j].priority < goal.priority
  <2>1. CASE behind = {}
    <3>1. longer = Append(queue, goal)
      BY <2>1 DEF InsertByPriority
    <3>2. \A j \in 1..Len(queue) : queue[j].priority >= goal.priority
      BY <1>2, <2>1
    <3>3. /\ longer \in Seq(Goal) /\ Len(longer) = Len(queue) + 1
          /\ \A j \in 1..Len(queue) : longer[j] = queue[j]
          /\ longer[Len(queue) + 1] = goal
      BY <1>1, <3>1, AppendProperties
    <3> HIDE DEF longer, behind
    <3> WITNESS Len(queue) + 1 \in 1..Len(queue) + 1
    <3> QED BY <1>1, <3>2, <3>3
  <2>2. CASE behind # {}
    <3> DEFINE first == CHOOSE j \in behind : \A k \in behind : j <= k
    <3>1. first \in behind /\ \A k \in behind : first <= k
      <4>1. behind \subseteq Nat
        OBVIOUS
      <4>2. \E j \in behind : \A k \in behind : j <= k
        BY <2>2, <4>1, Least
      <4> QED BY <4>2
    <3>2. longer = InsertAt(queue, first, goal)
      BY <2>2 DEF InsertByPriority
    <3> HIDE DEF first
    <3>3. first \in 1..Len(queue) /\ first \in Nat /\ goal.priority > queue[first].priority
      BY <3>1
    <3>4. ASSUME NEW j \in 1..Len(queue), j < first PROVE queue[j].priority >= goal.priority
      BY <1>2, <3>1, <3>3, <3>4
    <3>5. ASSUME NEW j \in 1..Len(queue), ~(j < first) PROVE queue[j].priority < goal.priority
      <4>1. j = first \/ Before(queue[first], queue[j])
        BY <3>3, <3>5 DEF QueueOK
      <4> QED BY <1>2, <3>3, <4>1 DEF Before
    <3>6. /\ longer \in Seq(Goal) /\ Len(longer) = Len(queue) + 1
          /\ \A j \in 1..Len(queue) + 1 :
               longer[j] = IF j < first THEN queue[j] ELSE IF j = first THEN goal ELSE queue[j - 1]
      BY <1>1, <3>2, <3>3, InsertAtProperties
    <3>7. first \in 1..Len(queue) + 1
      BY <1>1, <3>3
    <3> HIDE DEF longer, behind
    <3> QED BY <3>4, <3>5, <3>6, <3>7
  <2> QED BY <2>1, <2>2
<1> HIDE DEF longer, behind
<1>4. ASSUME NEW j \in 1..Len(longer)
      PROVE  /\ longer[j].id < n + 1
             /\ longer[j] = goal \/ \E k \in 1..Len(queue) : longer[j] = queue[k]
  <2>1. CASE j < i
    BY <1>1, <1>2, <1>3, <2>1
  <2>2. CASE j = i
    BY <1>3, <2>2
  <2>3. CASE j > i
    <3>1. j - 1 \in 1..Len(queue) /\ longer[j] = queue[j - 1]
      BY <1>1, <1>3, <2>3
    <3> QED BY <1>2, <3>1
  <2> QED BY <1>1, <1>3, <2>1, <2>2, <2>3
<1>5. ASSUME NEW j \in 1..Len(longer), NEW k \in 1..Len(longer), j < k
      PROVE  Before(longer[j], longer[k])
  <2>1. CASE k < i
    BY <1>1, <1>3, <1>5, <2>1 DEF QueueOK
  <2>2. CASE k = i
    <3>1. /\ j \in 1..Len(queue)
          /\ longer[j] = queue[j]
          /\ longer[k] = goal
          /\ queue[j].priority >= goal.priority
      BY <1>1, <1>3, <1>5, <2>2
    <3> QED BY <1>2, <3>1 DEF Before
  <2>3. CASE j = i
    <3>1. /\ k - 1 \in 1..Len(queue) /\ ~(k - 1 < i)
          /\ longer[j] = goal /\ longer[k] = queue[k - 1]
      BY <1>1, <1>3, <1>5, <2>3
    <3>2. queue[k - 1].priority < goal.priority /\ queue[k - 1].id < n /\ queue[k - 1].id \in Nat
      BY <1>2, <1>3, <3>1
    <3> QED BY <1>2, <3>1, <3>2 DEF Before
  <2>4. CASE j < i /\ i < k
    <3>1. /\ j \in 1..Len(queue) /\ k - 1 \in 1..Len(queue) /\ ~(k - 1 < i)
          /\ longer[j] = queue[j] /\ longer[k] = queue[k - 1]
          /\ j < k - 1
      BY <1>1, <1>3, <1>5, <2>4
    <3> QED BY <3>1 DEF QueueOK
  <2>5. CASE i < j
    <3>1. /\ j - 1 \in 1..Len(queue) /\ k - 1 \in 1..Len(queue)
          /\ longer[j] = queue[j - 1] /\ longer[k] = queue[k - 1]
          /\ j - 1 < k - 1
      BY <1>1, <1>3, <1>5, <2>5
    <3> QED BY <3>1 DEF QueueOK
  <2> QED BY <1>1, <1>3, <1>5, <2>1, <2>2, <2>3, <2>4, <2>5
<1>6. QueueOK(longer, n + 1)
  BY <1>3, <1>4, <1>5 DEF QueueOK
<1> QED BY <1>3, <1>4, <1>6 DEF longer

-----------------------------------------------------------------------------
\* A new manager is in order.
LEMMA EmptyManagerOK == ASSUME NEW n \in Nat \ {0} PROVE ManagerOK(EmptyManager, n)
<1>1. EmptyManager \in Manager
  BY EmptySeq, ManagerAssumption DEF EmptyManager, Manager
<1> QED BY <1>1, EmptyQueueOK, NoGoalType, ManagerAssumption
       DEF EmptyManager, ManagerOK, HistoryOK, Apart

\* The active goal that ends enters the history (mark_succeeded, mark_failed).
LEMMA MarkEndedOK ==
  ASSUME NEW n \in Nat, NEW m, ManagerOK(m, n), m.active # NoGoal, NEW outcome \in Outcome
  PROVE  ManagerOK(MarkEnded(m, outcome), n) /\ MarkEnded(m, outcome).active = NoGoal
<1> DEFINE e == Ended(m.active, outcome)
           k == MarkEnded(m, outcome)
<1>1. m \in Manager /\ m.active \in Goal /\ m.active.id \in Nat \ {0} /\ m.active.id < n
  BY NoGoalType DEF ManagerOK, Manager
<1>2. e \in [id : Nat \ {0}, outcome : Outcome] /\ e.id = m.active.id
  BY <1>1 DEF Ended
<1> HIDE DEF e
<1>3. /\ k \in Manager
      /\ k.queue = m.queue /\ k.active = NoGoal /\ k.history = m.history \cup {e}
  <2>1. k = [m EXCEPT !.active = NoGoal, !.plan_fail_count = 0, !.late = FALSE,
                      !.history = m.history \cup {e}]
    BY DEF MarkEnded, e
  <2>2. 0 \in 0..MaxPlanFail - 1
    BY ManagerAssumption
  <2> HIDE DEF k
  <2> QED BY <1>1, <1>2, <2>1, <2>2 DEF Manager
<1> HIDE DEF k
<1>4. HistoryOK(k.history, n)
  BY <1>1, <1>2, <1>3 DEF ManagerOK, HistoryOK, Apart
<1>5. Apart(k.queue, k.active, k.history)
  <2>1. \A i \in 1..Len(m.queue) : m.queue[i].id \in Nat \ {0}
    BY NoGoalType, ElementOfSeq DEF ManagerOK, QueueOK
  <2> QED BY <1>1, <1>2, <1>3, <2>1, NoGoalType DEF ManagerOK, HistoryOK, Apart
<1>6. k.active.id < n
  BY <1>1, <1>3, NoGoalType
<1> QED BY <1>3, <1>4, <1>5, <1>6 DEF ManagerOK, k

\* Cancelling what is active, if anything is (_cancel_active).
LEMMA CancelActiveOK ==
  ASSUME NEW n \in Nat, NEW m, ManagerOK(m, n)
  PROVE  ManagerOK(CancelActive(m), n) /\ CancelActive(m).active = NoGoal
         /\ CancelActive(m).queue = m.queue
<1>1. CASE m.active = NoGoal
  BY <1>1 DEF CancelActive
<1>2. CASE m.active # NoGoal
  BY <1>2, MarkEndedOK DEF CancelActive, Outcome, MarkEnded, ManagerOK, Manager
<1> QED BY <1>1, <1>2

\* Another queue that has no goals but those of the old one.
LEMMA FewerOK ==
  ASSUME NEW n \in Nat, NEW m, ManagerOK(m, n), NEW queue, QueueOK(queue, n),
         Len(queue) <= Len(m.queue),
         \A i \in 1..Len(queue) : \E k \in 1..Len(m.queue) : queue[i] = m.queue[k]
  PROVE  LET k == [m EXCEPT !.queue = queue]
         IN  ManagerOK(k, n) /\ k.queue = queue /\ k.active = m.active /\ k.history = m.history
<1> DEFINE k == [m EXCEPT !.queue = queue]
<1>1. k \in Manager /\ k.queue = queue /\ k.active = m.active /\ k.history = m.history
  BY DEF ManagerOK, QueueOK, Manager
<1> HIDE DEF k
<1>2. Len(k.queue) <= MaxQueue
  BY <1>1, LenProperties, ManagerAssumption DEF ManagerOK, QueueOK
<1>3. Apart(k.queue, k.active, k.history)
  BY <1>1 DEF ManagerOK, Apart
<1> QED BY <1>1, <1>2, <1>3 DEF ManagerOK, k

\* A request is queued behind its equals; what it drops or cancels makes room.
LEMMA EnqueueOK ==
  ASSUME NEW n \in Nat, NEW m, ManagerOK(m, n), NEW goal \in Goal, goal.id = n, NEW preempt \in BOOLEAN
  PROVE  ManagerOK(Enqueue(m, goal, preempt), n + 1)
<1> DEFINE kept == IF preempt THEN [CancelActive(m) EXCEPT !.queue = <<>>] ELSE m
           room == IF Len(kept.queue) >= MaxQueue THEN DropLowestPriority(kept.queue) ELSE kept.queue
           longer == InsertByPriority(room, goal)
<1>1. ManagerOK(kept, n)
  <2>1. CASE preempt
    <3> DEFINE c == CancelActive(m)
               empty == <<>>
    <3>1. ManagerOK(c, n) /\ Len(c.queue) \in Nat
      BY CancelActiveOK, LenProperties DEF ManagerOK, QueueOK
    <3>2. QueueOK(empty, n) /\ Len(empty) = 0
      BY EmptyQueueOK
    <3>3. kept = [c EXCEPT !.queue = empty]
      BY <2>1
    <3> HIDE DEF c, empty, kept
    <3>4. Len(empty) <= Len(c.queue)
          /\ \A i \in 1..Len(empty) : \E k \in 1..Len(c.queue) : empty[i] = c.queue[k]
      BY <3>1, <3>2
    <3> QED BY <3>1, <3>2, <3>3, <3>4, FewerOK
  <2> QED BY <2>1
<1> HIDE DEF kept
<1>2. Len(kept.queue) \in Nat /\ (kept.queue = <<>> => Len(kept.queue) = 0)
  BY <1>1, LenProperties, EmptySeq DEF ManagerOK, QueueOK
<1>3. /\ QueueOK(room, n) /\ Len(room) + 1 <= MaxQueue
      /\ \A j \in 1..Len(room) : \E k \in 1..Len(kept.queue) : room[j] = kept.queue[k]
  <2>1. CASE Len(kept.queue) >= MaxQueue
    <3>1. LET rest == DropLowestPriority(kept.queue)
          IN  /\ QueueOK(rest, n) /\ Len(rest) = Len(kept.queue) - 1
              /\ \A j \in 1..Len(rest) : \E k \in 1..Len(kept.queue) : rest[j] = kept.queue[k]
      BY <1>1, <1>2, <2>1, ManagerAssumption, DropKeepsQueue DEF ManagerOK
    <3>2. room = DropLowestPriority(kept.queue)
      BY <2>1
    <3> HIDE DEF room
    <3> QED BY <1>1, <1>2, <3>1, <3>2, ManagerAssumption DEF ManagerOK
  <2>2. CASE Len(kept.queue) < MaxQueue
    <3>1. room = kept.queue
      BY <1>2, <2>2, ManagerAssumption
    <3> HIDE DEF room
    <3> QED BY <1>1, <1>2, <2>2, <3>1, ManagerAssumption DEF ManagerOK
  <2> QED BY <1>2, <2>1, <2>2, ManagerAssumption
<1> HIDE DEF room
<1>4. /\ QueueOK(longer, n + 1) /\ Len(longer) = Len(room) + 1
      /\ \A j \in 1..Len(longer) : longer[j] = goal \/ \E k \in 1..Len(kept.queue) : longer[j] = kept.queue[k]
  BY <1>3, InsertKeepsQueue
<1> HIDE DEF longer
<1> DEFINE r == [kept EXCEPT !.queue = longer]
<1>5. r \in Manager /\ r.queue = longer /\ r.active = kept.active /\ r.history = kept.history
  BY <1>1, <1>4 DEF ManagerOK, QueueOK, Manager
<1> HIDE DEF r
<1>6. HistoryOK(r.history, n + 1) /\ r.active.id < n + 1 /\ r.active.id \in Nat /\ r.active.id < n
  BY <1>1, <1>5, NoGoalType DEF ManagerOK, HistoryOK, Manager
<1>7. Apart(r.queue, r.active, r.history)
  <2>1. \A e \in r.history : e.id \in Nat /\ e.id < n
    BY <1>1, <1>5 DEF ManagerOK, HistoryOK
  <2>2. \A k \in 1..Len(kept.queue) :
          kept.queue[k].id # r.active.id /\ \A e \in r.history : e.id # kept.queue[k].id
    BY <1>1, <1>5 DEF ManagerOK, Apart
  <2>3. \A j \in 1..Len(longer) : longer[j].id # r.active.id /\ \A e \in r.history : e.id # longer[j].id
    BY <1>4, <1>6, <2>1, <2>2
  <2> QED BY <1>1, <1>5, <2>3 DEF ManagerOK, Apart
<1>8. ManagerOK(r, n + 1)
  BY <1>3, <1>4, <1>5, <1>6, <1>7 DEF ManagerOK
<1>9. Enqueue(m, goal, preempt) = r
  BY DEF Enqueue, r, longer, room, kept
<1> QED BY <1>8, <1>9

\* The head of the queue becomes the active goal (activate_next).
LEMMA ActivateNextOK ==
  ASSUME NEW n \in Nat, NEW m, ManagerOK(m, n), CanActivate(m)
  PROVE  ManagerOK(ActivateNext(m), n) /\ ActivateNext(m).active # NoGoal
<1> DEFINE r == ActivateNext(m)
           rest == Tail(m.queue)
<1>1. /\ m.queue \in Seq(Goal) /\ m.queue # <<>> /\ Len(m.queue) \in Nat \ {0}
      /\ Head(m.queue) = m.queue[1] /\ m.queue[1] \in Goal
  BY EmptySeq, ElementOfSeq DEF ManagerOK, QueueOK, CanActivate
<1>2. /\ rest \in Seq(Goal) /\ Len(rest) = Len(m.queue) - 1
      /\ \A i \in 1..Len(rest) : rest[i] = m.queue[i + 1]
  BY <1>1, HeadTailProperties
<1> HIDE DEF rest
<1>3. r \in Manager /\ r.queue = rest /\ r.active = m.queue[1] /\ r.history = m.history
  BY <1>1, <1>2 DEF ManagerOK, Manager, ActivateNext, rest
<1> HIDE DEF r
<1>4. \A i \in 1..Len(rest) : i + 1 \in 1..Len(m.queue) /\ 1 < i + 1 /\ rest[i] = m.queue[i + 1]
  BY <1>1, <1>2
<1>5. QueueOK(rest, n)
  <2>1. \A i \in 1..Len(rest) : rest[i].id < n
    BY <1>4 DEF ManagerOK, QueueOK
  <2>2. ASSUME NEW i \in 1..Len(rest), NEW j \in 1..Len(rest), i < j
        PROVE  Before(rest[i], rest[j])
    BY <1>4, <2>2 DEF ManagerOK, QueueOK
  <2> QED BY <1>2, <2>1, <2>2 DEF QueueOK
<1>6. 1 \in 1..Len(m.queue)
  BY <1>1
<1>7. Apart(rest, m.queue[1], m.history)
  <2>1. \A i \in 1..Len(rest) : rest[i].id # m.queue[1].id
    BY <1>4, <1>6 DEF ManagerOK, QueueOK, Before
  <2> QED BY <1>4, <1>6, <2>1 DEF ManagerOK, Apart
<1>8. m.queue[1].id < n /\ m.queue[1] # NoGoal
  BY <1>1, <1>6, NoGoalType DEF ManagerOK, QueueOK
<1>9. Len(rest) <= MaxQueue
  BY <1>1, <1>2, ManagerAssumption DEF ManagerOK
<1> QED BY <1>3, <1>5, <1>7, <1>8, <1>9 DEF ManagerOK, r

\* A queued goal that is cancelled leaves the queue and enters the history.
LEMMA CancelGoalOK ==
  ASSUME NEW n \in Nat, NEW m, ManagerOK(m, n), NEW id
  PROVE  ManagerOK(CancelGoal(m, id), n)
<1> DEFINE at == {i \in 1..Len(m.queue) : m.queue[i].id = id}
           first == CHOOSE i \in at : \A j \in at : i <= j
<1>1. CASE m.active.id = id
  BY <1>1, CancelActiveOK DEF CancelGoal
<1>2. CASE m.active.id # id /\ at = {}
  BY <1>2 DEF CancelGoal
<1>3. CASE m.active.id # id /\ at # {}
  <2> DEFINE rest == RemoveAt(m.queue, first)
             e == Ended(m.queue[first], "CANCELLED")
             r == [m EXCEPT !.queue = rest, !.history = @ \cup {e}]
  <2>1. first \in at
    <3>1. at \subseteq Nat
      OBVIOUS
    <3>2. \E i \in at : \A j \in at : i <= j
      BY <1>3, <3>1, Least
    <3> QED BY <3>2
  <2>2. first \in 1..Len(m.queue)
    BY <2>1
  <2>3. CancelGoal(m, id) = r
    BY <1>3 DEF CancelGoal
  <2> HIDE DEF first, at
  <2>4. /\ QueueOK(rest, n) /\ Len(rest) = Len(m.queue) - 1
        /\ \A j \in 1..Len(rest) : \E k \in 1..Len(m.queue) : k # first /\ rest[j] = m.queue[k]
    BY <2>2, RemoveKeepsQueue DEF ManagerOK
  <2>5. /\ m.queue[first] \in Goal /\ m.queue[first].id < n /\ Len(m.queue) \in Nat
        /\ m.queue[first].id \in Nat \ {0}
    BY <2>2, ElementOfSeq, LenProperties, NoGoalType DEF ManagerOK, QueueOK
  <2>6. e \in [id : Nat \ {0}, outcome : Outcome] /\ e.id = m.queue[first].id
    BY <2>5 DEF Ended, Outcome
  <2> HIDE DEF rest, e
  <2>7. r \in Manager /\ r.queue = rest /\ r.active = m.active /\ r.history = m.history \cup {e}
    BY <2>4, <2>6 DEF ManagerOK, QueueOK, Manager
  <2> HIDE DEF r
  <2>8. HistoryOK(r.history, n)
    BY <2>2, <2>5, <2>6, <2>7 DEF ManagerOK, HistoryOK, Apart
  <2>9. Apart(r.queue, r.active, r.history)
    <3>1. \A j \in 1..Len(rest) : rest[j].id # e.id
      <4>1. \A k \in 1..Len(m.queue) : k # first => m.queue[k].id # e.id
        <5> TAKE k \in 1..Len(m.queue)
        <5> HAVE k # first
        <5>1. k < first \/ first < k
          BY <2>2, <2>5
        <5> QED BY <2>2, <2>6, <5>1 DEF ManagerOK, QueueOK, Before
      <4> QED BY <2>4, <4>1
    <3>2. \A j \in 1..Len(rest) : rest[j].id # m.active.id /\ \A f \in m.history : f.id # rest[j].id
      BY <2>4 DEF ManagerOK, Apart
    <3>3. e.id # m.active.id
      BY <2>2, <2>6 DEF ManagerOK, Apart
    <3> QED BY <2>7, <3>1, <3>2, <3>3 DEF ManagerOK, Apart
  <2>10. Len(rest) <= MaxQueue
    BY <2>4, <2>5, ManagerAssumption DEF ManagerOK
  <2> QED BY <2>3, <2>4, <2>7, <2>8, <2>9, <2>10 DEF ManagerOK
<1> QED BY <1>1, <1>2, <1>3

\* All that is queued enters the history at once: no two of it are the same goal.
LEMMA CancelAllOK ==
  ASSUME NEW n \in Nat, NEW m, ManagerOK(m, n)
  PROVE  ManagerOK(CancelAll(m), n)
<1> DEFINE k == CancelActive(m)
           gone == {Ended(g, "CANCELLED") : g \in ToSet(m.queue)}
           r == [k EXCEPT !.queue = <<>>, !.history = @ \cup gone]
<1>1. ManagerOK(k, n) /\ k.active = NoGoal /\ k.queue = m.queue
  BY CancelActiveOK
<1>2. CancelAll(m) = r
  BY DEF CancelAll
<1> HIDE DEF k
<1>3. /\ k.queue \in Seq(Goal) /\ DOMAIN k.queue = 1..Len(k.queue) /\ Len(k.queue) \in Nat
      /\ \A i \in 1..Len(k.queue) : k.queue[i] \in Goal /\ k.queue[i].id \in Nat \ {0}
  BY <1>1, LenProperties, ElementOfSeq, NoGoalType DEF ManagerOK, QueueOK
<1>4. \A e \in gone : /\ e \in [id : Nat \ {0}, outcome : Outcome]
                       /\ \E i \in 1..Len(k.queue) : e = [id |-> k.queue[i].id, outcome |-> "CANCELLED"]
  BY <1>1, <1>3 DEF Ended, ToSet, Outcome
<1> HIDE DEF gone
<1>5. r \in Manager /\ r.queue = <<>> /\ r.active = NoGoal /\ r.history = k.history \cup gone
  BY <1>1, <1>4, EmptySeq DEF ManagerOK, Manager
<1> HIDE DEF r
<1>6. \A i, j \in 1..Len(k.queue) : k.queue[i].id = k.queue[j].id => i = j
  <2> TAKE i, j \in 1..Len(k.queue)
  <2> HAVE k.queue[i].id = k.queue[j].id
  <2>1. ~(i < j) /\ ~(j < i)
    BY <1>1 DEF ManagerOK, QueueOK, Before
  <2> QED BY <1>3, <2>1
<1>7. HistoryOK(r.history, n)
  <2>1. \A e \in gone : e.id < n
    BY <1>1, <1>4 DEF ManagerOK, QueueOK
  <2>2. \A e, f \in gone : e.id = f.id => e = f
    BY <1>4, <1>6
  <2>3. \A e \in gone, f \in k.history : e.id # f.id
    BY <1>1, <1>4 DEF ManagerOK, Apart
  <2> QED BY <1>1, <1>4, <1>5, <2>1, <2>2, <2>3 DEF ManagerOK, HistoryOK
<1>8. Apart(r.queue, r.active, r.history)
  <2>1. \A e \in r.history : e.id \in Nat \ {0}
    BY <1>7 DEF HistoryOK
  <2> QED BY <1>5, <2>1, EmptyQueueOK, NoGoalType DEF Apart
<1> QED BY <1>1, <1>2, <1>5, <1>7, <1>8, EmptyQueueOK, ManagerAssumption DEF ManagerOK

-----------------------------------------------------------------------------
(* The node. *)

\* The type invariant without the manager.
NodeOK ==
  /\ active \in BOOLEAN /\ driving \in BOOLEAN /\ heard \in BOOLEAN
  /\ window \in BOOLEAN
  /\ state \in NavState
  /\ recovery \in Recovery
  /\ docking \in Dock
  /\ level \in SafetyLevel
  /\ battery \in {"OK", "LOW", "CRITICAL", "CHARGING"}
  /\ stuck_fails \in Nat
  /\ next_id \in 1..MaxGoals + 1

\* The inductive invariant: every goal, wherever it is, is older than the next one, so that a
\* request is a new goal and goes behind its equals.
GoalInv == NodeOK /\ ManagerOK(goals, next_id)

\* It implies the properties that the runs check.
LEMMA GoalInvImplies == ASSUME GoalInv PROVE TypeOK /\ OneOutcome /\ QueueOrdered
<1> USE DEF GoalInv, ManagerOK
<1>1. TypeOK
  BY DEF TypeOK, NodeOK
<1>2. QueueOrdered
  BY DEF QueueOK, Before, QueueOrdered
<1>3. OneOutcome
  <2>1. Len(goals.queue) \in Nat
    BY LenProperties DEF QueueOK
  <2>2. \A i, j \in 1..Len(goals.queue) : goals.queue[i].id = goals.queue[j].id => i = j
    <3> TAKE i, j \in 1..Len(goals.queue)
    <3> HAVE goals.queue[i].id = goals.queue[j].id
    <3>1. ~(i < j) /\ ~(j < i)
      BY DEF QueueOK, Before
    <3> QED BY <2>1, <3>1
  <2> QED BY <2>2 DEF Apart, HistoryOK, OneOutcome
<1> QED BY <1>1, <1>2, <1>3

\* Sessions and steps of the executor stay within the cascade and the limit on attempts.
LEMMA RecoveryType ==
  /\ NoRecovery \subseteq Recovery
  /\ \A r \in Recovery : Reset(r) \in Recovery /\ [r EXCEPT !.late = TRUE] \in Recovery
<1>1. Len(Cascade) \in Nat \ {0} /\ RetryLimits \subseteq Nat
  BY CascadeAssumption, EmptySeq
<1>2. \A limit \in RetryLimits, outcome \in {"NONE", "IN_PROGRESS"} : Session(limit, outcome) \in Recovery
  BY <1>1 DEF Session, Recovery
<1> QED BY <1>2 DEF NoRecovery, Reset, Recovery

\* So does a step of the executor.
LEMMA StepType == ASSUME NEW r \in Recovery PROVE Step(r) \in Recovery
<1> DEFINE R == [max_retries : RetryLimits, behavior : 1..Len(Cascade), begun : BOOLEAN, late : BOOLEAN,
                 total_attempts : Nat, outcome : {"NONE", "IN_PROGRESS", "SUCCEEDED", "EXHAUSTED"}]
<1>1. Len(Cascade) \in Nat \ {0} /\ RetryLimits \subseteq Nat
  BY CascadeAssumption, EmptySeq
<1>2. r \in R /\ r.total_attempts <= r.max_retries
  BY DEF Recovery
<1>3. /\ r.total_attempts \in Nat /\ r.max_retries \in Nat
      /\ r.behavior \in 1..Len(Cascade)
  BY <1>1, <1>2
<1>4. \A s \in R : s.total_attempts <= s.max_retries => s \in Recovery
  BY DEF Recovery
<1>5. CASE ~(r.total_attempts < r.max_retries)
  BY <1>2, <1>4, <1>5 DEF Step
<1>6. CASE r.total_attempts < r.max_retries
  <2>1. r.total_attempts + 1 <= r.max_retries /\ r.total_attempts + 1 \in Nat
    BY <1>3, <1>6
  <2>2. Advance(r) \in Recovery
    <3>1. CASE r.behavior = Len(Cascade)
      BY <1>2, <1>4, <2>1, <3>1 DEF Advance
    <3>2. CASE r.behavior # Len(Cascade)
      <4>1. r.behavior + 1 \in 1..Len(Cascade)
        BY <1>1, <1>3, <3>2
      <4> QED BY <1>2, <1>4, <2>1, <3>2, <4>1 DEF Advance
    <3> QED BY <3>1, <3>2
  <2>3. [r EXCEPT !.begun = TRUE, !.total_attempts = @ + 1, !.outcome = "EXHAUSTED"] \in Recovery
    BY <1>2, <1>4, <2>1
  <2>4. [r EXCEPT !.begun = TRUE] \in Recovery
    BY <1>2, <1>4
  <2> QED BY <1>6, <2>2, <2>3, <2>4 DEF Step
<1> QED BY <1>5, <1>6

\* A failure of planning counts or ends the goal.
LEMMA PlanFailureOK ==
  ASSUME NEW n \in Nat, NEW m, ManagerOK(m, n), m.active # NoGoal, PlanFailure(m)
  PROVE  ManagerOK(goals', n)
<1>1. CASE Fail(m)
  BY <1>1, MarkEndedOK DEF Fail, Outcome
<1>2. CASE ~Unreachable(m) /\ goals' = RecordPlanFailure(m)
  <2> DEFINE k == RecordPlanFailure(m)
  <2>1. m.plan_fail_count + 1 \in 0..MaxPlanFail - 1
    BY <1>2, ManagerAssumption DEF Unreachable, ManagerOK, Manager
  <2>2. k \in Manager /\ k.queue = m.queue /\ k.active = m.active /\ k.history = m.history
    BY <2>1 DEF RecordPlanFailure, ManagerOK, Manager
  <2> HIDE DEF k
  <2> QED BY <1>2, <2>2 DEF ManagerOK, k
<1> QED BY <1>1, <1>2 DEF PlanFailure, StartRecovery

\* Starting the active goal keeps it or ends it.
LEMMA StartGoalOK ==
  ASSUME NEW n \in Nat, NEW m, ManagerOK(m, n), m.active # NoGoal, NEW recov, StartGoal(m, recov)
  PROVE  ManagerOK(goals', n)
<1>1. CASE goals' = m
  BY <1>1
<1>2. CASE goals' = MarkEnded(m, "FAILED")
  BY <1>2, MarkEndedOK DEF Outcome
<1>3. CASE ~Unreachable(m) /\ StartRecovery(RecordPlanFailure(m))
  BY <1>3, PlanFailureOK DEF PlanFailure
<1> QED BY <1>1, <1>2, <1>3 DEF StartGoal, Fail

\* So does Nav2's answer.
LEMMA AnswerOK ==
  ASSUME NEW n \in Nat, NEW m, ManagerOK(m, n), Answer(m)
  PROVE  ManagerOK(goals', n)
<1>1. CASE goals' = m
  BY <1>1
<1>2. CASE m.active # NoGoal /\ goals' = MarkEnded(m, "SUCCEEDED")
  BY <1>2, MarkEndedOK DEF Outcome
<1>3. CASE m.active # NoGoal /\ PlanFailure(m)
  BY <1>3, PlanFailureOK
<1> QED BY <1>1, <1>2, <1>3 DEF Answer

\* A start leaves the node in its types.
LEMMA StartGoalType ==
  ASSUME NodeOK, NEW m, NEW recov \in Recovery, StartGoal(m, recov)
  PROVE  /\ state' \in NavState /\ driving' \in BOOLEAN /\ recovery' \in Recovery
         /\ docking' \in Dock /\ stuck_fails' \in Nat /\ window' \in BOOLEAN
<1> USE DEF NodeOK, NavState, stuck
<1>1. CASE MotionBlocked
  BY <1>1 DEF StartGoal
<1>2. CASE ~MotionBlocked /\ m.active.charger
  BY <1>2, StartDockType DEF StartGoal
<1>3. CASE ~MotionBlocked /\ ~m.active.charger
  <2>1. docking' = docking /\ stuck_fails' = 0 /\ window' = FALSE
    BY <1>3 DEF StartGoal, ResetStuckDetector
  <2>2. CASE state' = "EXECUTING" /\ driving' = TRUE /\ recovery' = recov
    BY <2>1, <2>2
  <2>3. CASE driving' = driving /\ Fail(m) /\ recovery' = recov
    BY <2>1, <2>3 DEF Fail
  <2>4. CASE StartRecovery(RecordPlanFailure(m))
    BY <2>1, <2>4, RecoveryType DEF StartRecovery
  <2> QED BY <1>3, <2>2, <2>3, <2>4 DEF StartGoal
<1> QED BY <1>1, <1>2, <1>3

\* ... and so does an answer.
LEMMA AnswerType ==
  ASSUME NodeOK, NEW m, Answer(m)
  PROVE  state' \in NavState /\ driving' \in BOOLEAN /\ recovery' \in Recovery
BY RecoveryType DEF NodeOK, NavState, Answer, PlanFailure, Fail, StartRecovery

LEMMA StartedType ==
  ASSUME NodeOK, NEW m, StartedAndAnswered(m)
  PROVE  docking' \in Dock /\ stuck_fails' \in Nat /\ window' \in BOOLEAN
<1> USE DEF NodeOK, stuck
<1>1. CASE docking' = StartDock(docking) /\ UNCHANGED stuck
  <2>1. stuck_fails' = stuck_fails /\ window' = window
    BY <1>1
  <2> QED BY <1>1, <2>1, StartDockType
<1>2. CASE ResetStuckDetector /\ UNCHANGED docking
  BY <1>2 DEF ResetStuckDetector
<1> QED BY <1>1, <1>2 DEF StartedAndAnswered

\* A request has the youngest goal, if there is still one to make.
LEMMA RequestOK ==
  ASSUME GoalInv, NEW priority \in 0..3, NEW charger \in BOOLEAN, NEW preempt \in BOOLEAN,
         next_id <= MaxGoals
  PROVE  LET goal == [id |-> next_id, priority |-> priority, charger |-> charger]
         IN  ManagerOK(Enqueue(goals, goal, preempt), next_id + 1) /\ next_id + 1 \in 1..MaxGoals + 1
<1> DEFINE goal == [id |-> next_id, priority |-> priority, charger |-> charger]
<1>1. next_id \in Nat \ {0} /\ next_id + 1 \in 1..MaxGoals + 1
  BY NavigationAssumption DEF GoalInv, NodeOK
<1>2. goal \in Goal /\ goal.id = next_id
  BY <1>1 DEF Goal
<1> HIDE DEF goal
<1>3. ManagerOK(Enqueue(goals, goal, preempt), next_id + 1)
  BY <1>1, <1>2, EnqueueOK DEF GoalInv
<1> QED BY <1>1, <1>3 DEF goal

\* The routing asks for a charger, with a new goal, or for nothing.
LEMMA RouteOK ==
  ASSUME GoalInv
  PROVE  LET next == IF NeedsCharger /\ next_id <= MaxGoals THEN next_id + 1 ELSE next_id
         IN  ManagerOK(RouteToCharger, next) /\ next \in 1..MaxGoals + 1
<1>1. CASE NeedsCharger /\ next_id <= MaxGoals
  <2> DEFINE p == IF battery = "CRITICAL" THEN 3 ELSE 2
             c == battery = "CRITICAL"
  <2>1. p \in 0..3 /\ c \in BOOLEAN
    OBVIOUS
  <2>2. RouteToCharger = Enqueue(goals, [id |-> next_id, priority |-> p, charger |-> TRUE], c)
    BY <1>1 DEF RouteToCharger
  <2> HIDE DEF p, c
  <2> QED BY <1>1, <2>1, <2>2, RequestOK
<1>2. CASE ~(NeedsCharger /\ next_id <= MaxGoals)
  BY <1>2 DEF RouteToCharger, GoalInv, NodeOK
<1> QED BY <1>1, <1>2

\* Every step keeps the manager in order.
LEMMA NextManager == ASSUME GoalInv, [Next]_vars PROVE ManagerOK(goals, next_id)'
<1>0. next_id \in Nat \ {0} /\ ManagerOK(goals, next_id)
  BY NavigationAssumption DEF GoalInv, NodeOK
<1>1. CASE goals' = goals /\ next_id' = next_id
  BY <1>0, <1>1
<1>2. CASE OnDeactivate \/ OnStopNavigation
  BY <1>0, <1>2, CancelAllOK DEF OnDeactivate, OnStopNavigation
<1>3. CASE OnReconfigure
  BY <1>0, <1>3, EmptyManagerOK DEF OnReconfigure
<1>4. ASSUME NEW p \in Priorities, NEW c \in BOOLEAN, OnRecommendation(p, c)
      PROVE  ManagerOK(goals, next_id)'
  <2>1. p \in 0..3 /\ (p >= 2) \in BOOLEAN
    BY NavigationAssumption
  <2> QED BY <1>4, <2>1, RequestOK DEF OnRecommendation, Request
<1>5. ASSUME NEW e \in BOOLEAN, SrvNavigateTo(e) PROVE ManagerOK(goals, next_id)'
  <2>1. 1 \in 0..3 /\ FALSE \in BOOLEAN /\ (~e) \in BOOLEAN
    OBVIOUS
  <2> QED BY <1>5, <2>1, RequestOK DEF SrvNavigateTo, Request
<1>6. ASSUME NEW id \in 0..MaxGoals, SrvCancel(id) PROVE ManagerOK(goals, next_id)'
  BY <1>0, <1>6, CancelAllOK, CancelGoalOK DEF SrvCancel
<1>7. CASE DockingTick
  <2>1. next_id' = next_id
    BY <1>7 DEF DockingTick
  <2>2. CASE goals' = goals
    BY <1>1, <2>1, <2>2
  <2>3. CASE goals.active # NoGoal /\ \E outcome \in Outcome : goals' = MarkEnded(goals, outcome)
    BY <1>0, <2>1, <2>3, MarkEndedOK
  <2> QED BY <1>7, <2>2, <2>3 DEF DockingTick, Outcome
<1>8. CASE RecoveryTick
  <2>1. next_id' = next_id
    BY <1>8 DEF RecoveryTick
  <2>2. CASE goals.active # NoGoal /\ StartGoal(goals, Step(recovery))
    BY <1>0, <2>1, <2>2, StartGoalOK
  <2>3. CASE goals.active # NoGoal /\ Fail(goals)
    BY <1>0, <2>1, <2>3, MarkEndedOK DEF Fail, Outcome
  <2>4. CASE goals' = goals
    BY <1>1, <2>1, <2>4
  <2> QED BY <1>8, <2>2, <2>3, <2>4 DEF RecoveryTick
<1>9. CASE TimeoutTick
  BY <1>0, <1>9, MarkEndedOK DEF TimeoutTick, TimedOut, Fail, Outcome
<1>10. CASE StuckTick
  BY <1>1, <1>10 DEF StuckTick, StartRecovery
<1>11. CASE RoutineTick
  <2> DEFINE m == RouteToCharger
             n == IF NeedsCharger /\ next_id <= MaxGoals THEN next_id + 1 ELSE next_id
  <2>1. ManagerOK(m, n) /\ n \in Nat
    BY RouteOK, NavigationAssumption
  <2>2. next_id' = n
    BY <1>11 DEF RoutineTick
  <2>3. CASE CanActivate(m) /\ StartGoal(ActivateNext(m), recovery)
    <3> HIDE DEF m, n
    <3> QED BY <2>1, <2>2, <2>3, ActivateNextOK, StartGoalOK
  <2>4. CASE CanActivate(m) /\ StartedAndAnswered(ActivateNext(m))
    <3> HIDE DEF m, n
    <3> QED BY <2>1, <2>2, <2>4, ActivateNextOK, AnswerOK DEF StartedAndAnswered
  <2>5. CASE CheckNav2Result(m)
    <3> HIDE DEF m, n
    <3> QED BY <2>1, <2>2, <2>5, AnswerOK DEF CheckNav2Result
  <2> QED BY <1>11, <2>3, <2>4, <2>5 DEF RoutineTick
<1>12. ASSUME NEW l \in Levels, OnSafetyState(l) PROVE ManagerOK(goals, next_id)'
  BY <1>0, <1>1, <1>12, MarkEndedOK DEF OnSafetyState, Outcome
<1>13. CASE GoalExpires
  <2> DEFINE k == [goals EXCEPT !.late = TRUE]
  <2>1. goals' = k /\ next_id' = next_id
    BY <1>13 DEF GoalExpires
  <2>2. /\ k \in Manager
        /\ k.queue = goals.queue /\ k.active = goals.active /\ k.history = goals.history
    BY <1>0 DEF ManagerOK, Manager
  <2> HIDE DEF k
  <2> QED BY <1>0, <2>1, <2>2 DEF ManagerOK
<1> QED
  BY <1>1, <1>2, <1>3, <1>4, <1>5, <1>6, <1>7, <1>8, <1>9, <1>10, <1>11, <1>12, <1>13
     DEF Next, NavLoop, OnActivate, OnBattery, OnOdom, SupervisorSilent, PhaseExpires,
         BehaviorExpires, vars

\* Every step keeps the other variables in their types.
LEMMA NextNode == ASSUME GoalInv, [Next]_vars PROVE NodeOK'
<1> USE DEF GoalInv, NodeOK, NavState, bridge, stuck
<1>1. CASE OnActivate
  BY <1>1 DEF OnActivate, ResetStuckDetector
<1>2. CASE OnDeactivate \/ OnStopNavigation
  BY <1>2 DEF OnDeactivate, OnStopNavigation
<1>3. CASE OnReconfigure
  BY <1>3, NoDockType, RecoveryType DEF OnReconfigure, SafetyLevel
<1>4. ASSUME NEW p \in Priorities, NEW c \in BOOLEAN, OnRecommendation(p, c) PROVE NodeOK'
  BY <1>4, NavigationAssumption DEF OnRecommendation, Request
<1>5. ASSUME NEW e \in BOOLEAN, SrvNavigateTo(e) PROVE NodeOK'
  BY <1>5, NavigationAssumption DEF SrvNavigateTo, Request
<1>6. ASSUME NEW id \in 0..MaxGoals, SrvCancel(id) PROVE NodeOK'
  BY <1>6 DEF SrvCancel
<1>7. CASE DockingTick
  BY <1>7, TickType DEF DockingTick
<1>8. CASE RecoveryTick
  <2>1. Step(recovery) \in Recovery
    BY StepType
  <2>2. CASE StartGoal(goals, Step(recovery))
    BY <1>8, <2>1, <2>2, StartGoalType DEF RecoveryTick
  <2>3. CASE state' \in {state, "FAILED"} /\ recovery' = Step(recovery) /\ UNCHANGED <<driving, docking, stuck>>
    BY <1>8, <2>1, <2>3 DEF RecoveryTick
  <2> QED BY <1>8, <2>2, <2>3 DEF RecoveryTick, Fail
<1>9. CASE TimeoutTick
  BY <1>9 DEF TimeoutTick, Fail
<1>10. CASE StuckTick
  BY <1>10, RecoveryType, NavigationAssumption DEF StuckTick, StartRecovery
<1>11. CASE RoutineTick
  <2>1. next_id' \in 1..MaxGoals + 1
    BY <1>11, RouteOK DEF RoutineTick
  <2>2. CASE StartGoal(ActivateNext(RouteToCharger), recovery)
    BY <1>11, <2>1, <2>2, StartGoalType DEF RoutineTick
  <2>3. CASE StartedAndAnswered(ActivateNext(RouteToCharger))
    <3>1. docking' \in Dock /\ stuck_fails' \in Nat /\ window' \in BOOLEAN
      BY <2>3, StartedType
    <3>2. state' \in NavState /\ driving' \in BOOLEAN /\ recovery' \in Recovery
      BY <2>3, AnswerType DEF StartedAndAnswered
    <3> QED BY <1>11, <2>1, <3>1, <3>2 DEF RoutineTick
  <2>4. CASE CountStuck /\ CheckNav2Result(RouteToCharger) /\ UNCHANGED <<docking, window>>
    <3>1. stuck_fails' \in Nat
      BY <2>4 DEF CountStuck
    <3>2. state' \in NavState /\ driving' \in BOOLEAN /\ recovery' \in Recovery
      BY <2>4, AnswerType DEF CheckNav2Result
    <3> QED BY <1>11, <2>1, <2>4, <3>1, <3>2 DEF RoutineTick
  <2> QED BY <1>11, <2>2, <2>3, <2>4 DEF RoutineTick
<1>12. ASSUME NEW l \in Levels, OnSafetyState(l) PROVE NodeOK'
  BY <1>12, NavigationAssumption DEF OnSafetyState
<1>13. ASSUME NEW b \in Batteries, OnBattery(b) PROVE NodeOK'
  BY <1>13, NavigationAssumption DEF OnBattery
<1>14. CASE OnOdom \/ SupervisorSilent \/ GoalExpires
  BY <1>14 DEF OnOdom, SupervisorSilent, GoalExpires
<1>15. CASE PhaseExpires
  BY <1>15 DEF PhaseExpires, Dock
<1>16. CASE BehaviorExpires
  BY <1>16, RecoveryType DEF BehaviorExpires
<1>17. CASE UNCHANGED vars
  BY <1>17 DEF vars
<1> QED
  BY <1>1, <1>2, <1>3, <1>4, <1>5, <1>6, <1>7, <1>8, <1>9, <1>10, <1>11, <1>12, <1>13, <1>14,
     <1>15, <1>16, <1>17 DEF Next, NavLoop

\* At first there is no goal.
LEMMA InitGoals == ASSUME Init PROVE GoalInv
<1>1. next_id \in 1..MaxGoals + 1 /\ next_id \in Nat \ {0}
  BY NavigationAssumption DEF Init
<1>2. ManagerOK(goals, next_id)
  BY <1>1, EmptyManagerOK DEF Init
<1>3. NodeOK
  BY <1>1, NoDockType, RecoveryType DEF Init, NodeOK, NavState, SafetyLevel
<1> QED BY <1>2, <1>3 DEF GoalInv

\* The invariant holds throughout.
LEMMA GoalsInvariant == Spec => []GoalInv
<1>1. GoalInv /\ [Next]_vars => GoalInv'
  BY NextManager, NextNode DEF GoalInv
<1> QED BY <1>1, InitGoals, PTL DEF Spec

\* Type correctness: the queue never holds more than max_queue_size goals, the active goal never
\* has used up its plan failures, the executor stays within its cascade and its limit on
\* attempts and the docking controller within its retries.
THEOREM TypeCorrect == Spec => []TypeOK
BY GoalsInvariant, GoalInvImplies, PTL

\* A goal is in one place at a time and ends at most once, whatever is cancelled, preempted,
\* dropped, timed out or routed to the charger in between (GoalManager).
THEOREM OneOutcomeHolds == Spec => []OneOutcome
BY GoalsInvariant, GoalInvImplies, PTL

\* The queue is served by priority and, within one, in the order of the requests, though goals
\* are dropped from its middle and cancelled anywhere (_insert_by_priority).
THEOREM QueueOrderedHolds == Spec => []QueueOrdered
BY GoalsInvariant, GoalInvImplies, PTL
=============================================================================
