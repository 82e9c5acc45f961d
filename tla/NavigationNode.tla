--------------------------- MODULE NavigationNode ---------------------------
(***************************************************************************)
(* NavigationNode (bonbon_navigation, nodes/navigation_node.py): takes goals *)
(* from the behaviour engine, a service and the battery router, drives them *)
(* with Nav2, and handles stops, timeouts, recovery and docking.  Callbacks *)
(* are atomic (one mutually exclusive callback group); Nav2, the sensors,   *)
(* the battery and time are the environment.  Costmap, localization, speech *)
(* and the status topics are left out.                                      *)
(***************************************************************************)
EXTENDS GoalManager, RecoveryExecutor, DockingController, SafetyLevels

CONSTANTS
  Levels,            \* the safety levels that occur
  Priorities,        \* the priorities of recommendations that occur
  Batteries,         \* the battery levels that occur
  StuckThreshold,    \* stuck_threshold_count
  MaxGoals           \* bound of the model: goals requested

ASSUME NavigationAssumption ==
  /\ Levels \subseteq SafetyLevel /\ Priorities \subseteq 0..3
  /\ Batteries \subseteq {"OK", "LOW", "CRITICAL", "CHARGING"}
  /\ StuckThreshold \in Nat \ {0} /\ MaxGoals \in Nat

\* _MOTION_BLOCKED_STATES
HardStop == {"DANGER", "FAULT", "SAFE_STOP"}

\* STATE_PLANNING is left again within the callback that enters it.
NavState == {"IDLE", "EXECUTING", "RECOVERING", "DOCKING", "ARRIVED",
             "FAILED", "CANCELLED", "SAFETY_STOPPED"}

VARIABLES
  active,      \* _active: the lifecycle state
  state,       \* _state
  goals,       \* _goal_manager
  driving,     \* _nav2_future is set
  recovery,    \* _recovery_executor
  docking,     \* _docking_ctrl
  level,       \* safety state of the bridge
  heard,       \* has a SafetyState come within watchdog_timeout_sec?
  battery,     \* classify()
  stuck_fails, \* _consecutive_fails of the stuck detector
  window,      \* does its history fill half a window?
  next_id      \* id of the next goal

vars == <<active, state, goals, driving, recovery, docking, level, heard, battery,
          stuck_fails, window, next_id>>
stuck == <<stuck_fails, window>>
bridge == <<level, heard>>

TypeOK ==
  /\ active \in BOOLEAN /\ driving \in BOOLEAN /\ heard \in BOOLEAN
  /\ window \in BOOLEAN
  /\ state \in NavState
  /\ goals \in Manager /\ Len(goals.queue) <= MaxQueue
  /\ recovery \in Recovery
  /\ docking \in Dock
  /\ level \in SafetyLevel
  /\ battery \in {"OK", "LOW", "CRITICAL", "CHARGING"}
  /\ stuck_fails \in Nat
  /\ next_id \in 1..MaxGoals + 1

Init ==
  /\ active = FALSE
  /\ state = "IDLE"
  /\ goals = EmptyManager
  /\ driving = FALSE
  /\ recovery \in NoRecovery
  /\ docking \in NoDock
  /\ level = "INITIALIZING" /\ heard = FALSE
  /\ battery = "OK"
  /\ stuck_fails = 0 /\ window = FALSE
  /\ next_id = 1

\* is_motion_blocked: every level of HardStop permits no navigation anyway.
MotionBlocked == ~heard \/ level \notin MotionPermitted

ResetStuckDetector == stuck_fails' = 0 /\ window' = FALSE

-----------------------------------------------------------------------------
(* Lifecycle. *)

OnActivate ==
  /\ ~active
  /\ active' = TRUE
  /\ ResetStuckDetector
  /\ UNCHANGED <<state, goals, driving, recovery, docking, bridge, battery, next_id>>

OnDeactivate ==
  /\ active
  /\ active' = FALSE
  /\ goals' = CancelAll(goals)
  /\ driving' = FALSE
  /\ UNCHANGED <<state, recovery, docking, bridge, battery, stuck, next_id>>

\* on_cleanup and on_configure of an inactive node: new subsystems, the old state.
OnReconfigure ==
  /\ ~active
  /\ goals' = EmptyManager
  /\ recovery' \in NoRecovery
  /\ docking' \in NoDock
  /\ level' = "INITIALIZING" /\ heard' = FALSE
  /\ battery' = "OK"
  /\ UNCHANGED <<active, state, driving, stuck, next_id>>

-----------------------------------------------------------------------------
(* Requests. *)

Request(priority, charger, preempt) ==
  /\ next_id <= MaxGoals
  /\ next_id' = next_id + 1
  /\ goals' = Enqueue(goals, [id |-> next_id, priority |-> priority, charger |-> charger], preempt)

\* _on_behavior_recommendation: a goal of priority high or urgent preempts.
OnRecommendation(priority, charger) ==
  /\ active /\ ~MotionBlocked
  /\ Request(priority, charger, priority >= 2)
  /\ UNCHANGED <<active, state, driving, recovery, docking, bridge, battery, stuck>>

OnStopNavigation ==
  /\ active
  /\ goals' = CancelAll(goals)
  /\ driving' = FALSE
  /\ state' = "CANCELLED"
  /\ UNCHANGED <<active, recovery, docking, bridge, battery, stuck, next_id>>

\* _srv_navigate_to, served by an inactive or stopped node as well.
SrvNavigateTo(enqueue) ==
  /\ Request(1, FALSE, ~enqueue)
  /\ UNCHANGED <<active, state, driving, recovery, docking, bridge, battery, stuck>>

\* _srv_cancel of one goal that exists, or with id 0 of all: cancelling a queued goal
\* stops the active one's drive, too.
SrvCancel(id) ==
  /\ \E g \in ToSet(goals.queue) \cup ({goals.active} \ {NoGoal}) : id \in {0, g.id}
  /\ goals' = IF id = 0 THEN CancelAll(goals) ELSE CancelGoal(goals, id)
  /\ driving' = FALSE
  /\ state' = "CANCELLED"
  /\ UNCHANGED <<active, recovery, docking, bridge, battery, stuck, next_id>>

-----------------------------------------------------------------------------
(* Driving a goal.  These fix goals', state', driving', recovery', docking' and the
   stuck detector. *)

Fail(m) ==
  /\ goals' = MarkEnded(m, "FAILED")
  /\ state' = "FAILED"

StartRecovery(m) ==
  /\ goals' = m
  /\ driving' = FALSE
  /\ recovery' = Reset(recovery)
  /\ state' = "RECOVERING"

\* A failure of planning is final, or starts a recovery.
PlanFailure(m) ==
  \/ Unreachable(m) /\ Fail(m) /\ UNCHANGED recovery
  \/ ~Unreachable(m) /\ StartRecovery(RecordPlanFailure(m))

\* Fault injection: the safety state is not looked at.
StartGoalUnchecked(m, recov) ==
  /\ ~m.active.charger
  /\ ResetStuckDetector /\ UNCHANGED docking
  /\ goals' = m /\ state' = "EXECUTING" /\ driving' = TRUE /\ recovery' = recov

\* _start_goal for the active goal of m, with the executor in recov: Nav2 takes the goal
\* or the call fails.
StartGoal(m, recov) ==
  \/ /\ MotionBlocked
     /\ goals' = MarkEnded(m, "FAILED")
     /\ state' = "SAFETY_STOPPED"
     /\ recovery' = recov
     /\ UNCHANGED <<driving, docking, stuck>>
  \/ /\ ~MotionBlocked /\ m.active.charger
     /\ goals' = m
     /\ state' = "DOCKING"
     /\ docking' = StartDock(docking)
     /\ driving' \in {driving, TRUE}
     /\ recovery' = recov
     /\ UNCHANGED stuck
  \/ /\ ~MotionBlocked /\ ~m.active.charger
     /\ ResetStuckDetector
     /\ UNCHANGED docking
     /\ \/ goals' = m /\ state' = "EXECUTING" /\ driving' = TRUE /\ recovery' = recov
        \/ Unreachable(m) /\ Fail(m) /\ recovery' = recov /\ UNCHANGED driving
        \/ ~Unreachable(m) /\ StartRecovery(RecordPlanFailure(m))

\* _docking_tick: the safety state is not looked at, and nothing ends a docking that is not
\* enabled.
DockingTick ==
  /\ active /\ state = "DOCKING"
  /\ \E s \in Reading :
       /\ docking' = Tick(docking, s)
       /\ driving' \in IF AsksForWay(docking, s) THEN {driving, TRUE} ELSE {driving}
  /\ \/ /\ Reported(docking') \in {"CONTACT", "FAILED"}
        /\ LET reached == docking'.phase = "CONTACT" IN
           /\ state' = IF reached THEN "ARRIVED" ELSE "FAILED"
           /\ goals' = IF goals.active = NoGoal THEN goals
                       ELSE MarkEnded(goals, IF reached THEN "SUCCEEDED" ELSE "FAILED")
     \/ Reported(docking') \notin {"CONTACT", "FAILED"} /\ UNCHANGED <<state, goals>>
  /\ UNCHANGED <<active, recovery, bridge, battery, stuck, next_id>>

\* _recovery_tick: an executor that nobody stopped goes on though its goal is gone.
RecoveryTick ==
  /\ active /\ state # "DOCKING" /\ IsActive(recovery)
  /\ LET r == Step(recovery) IN
     \/ /\ r.outcome = "SUCCEEDED" /\ goals.active # NoGoal
        /\ StartGoal(goals, r)
     \/ /\ r.outcome = "EXHAUSTED" /\ goals.active # NoGoal
        /\ Fail(goals)
        /\ recovery' = r
        /\ UNCHANGED <<driving, docking, stuck>>
     \/ /\ r.outcome = "IN_PROGRESS" \/ goals.active = NoGoal
        /\ recovery' = r
        /\ UNCHANGED <<goals, state, driving, docking, stuck>>
  /\ UNCHANGED <<active, bridge, battery, next_id>>

\* The later steps of _nav_loop are reached only without docking and recovery.
Free == active /\ state # "DOCKING" /\ ~IsActive(recovery)

TimedOut == goals.active # NoGoal /\ goals.late

TimeoutTick ==
  /\ Free /\ TimedOut
  /\ Fail(goals)
  /\ driving' = FALSE
  /\ UNCHANGED <<active, recovery, docking, bridge, battery, stuck, next_id>>

\* check(): the verdict on a window of odometry; a stuck robot without an active goal
\* stays as it is, and the loop goes no further.
StuckTick ==
  /\ Free /\ ~TimedOut /\ state = "EXECUTING" /\ window
  /\ stuck_fails + 1 >= StuckThreshold
  /\ stuck_fails' = StuckThreshold
  /\ \/ goals.active # NoGoal /\ StartRecovery(goals)
     \/ goals.active = NoGoal /\ UNCHANGED <<goals, driving, recovery, state>>
  /\ UNCHANGED <<active, docking, bridge, battery, window, next_id>>

\* What check() otherwise leaves behind.
CountStuck ==
  stuck_fails' \in IF state = "EXECUTING" /\ window
                  THEN {0} \cup ({stuck_fails + 1} \cap 1..StuckThreshold - 1)
                  ELSE {stuck_fails}

\* _check_battery_routing: a charger goal that waits in the queue is not noticed.
NeedsCharger == battery \in {"LOW", "CRITICAL"} /\ ~goals.active.charger

RouteToCharger ==
  IF NeedsCharger /\ next_id <= MaxGoals
  THEN Enqueue(goals,
         [id |-> next_id, priority |-> IF battery = "CRITICAL" THEN 3 ELSE 2, charger |-> TRUE],
         battery = "CRITICAL")
  ELSE goals

\* What Nav2's answer makes of the active goal; without one it is dropped.
Answer(m) ==
  /\ driving' = FALSE
  /\ \/ m.active = NoGoal /\ goals' = m /\ UNCHANGED <<state, recovery>>
     \/ /\ m.active # NoGoal
        /\ goals' = MarkEnded(m, "SUCCEEDED") /\ state' = "ARRIVED" /\ UNCHANGED recovery
     \/ m.active # NoGoal /\ PlanFailure(m)

\* _check_nav2_result: the task goes on, or has been answered.
CheckNav2Result(m) ==
  \/ goals' = m /\ UNCHANGED <<state, driving, recovery>>
  \/ driving /\ Answer(m)

\* A goal that Nav2 took in this tick and answers in it: driven, or on its way to the dock.
StartedAndAnswered(m) ==
  /\ ~MotionBlocked
  /\ \/ m.active.charger /\ docking' = StartDock(docking) /\ UNCHANGED stuck
     \/ ~m.active.charger /\ ResetStuckDetector /\ UNCHANGED docking
  /\ Answer(m)

\* The rest of _nav_loop: battery, then the next goal, then Nav2's answer.
RoutineTick ==
  /\ Free /\ ~TimedOut
  /\ next_id' = IF NeedsCharger /\ next_id <= MaxGoals THEN next_id + 1 ELSE next_id
  /\ LET m == RouteToCharger IN
     \/ /\ state = "IDLE" /\ CanActivate(m)
        /\ StartGoal(ActivateNext(m), recovery) \/ StartedAndAnswered(ActivateNext(m))
     \/ /\ ~(state = "IDLE" /\ CanActivate(m))
        /\ CountStuck
        /\ CheckNav2Result(m)
        /\ UNCHANGED <<docking, window>>
  /\ UNCHANGED <<active, bridge, battery>>

NavLoop == DockingTick \/ RecoveryTick \/ TimeoutTick \/ StuckTick \/ RoutineTick

-----------------------------------------------------------------------------
(* Safety messages. *)

\* Fault injection: a recovering robot is not stopped.
OnSafetyStateNotRecovering(l) ==
  /\ level' = l /\ heard' = TRUE
  /\ \/ /\ l \in HardStop /\ state = "RECOVERING"
        /\ driving' = FALSE
        /\ goals' = IF goals.active = NoGoal THEN goals ELSE MarkEnded(goals, "FAILED")
        /\ state' = "SAFETY_STOPPED"
     \/ ~(l \in HardStop /\ state = "RECOVERING") /\ UNCHANGED <<driving, goals, state>>
  /\ UNCHANGED <<active, recovery, docking, battery, stuck, next_id>>

\* _on_safety_state: a docking robot is not stopped, and a running recovery goes on.
OnSafetyState(l) ==
  /\ level' = l /\ heard' = TRUE
  /\ \/ /\ l \in HardStop /\ state \in {"EXECUTING", "RECOVERING"}
        /\ driving' = FALSE
        /\ goals' = IF goals.active = NoGoal THEN goals ELSE MarkEnded(goals, "FAILED")
        /\ state' = "SAFETY_STOPPED"
     \/ /\ ~(l \in HardStop /\ state \in {"EXECUTING", "RECOVERING"})
        /\ UNCHANGED <<driving, goals, state>>
  /\ UNCHANGED <<active, recovery, docking, battery, stuck, next_id>>

-----------------------------------------------------------------------------
(* The environment: odometry, battery, silence of the supervisor, passing time. *)

OnOdom ==
  /\ state = "EXECUTING"
  /\ window' \in BOOLEAN
  /\ UNCHANGED <<active, state, goals, driving, recovery, docking, bridge, battery,
                 stuck_fails, next_id>>

OnBattery(b) ==
  /\ battery' = b
  /\ UNCHANGED <<active, state, goals, driving, recovery, docking, bridge, stuck, next_id>>

SupervisorSilent ==
  /\ heard /\ heard' = FALSE
  /\ UNCHANGED <<active, state, goals, driving, recovery, docking, level, battery, stuck,
                 next_id>>

GoalExpires ==
  /\ goals.active # NoGoal
  /\ goals' = [goals EXCEPT !.late = TRUE]
  /\ UNCHANGED <<active, state, driving, recovery, docking, bridge, battery, stuck, next_id>>

PhaseExpires ==
  /\ docking.phase \in {"APPROACHING", "ALIGNING", "FINAL_APPROACH"}
  /\ docking' = [docking EXCEPT !.late = TRUE]
  /\ UNCHANGED <<active, state, goals, driving, recovery, bridge, battery, stuck, next_id>>

BehaviorExpires ==
  /\ IsActive(recovery)
  /\ recovery' = [recovery EXCEPT !.late = TRUE]
  /\ UNCHANGED <<active, state, goals, driving, docking, bridge, battery, stuck, next_id>>

-----------------------------------------------------------------------------
Next ==
  \/ OnActivate \/ OnDeactivate \/ OnReconfigure
  \/ OnStopNavigation
  \/ \E p \in Priorities, c \in BOOLEAN : OnRecommendation(p, c)
  \/ \E e \in BOOLEAN : SrvNavigateTo(e)
  \/ \E id \in 0..MaxGoals : SrvCancel(id)
  \/ NavLoop
  \/ \E l \in Levels : OnSafetyState(l)
  \/ \E b \in Batteries : OnBattery(b)
  \/ OnOdom \/ SupervisorSilent
  \/ GoalExpires \/ PhaseExpires \/ BehaviorExpires

Spec == Init /\ [][Next]_vars

\* The timer drives the loop while the node is active, and time passes.
FairSpec ==
  /\ Spec
  /\ WF_vars(NavLoop) /\ WF_vars(GoalExpires) /\ WF_vars(PhaseExpires) /\ WF_vars(BehaviorExpires)

-----------------------------------------------------------------------------
(* What navigation guarantees. *)

\* A goal is in one place at a time and ends once: nothing queued or active is in the
\* history, nothing is queued twice, no goal has two outcomes, whatever is cancelled,
\* preempted, dropped or timed out in between.
OneOutcome ==
  LET Q == 1..Len(goals.queue)
      H == goals.history
  IN  /\ \A i, j \in Q : goals.queue[i].id = goals.queue[j].id => i = j
      /\ \A i \in Q : goals.queue[i].id # goals.active.id
      /\ \A i \in Q, e \in H : e.id # goals.queue[i].id
      /\ \A e, f \in H : e.id # goals.active.id /\ (e.id = f.id => e = f)

\* The queue is served by priority, and within a priority in the order of the requests,
\* though goals are dropped from its middle and cancelled anywhere.
QueueOrdered ==
  \A i, j \in 1..Len(goals.queue) : i < j =>
    \/ goals.queue[i].priority > goals.queue[j].priority
    \/ /\ goals.queue[i].priority = goals.queue[j].priority
       /\ goals.queue[i].id < goals.queue[j].id

\* Before the first docking, no Nav2 task is held while the last safety message says stop:
\* not for a preempted goal, not by a recovery that starts the goal again, not by a request
\* that arrives while stopped.
HaltIsStill == level \in HardStop /\ docking.phase = "IDLE" => ~driving

\* A goal that was activated ends, through driving, recovery and docking, whether or not
\* Nav2 ever answers: the time limits of goal, phase and behaviour see to it.  The one goal
\* that does not end waits in a docking that is not enabled, whose controller does nothing.
ActiveEnds ==
  \A id \in 1..MaxGoals :
    goals.active.id = id ~> goals.active.id # id \/ (state = "DOCKING" /\ ~docking.enabled)

-----------------------------------------------------------------------------
(* Where the code and its documents disagree. *)

\* _nav_loop, step 8, "Try to activate next queued goal": a goal that waits while nothing
\* is active and motion is permitted is activated.
QueuedGoalStarts ==
  ~<>[](active /\ ~MotionBlocked /\ goals.active = NoGoal /\ goals.queue # <<>>)

\* Why it is not: the node's first goal is its last.  No callback leads back to STATE_IDLE,
\* the one state in which step 8 looks at the queue.
FirstGoalOnly ==
  [][state # "IDLE" => state' # "IDLE" /\ goals'.active.id \in {0, goals.active.id}]_vars
=============================================================================
