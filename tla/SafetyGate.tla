----------------------------- MODULE SafetyGate -----------------------------
(***************************************************************************)
(* SafetyGateNode (bonbon_safety, nodes/safety_gate_node.py): the lifecycle *)
(* node between navigation or AI and the motors.  It forwards, clamps or    *)
(* drops commands by the last SafetyState heartbeat, and stops forwarding   *)
(* when its watchdog finds the heartbeat too old.                           *)
(* Time passes in ticks; callbacks are atomic, because they share the       *)
(* node's one mutually exclusive callback group.  Counters and the health   *)
(* report are left out.                                                     *)
(***************************************************************************)
EXTENDS SafetyLevels

CONSTANTS
  Timeout,      \* watchdog_timeout_sec, in ticks
  Period,       \* watchdog period, in ticks
  Commands      \* raw Twist commands: [speed, turn], in cm/s and in deg/s

ASSUME TimingAssumption == Timeout \in Nat \ {0} /\ Period \in Nat \ {0}
ASSUME CommandsAssumption == Commands \subseteq [speed : Nat, turn : Int]

None == "None"
Zero == [speed |-> 0, turn |-> 0]

\* A heartbeat may be this old before the watchdog is sure to have seen it late.
MaxAge == Timeout + Period

VARIABLES
  mode,           \* lifecycle state of the node
  connected,      \* subscriptions exist: made by the first activation, never destroyed
  publishing,     \* publishers exist: made by an activation, dropped by a cleanup
  safety_state,   \* level of _safety_state, or None
  supervisor_ok,  \* _supervisor_ok
  age,            \* now - _state_recv_time, in ticks, saturating at MaxAge + 1
  due,            \* ticks until the watchdog timer fires
  cmd_vel,        \* last Twist published on /cmd_vel
  servo,          \* was the last raw servo command forwarded?
  redeployed      \* history: was the node deactivated after its first activation?

vars == <<mode, connected, publishing, safety_state, supervisor_ok, age, due, cmd_vel, servo,
          redeployed>>

TypeOK ==
  /\ mode \in {"unconfigured", "inactive", "active"}
  /\ connected \in BOOLEAN /\ publishing \in BOOLEAN
  /\ safety_state \in SafetyLevel \cup {None}
  /\ supervisor_ok \in BOOLEAN
  /\ age \in 0..MaxAge + 1
  /\ due \in 0..Period
  /\ cmd_vel \in [speed : Nat, turn : Int]
  /\ servo \in BOOLEAN
  /\ redeployed \in BOOLEAN

Init ==
  /\ mode = "unconfigured"
  /\ connected = FALSE /\ publishing = FALSE
  /\ safety_state = None
  /\ supervisor_ok = FALSE
  /\ age = MaxAge + 1
  /\ due = Period
  /\ cmd_vel = Zero
  /\ servo = FALSE
  /\ redeployed = FALSE

-----------------------------------------------------------------------------
(* Lifecycle. *)

Publish(twist) == cmd_vel' = IF publishing THEN twist ELSE cmd_vel

OnConfigure ==
  /\ mode = "unconfigured"
  /\ mode' = "inactive"
  /\ UNCHANGED <<connected, publishing, safety_state, supervisor_ok, age, due, cmd_vel, servo, redeployed>>

OnActivate ==
  /\ mode = "inactive"
  /\ mode' = "active"
  /\ connected' = TRUE
  /\ publishing' = TRUE
  /\ due' = Period
  /\ UNCHANGED <<safety_state, supervisor_ok, age, cmd_vel, servo, redeployed>>

OnDeactivate ==
  /\ mode = "active"
  /\ mode' = "inactive"
  /\ Publish(Zero)
  /\ safety_state' = None
  /\ supervisor_ok' = FALSE
  /\ redeployed' = TRUE
  /\ UNCHANGED <<connected, publishing, age, due, servo>>

OnCleanup ==
  /\ mode = "inactive"
  /\ mode' = "unconfigured"
  /\ publishing' = FALSE
  /\ UNCHANGED <<connected, safety_state, supervisor_ok, age, due, cmd_vel, servo, redeployed>>

-----------------------------------------------------------------------------
(* Subscriber callbacks. *)

OnSafetyState(level) ==
  /\ connected
  /\ safety_state' = level
  /\ age' = 0
  /\ supervisor_ok' = TRUE
  /\ UNCHANGED <<mode, connected, publishing, due, cmd_vel, servo, redeployed>>

\* Fault injection: the watchdog's verdict is not looked at.
CanMoveUnsupervised == safety_state \in MotionPermitted

\* _can_navigate and _can_actuate: the two agree, as the levels that
\* block_servos_in_danger lists permit no actuation anyway.
CanMove == supervisor_ok /\ safety_state \in MotionPermitted

\* _clamp_twist: the linear speed is scaled down to the cap, turning is kept.
ClampTwist(c, cap) ==
  IF cap <= 0 THEN Zero ELSE [c EXCEPT !.speed = IF @ <= cap THEN @ ELSE cap]

OnVelRaw(c) ==
  /\ connected
  /\ Publish(IF CanMove THEN ClampTwist(c, MaxVelocity[safety_state]) ELSE Zero)
  /\ UNCHANGED <<mode, connected, publishing, safety_state, supervisor_ok, age, due, servo, redeployed>>

\* _on_neck_command_raw and _on_arm_command_raw.
OnServoCommandRaw ==
  /\ connected
  /\ servo' = (CanMove /\ publishing)
  /\ UNCHANGED <<mode, connected, publishing, safety_state, supervisor_ok, age, due, cmd_vel, redeployed>>

-----------------------------------------------------------------------------
(* The watchdog timer, which fires when due is 0, and time. *)

\* Fault injection: the watchdog allows one tick more.
CheckSupervisorWatchdogLate ==
  /\ mode = "active" /\ due = 0
  /\ due' = Period
  /\ \/ age > Timeout + 1 /\ supervisor_ok' = FALSE /\ Publish(Zero)
     \/ age <= Timeout + 1 /\ supervisor_ok' = TRUE /\ UNCHANGED cmd_vel
  /\ UNCHANGED <<mode, connected, publishing, safety_state, age, servo, redeployed>>

\* Fault injection: defensive mode is entered without stopping the robot.
CheckSupervisorWatchdogQuiet ==
  /\ mode = "active" /\ due = 0
  /\ due' = Period
  /\ supervisor_ok' = (age <= Timeout)
  /\ UNCHANGED <<mode, connected, publishing, safety_state, age, cmd_vel, servo, redeployed>>

CheckSupervisorWatchdog ==
  /\ mode = "active" /\ due = 0
  /\ due' = Period
  /\ \/ age > Timeout /\ supervisor_ok' = FALSE /\ Publish(Zero)
     \/ age <= Timeout /\ supervisor_ok' = TRUE /\ UNCHANGED cmd_vel
  /\ UNCHANGED <<mode, connected, publishing, safety_state, age, servo, redeployed>>

Tick ==
  /\ ~(mode = "active" /\ due = 0)
  /\ age' = IF age <= MaxAge THEN age + 1 ELSE age
  /\ due' = IF mode = "active" THEN due - 1 ELSE due
  /\ UNCHANGED <<mode, connected, publishing, safety_state, supervisor_ok, cmd_vel, servo, redeployed>>

Clock == CheckSupervisorWatchdog \/ Tick

Next ==
  \/ OnConfigure \/ OnActivate \/ OnDeactivate \/ OnCleanup
  \/ \E level \in SafetyLevel : OnSafetyState(level)
  \/ \E c \in Commands : OnVelRaw(c)
  \/ OnServoCommandRaw
  \/ CheckSupervisorWatchdog
  \/ Tick

\* Time passes and timers fire; heartbeats, commands and the lifecycle manager
\* owe nothing.
Spec == Init /\ [][Next]_vars /\ WF_vars(Clock)

-----------------------------------------------------------------------------
(* What the gate guarantees. *)

\* Dead-man switch, until the node is deactivated: the robot is moving only if the last
\* heartbeat is at most Timeout + Period old.  Past that age the watchdog has checked,
\* published zero and closed the gate, whatever raw commands still arrive.
DeadMan == age > MaxAge => cmd_vel = Zero \/ redeployed

\* Once the watchdog has closed an active gate, redeployed or not, the robot stands
\* still until a heartbeat.
DefensiveStop == mode = "active" /\ ~supervisor_ok => cmd_vel = Zero

\* Until it is deactivated, the gate implements the abstract dead-man switch: every step
\* of the node, with its callbacks, its timer and its saturating clock, is a step of it.
Switch == INSTANCE DeadManSwitch
          WITH Bound <- MaxAge, moving <- cmd_vel # Zero /\ ~redeployed
ImplementsSwitch == Switch!Spec

\* If heartbeats end for good, an active gate stops the robot for good.
SilenceStops == <>[](mode = "active" /\ age > Timeout) => <>[](cmd_vel = Zero)
=============================================================================
