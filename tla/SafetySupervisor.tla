-------------------------- MODULE SafetySupervisor --------------------------
(***************************************************************************)
(* SafetySupervisorNode (bonbon_safety, nodes/safety_supervisor_node.py):   *)
(* subscriber callbacks feed the threat assessor, a 10 Hz timer runs the    *)
(* state machine and publishes its level, a one-shot timer fails a startup  *)
(* that takes too long, a service resets.  All callbacks belong to one      *)
(* mutually exclusive group, so each is one action, except that the bumper  *)
(* and e-stop callbacks call the cycle with the node's lock already taken.  *)
(* The incident log and the outputs of policy actions are left out.         *)
(***************************************************************************)
EXTENDS SafetyFSM, ThreatAssessor

CONSTANTS
  Messages,         \* what the sensors may send
  StartupTimeout    \* startup_timeout_sec, in ticks

(* persons: the distances of the tracks; battery: percent; thermal: degrees; *)
(* imu: is it drifting?; servo: does any servo report an error?             *)
SensorMessage ==
  [topic : {"lidar", "imu", "bumper", "servo", "estop", "unsafe", "nav_timeout"}, value : BOOLEAN]
    \cup [topic : {"persons"}, value : SUBSET Nat]
    \cup [topic : {"battery", "thermal"}, value : Int]

ASSUME StartupAssumption == StartupTimeout \in Nat \ {0}
ASSUME MessagesAssumption == Messages \subseteq SensorMessage

Cancelled == -1

VARIABLES
  published,   \* level in the last SafetyState message
  cycle_due,   \* has the supervisor timer expired?
  startup,     \* ticks until the startup timer fires, or Cancelled
  deadlocked   \* a callback waits for the lock it holds: nothing else runs

node == <<published, cycle_due, startup, deadlocked>>
vars == <<fsm, reading, age, node>>

TypeOK ==
  /\ FsmTypeOK
  /\ AssessorTypeOK
  /\ published \in SafetyLevel
  /\ cycle_due \in BOOLEAN /\ deadlocked \in BOOLEAN
  /\ startup \in {Cancelled} \cup 0..StartupTimeout

\* on_configure and on_activate, which publishes INITIALIZING at once.
Init ==
  /\ FsmInit
  /\ AssessorInit
  /\ published = "INITIALIZING"
  /\ cycle_due = FALSE
  /\ startup = StartupTimeout
  /\ deadlocked = FALSE

-----------------------------------------------------------------------------
(* Timers. *)

\* Fault injection: the state is published before it is evaluated.
SupervisorCyclePublishFirst ==
  /\ ~deadlocked /\ cycle_due
  /\ cycle_due' = FALSE
  /\ Update(BuildSnapshot)
  /\ published' = state
  /\ ResetTransientFlags
  /\ UNCHANGED <<age, startup, deadlocked>>

\* _supervisor_cycle.  The transition callback records nothing: _on_fsm_transition
\* names PolicyAction.NOTIFY_OPERATOR, which PolicyAction does not define, and the
\* state machine swallows the AttributeError before anything is logged or published.
SupervisorCycle ==
  /\ ~deadlocked /\ cycle_due
  /\ cycle_due' = FALSE
  /\ Update(BuildSnapshot)
  /\ published' = state'
  /\ ResetTransientFlags
  /\ UNCHANGED <<age, startup, deadlocked>>

CheckStartupComplete ==
  /\ ~deadlocked /\ startup = 0
  /\ startup' = Cancelled
  /\ \/ MarkStartupFailed
     \/ state # "INITIALIZING" /\ UNCHANGED fsm
  /\ UNCHANGED <<reading, age, published, cycle_due, deadlocked>>

\* Timers that have expired run before the next tick, unless the node is stuck.
Tick ==
  /\ deadlocked \/ (~cycle_due /\ startup # 0)
  /\ cycle_due' = TRUE
  /\ startup' = IF startup > 0 THEN startup - 1 ELSE startup
  /\ AgeTick
  /\ UNCHANGED <<fsm, reading, published, deadlocked>>

-----------------------------------------------------------------------------
(* Subscriber callbacks. *)

\* _cb_persons: the nearest distance greater than zero, or -1.
Nearest(distances) ==
  LET ahead == {d \in distances : d > 0} IN
  IF ahead = {} THEN -1 ELSE CHOOSE d \in ahead : \A e \in ahead : d <= e

\* Fault injection: the fresh sensor alone completes the startup.
CheckStartupSensorsAny(sensor) ==
  IF state = "INITIALIZING" THEN MarkStartupComplete ELSE UNCHANGED fsm

\* _check_startup_sensors, called with this sensor just stamped fresh.
CheckStartupSensors(sensor) ==
  IF state = "INITIALIZING" /\ \A s \in {"lidar", "imu"} \ {sensor} : ~Stale(s)
  THEN MarkStartupComplete ELSE UNCHANGED fsm

\* _cb_bumper and _cb_estop take the lock for _supervisor_cycle, which takes it again.
UrgentCycle(on) == deadlocked' = on

\* _cb_lidar and _cb_imu may complete the startup.
SensorCallback(m) ==
  /\ \/ m.topic = "lidar" /\ UpdateLidarScan
     \/ m.topic = "imu" /\ UpdateImu(m.value)
  /\ CheckStartupSensors(m.topic)
  /\ UNCHANGED deadlocked

\* _cb_persons, _cb_battery (the HAL's fraction of a charge, taken back to percent),
\* _cb_thermal, _cb_servo, _cb_unsafe_command and _cb_nav_timeout.
AssessorCallback(m) ==
  /\ \/ m.topic = "persons" /\ UpdatePersons(Nearest(m.value))
     \/ m.topic = "battery" /\ UpdateBattery(m.value)
     \/ m.topic = "thermal" /\ UpdateTemperature(m.value)
     \/ m.topic \in {"servo", "unsafe", "nav_timeout"} /\ UpdateFlag(m.topic, m.value)
  /\ UNCHANGED <<fsm, deadlocked>>

UrgentCallback(m) ==
  /\ m.topic \in {"bumper", "estop"}
  /\ UpdateFlag(m.topic, m.value)
  /\ UrgentCycle(m.value)
  /\ UNCHANGED fsm

Receive(m) ==
  /\ ~deadlocked
  /\ SensorCallback(m) \/ AssessorCallback(m) \/ UrgentCallback(m)
  /\ UNCHANGED <<published, cycle_due, startup>>

\* _cb_module_health: ERROR and STALE register the module, OK clears it, WARN is ignored.
ModuleHealth(m, ok) ==
  /\ ~deadlocked
  /\ \/ ok /\ ClearModuleDegraded(m)
     \/ ~ok /\ RegisterModuleDegraded(m)
  /\ UNCHANGED <<reading, age, published, cycle_due, startup, deadlocked>>

-----------------------------------------------------------------------------
(* The reset service: the startup timer is not started again. *)

HandleReset ==
  /\ ~deadlocked
  /\ Reset
  /\ published' = state'
  /\ UNCHANGED <<reading, age, cycle_due, startup, deadlocked>>

Timers == SupervisorCycle \/ CheckStartupComplete \/ Tick

Next ==
  \/ SupervisorCycle
  \/ CheckStartupComplete
  \/ Tick
  \/ \E m \in Messages : Receive(m)
  \/ \E m \in Modules : ModuleHealth(m, TRUE)
  \/ \E m \in Modules : ModuleHealth(m, FALSE)
  \/ HandleReset

\* Time passes and expired timers fire.  Sensors, modules and operators owe nothing.
Spec == Init /\ [][Next]_vars /\ WF_vars(Timers)

-----------------------------------------------------------------------------
(* What the supervisor guarantees. *)

\* No consumer of /bonbon/safety/state is told that motion is permitted while the
\* machine is in a level that forbids it: the levels changed without a message (by
\* the startup timer and by module health) never withdraw a permission silently.
PublishedNotAhead == published \in MotionPermitted => state \in MotionPermitted

\* The startup self-test is passed only on fresh lidar and IMU data, both at once.
SelfTestNeedsBoth ==
  [][startup_pending' /\ ~startup_pending => ~Stale("lidar")' /\ ~Stale("imu")']_vars

\* What the sensors say, read off the raw data and its age.
InDanger ==
  \/ "bumper" \in reading.flags
  \/ age["lidar"] > LidarMaxAge
  \/ "drift" \in reading.flags /\ age["imu"] <= ImuMaxAge
  \/ reading.human \in 0..HumanDanger /\ age["person"] <= PersonMaxAge

Hidden == "servo" \in reading.flags \/ reading.battery <= BatteryDock

\* If a started robot is in danger from some time on, and neither a servo fault nor a
\* critical battery hides it, the heartbeat forbids motion for good: a sensor that
\* dies is found out by its age, with no message.
DangerIsPublished ==
  <>[](state # "INITIALIZING" /\ InDanger /\ ~Hidden)
    => <>[](deadlocked \/ published \notin MotionPermitted)

-----------------------------------------------------------------------------
(* What the documentation says and the code does not do. *)

\* Comment of _cb_estop: an e-stop is processed immediately.
EStopStops == "estop" \in reading.flags ~> published = "SAFE_STOP"

\* SAFETY_STATE_MACHINE.md, exit conditions of FAULT, "E-stop (still reachable)": a machine in
\* FAULT enters SAFE_STOP when the e-stop is pressed, unless it is released before.
EStopLeavesFault ==
  state = "FAULT" /\ "estop" \in reading.flags
    ~> state = "SAFE_STOP" \/ "estop" \notin reading.flags
=============================================================================
