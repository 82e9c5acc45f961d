------------------------- MODULE SafetySystemProofs -------------------------
(* Theorems about the safety supervisor node alone, then about the          *)
(* supervisor, the gate and the e-stop node together, for every timing,     *)
(* threshold, set of messages and set of commands.                          *)
EXTENDS SafetySystem, SafetyFSMProofs, WellFoundedInduction

-----------------------------------------------------------------------------
(* The supervisor: type correctness. *)

\* The age limit of a sensor is a natural number.
LEMMA MaxAgeType == ASSUME NEW s \in Sensors PROVE MaxAge(s) \in Nat
BY AgesAssumption DEF MaxAge, Sensors

\* Setting or clearing a flag keeps the readings in their type.
LEMMA SetFlagType ==
  ASSUME AssessorTypeOK, NEW f \in Flags, NEW on, SetFlag(f, on)
  PROVE  reading' \in [flags : SUBSET Flags, human : Int, battery : 0..100, cpu : Int]
BY DEF AssessorTypeOK, SetFlag

\* Stamping a sensor, letting time pass, or neither, keeps the ages in their type.
LEMMA AgeType ==
  ASSUME AssessorTypeOK,
         (\E s \in Sensors : Stamp(s)) \/ AgeTick \/ UNCHANGED age
  PROVE  age' \in [Sensors -> Nat] /\ \A s \in Sensors : age'[s] <= MaxAge(s) + 1
<1>1. ASSUME NEW s \in Sensors, Stamp(s)
      PROVE  age' \in [Sensors -> Nat] /\ \A t \in Sensors : age'[t] <= MaxAge(t) + 1
  BY <1>1, MaxAgeType DEF Stamp, AssessorTypeOK
<1>2. CASE AgeTick
  BY <1>2, MaxAgeType DEF AgeTick, Stale, AssessorTypeOK
<1>3. CASE UNCHANGED age
  BY <1>3 DEF AssessorTypeOK
<1> QED BY <1>1, <1>2, <1>3

\* The nearest of a set of tracks is a distance or -1.
LEMMA NearestType == ASSUME NEW D \in SUBSET Nat PROVE Nearest(D) \in Int
<1> DEFINE ahead == {d \in D : d > 0}
<1>1. CASE ahead = {}
  BY <1>1 DEF Nearest
<1>2. CASE ahead # {}
  <2>1. PICK d \in ahead : \A e \in ahead : ~(<<e, d>> \in OpToRel(<, Nat))
    BY <1>2, NatLessThanWellFounded, WFMin
  <2>2. ASSUME NEW e \in ahead
        PROVE  d <= e
    <3>1. d \in Nat /\ e \in Nat
      OBVIOUS
    <3>2. ~(e < d)
      <4> HIDE DEF ahead
      <4> QED BY <2>1, <3>1 DEF OpToRel
    <3> QED BY <3>1, <3>2
  <2>3. Nearest(D) \in ahead
    BY <1>2, <2>2 DEF Nearest
  <2>4. ASSUME NEW e \in ahead PROVE e \in Int
    OBVIOUS
  <2> QED BY <2>3, <2>4
<1> QED BY <1>1, <1>2

\* A message changes the assessor, the pending startup flag and the lock, in their types.
LEMMA ReceiveType ==
  ASSUME FsmTypeOK, AssessorTypeOK, deadlocked \in BOOLEAN, NEW m \in SensorMessage, Receive(m)
  PROVE  FsmTypeOK' /\ AssessorTypeOK' /\ deadlocked' \in BOOLEAN
<1>1. FsmTypeOK'
  <2>1. CASE SensorCallback(m)
    BY <2>1, OperationType DEF SensorCallback, CheckStartupSensors
  <2>2. CASE AssessorCallback(m) \/ UrgentCallback(m)
    BY <2>2, OperationType DEF AssessorCallback, UrgentCallback
  <2> QED BY <2>1, <2>2 DEF Receive
<1>2. deadlocked' \in BOOLEAN
  <2>1. m.topic \in {"bumper", "estop"} => m.value \in BOOLEAN
    BY DEF SensorMessage
  <2> QED BY <2>1, Zenon DEF Receive, SensorCallback, AssessorCallback, UrgentCallback, UrgentCycle
<1>3. age' \in [Sensors -> Nat] /\ \A s \in Sensors : age'[s] <= MaxAge(s) + 1
  <2>1. (\E s \in Sensors : Stamp(s)) \/ UNCHANGED age
    BY DEF Receive, SensorCallback, AssessorCallback, UrgentCallback, UpdateLidarScan, UpdateImu,
           UpdatePersons, UpdateBattery, UpdateTemperature, UpdateFlag, Sensors
  <2> QED BY <2>1, AgeType
<1>4. reading' \in [flags : SUBSET Flags, human : Int, battery : 0..100, cpu : Int]
  <2>1. CASE \E f \in Flags, on \in {m.value, FALSE} : SetFlag(f, on)
    BY <2>1, SetFlagType
  <2>2. CASE m.topic = "persons" /\ UpdatePersons(Nearest(m.value))
    <3>1. m.value \in SUBSET Nat
      BY <2>2 DEF SensorMessage
    <3>2. Nearest(m.value) \in Int
      BY <3>1, NearestType
    <3> QED BY <2>2, <3>2 DEF UpdatePersons, AssessorTypeOK
  <2>3. CASE m.topic = "battery" /\ UpdateBattery(m.value)
    <3>1. m.value \in Int
      BY <2>3 DEF SensorMessage
    <3> QED BY <2>3, <3>1 DEF UpdateBattery, AssessorTypeOK
  <2>4. CASE m.topic = "thermal" /\ UpdateTemperature(m.value)
    <3>1. m.value \in Int
      BY <2>4 DEF SensorMessage
    <3> QED BY <2>4, <3>1 DEF UpdateTemperature, AssessorTypeOK
  <2>5. \/ \E f \in Flags, on \in {m.value, FALSE} : SetFlag(f, on)
        \/ m.topic = "persons" /\ UpdatePersons(Nearest(m.value))
        \/ m.topic = "battery" /\ UpdateBattery(m.value)
        \/ m.topic = "thermal" /\ UpdateTemperature(m.value)
    BY DEF Receive, SensorCallback, AssessorCallback, UrgentCallback, UpdateLidarScan, UpdateImu,
           UpdateFlag, Flags
  <2> QED BY <2>1, <2>2, <2>3, <2>4, <2>5
<1> QED BY <1>1, <1>2, <1>3, <1>4 DEF AssessorTypeOK

\* A step of the supervisor in any composition: of its callbacks, any sensor's message.
SupervisorStep ==
  \/ SupervisorCycle \/ CheckStartupComplete \/ Tick \/ HandleReset
  \/ \E m \in SensorMessage : Receive(m)
  \/ \E m \in Modules : ModuleHealth(m, TRUE) \/ ModuleHealth(m, FALSE)

\* Every step of the supervisor alone is one of these.
LEMMA NextIsStep == Next => SupervisorStep
BY MessagesAssumption DEF Next, SupervisorStep

\* One step of the supervisor keeps every variable in its type.
LEMMA StepType ==
  ASSUME TypeOK, SupervisorStep \/ UNCHANGED vars
  PROVE  TypeOK'
<1> USE StartupAssumption DEF Cancelled
<1>1. CASE SupervisorCycle
  <2>1. FsmTypeOK'
    BY <1>1, UpdateType DEF SupervisorCycle, TypeOK
  <2>2. AssessorTypeOK'
    <3>1. reading' \in [flags : SUBSET Flags, human : Int, battery : 0..100, cpu : Int]
      BY <1>1 DEF SupervisorCycle, ResetTransientFlags, TypeOK, AssessorTypeOK
    <3> QED BY <1>1, <3>1 DEF SupervisorCycle, TypeOK, AssessorTypeOK
  <2>3. published' \in SafetyLevel
    BY <1>1, <2>1 DEF SupervisorCycle, FsmTypeOK
  <2> QED BY <1>1, <2>1, <2>2, <2>3 DEF SupervisorCycle, TypeOK
<1>2. CASE CheckStartupComplete
  <2>1. FsmTypeOK'
    BY <1>2, OperationType DEF CheckStartupComplete, TypeOK
  <2> QED BY <1>2, <2>1 DEF CheckStartupComplete, TypeOK, AssessorTypeOK
<1>3. CASE Tick
  <2>1. AssessorTypeOK'
    BY <1>3, AgeType DEF Tick, TypeOK, AssessorTypeOK
  <2>2. FsmTypeOK'
    BY <1>3, OperationType DEF Tick, TypeOK
  <2>3. startup' \in {Cancelled} \cup 0..StartupTimeout
    BY <1>3 DEF Tick, TypeOK
  <2> QED BY <1>3, <2>1, <2>2, <2>3 DEF Tick, TypeOK
<1>4. CASE HandleReset
  <2>1. FsmTypeOK'
    BY <1>4, OperationType DEF HandleReset, TypeOK
  <2>2. published' \in SafetyLevel
    BY <1>4, <2>1 DEF HandleReset, FsmTypeOK
  <2> QED BY <1>4, <2>1, <2>2 DEF HandleReset, TypeOK, AssessorTypeOK
<1>5. ASSUME NEW m \in SensorMessage, Receive(m)
      PROVE  TypeOK'
  <2>1. FsmTypeOK' /\ AssessorTypeOK' /\ deadlocked' \in BOOLEAN
    BY <1>5, ReceiveType DEF TypeOK
  <2> QED BY <1>5, <2>1 DEF Receive, TypeOK
<1>6. ASSUME NEW m \in Modules, NEW ok \in BOOLEAN, ModuleHealth(m, ok)
      PROVE  TypeOK'
  <2>1. FsmTypeOK'
    BY <1>6, OperationType DEF ModuleHealth, TypeOK
  <2> QED BY <1>6, <2>1 DEF ModuleHealth, TypeOK, AssessorTypeOK
<1>7. CASE UNCHANGED vars
  <2>1. FsmTypeOK'
    BY <1>7, OperationType DEF vars, TypeOK
  <2> QED BY <1>7, <2>1 DEF vars, node, TypeOK, AssessorTypeOK
<1> QED BY <1>1, <1>2, <1>3, <1>4, <1>5, <1>6, <1>7 DEF SupervisorStep

\* The supervisor starts well typed.
LEMMA InitType == Init => TypeOK
<1> SUFFICES ASSUME Init PROVE TypeOK
  OBVIOUS
<1>1. FsmTypeOK
  <2>1. 0 \in 0..ClearCap
    BY HysteresisAssumption
  <2> QED BY <2>1 DEF Init, FsmInit, FsmTypeOK, SafetyLevel
<1>2. AssessorTypeOK
  <2>1. reading \in [flags : SUBSET Flags, human : Int, battery : 0..100, cpu : Int]
    BY DEF Init, AssessorInit
  <2>2. age = [s \in Sensors |-> MaxAge(s) + 1]
    BY DEF Init, AssessorInit
  <2>3. age \in [Sensors -> Nat] /\ \A s \in Sensors : age[s] <= MaxAge(s) + 1
    BY <2>2, MaxAgeType
  <2> QED BY <2>1, <2>3 DEF AssessorTypeOK
<1>3. startup \in 0..StartupTimeout
  BY StartupAssumption DEF Init
<1>4. published \in SafetyLevel /\ cycle_due \in BOOLEAN /\ deadlocked \in BOOLEAN
  BY DEF Init, SafetyLevel
<1> QED BY <1>1, <1>2, <1>3, <1>4 DEF TypeOK

\* Type correctness of the supervisor.
THEOREM TypeCorrect == Spec => []TypeOK
<1>1. TypeOK /\ [Next]_vars => TypeOK'
  BY NextIsStep, StepType
<1> QED BY <1>1, InitType, PTL DEF Spec

-----------------------------------------------------------------------------
(* The supervisor: what it publishes.  A level that forbids motion can be   *)
(* entered without a message; a level that permits it only by a cycle,      *)
(* which publishes, or by module health from another such level.            *)

PublishedInv == TypeOK /\ PublishedNotAhead

\* It holds initially.
LEMMA PublishedInit == Init => PublishedInv
BY InitType DEF Init, FsmInit, AssessorInit, PublishedInv, PublishedNotAhead, MotionPermitted

\* Every step of the supervisor keeps it.
LEMMA PublishedStep ==
  ASSUME PublishedInv, SupervisorStep \/ UNCHANGED vars
  PROVE  PublishedInv'
<1>1. TypeOK /\ TypeOK'
  BY StepType DEF PublishedInv
<1>2. CASE SupervisorCycle
  BY <1>1, <1>2 DEF SupervisorCycle, PublishedInv, PublishedNotAhead
<1>3. CASE CheckStartupComplete
  BY <1>1, <1>3 DEF CheckStartupComplete, MarkStartupFailed, fsm, MotionPermitted,
     PublishedInv, PublishedNotAhead
<1>4. CASE Tick
  BY <1>1, <1>4 DEF Tick, fsm, PublishedInv, PublishedNotAhead
<1>5. CASE HandleReset
  BY <1>1, <1>5 DEF HandleReset, Reset, Transition, PublishedInv, PublishedNotAhead
<1>6. ASSUME NEW m \in SensorMessage, Receive(m)
      PROVE  PublishedInv'
  <2>1. state' = state /\ published' = published
    BY <1>6 DEF Receive, SensorCallback, AssessorCallback, UrgentCallback, CheckStartupSensors,
       MarkStartupComplete, fsm
  <2> QED BY <1>1, <2>1 DEF PublishedInv, PublishedNotAhead
<1>7. ASSUME NEW m \in Modules, NEW ok \in BOOLEAN, ModuleHealth(m, ok)
      PROVE  PublishedInv'
  <2>1. state' = state \/ {state, state'} \subseteq MotionPermitted
    BY <1>7 DEF ModuleHealth, RegisterModuleDegraded, ClearModuleDegraded, Transition, MotionPermitted
  <2>2. UNCHANGED published
    BY <1>7 DEF ModuleHealth
  <2> QED BY <1>1, <2>1, <2>2 DEF PublishedInv, PublishedNotAhead, MotionPermitted
<1>8. CASE UNCHANGED vars
  BY <1>1, <1>8 DEF vars, fsm, node, PublishedInv, PublishedNotAhead
<1> QED BY <1>2, <1>3, <1>4, <1>5, <1>6, <1>7, <1>8 DEF SupervisorStep

\* The level in the last message permits motion only while the machine's own level does.
THEOREM PublishedNotAheadHolds == Spec => []PublishedNotAhead
<1>1. PublishedInv /\ [Next]_vars => PublishedInv'
  BY NextIsStep, PublishedStep
<1>2. PublishedInv => PublishedNotAhead
  BY DEF PublishedInv
<1> QED BY <1>1, <1>2, PublishedInit, PTL DEF Spec

\* The startup flag is raised only on fresh lidar and IMU data.
THEOREM SelfTestNeedsBothHolds == Spec => SelfTestNeedsBoth
<1>1. ASSUME TypeOK, [Next]_vars, startup_pending', ~startup_pending
      PROVE  ~Stale("lidar")' /\ ~Stale("imu")'
  <2>1. PICK m \in Messages : Receive(m) /\ SensorCallback(m)
    <3>1. CASE SupervisorCycle
      <4>1. Update(BuildSnapshot)
        BY <3>1 DEF SupervisorCycle
      <4>2. startup_pending' = startup_pending \/ startup_pending' = FALSE
        BY <4>1 DEF Update, EStop, UpdateInitializing, UpdateDocking, UpdateRunning
      <4> QED BY <1>1, <4>2
    <3>2. CASE CheckStartupComplete \/ Tick \/ HandleReset \/ UNCHANGED vars
      BY <1>1, <3>2 DEF CheckStartupComplete, Tick, HandleReset, MarkStartupFailed, Reset, fsm, vars
    <3>3. CASE \E m \in Modules : ModuleHealth(m, TRUE) \/ ModuleHealth(m, FALSE)
      BY <1>1, <3>3 DEF ModuleHealth, RegisterModuleDegraded, ClearModuleDegraded
    <3>4. ASSUME NEW m \in Messages, Receive(m)
          PROVE  SensorCallback(m)
      BY <1>1, <3>4 DEF Receive, AssessorCallback, UrgentCallback, fsm
    <3> QED BY <1>1, <3>1, <3>2, <3>3, <3>4 DEF Next
  <2>2. m.topic \in {"lidar", "imu"} /\ Stamp(m.topic)
    BY <2>1 DEF SensorCallback, UpdateLidarScan, UpdateImu
  <2>3. \A s \in {"lidar", "imu"} \ {m.topic} : ~Stale(s)
    BY <1>1, <2>1 DEF SensorCallback, CheckStartupSensors, fsm
  <2>4. \A s \in {"lidar", "imu"} : age'[s] <= MaxAge(s)
    <3>1. ASSUME NEW s \in {"lidar", "imu"}
          PROVE  age'[s] <= MaxAge(s)
      <4>1. s \in Sensors /\ MaxAge(s) \in Nat /\ age \in [Sensors -> Nat]
        BY <1>1, MaxAgeType DEF Sensors, TypeOK, AssessorTypeOK
      <4>2. CASE s = m.topic
        BY <2>2, <4>1, <4>2 DEF Stamp
      <4>3. CASE s # m.topic
        BY <2>2, <2>3, <4>1, <4>3 DEF Stamp, Stale
      <4> QED BY <4>2, <4>3
    <3> QED BY <3>1
  <2>5. \A s \in {"lidar", "imu"} : MaxAge(s) \in Nat /\ age'[s] \in Nat
    <3>1. TypeOK'
      BY <1>1, NextIsStep, StepType
    <3> QED BY <3>1, MaxAgeType DEF Sensors, TypeOK, AssessorTypeOK
  <2> QED BY <2>4, <2>5 DEF Stale
<1>2. TypeOK /\ [Next]_vars
        => [startup_pending' /\ ~startup_pending => ~Stale("lidar")' /\ ~Stale("imu")']_vars
  BY <1>1
<1> QED BY <1>2, TypeCorrect, PTL DEF Spec, SelfTestNeedsBoth

-----------------------------------------------------------------------------
(* The three nodes together.  What the gate knows is what was published, or *)
(* what was published is still on its way to it.                            *)

GateView ==
  /\ PublishedInv
  /\ to_gate # None => to_gate = published
  /\ to_gate = None => safety_state = published

\* The system steps the supervisor as the supervisor's own specification does.
LEMMA SystemStepsSupervisor ==
  ASSUME SystemNext \/ UNCHANGED system
  PROVE  SupervisorStep \/ UNCHANGED vars
<1>1. ASSUME DeliverEstop
      PROVE  \E m \in SensorMessage : Receive(m)
  <2> DEFINE m == [topic |-> "estop", value |-> to_supervisor = "TRUE"]
  <2>1. m \in SensorMessage
    BY DEF SensorMessage
  <2>2. Receive(m)
    BY <1>1 DEF DeliverEstop
  <2> QED BY <2>1, <2>2
<1>2. CASE Cycle \/ StartupCheck \/ OperatorReset \/ Clock
  BY <1>2 DEF Cycle, StartupCheck, OperatorReset, Clock, SupervisorStep
<1>3. CASE Sense
  BY <1>3, MessagesAssumption DEF Sense, SupervisorStep
<1>4. CASE Watch \/ Operator \/ Drive \/ DeliverToGate \/ DeliverToStop \/ Poll
  BY <1>4 DEF Watch, Operator, Drive, DeliverToGate, DeliverToStop, Poll
<1>5. CASE UNCHANGED system
  BY <1>5 DEF system
<1> QED BY <1>1, <1>2, <1>3, <1>4, <1>5 DEF SystemNext, SupervisorStep

\* GateView holds initially.
LEMMA GateViewInit == SystemInit => GateView
BY PublishedInit DEF SystemInit, Init, GateView, None

\* Every step of the system keeps it.
LEMMA GateViewStep ==
  ASSUME GateView, SystemNext \/ UNCHANGED system
  PROVE  GateView'
<1>1. PublishedInv'
  BY SystemStepsSupervisor, PublishedStep DEF GateView
<1>2. published \in SafetyLevel /\ published' \in SafetyLevel /\ None \notin SafetyLevel
  BY <1>1 DEF GateView, PublishedInv, TypeOK, SafetyLevel, None
<1>3. CASE Cycle \/ OperatorReset
  BY <1>1, <1>2, <1>3 DEF Cycle, OperatorReset, Heartbeat, GateView
<1>4. CASE StartupCheck \/ Sense \/ DeliverEstop
  BY <1>1, <1>4 DEF StartupCheck, CheckStartupComplete, Sense, DeliverEstop, Receive,
     gate, channels, GateView
<1>5. CASE DeliverToGate
  BY <1>1, <1>5 DEF DeliverToGate, Gate!OnSafetyState, vars, node, GateView
<1>6. CASE Clock
  BY <1>1, <1>6 DEF Clock, Tick, Gate!Tick, channels, GateView
<1>7. CASE Watch
  BY <1>1, <1>7 DEF Watch, Gate!CheckSupervisorWatchdog, vars, node, channels, GateView
<1>8. CASE Drive
  BY <1>1, <1>8 DEF Drive, Gate!OnVelRaw, vars, node, channels, GateView
<1>9. CASE Operator \/ DeliverToStop \/ Poll
  BY <1>1, <1>9 DEF Operator, DeliverToStop, Poll, vars, node, gate, channels, GateView
<1>10. CASE UNCHANGED system
  BY <1>1, <1>10 DEF system, vars, node, gate, channels, GateView
<1> QED BY <1>3, <1>4, <1>5, <1>6, <1>7, <1>8, <1>9, <1>10 DEF SystemNext

\* No command passes the gate under a permission the supervisor's machine has withdrawn,
\* except for the message that withdraws it and is on its way.
THEOREM GateNotAheadHolds == SystemSpec => []GateNotAhead
<1>1. GateView /\ [SystemNext]_system => GateView'
  BY GateViewStep
<1>2. GateView => GateNotAhead
  BY DEF GateView, PublishedInv, PublishedNotAhead, GateNotAhead, Gate!CanMove,
     MotionPermitted, Gate!MotionPermitted
<1> QED BY <1>1, <1>2, GateViewInit, PTL DEF SystemSpec

-----------------------------------------------------------------------------
(* The gate in the system is the gate of SafetyGateProofs, from its         *)
(* activation on and without a deactivation.                                *)

Alone == INSTANCE SafetyGateProofs WITH age <- silence

SwitchInv == GateView /\ Alone!GateInv /\ ~redeployed

\* The system starts with a gate that has been activated and has heard nothing.
LEMMA SwitchInit == SystemInit => SwitchInv
<1> SUFFICES ASSUME SystemInit PROVE SwitchInv
  OBVIOUS
<1>1. /\ mode = "active" /\ connected = TRUE /\ publishing = TRUE
      /\ safety_state = "None" /\ supervisor_ok = FALSE /\ due = Period
      /\ cmd_vel = Alone!Zero /\ servo = FALSE /\ redeployed = FALSE
      /\ silence = Timeout + Period + 1
  BY DEF SystemInit, None, Gate!Zero, Alone!Zero, Gate!MaxAge
<1>2. Alone!Zero \in [speed : Nat, turn : Int]
  BY DEF Alone!Zero
<1>3. silence \in 0..Timeout + Period + 1 /\ due \in 0..Period
  BY <1>1, GateAssumption
<1>4. Alone!TypeOK
  BY <1>1, <1>2, <1>3 DEF Alone!TypeOK, Alone!MaxAge, Alone!None
<1>5. Alone!GateInv
  BY <1>1, <1>4 DEF Alone!GateInv, Alone!FirstDeployment, Alone!ApprovalAge
<1> QED BY <1>1, <1>5, GateViewInit DEF SwitchInv

\* The system steps the gate as the gate's own specification does; a level that is delivered
\* is one the supervisor published.
LEMMA SystemStepsGate ==
  ASSUME GateView, SystemNext \/ UNCHANGED system
  PROVE  Alone!Next \/ UNCHANGED gate
<1>1. CASE DeliverToGate
  <2>1. to_gate \in SafetyLevel
    BY <1>1 DEF DeliverToGate, GateView, PublishedInv, TypeOK
  <2>2. Alone!OnSafetyState(to_gate) /\ to_gate \in Alone!SafetyLevel
    BY <1>1, <2>1 DEF DeliverToGate, Gate!OnSafetyState, Alone!OnSafetyState, SafetyLevel,
       Alone!SafetyLevel
  <2> QED BY <2>2 DEF Alone!Next
<1>2. CASE Drive
  <2>1. PICK c \in Commands : Gate!OnVelRaw(c)
    BY <1>2 DEF Drive
  <2>2. Alone!CanMove <=> Gate!CanMove
    BY DEF Gate!CanMove, Alone!CanMove, Gate!MotionPermitted, Alone!MotionPermitted
  <2>3. Alone!ClampTwist(c, Alone!MaxVelocity[safety_state])
          = Gate!ClampTwist(c, Gate!MaxVelocity[safety_state])
    BY DEF Gate!ClampTwist, Alone!ClampTwist, Gate!Zero, Alone!Zero, Gate!MaxVelocity, Alone!MaxVelocity,
       Gate!SafetyLevel, Alone!SafetyLevel
  <2>4. Alone!OnVelRaw(c)
    BY <2>1, <2>2, <2>3 DEF Gate!OnVelRaw, Alone!OnVelRaw, Gate!Publish, Alone!Publish, Gate!Zero,
       Alone!Zero
  <2> QED BY <2>4 DEF Alone!Next
<1>3. CASE Watch
  <2>1. Alone!CheckSupervisorWatchdog
    BY <1>3 DEF Watch, Gate!CheckSupervisorWatchdog, Alone!CheckSupervisorWatchdog, Gate!Publish,
       Alone!Publish, Gate!Zero, Alone!Zero
  <2> QED BY <2>1 DEF Alone!Next
<1>4. CASE Clock
  <2>1. Alone!Tick
    BY <1>4 DEF Clock, Gate!Tick, Alone!Tick, Gate!MaxAge, Alone!MaxAge
  <2> QED BY <2>1 DEF Alone!Next
<1>5. CASE \/ Cycle \/ StartupCheck \/ OperatorReset \/ Sense \/ Operator
           \/ DeliverEstop \/ DeliverToStop \/ Poll \/ UNCHANGED system
  BY <1>5 DEF Cycle, StartupCheck, OperatorReset, Sense, Operator, DeliverEstop, DeliverToStop, Poll,
     system
<1> QED BY <1>1, <1>2, <1>3, <1>4, <1>5 DEF SystemNext

\* So the gate's own invariant survives every step, and nothing deactivates it.
LEMMA SwitchStep ==
  ASSUME SwitchInv, SystemNext \/ UNCHANGED system
  PROVE  SwitchInv'
<1>1. GateView'
  BY GateViewStep DEF SwitchInv
<1>2. [Alone!Next]_(Alone!vars)
  BY SystemStepsGate DEF SwitchInv, gate, Alone!vars
<1>3. Alone!GateInv'
  BY <1>2, Alone!StepInv, GateAssumption DEF SwitchInv
<1>4. redeployed' = redeployed
  BY DEF SystemNext, Cycle, StartupCheck, OperatorReset, Sense, Watch, Clock, Operator, Drive,
     DeliverEstop, DeliverToGate, DeliverToStop, Poll, gate, system, Gate!OnSafetyState, Gate!OnVelRaw,
     Gate!CheckSupervisorWatchdog, Gate!Tick
<1> QED BY <1>1, <1>3, <1>4 DEF SwitchInv

-----------------------------------------------------------------------------
(* How long a withdrawal takes.  A message delivered after the machine has  *)
(* withdrawn its permission carries the withdrawal, as it replaced the      *)
(* message before it; so a gate that still holds a permission has heard     *)
(* nothing since, and the watchdog bounds what it may do with it.           *)

WithdrawnInv ==
  /\ withdrawn \in Nat
  /\ state \in MotionPermitted => withdrawn = 0
  /\ safety_state \in MotionPermitted /\ state \notin MotionPermitted => silence >= withdrawn
  /\ withdrawn <= Alone!MaxAge + 1

\* It holds initially.
LEMMA WithdrawnInit == SystemInit => WithdrawnInv
<1> SUFFICES ASSUME SystemInit PROVE WithdrawnInv
  OBVIOUS
<1>1. state \notin MotionPermitted /\ safety_state \notin MotionPermitted
  BY DEF SystemInit, Init, FsmInit, MotionPermitted, None
<1>2. withdrawn = Timeout + Period + 1
  BY DEF SystemInit, Gate!MaxAge
<1> QED BY <1>1, <1>2, GateAssumption DEF WithdrawnInv, Alone!MaxAge

\* Only a cycle makes the machine permit motion, and only the clock makes time pass.
LEMMA WithdrawnMoves ==
  ASSUME SystemNext \/ UNCHANGED system
  PROVE  \/ Cycle
         \/ Clock
         \/ /\ withdrawn' = withdrawn
            /\ state' \in MotionPermitted => state \in MotionPermitted
            /\ state \in MotionPermitted => state' \in MotionPermitted
            /\ UNCHANGED <<silence, safety_state>> \/ DeliverToGate
<1>1. ASSUME NEW m, Receive(m)
      PROVE  state' = state
  BY <1>1 DEF Receive, SensorCallback, AssessorCallback, UrgentCallback, CheckStartupSensors,
     MarkStartupComplete, fsm
<1>2. CASE StartupCheck
  BY <1>2 DEF StartupCheck, CheckStartupComplete, MarkStartupFailed, Transition, fsm, gate, MotionPermitted
<1>3. CASE OperatorReset
  BY <1>3 DEF OperatorReset, HandleReset, Reset, Transition, Locked, gate, MotionPermitted
<1>4. CASE Sense \/ DeliverEstop
  BY <1>1, <1>4 DEF Sense, DeliverEstop, gate
<1>5. CASE DeliverToGate
  BY <1>5 DEF DeliverToGate, vars, fsm
<1>6. CASE Watch \/ Drive
  BY <1>6 DEF Watch, Drive, Gate!CheckSupervisorWatchdog, Gate!OnVelRaw, vars, fsm
<1>7. CASE Operator \/ DeliverToStop \/ Poll \/ UNCHANGED system
  BY <1>7 DEF Operator, DeliverToStop, Poll, system, vars, fsm, gate
<1> QED BY <1>2, <1>3, <1>4, <1>5, <1>6, <1>7 DEF SystemNext

\* Every step of the system keeps it.
LEMMA WithdrawnStep ==
  ASSUME SwitchInv, WithdrawnInv, SystemNext \/ UNCHANGED system
  PROVE  WithdrawnInv'
<1> USE GateAssumption DEF Alone!MaxAge, Gate!MaxAge
<1>1. silence \in 0..Alone!MaxAge + 1
  BY DEF SwitchInv, Alone!GateInv, Alone!TypeOK
<1>2. CASE Cycle
  <2>1. silence' = silence /\ safety_state' = safety_state
    BY <1>2 DEF Cycle, gate
  <2>2. withdrawn' = IF state' \in MotionPermitted THEN 0 ELSE withdrawn
    BY <1>2 DEF Cycle
  <2> QED BY <1>1, <2>1, <2>2 DEF WithdrawnInv
<1>3. CASE Clock
  <2>1. state' = state /\ safety_state' = safety_state
    BY <1>3 DEF Clock, Tick, Gate!Tick, fsm
  <2>2. silence' = IF silence <= Gate!MaxAge THEN silence + 1 ELSE silence
    BY <1>3 DEF Clock, Gate!Tick
  <2>3. withdrawn' = IF state \in MotionPermitted \/ withdrawn > Gate!MaxAge
                     THEN withdrawn ELSE withdrawn + 1
    BY <1>3 DEF Clock
  <2> QED BY <1>1, <2>1, <2>2, <2>3 DEF WithdrawnInv
<1>4. CASE DeliverToGate
  <2>1. safety_state' = published /\ state' = state /\ withdrawn' = withdrawn
    BY <1>4 DEF DeliverToGate, Gate!OnSafetyState, SwitchInv, GateView, vars, fsm
  <2>2. published \in MotionPermitted => state \in MotionPermitted
    BY DEF SwitchInv, GateView, PublishedInv, PublishedNotAhead
  <2> QED BY <2>1, <2>2 DEF WithdrawnInv
<1>5. ASSUME withdrawn' = withdrawn, UNCHANGED <<silence, safety_state>>,
             state' \in MotionPermitted <=> state \in MotionPermitted
      PROVE  WithdrawnInv'
  BY <1>5 DEF WithdrawnInv
<1> QED BY <1>2, <1>3, <1>4, <1>5, WithdrawnMoves

\* Once the supervisor's machine has forbidden motion for longer than Timeout + Period, the
\* gate forwards nothing, whichever node hangs and however late the topics deliver.
THEOREM WithdrawnInTimeHolds == SystemSpec => []WithdrawnInTime
<1>1. SwitchInv /\ WithdrawnInv => WithdrawnInTime
  <2> SUFFICES ASSUME SwitchInv, WithdrawnInv, withdrawn > Gate!MaxAge, Gate!CanMove PROVE FALSE
    BY DEF WithdrawnInTime
  <2>1. supervisor_ok /\ safety_state \in MotionPermitted
    BY DEF Gate!CanMove, Gate!MotionPermitted, MotionPermitted
  <2>2. silence <= Timeout + (Period - due) /\ silence \in Nat /\ due \in 0..Period
    BY <2>1, GateAssumption
       DEF SwitchInv, Alone!GateInv, Alone!FirstDeployment, Alone!ApprovalAge, Alone!TypeOK, Alone!MaxAge
  <2>3. silence <= Gate!MaxAge
    BY <2>2, GateAssumption DEF Gate!MaxAge
  <2>4. withdrawn \in Nat /\ withdrawn > 0
    BY GateAssumption DEF WithdrawnInv, Gate!MaxAge
  <2>5. silence >= withdrawn
    BY <2>1, <2>4 DEF WithdrawnInv
  <2> QED BY <2>2, <2>3, <2>4, <2>5, GateAssumption DEF Gate!MaxAge
<1>2. SwitchInv /\ WithdrawnInv /\ [SystemNext]_system => (SwitchInv /\ WithdrawnInv)'
  BY SwitchStep, WithdrawnStep
<1>3. SystemInit => SwitchInv /\ WithdrawnInv
  BY SwitchInit, WithdrawnInit
<1> QED BY <1>1, <1>2, <1>3, PTL DEF SystemSpec
=============================================================================
