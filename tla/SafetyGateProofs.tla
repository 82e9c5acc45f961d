-------------------------- MODULE SafetyGateProofs --------------------------
(* The safety gate is a dead-man switch, for every timeout, period and set  *)
(* of commands, until it is deactivated.                                    *)
EXTENDS SafetyGate, TLAPS

\* A clamped command is a command.
LEMMA ClampTwistType ==
  ASSUME NEW c \in Commands, NEW level \in SafetyLevel
  PROVE  ClampTwist(c, MaxVelocity[level]) \in [speed : Nat, turn : Int]
<1>1. c \in [speed : Nat, turn : Int] /\ MaxVelocity[level] \in Nat
  BY CommandsAssumption DEF MaxVelocity, SafetyLevel
<1> QED BY <1>1 DEF ClampTwist, Zero

\* One step of the gate keeps every variable in its type.
LEMMA StepType ==
  ASSUME TypeOK, [Next]_vars
  PROVE  TypeOK'
<1> USE TimingAssumption DEF MaxAge
<1>1. Zero \in [speed : Nat, turn : Int]
  BY DEF Zero
<1>2. CASE OnConfigure
  BY <1>2 DEF OnConfigure, TypeOK
<1>3. CASE OnActivate
  BY <1>3 DEF OnActivate, TypeOK
<1>4. CASE OnDeactivate
  BY <1>1, <1>4 DEF OnDeactivate, Publish, TypeOK
<1>5. CASE OnCleanup
  BY <1>5 DEF OnCleanup, TypeOK
<1>6. ASSUME NEW level \in SafetyLevel, OnSafetyState(level)
      PROVE  TypeOK'
  BY <1>6 DEF OnSafetyState, TypeOK
<1>7. ASSUME NEW c \in Commands, OnVelRaw(c)
      PROVE  TypeOK'
  <2>1. CanMove => safety_state \in SafetyLevel
    BY DEF CanMove, MotionPermitted, SafetyLevel
  <2>2. cmd_vel' \in [speed : Nat, turn : Int]
    BY <1>1, <1>7, <2>1, ClampTwistType DEF OnVelRaw, Publish, TypeOK
  <2> QED BY <1>7, <2>2 DEF OnVelRaw, TypeOK
<1>8. CASE OnServoCommandRaw
  BY <1>8 DEF OnServoCommandRaw, CanMove, TypeOK
<1>9. CASE CheckSupervisorWatchdog
  <2>1. cmd_vel' \in [speed : Nat, turn : Int]
    BY <1>1, <1>9 DEF CheckSupervisorWatchdog, Publish, TypeOK
  <2>2. supervisor_ok' \in BOOLEAN
    BY <1>9, Zenon DEF CheckSupervisorWatchdog
  <2>3. due' \in 0..Period
    <3>1. due' = Period
      BY <1>9, Zenon DEF CheckSupervisorWatchdog
    <3> QED BY <3>1
  <2> QED BY <1>9, <2>1, <2>2, <2>3 DEF CheckSupervisorWatchdog, TypeOK
<1>10. CASE Tick
  BY <1>10 DEF Tick, TypeOK
<1>11. CASE UNCHANGED vars
  BY <1>11 DEF vars, TypeOK
<1> QED BY <1>2, <1>3, <1>4, <1>5, <1>6, <1>7, <1>8, <1>9, <1>10, <1>11 DEF Next

\* The initial state is well typed.
LEMMA InitType == Init => TypeOK
<1> SUFFICES ASSUME Init PROVE TypeOK
  OBVIOUS
<1>1. cmd_vel \in [speed : Nat, turn : Int]
  BY DEF Init, Zero
<1>2. age \in 0..MaxAge + 1 /\ due \in 0..Period
  BY TimingAssumption DEF Init, MaxAge
<1> QED BY <1>1, <1>2 DEF Init, TypeOK

\* Type correctness of the gate, redeployed or not.
THEOREM TypeCorrect == Spec => []TypeOK
BY InitType, StepType, PTL DEF Spec

-----------------------------------------------------------------------------
(* Why the switch works: the gate moves only with the watchdog's approval,  *)
(* and an approval given at the last check cannot be older than the time    *)
(* since that check plus Timeout.                                           *)

ApprovalAge == supervisor_ok => age <= Timeout + (Period - due)

\* What holds until the gate is deactivated: only an active gate hears heartbeats.
FirstDeployment ==
  /\ connected => mode = "active"
  /\ mode # "active" => ~supervisor_ok
  /\ ApprovalAge

GateInv ==
  /\ TypeOK
  /\ mode = "active" => publishing
  /\ cmd_vel # Zero => supervisor_ok
  /\ ~redeployed => FirstDeployment

\* The initial state satisfies it.
LEMMA InitInv == Init => GateInv
BY InitType DEF Init, GateInv, FirstDeployment, ApprovalAge

\* Every step keeps what holds until the gate is deactivated.
LEMMA StepFirstDeployment ==
  ASSUME GateInv, [Next]_vars, ~redeployed'
  PROVE  FirstDeployment'
<1> USE TimingAssumption DEF MaxAge
<1>1. TypeOK /\ TypeOK'
  BY StepType DEF GateInv
<1>2. ~redeployed
  BY DEF Next, vars, OnConfigure, OnActivate, OnDeactivate, OnCleanup, OnSafetyState, OnVelRaw,
         OnServoCommandRaw, CheckSupervisorWatchdog, Tick
<1>3. FirstDeployment
  BY <1>2 DEF GateInv
<1>4. CASE OnConfigure \/ OnActivate \/ OnCleanup
  BY <1>1, <1>3, <1>4 DEF OnConfigure, OnActivate, OnCleanup, FirstDeployment, ApprovalAge
<1>5. CASE OnDeactivate
  BY <1>5 DEF OnDeactivate
<1>6. ASSUME NEW level \in SafetyLevel, OnSafetyState(level)
      PROVE  FirstDeployment'
  BY <1>1, <1>3, <1>6 DEF OnSafetyState, FirstDeployment, ApprovalAge, TypeOK
<1>7. ASSUME NEW c \in Commands, OnVelRaw(c)
      PROVE  FirstDeployment'
  BY <1>3, <1>7 DEF OnVelRaw, FirstDeployment, ApprovalAge
<1>8. CASE OnServoCommandRaw
  BY <1>3, <1>8 DEF OnServoCommandRaw, FirstDeployment, ApprovalAge
<1>9. CASE CheckSupervisorWatchdog
  <2>1. CASE age > Timeout
    BY <1>1, <1>3, <1>9, <2>1 DEF CheckSupervisorWatchdog, FirstDeployment, ApprovalAge, TypeOK
  <2>2. CASE ~(age > Timeout)
    BY <1>1, <1>3, <1>9, <2>2 DEF CheckSupervisorWatchdog, FirstDeployment, ApprovalAge, TypeOK
  <2> QED BY <2>1, <2>2
<1>10. CASE Tick
  <2>1. supervisor_ok => mode = "active" /\ due' = due - 1 /\ age' <= age + 1
    BY <1>1, <1>3, <1>10 DEF Tick, FirstDeployment, TypeOK
  <2>2. ApprovalAge'
    BY <1>1, <1>3, <1>10, <2>1 DEF Tick, FirstDeployment, ApprovalAge, TypeOK
  <2> QED BY <1>3, <1>10, <2>2 DEF Tick, FirstDeployment
<1>11. CASE UNCHANGED vars
  BY <1>3, <1>11 DEF vars, FirstDeployment, ApprovalAge
<1> QED BY <1>4, <1>5, <1>6, <1>7, <1>8, <1>9, <1>10, <1>11 DEF Next

\* A robot under a non-zero command has an open gate.
LEMMA StepMovesOpen ==
  ASSUME GateInv, [Next]_vars, cmd_vel' # Zero
  PROVE  supervisor_ok'
<1>1. CASE OnConfigure \/ OnActivate \/ OnCleanup \/ OnServoCommandRaw \/ Tick
  BY <1>1 DEF OnConfigure, OnActivate, OnCleanup, OnServoCommandRaw, Tick, GateInv
<1>2. CASE OnDeactivate
  BY <1>2 DEF OnDeactivate, Publish, GateInv
<1>3. ASSUME NEW level \in SafetyLevel, OnSafetyState(level)
      PROVE  supervisor_ok'
  BY <1>3 DEF OnSafetyState
<1>4. ASSUME NEW c \in Commands, OnVelRaw(c)
      PROVE  supervisor_ok'
  BY <1>4 DEF OnVelRaw, Publish, CanMove, GateInv
<1>5. CASE CheckSupervisorWatchdog
  BY <1>5 DEF CheckSupervisorWatchdog, Publish, GateInv
<1>6. CASE UNCHANGED vars
  BY <1>6 DEF vars, GateInv
<1> QED BY <1>1, <1>2, <1>3, <1>4, <1>5, <1>6 DEF Next

\* So every step keeps the invariant.
LEMMA StepInv ==
  ASSUME GateInv, [Next]_vars
  PROVE  GateInv'
<1>1. TypeOK'
  BY StepType DEF GateInv
<1>2. mode' = "active" => publishing'
  BY DEF GateInv, Next, vars, OnConfigure, OnActivate, OnDeactivate, OnCleanup, OnSafetyState,
         OnVelRaw, OnServoCommandRaw, CheckSupervisorWatchdog, Tick
<1> QED BY <1>1, <1>2, StepMovesOpen, StepFirstDeployment DEF GateInv

\* The invariant bounds the age of the heartbeat under which the robot moves.
LEMMA InvBoundsAge ==
  ASSUME GateInv, ~redeployed, cmd_vel # Zero
  PROVE  age <= MaxAge /\ (due > 0 => age < MaxAge)
BY TimingAssumption DEF GateInv, FirstDeployment, ApprovalAge, TypeOK, MaxAge

\* The dead-man property: until it is deactivated, the gate lets nothing move once the
\* last heartbeat is older than Timeout + Period.
THEOREM DeadManHolds == Spec => []DeadMan
<1>1. GateInv => DeadMan
  BY InvBoundsAge, TimingAssumption DEF DeadMan, GateInv, TypeOK, MaxAge
<1>2. GateInv /\ [Next]_vars => GateInv'
  BY StepInv
<1> QED BY InitInv, <1>1, <1>2, PTL DEF Spec

\* Once its watchdog has closed the gate, an active gate holds the robot still, however
\* often it was deactivated and activated before.
THEOREM DefensiveStopHolds == Spec => []DefensiveStop
<1>1. GateInv => DefensiveStop
  BY DEF DefensiveStop, GateInv
<1>2. GateInv /\ [Next]_vars => GateInv'
  BY StepInv
<1> QED BY InitInv, <1>1, <1>2, PTL DEF Spec

-----------------------------------------------------------------------------
(* Refinement. *)

\* An approval given when the watchdog last fired is at most MaxAge old.
LEMMA AgeBound ==
  ASSUME NEW a \in Int, NEW d \in Nat, a <= Timeout + (Period - d)
  PROVE  a <= MaxAge
BY TimingAssumption DEF MaxAge

\* Every step of the gate is a step of the dead-man switch or leaves it unchanged.
LEMMA StepSimulates ==
  ASSUME GateInv, GateInv', [Next]_vars
  PROVE  [Switch!Next]_<<cmd_vel # Zero /\ ~redeployed, age>>
<1> DEFINE moving == cmd_vel # Zero /\ ~redeployed
<1> USE TimingAssumption
<1>1. CASE UNCHANGED age
  <2>1. CASE moving'
    <3>1. supervisor_ok' /\ ~redeployed'
      BY <2>1 DEF GateInv
    <3>2. due' \in Nat /\ age' \in Int
      BY DEF GateInv, TypeOK, MaxAge
    <3>3. age' <= Timeout + (Period - due')
      BY <3>1 DEF GateInv, FirstDeployment, ApprovalAge
    <3>4. age <= MaxAge
      BY <1>1, <3>2, <3>3, AgeBound
    <3> QED BY <1>1, <2>1, <3>4 DEF Switch!Next, Switch!Move
  <2>2. CASE ~moving'
    BY <1>1, <2>2 DEF Switch!Next, Switch!Stop
  <2> QED BY <2>1, <2>2
<1>2. ASSUME NEW level \in SafetyLevel, OnSafetyState(level)
      PROVE  Switch!Next
  BY <1>2 DEF OnSafetyState, Switch!Next, Switch!Beat
<1>3. CASE Tick
  <2>1. moving => age < MaxAge
    <3> SUFFICES ASSUME moving PROVE age < MaxAge
      OBVIOUS
    <3>1. due > 0
      BY <1>3 DEF Tick, GateInv, FirstDeployment, TypeOK
    <3> QED BY <3>1, InvBoundsAge
  <2> QED BY <1>3, <2>1 DEF Tick, Switch!Next, Switch!Tick, MaxAge
<1>4. CASE ~UNCHANGED age /\ ~Tick
  <2>1. \E level \in SafetyLevel : OnSafetyState(level)
    BY <1>4 DEF Next, vars, OnConfigure, OnActivate, OnDeactivate, OnCleanup, OnVelRaw,
                OnServoCommandRaw, CheckSupervisorWatchdog
  <2> QED BY <1>2, <2>1
<1> QED BY <1>1, <1>3, <1>4

\* Until it is deactivated, the gate implements the dead-man switch.
THEOREM GateImplementsSwitch == Spec => ImplementsSwitch
<1>1. Init => Switch!Init
  BY DEF Init, Switch!Init
<1>2. GateInv /\ [Next]_vars => GateInv'
  BY StepInv
<1>3. GateInv /\ GateInv' /\ [Next]_vars =>
        [Switch!Next]_<<cmd_vel # Zero /\ ~redeployed, age>>
  BY StepSimulates
<1> QED BY InitInv, <1>1, <1>2, <1>3, PTL DEF Spec, ImplementsSwitch, Switch!Spec
=============================================================================
