---------------------- MODULE SafetyStateMachineProofs ----------------------
(* Theorems about the safety state machine, for every set of modules, every *)
(* set of snapshots and every threshold.                                    *)
EXTENDS SafetyStateMachine, SafetyFSMProofs

\* The summary of a snapshot is a record of booleans.
LEMMA ShowsType ==
  ASSUME NEW s \in Snapshots
  PROVE  Shows(s) \in [estop : BOOLEAN, fault : BOOLEAN, degraded : BOOLEAN,
                       danger : BOOLEAN, critical : BOOLEAN, caution : BOOLEAN]
BY SnapshotsAssumption, ThresholdAssumption
   DEF SensorSnapshot, Shows, IsFault, IsDegraded, IsDanger, BatteryCritical, IsCaution

HistoryTypeOK ==
  /\ last \in [estop : BOOLEAN, fault : BOOLEAN, degraded : BOOLEAN, danger : BOOLEAN,
               critical : BOOLEAN, caution : BOOLEAN]
  /\ beat \in BOOLEAN
  /\ clean \in 0..ClearCap

\* An observed update keeps the history in its types.
LEMMA ObservedType ==
  ASSUME HistoryTypeOK, NEW s \in Snapshots, ObservedUpdate(s)
  PROVE  HistoryTypeOK'
<1>1. last' = Shows(s) /\ beat' = ~beat
  BY DEF ObservedUpdate
<1>2. last' \in [estop : BOOLEAN, fault : BOOLEAN, degraded : BOOLEAN, danger : BOOLEAN,
                 critical : BOOLEAN, caution : BOOLEAN]
  BY <1>1, ShowsType
<1>3. clean' \in 0..ClearCap
  BY CycleBoundType, HysteresisAssumption DEF ObservedUpdate, HistoryTypeOK
<1> QED BY <1>1, <1>2, <1>3 DEF HistoryTypeOK

\* A step is an observed update, or an operation that leaves last, beat and clean alone.
LEMMA StepCases ==
  ASSUME [Next]_vars
  PROVE  \/ \E s \in Snapshots : ObservedUpdate(s)
         \/ /\ UNCHANGED <<last, beat, clean>>
            /\ \/ \E m \in Modules : RegisterModuleDegraded(m) \/ ClearModuleDegraded(m)
               \/ Reset \/ MarkStartupComplete \/ MarkStartupFailed
               \/ TriggerDocking \/ DockingComplete
               \/ UNCHANGED fsm
BY DEF Next, UpdateCycle, vars, history

\* One step of the machine keeps every variable in its type.
LEMMA StepType ==
  ASSUME TypeOK, [Next]_vars
  PROVE  TypeOK'
<1> USE DEF TypeOK
<1>1. HistoryTypeOK
  BY DEF HistoryTypeOK
<1>2. CASE \E s \in Snapshots : ObservedUpdate(s)
  <2>1. PICK s \in Snapshots : ObservedUpdate(s)
    BY <1>2
  <2>2. Update(s)
    BY <2>1 DEF ObservedUpdate
  <2> QED BY <1>1, <2>1, <2>2, UpdateType, ObservedType DEF HistoryTypeOK
<1>3. CASE ~\E s \in Snapshots : ObservedUpdate(s)
  <2>1. FsmTypeOK'
    BY <1>3, StepCases, OperationType
  <2>2. UNCHANGED <<last, beat, clean>>
    BY <1>3, StepCases
  <2>3. HistoryTypeOK'
    BY <1>1, <2>2 DEF HistoryTypeOK
  <2> QED BY <2>1, <2>3 DEF HistoryTypeOK
<1> QED BY <1>2, <1>3

\* The initial state is well typed.
LEMMA InitType == Init => TypeOK
<1> SUFFICES ASSUME Init PROVE TypeOK
  OBVIOUS
<1>1. state \in SafetyLevel /\ degraded_modules \subseteq Modules
  BY DEF Init, FsmInit, SafetyLevel
<1>2. clear_cycles \in 0..ClearCap /\ clean \in 0..ClearCap
  BY HysteresisAssumption DEF Init, FsmInit
<1>3. /\ startup_pending \in BOOLEAN /\ beat \in BOOLEAN
      /\ last \in [estop : BOOLEAN, fault : BOOLEAN, degraded : BOOLEAN, danger : BOOLEAN,
                   critical : BOOLEAN, caution : BOOLEAN]
  BY DEF Init, FsmInit
<1> QED BY <1>1, <1>2, <1>3 DEF TypeOK, FsmTypeOK

\* Type correctness: every reachable state of the safety state machine is well
\* typed; the clear-cycle counter stays within its bound.
THEOREM TypeCorrect == Spec => []TypeOK
BY InitType, StepType, PTL DEF Spec

-----------------------------------------------------------------------------
(* Only update() flips the beat, and it shows what its snapshot held.        *)

LEMMA OnlyUpdatesBeat ==
  ASSUME TypeOK, [Next]_vars, IsUpdate
  PROVE  \E s \in Snapshots : Update(s) /\ last' = Shows(s)
BY StepCases DEF IsUpdate, ObservedUpdate

\* The e-stop is section 1 of update(): SAFE_STOP from any level.
THEOREM EStopWins == Spec => EStopFromAnyLevel
<1>1. ASSUME TypeOK, [Next]_vars
      PROVE  IsUpdate /\ last'.estop => state' = "SAFE_STOP"
  <2> SUFFICES ASSUME IsUpdate, last'.estop PROVE state' = "SAFE_STOP"
    OBVIOUS
  <2>1. PICK s \in Snapshots : Update(s) /\ last' = Shows(s)
    BY <1>1, OnlyUpdatesBeat
  <2>2. s.estop
    BY <2>1 DEF Shows
  <2> QED
    BY <2>1, <2>2 DEF Update, EStop, Transition, UpdateInitializing, UpdateDocking,
                      UpdateRunning, Running, Locked
<1> QED BY <1>1, TypeCorrect, PTL DEF Spec, EStopFromAnyLevel

\* A fault latches FAULT from every level that evaluates conditions.
THEOREM FaultsLatch == Spec => FaultLatches
<1>1. ASSUME TypeOK, [Next]_vars
      PROVE  IsUpdate /\ last'.fault /\ ~last'.estop /\ state \notin {"INITIALIZING", "SAFE_STOP"}
               => state' = "FAULT"
  <2> SUFFICES ASSUME IsUpdate, last'.fault, ~last'.estop,
                      state \notin {"INITIALIZING", "SAFE_STOP"}
               PROVE  state' = "FAULT"
    OBVIOUS
  <2>1. PICK s \in Snapshots : Update(s) /\ last' = Shows(s)
    BY <1>1, OnlyUpdatesBeat
  <2>2. IsFault(s) /\ ~s.estop
    BY <2>1 DEF Shows
  <2> QED
    BY <2>1, <2>2 DEF Update, Transition, UpdateDocking, UpdateRunning, Running, Locked
<1> QED BY <1>1, TypeCorrect, PTL DEF Spec, FaultLatches

\* A hazardous snapshot leaves a started machine in a level capped at 30 cm/s.
THEOREM HazardsCapSpeed == Spec => HazardCapsSpeed
<1>1. ASSUME TypeOK, [Next]_vars
      PROVE  IsUpdate /\ state # "INITIALIZING"
             /\ (last'.fault \/ last'.danger \/ last'.critical \/ last'.caution)
               => MaxVelocity[state'] <= 30
  <2> SUFFICES ASSUME IsUpdate, state # "INITIALIZING",
                      last'.fault \/ last'.danger \/ last'.critical \/ last'.caution
               PROVE  MaxVelocity[state'] <= 30
    OBVIOUS
  <2>1. PICK s \in Snapshots : Update(s) /\ last' = Shows(s)
    BY <1>1, OnlyUpdatesBeat
  <2>2. IsFault(s) \/ IsDanger(s) \/ BatteryCritical(s) \/ IsCaution(s)
    BY <2>1 DEF Shows
  <2>3. state' \in SafetyLevel \ {"NORMAL"}
    BY <1>1, <2>1, <2>2
       DEF TypeOK, FsmTypeOK, Update, EStop, Transition, UpdateDocking, UpdateRunning, RankHazards,
           HazardTarget, Running, Locked, SafetyLevel
  <2> QED BY <2>3 DEF MaxVelocity, SafetyLevel
<1> QED BY <1>1, TypeCorrect, PTL DEF Spec, HazardCapsSpeed

\* DANGER does not give way to a level that permits motion while the danger lasts.
THEOREM DangerStays == Spec => DangerHolds
<1>1. ASSUME TypeOK, [Next]_vars
      PROVE  IsUpdate /\ last'.danger /\ ~last'.critical /\ state = "DANGER"
               => state' \notin MotionPermitted
  <2> SUFFICES ASSUME IsUpdate, last'.danger, ~last'.critical, state = "DANGER"
               PROVE  state' \notin MotionPermitted
    OBVIOUS
  <2>1. PICK s \in Snapshots : Update(s) /\ last' = Shows(s)
    BY <1>1, OnlyUpdatesBeat
  <2>2. IsDanger(s) /\ ~BatteryCritical(s)
    BY <2>1 DEF Shows
  <2> QED
    BY <2>1, <2>2 DEF Update, EStop, Transition, UpdateRunning, RankHazards, HazardTarget,
                      Running, Locked, MotionPermitted
<1> QED BY <1>1, TypeCorrect, PTL DEF Spec, DangerHolds

\* The locked levels are left only for INITIALIZING or SAFE_STOP.
THEOREM LockedStays == Spec => LockedUntilReset
<1>1. ASSUME TypeOK, [Next]_vars
      PROVE  state' # state /\ state \in Locked => state' \in {"INITIALIZING", "SAFE_STOP"}
  <2> SUFFICES ASSUME state' # state, state \in Locked
               PROVE  state' \in {"INITIALIZING", "SAFE_STOP"}
    OBVIOUS
  <2>1. ASSUME NEW s \in Snapshots, ObservedUpdate(s)
        PROVE  state' = "SAFE_STOP"
    BY <2>1 DEF ObservedUpdate, Update, EStop, Transition, Locked, Running
  <2> QED
    BY <1>1, <2>1, StepCases
    DEF RegisterModuleDegraded, ClearModuleDegraded, Reset, MarkStartupComplete,
        MarkStartupFailed, TriggerDocking, DockingComplete, Transition, Locked, fsm
<1> QED BY <1>1, TypeCorrect, PTL DEF Spec, LockedUntilReset

-----------------------------------------------------------------------------
(* CAUTION hysteresis.  The machine's counter runs on through levels that do *)
(* not read it, so it says nothing of the snapshots by itself; while in      *)
(* CAUTION, which is only entered with the counter reset, it never exceeds   *)
(* the number of consecutive clear snapshots.                                *)

HysteresisInv == state = "CAUTION" => clear_cycles <= clean

\* One update keeps the counter of CAUTION below the clear snapshots seen.
LEMMA UpdateHysteresis ==
  ASSUME TypeOK, HysteresisInv, NEW s \in Snapshots, ObservedUpdate(s)
  PROVE  /\ HysteresisInv'
         /\ state = "CAUTION" /\ state' = "NORMAL" => clean' >= HysteresisCaution
<1>1. Update(s) /\ clean' = IF Clear(Shows(s)) THEN CycleBound(clean) ELSE 0
  BY DEF ObservedUpdate
<1>2. clean' \in 0..ClearCap /\ clean \in 0..ClearCap /\ clear_cycles \in 0..ClearCap
  BY <1>1, CycleBoundType, HysteresisAssumption DEF TypeOK, FsmTypeOK
<1>3. CASE state = "CAUTION" /\ Clear(Shows(s))
  <2>1. AllClearCycle
    BY <1>1, <1>3 DEF Update, UpdateRunning, RankHazards, Clear, Shows, Locked, Running
  <2>2. CycleBound(clear_cycles) <= clean'
    BY <1>1, <1>2, <1>3, CycleBoundMonotone DEF HysteresisInv
  <2>3. CycleBound(clear_cycles) \in 0..ClearCap
    BY <1>2, CycleBoundType
  <2>4. CASE Relaxes(CycleBound(clear_cycles))
    <3>1. CycleBound(clear_cycles) >= HysteresisCaution
      BY <1>3, <2>4 DEF Relaxes
    <3>2. state' = "NORMAL"
      BY <2>1, <2>4 DEF AllClearCycle, Transition
    <3> QED BY <1>2, <2>2, <2>3, <3>1, <3>2, HysteresisAssumption DEF HysteresisInv
  <2>5. CASE ~Relaxes(CycleBound(clear_cycles))
    <3>1. state' = "CAUTION" /\ clear_cycles' = CycleBound(clear_cycles)
      BY <1>3, <2>1, <2>5 DEF AllClearCycle
    <3> QED BY <2>2, <3>1 DEF HysteresisInv
  <2> QED BY <2>4, <2>5
<1>4. CASE state = "CAUTION" /\ ~Clear(Shows(s))
  <2>1. state' # "NORMAL" /\ (state' = "CAUTION" => clear_cycles' = 0)
    BY <1>1, <1>4 DEF Update, EStop, Transition, UpdateRunning, RankHazards, HazardTarget, Clear,
                Shows, Locked, Running
  <2> QED BY <1>2, <2>1 DEF HysteresisInv
<1>5. CASE state # "CAUTION"
  <2>1. state' = "CAUTION" => clear_cycles' = 0
    BY <1>1, <1>5 DEF Update, EStop, Transition, UpdateInitializing, UpdateDocking, UpdateRunning,
                RankHazards, HazardTarget, AllClearCycle, Locked, Running
  <2> QED BY <1>2, <1>5, <2>1 DEF HysteresisInv
<1> QED BY <1>3, <1>4, <1>5

\* Any step does.
LEMMA StepHysteresis ==
  ASSUME TypeOK, HysteresisInv, [Next]_vars
  PROVE  /\ HysteresisInv'
         /\ state = "CAUTION" /\ state' = "NORMAL" => clean' >= HysteresisCaution
<1>1. CASE \E s \in Snapshots : ObservedUpdate(s)
  BY <1>1, UpdateHysteresis
<1>2. CASE ~\E s \in Snapshots : ObservedUpdate(s)
  <2>1. clear_cycles' = clear_cycles /\ clean' = clean
    BY <1>2, StepCases
    DEF fsm, RegisterModuleDegraded, ClearModuleDegraded, Reset, MarkStartupComplete,
        MarkStartupFailed, TriggerDocking, DockingComplete
  <2>2. /\ state' = "CAUTION" => state = "CAUTION"
        /\ state = "CAUTION" => state' # "NORMAL"
    BY <1>2, StepCases
    DEF fsm, Locked, Transition, RegisterModuleDegraded, ClearModuleDegraded, Reset,
        MarkStartupComplete, MarkStartupFailed, TriggerDocking, DockingComplete
  <2> QED BY <2>1, <2>2 DEF HysteresisInv
<1> QED BY <1>1, <1>2

\* CAUTION relaxes to NORMAL only after hysteresis_cycles_caution consecutive clear
\* snapshots, whatever happened before.
THEOREM CautionHysteresisHolds == Spec => CautionHysteresis
<1>1. Init => HysteresisInv
  BY DEF Init, FsmInit, HysteresisInv
<1> QED
  BY <1>1, TypeCorrect, StepHysteresis, PTL DEF Spec, CautionHysteresis
=============================================================================
