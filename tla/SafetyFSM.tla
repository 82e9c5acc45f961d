----------------------------- MODULE SafetyFSM -----------------------------
(***************************************************************************)
(* The pure safety state machine of bonbon_safety                          *)
(* (core/safety_state_machine.py, class SafetyStateMachine): one action    *)
(* per public operation.  A sensor snapshot is abstracted to the fields    *)
(* the condition evaluators tell apart; distances are in decimetres,       *)
(* battery in percent, temperature in degrees Celsius.                     *)
(***************************************************************************)
EXTENDS SafetyLevels

CONSTANTS
  Modules,             \* non-critical modules that report their health
  HysteresisCaution,   \* hysteresis_cycles_caution
  HysteresisDanger,    \* hysteresis_cycles_danger
  ClearCap,            \* bound: clear cycles are counted up to here
  HumanCaution, HumanDanger,       \* human_caution_m, human_danger_m
  BatteryCaution, BatteryDock,     \* battery_caution_pct, battery_dock_pct
  CpuCaution, CpuFault,            \* cpu_temp_caution_c, cpu_temp_fault_c
  LidarStaleDanger                 \* lidar_stale_danger

(* contact: a bumper, a cliff sensor or IMU drift; marginal: camera or IMU *)
(* stale, important node down, unsafe command or navigation timeout.       *)
SensorSnapshot ==
  [estop : BOOLEAN, crashed : BOOLEAN, servo : BOOLEAN, odrive : BOOLEAN,
   contact : BOOLEAN, lidar_stale : BOOLEAN, marginal : BOOLEAN,
   human : Int, battery : Int, cpu : Int]

ASSUME HysteresisAssumption ==
  /\ HysteresisCaution \in Nat \ {0} /\ HysteresisDanger \in Nat \ {0}
  /\ ClearCap \in Nat
  /\ HysteresisCaution <= ClearCap /\ HysteresisDanger <= ClearCap
ASSUME ThresholdAssumption ==
  /\ {HumanCaution, HumanDanger, BatteryCaution, BatteryDock,
      CpuCaution, CpuFault} \subseteq Int
  /\ HumanDanger <= HumanCaution /\ BatteryDock <= BatteryCaution
  /\ CpuCaution <= CpuFault
  /\ LidarStaleDanger \in BOOLEAN

VARIABLES
  state,             \* _state
  clear_cycles,      \* _clear_cycles, saturating at ClearCap
  degraded_modules,  \* _degraded_modules
  startup_pending    \* _startup_complete_pending

fsm == <<state, clear_cycles, degraded_modules, startup_pending>>

Locked  == {"FAULT", "SAFE_STOP"}
Running == {"NORMAL", "CAUTION", "DANGER", "DEGRADED"}

FsmTypeOK ==
  /\ state \in SafetyLevel
  /\ clear_cycles \in 0..ClearCap
  /\ degraded_modules \subseteq Modules
  /\ startup_pending \in BOOLEAN

FsmInit ==
  /\ state = "INITIALIZING"
  /\ clear_cycles = 0
  /\ degraded_modules = {}
  /\ startup_pending = FALSE

-----------------------------------------------------------------------------
(* Condition evaluators. *)

IsFault(s) ==
  \/ s.crashed
  \/ s.servo /\ s.odrive
  \/ s.cpu >= CpuFault

\* Fault injection: the age of the lidar is forgotten.
IsDangerAgeless(s) == s.contact \/ (s.human >= 0 /\ s.human <= HumanDanger)

IsDanger(s) ==
  \/ s.contact
  \/ s.human >= 0 /\ s.human <= HumanDanger
  \/ s.lidar_stale /\ LidarStaleDanger

IsDegraded(s) == s.servo \/ s.odrive

IsCaution(s) ==
  \/ s.human >= 0 /\ s.human <= HumanCaution
  \/ s.lidar_stale /\ ~LidarStaleDanger
  \/ s.marginal
  \/ s.battery >= 0 /\ s.battery <= BatteryCaution
  \/ s.cpu >= CpuCaution

BatteryCritical(s) == s.battery >= 0 /\ s.battery <= BatteryDock

-----------------------------------------------------------------------------
(* update(snapshot), one operator per numbered section of the code.  The   *)
(* first section whose condition holds decides.                            *)

\* _transition, without its history and its callback (the supervisor logs there).
Transition(level) == state' = level

\* Section 1: the hardware e-stop is unconditional.
EStop == Transition("SAFE_STOP") /\ UNCHANGED <<clear_cycles, startup_pending>>

\* Section 2: INITIALIZING only waits for mark_startup_complete().
UpdateInitializing ==
  /\ Transition(IF startup_pending THEN "NORMAL" ELSE state)
  /\ startup_pending' = FALSE
  /\ UNCHANGED clear_cycles

\* Fault injection: DOCKING is left as soon as the battery reads higher.
UpdateDockingRecharged(s) ==
  /\ \/ IsFault(s) /\ Transition("FAULT")
     \/ ~IsFault(s) /\ IsDanger(s) /\ Transition("DANGER")
     \/ /\ ~IsFault(s) /\ ~IsDanger(s)
        /\ Transition(IF BatteryCritical(s) THEN state ELSE "NORMAL")
  /\ UNCHANGED <<clear_cycles, startup_pending>>

\* Section 3: DOCKING, left here only for a fault or a danger.
UpdateDocking(s) ==
  /\ \/ IsFault(s) /\ Transition("FAULT")
     \/ ~IsFault(s) /\ IsDanger(s) /\ Transition("DANGER")
     \/ ~IsFault(s) /\ ~IsDanger(s) /\ UNCHANGED state
  /\ UNCHANGED <<clear_cycles, startup_pending>>

\* Section 8: count a clear cycle, and relax once the hysteresis is reached.
CycleBound(n) == IF n < ClearCap THEN n + 1 ELSE n

Relaxes(n) == \/ state = "DANGER" /\ n >= HysteresisDanger
              \/ state = "CAUTION" /\ n >= HysteresisCaution

AllClearCycleStuck ==
  \/ Relaxes(clear_cycles) /\ Transition("NORMAL") /\ clear_cycles' = 0
  \/ ~Relaxes(clear_cycles) /\ UNCHANGED <<clear_cycles, state>>

AllClearCycle ==
  LET n == CycleBound(clear_cycles) IN
  \/ Relaxes(n) /\ Transition("NORMAL") /\ clear_cycles' = 0
  \/ ~Relaxes(n) /\ clear_cycles' = n /\ UNCHANGED state

\* Fault injection: the caution conditions are tested before the danger ones.
HazardTargetSwapped(s) ==
  IF BatteryCritical(s) THEN "DOCKING" ELSE IF IsCaution(s) THEN "CAUTION" ELSE "DANGER"

\* Sections 6 (battery), 6 (danger), 7 (caution), 8: each resets the counter.
HazardTarget(s) ==
  IF BatteryCritical(s) THEN "DOCKING" ELSE IF IsDanger(s) THEN "DANGER" ELSE "CAUTION"

\* Fault injection: a new hazard does not reset the clear cycles.
RankHazardsNoReset(s) ==
  IF BatteryCritical(s) \/ IsDanger(s) \/ IsCaution(s)
  THEN Transition(HazardTarget(s)) /\ UNCHANGED clear_cycles
  ELSE AllClearCycle

RankHazards(s) ==
  IF BatteryCritical(s) \/ IsDanger(s) \/ IsCaution(s)
  THEN Transition(HazardTarget(s)) /\ clear_cycles' = 0
  ELSE AllClearCycle

\* Sections 4 and 5: a fault latches; a hardware degradation keeps NORMAL,
\* CAUTION and DEGRADED out of the sections below.
UpdateRunning(s) ==
  /\ \/ IsFault(s) /\ Transition("FAULT") /\ clear_cycles' = 0
     \/ /\ ~IsFault(s) /\ IsDegraded(s) /\ state # "DANGER"
        /\ Transition("DEGRADED") /\ UNCHANGED clear_cycles
     \/ /\ ~IsFault(s) /\ ~(IsDegraded(s) /\ state # "DANGER")
        /\ RankHazards(s)
  /\ UNCHANGED startup_pending

Update(s) ==
  /\ \/ s.estop /\ state # "SAFE_STOP" /\ EStop
     \/ /\ ~s.estop \/ state = "SAFE_STOP"
        /\ \/ state \in Locked /\ UNCHANGED <<state, clear_cycles, startup_pending>>
           \/ state = "INITIALIZING" /\ UpdateInitializing
           \/ state = "DOCKING" /\ UpdateDocking(s)
           \/ state \in Running /\ UpdateRunning(s)
  /\ UNCHANGED degraded_modules

-----------------------------------------------------------------------------
(* The other public operations. *)

RegisterModuleDegraded(m) ==
  /\ m \notin degraded_modules
  /\ degraded_modules' = degraded_modules \cup {m}
  /\ Transition(IF state = "NORMAL" THEN "DEGRADED" ELSE state)
  /\ UNCHANGED <<clear_cycles, startup_pending>>

ClearModuleDegraded(m) ==
  /\ degraded_modules' = degraded_modules \ {m}
  /\ Transition(IF degraded_modules' = {} /\ state = "DEGRADED" THEN "NORMAL" ELSE state)
  /\ UNCHANGED <<clear_cycles, startup_pending>>

Reset ==
  /\ state \in Locked
  /\ Transition("INITIALIZING")
  /\ UNCHANGED <<clear_cycles, degraded_modules, startup_pending>>

MarkStartupComplete ==
  /\ state = "INITIALIZING"
  /\ startup_pending' = TRUE
  /\ UNCHANGED <<state, clear_cycles, degraded_modules>>

\* The guard is that of its only caller, the supervisor's startup timer.
MarkStartupFailed ==
  /\ state = "INITIALIZING"
  /\ Transition("FAULT")
  /\ UNCHANGED <<clear_cycles, degraded_modules, startup_pending>>

TriggerDocking ==
  /\ state \in {"NORMAL", "CAUTION", "DEGRADED"}
  /\ Transition("DOCKING")
  /\ UNCHANGED <<clear_cycles, degraded_modules, startup_pending>>

DockingComplete ==
  /\ state = "DOCKING"
  /\ Transition("NORMAL")
  /\ UNCHANGED <<clear_cycles, degraded_modules, startup_pending>>
=============================================================================
