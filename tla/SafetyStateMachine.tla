------------------------- MODULE SafetyStateMachine -------------------------
(***************************************************************************)
(* The safety state machine on its own: its operations are called in any    *)
(* order, update() with any snapshot.  History variables record what the    *)
(* snapshots showed.                                                        *)
(***************************************************************************)
EXTENDS SafetyFSM

CONSTANT Snapshots   \* the sensor snapshots the threat assessor can build

ASSUME SnapshotsAssumption == Snapshots \subseteq SensorSnapshot

VARIABLES
  last,        \* what the last snapshot showed
  beat,        \* parity of the updates: a step that flips it is an update
  clean        \* consecutive updates whose snapshot was all clear

history == <<last, beat, clean>>
vars    == <<fsm, history>>

TypeOK ==
  /\ FsmTypeOK
  /\ last \in [estop : BOOLEAN, fault : BOOLEAN, degraded : BOOLEAN, danger : BOOLEAN,
               critical : BOOLEAN, caution : BOOLEAN]
  /\ beat \in BOOLEAN
  /\ clean \in 0..ClearCap

Init ==
  /\ FsmInit
  /\ last = [estop |-> FALSE, fault |-> FALSE, degraded |-> FALSE, danger |-> FALSE,
             critical |-> FALSE, caution |-> FALSE]
  /\ beat = FALSE
  /\ clean = 0

\* What a snapshot shows, and that it shows no hazard of any kind.
Shows(s) ==
  [estop |-> s.estop, fault |-> IsFault(s), degraded |-> IsDegraded(s),
   danger |-> IsDanger(s), critical |-> BatteryCritical(s), caution |-> IsCaution(s)]

Clear(v) == ~(v.estop \/ v.fault \/ v.degraded \/ v.danger \/ v.critical \/ v.caution)

ObservedUpdate(s) ==
  /\ Update(s)
  /\ last' = Shows(s)
  /\ beat' = ~beat
  /\ clean' = IF Clear(Shows(s)) THEN CycleBound(clean) ELSE 0

UpdateCycle == \E s \in Snapshots : ObservedUpdate(s)

Next ==
  \/ UpdateCycle
  \/ \E m \in Modules : RegisterModuleDegraded(m) /\ UNCHANGED history
  \/ \E m \in Modules : ClearModuleDegraded(m) /\ UNCHANGED history
  \/ Reset /\ UNCHANGED history
  \/ MarkStartupComplete /\ UNCHANGED history
  \/ MarkStartupFailed /\ UNCHANGED history
  \/ TriggerDocking /\ UNCHANGED history
  \/ DockingComplete /\ UNCHANGED history

\* The supervisor calls update() from a 10 Hz timer: updates never stop.  Resets,
\* docking and module health are up to the environment and are not fair.
Spec == Init /\ [][Next]_vars /\ WF_vars(UpdateCycle)

-----------------------------------------------------------------------------
(* What the machine guarantees. *)

\* CAUTION is left for NORMAL only after hysteresis_cycles_caution consecutive
\* snapshots that were clear of every hazard, whatever the machine went through
\* before (the counter survives NORMAL, DEGRADED and DOCKING).
CautionHysteresis ==
  [][state = "CAUTION" /\ state' = "NORMAL" => clean' >= HysteresisCaution]_vars

IsUpdate == beat' # beat

\* A snapshot with a fault, a danger, a critical battery or a caution leaves the
\* machine, once started, in a level whose velocity cap is at most 30 cm/s: no
\* early return of update() skips the cap.
HazardCapsSpeed ==
  [][IsUpdate /\ state # "INITIALIZING"
     /\ (last'.fault \/ last'.danger \/ last'.critical \/ last'.caution)
       => MaxVelocity[state'] <= 30]_vars

\* A fault condition latches FAULT from every level that evaluates conditions,
\* DOCKING and DEGRADED with their early returns included.
FaultLatches ==
  [][IsUpdate /\ last'.fault /\ ~last'.estop /\ state \notin {"INITIALIZING", "SAFE_STOP"}
       => state' = "FAULT"]_vars

\* A pressed e-stop leads to SAFE_STOP in one update from any level, FAULT included.
EStopFromAnyLevel == [][IsUpdate /\ last'.estop => state' = "SAFE_STOP"]_vars

\* FAULT and SAFE_STOP are left only for INITIALIZING (by an operator reset) or,
\* from FAULT, for SAFE_STOP: never for a level that permits motion.
LockedUntilReset ==
  [][state' # state /\ state \in Locked => state' \in {"INITIALIZING", "SAFE_STOP"}]_vars

\* While the danger lasts, an update does not release DANGER into a level that
\* permits motion, unless the battery is critical (which is ranked before the danger).
DangerHolds ==
  [][IsUpdate /\ last'.danger /\ ~last'.critical /\ state = "DANGER"
       => state' \notin MotionPermitted]_vars

\* If the snapshots are all clear from some time on, CAUTION and DANGER are
\* eventually left for good: the hysteresis counters cannot get stuck.
RelaxesWhenClear == <>[]Clear(last) => <>[](state \notin {"CAUTION", "DANGER"})
=============================================================================
