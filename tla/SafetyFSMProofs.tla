-------------------------- MODULE SafetyFSMProofs --------------------------
(* Lemmas about the operations of the safety state machine, for every       *)
(* module that composes it.                                                 *)
EXTENDS SafetyFSM, TLAPS

\* A clear cycle moves the counter up by one and never past its bound.
LEMMA CycleBoundType ==
  ASSUME NEW n \in 0..ClearCap
  PROVE  CycleBound(n) \in 0..ClearCap /\ CycleBound(n) >= n
BY HysteresisAssumption DEF CycleBound

\* CycleBound keeps the order of two counters: the machine's and the history's.
LEMMA CycleBoundMonotone ==
  ASSUME NEW m \in 0..ClearCap, NEW n \in 0..ClearCap, m <= n
  PROVE  CycleBound(m) <= CycleBound(n)
BY HysteresisAssumption DEF CycleBound

\* update() leaves the level, the counter and the pending flag in their types.
LEMMA UpdateType ==
  ASSUME FsmTypeOK, NEW s, Update(s)
  PROVE  FsmTypeOK'
<1>1. degraded_modules' \subseteq Modules
  BY DEF Update, FsmTypeOK
<1>2. state' \in SafetyLevel /\ clear_cycles' \in 0..ClearCap /\ startup_pending' \in BOOLEAN
  <2>1. CASE s.estop /\ state # "SAFE_STOP" /\ EStop
    BY <2>1 DEF EStop, Transition, FsmTypeOK, SafetyLevel
  <2>2. CASE UNCHANGED <<state, clear_cycles, startup_pending>>
    BY <2>2 DEF FsmTypeOK
  <2>3. CASE UpdateInitializing
    BY <2>3 DEF UpdateInitializing, Transition, FsmTypeOK, SafetyLevel
  <2>4. CASE UpdateDocking(s)
    BY <2>4 DEF UpdateDocking, Transition, FsmTypeOK, SafetyLevel
  <2>5. CASE UpdateRunning(s)
    <3>1. CASE AllClearCycle
      BY <2>5, <3>1, CycleBoundType, HysteresisAssumption
         DEF UpdateRunning, AllClearCycle, Transition, FsmTypeOK, SafetyLevel
    <3>2. CASE ~AllClearCycle
      BY <2>5, <3>2, HysteresisAssumption
         DEF UpdateRunning, RankHazards, HazardTarget, Transition, FsmTypeOK, SafetyLevel
    <3> QED BY <3>1, <3>2
  <2> QED BY <2>1, <2>2, <2>3, <2>4, <2>5 DEF Update
<1> QED BY <1>1, <1>2 DEF FsmTypeOK

\* Every other operation of the machine keeps its variables in their types.
LEMMA OperationType ==
  ASSUME FsmTypeOK,
         \/ \E m \in Modules : RegisterModuleDegraded(m) \/ ClearModuleDegraded(m)
         \/ Reset \/ MarkStartupComplete \/ MarkStartupFailed
         \/ TriggerDocking \/ DockingComplete
         \/ UNCHANGED fsm
  PROVE  FsmTypeOK'
<1>1. ASSUME NEW m \in Modules, RegisterModuleDegraded(m)
      PROVE  FsmTypeOK'
  BY <1>1 DEF RegisterModuleDegraded, Transition, FsmTypeOK, SafetyLevel
<1>2. ASSUME NEW m \in Modules, ClearModuleDegraded(m)
      PROVE  FsmTypeOK'
  BY <1>2 DEF ClearModuleDegraded, Transition, FsmTypeOK, SafetyLevel
<1>3. CASE Reset \/ MarkStartupComplete \/ MarkStartupFailed
  BY <1>3 DEF Reset, MarkStartupComplete, MarkStartupFailed, Transition, FsmTypeOK, SafetyLevel
<1>4. CASE TriggerDocking \/ DockingComplete
  BY <1>4 DEF TriggerDocking, DockingComplete, Transition, FsmTypeOK, SafetyLevel
<1>5. CASE UNCHANGED fsm
  BY <1>5 DEF fsm, FsmTypeOK
<1> QED BY <1>1, <1>2, <1>3, <1>4, <1>5
=============================================================================
