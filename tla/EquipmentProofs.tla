--------------------------- MODULE EquipmentProofs ---------------------------
(* Theorems about how the robot deals with equipment that fails: the fault   *)
(* pipeline for every catalogue; the watchdog for every set of nodes and     *)
(* classes, every threshold, grace period and limit on restarts; the         *)
(* hardware layer for every limit on attempts, every cooldown and both kinds *)
(* of drivers.                                                               *)
EXTENDS FaultHandler, WatchdogNode, HalNode, TLAPS

-----------------------------------------------------------------------------
(* The fault pipeline. *)

\* A saturating counter stays a counter.
LEMMA CountType == ASSUME NEW n \in 0..AttemptCap PROVE Count(n) \in 0..AttemptCap
BY DefinitionAssumption DEF Count

\* The levels and limits of a catalogue row.
LEMMA DefinitionType ==
  ASSUME NEW f \in Faults
  PROVE  /\ Definition[f].level \in 0..5 /\ Definition[f].terminal \in 0..5
         /\ Definition[f].max_attempts \in Nat /\ Definition[f].max_attempts < AttemptCap
         /\ AttemptCap \in Nat
<1>1. Definition[f] \in [level : FallbackLevel, alert : BOOLEAN,
                         max_attempts : Nat, terminal : FallbackLevel]
  BY DefinitionAssumption
<1> QED BY <1>1, DefinitionAssumption DEF FallbackLevel

\* Every operation keeps the variables in their types.
LEMMA FaultStepType == ASSUME FaultTypeOK, [FaultNext]_faultVars PROVE FaultTypeOK'
<1>1. ASSUME NEW f \in Faults, RegisterRecovery(f)
      PROVE  FaultTypeOK'
  BY <1>1 DEF RegisterRecovery, FaultTypeOK
<1>2. ASSUME NEW f \in Faults, RaiseFault(f)
      PROVE  FaultTypeOK'
  <2>1. active' \in [Faults -> FallbackLevel \cup {Inactive}]
    BY <1>2, DefinitionType DEF RaiseFault, FaultTypeOK, FallbackLevel
  <2>2. told' \subseteq Faults
    BY <1>2 DEF RaiseFault, FaultTypeOK
  <2>3. failed' \in [Faults -> 0..AttemptCap]
    BY <1>2, DefinitionType DEF RaiseFault, FaultTypeOK
  <2> QED BY <1>2, <2>1, <2>2, <2>3 DEF RaiseFault, FaultTypeOK
<1>3. ASSUME NEW f \in Faults, ClearFault(f)
      PROVE  FaultTypeOK'
  <2>1. attempts' \in [Faults -> 0..AttemptCap]
    BY <1>3, DefinitionType DEF ClearFault, FaultTypeOK
  <2> QED BY <1>3, <2>1 DEF ClearFault, FaultTypeOK
<1>4. ASSUME NEW f \in Faults, FailRecovery(f)
      PROVE  FaultTypeOK'
  <2>1. attempts' \in [Faults -> 0..AttemptCap] /\ failed' \in [Faults -> 0..AttemptCap]
    BY <1>4, CountType DEF FailRecovery, FaultTypeOK
  <2>2. active' \in [Faults -> FallbackLevel \cup {Inactive}] /\ told' \subseteq Faults
    BY <1>4, DefinitionType DEF FailRecovery, FaultTypeOK, FallbackLevel
  <2> QED BY <1>4, <2>1, <2>2 DEF FailRecovery, FaultTypeOK
<1>5. CASE UNCHANGED faultVars
  BY <1>5 DEF faultVars, FaultTypeOK
<1> QED BY <1>1, <1>2, <1>3, <1>4, <1>5 DEF FaultNext, Recover

\* Nothing is active at first.
LEMMA FaultInitType == FaultInit => FaultTypeOK
BY DefinitionAssumption DEF FaultInit, FaultTypeOK, Inactive

\* Type correctness of the pipeline.
THEOREM FaultTypeCorrect == FaultSpec => []FaultTypeOK
BY FaultInitType, FaultStepType, PTL DEF FaultSpec

-----------------------------------------------------------------------------
(* OperatorKnows and FullRetries need two facts more: a fault whose         *)
(* catalogue level demands an alert was alerted of at its activation, so    *)
(* that raising it again needs none; and the attempts counted for an active *)
(* fault are failures of this activation, because an inactive one has none. *)

FaultInv(f) ==
  /\ IsActive(f) /\ (Definition[f].alert \/ RequiresOperator(active[f])) => f \in told
  /\ IsActive(f) /\ RequiresOperator(Definition[f].level) => f \in told
  /\ IsActive(f) /\ active[f] # Definition[f].level => failed[f] >= Definition[f].max_attempts
  /\ IsActive(f) => attempts[f] <= failed[f]
  /\ ~IsActive(f) => attempts[f] = 0

FaultsInv == FaultTypeOK /\ \A f \in Faults : FaultInv(f)

\* It holds initially.
LEMMA FaultsInvInit == FaultInit => FaultsInv
BY FaultInitType DEF FaultInit, FaultsInv, FaultInv, IsActive

\* What an operation on one fault leaves alone keeps the invariant of the others.
LEMMA OthersKeepInv ==
  ASSUME NEW g \in Faults, FaultInv(g),
         UNCHANGED <<active[g], attempts[g], failed[g]>>, g \in told' <=> g \in told
  PROVE  FaultInv(g)'
BY DEF FaultInv, IsActive

\* Raising a fault keeps it.
LEMMA RaiseFaultInv ==
  ASSUME FaultsInv, NEW f \in Faults, RaiseFault(f)
  PROVE  \A g \in Faults : FaultInv(g)'
<1>1. ASSUME NEW g \in Faults, g # f
      PROVE  FaultInv(g)'
  <2>1. UNCHANGED <<active[g], attempts[g], failed[g]>> /\ (g \in told' <=> g \in told)
    BY <1>1 DEF RaiseFault, FaultsInv, FaultTypeOK
  <2> QED BY <2>1, OthersKeepInv DEF FaultsInv
<1>2. FaultInv(f)'
  <2>1. active'[f] = Definition[f].level /\ IsActive(f)'
    BY DefinitionType DEF RaiseFault, IsActive, Inactive, FaultsInv, FaultTypeOK
  <2>2. Definition[f].alert \/ RequiresOperator(Definition[f].level) => f \in told'
    BY DEF RaiseFault, FaultsInv, FaultInv
  <2>3. RequiresOperator(active[f])' <=> RequiresOperator(Definition[f].level)
    BY <2>1 DEF RequiresOperator
  <2>4. attempts'[f] <= failed'[f]
    BY DefinitionType DEF RaiseFault, FaultsInv, FaultTypeOK, FaultInv
  <2> QED BY <2>1, <2>2, <2>3, <2>4 DEF FaultInv
<1> QED BY <1>1, <1>2

\* Clearing a fault keeps it.
LEMMA ClearFaultInv ==
  ASSUME FaultsInv, NEW f \in Faults, ClearFault(f)
  PROVE  \A g \in Faults : FaultInv(g)'
<1>1. ASSUME NEW g \in Faults, g # f
      PROVE  FaultInv(g)'
  <2>1. UNCHANGED <<active[g], attempts[g], failed[g]>> /\ (g \in told' <=> g \in told)
    BY <1>1 DEF ClearFault, FaultsInv, FaultTypeOK
  <2> QED BY <2>1, OthersKeepInv DEF FaultsInv
<1>2. ~IsActive(f)' /\ attempts'[f] = 0
  BY DEF ClearFault, IsActive, FaultsInv, FaultTypeOK
<1>3. FaultInv(f)'
  BY <1>2 DEF FaultInv
<1> QED BY <1>1, <1>3

\* A failed recovery keeps it: the attempt that exhausts the policy alerts.
LEMMA FailRecoveryInv ==
  ASSUME FaultsInv, NEW f \in Faults, FailRecovery(f)
  PROVE  \A g \in Faults : FaultInv(g)'
<1>1. ASSUME NEW g \in Faults, g # f
      PROVE  FaultInv(g)'
  <2>1. UNCHANGED <<active[g], attempts[g], failed[g]>> /\ (g \in told' <=> g \in told)
    BY <1>1 DEF FailRecovery, FaultsInv, FaultTypeOK
  <2> QED BY <2>1, OthersKeepInv DEF FaultsInv
<1>2. FaultInv(f)'
  <2>1. attempts[f] <= failed[f] /\ attempts[f] \in 0..AttemptCap /\ failed[f] \in 0..AttemptCap
    BY DEF FailRecovery, FaultsInv, FaultTypeOK, FaultInv
  <2>2. attempts'[f] = Count(attempts[f]) /\ failed'[f] = Count(failed[f])
    BY DEF FailRecovery, FaultsInv, FaultTypeOK
  <2>3. attempts'[f] <= failed'[f] /\ failed[f] <= failed'[f]
    BY <2>1, <2>2, DefinitionType DEF Count
  <2>4. CASE attempts'[f] >= Definition[f].max_attempts
    <3>1. f \in told' /\ failed'[f] >= Definition[f].max_attempts /\ IsActive(f)'
      <4>1. f \in told' /\ active'[f] = Definition[f].terminal
        <5>1. ~(attempts'[f] < Definition[f].max_attempts)
          BY <2>1, <2>2, <2>4, DefinitionType, CountType
        <5> QED BY <5>1 DEF FailRecovery, FaultsInv, FaultTypeOK
      <4>2. failed'[f] >= Definition[f].max_attempts
        BY <2>1, <2>2, <2>3, <2>4, DefinitionType, CountType
      <4> QED BY <4>1, <4>2, DefinitionType DEF IsActive, Inactive
    <3> QED BY <2>3, <3>1 DEF FaultInv
  <2>5. CASE ~(attempts'[f] >= Definition[f].max_attempts)
    <3>1. UNCHANGED <<active, told>> /\ IsActive(f)
      BY <2>5, DefinitionType DEF FailRecovery
    <3>2. active[f] # Definition[f].level => failed'[f] >= Definition[f].max_attempts
      BY <2>1, <2>2, <2>3, <3>1, DefinitionType, CountType DEF FaultsInv, FaultInv
    <3> QED BY <2>3, <3>1, <3>2 DEF FaultsInv, FaultInv, IsActive, RequiresOperator
  <2> QED BY <2>4, <2>5
<1> QED BY <1>1, <1>2

\* Every step keeps it.
LEMMA FaultsInvStep == ASSUME FaultsInv, [FaultNext]_faultVars PROVE FaultsInv'
<1>1. FaultTypeOK'
  BY FaultStepType DEF FaultsInv
<1>2. ASSUME NEW f \in Faults, RegisterRecovery(f)
      PROVE  \A g \in Faults : FaultInv(g)'
  BY <1>2 DEF RegisterRecovery, FaultsInv, FaultInv, IsActive
<1>3. CASE UNCHANGED faultVars
  BY <1>1, <1>3 DEF faultVars, FaultsInv, FaultInv, IsActive
<1>4. CASE FaultNext
  BY <1>1, <1>2, <1>4, RaiseFaultInv, ClearFaultInv, FailRecoveryInv DEF FaultNext, Recover, FaultsInv
<1> QED BY <1>3, <1>4

\* The operator was alerted of every active fault that demands it.
THEOREM OperatorKnowsHolds == FaultSpec => []OperatorKnows
<1>1. FaultsInv => OperatorKnows
  BY DEF FaultsInv, FaultInv, OperatorKnows
<1> QED BY <1>1, FaultsInvInit, FaultsInvStep, PTL DEF FaultSpec

\* A fault leaves its catalogue level only after all the retries of this activation.
THEOREM FullRetriesHold == FaultSpec => []FullRetries
<1>1. FaultsInv => FullRetries
  BY DEF FaultsInv, FaultInv, FullRetries
<1> QED BY <1>1, FaultsInvInit, FaultsInvStep, PTL DEF FaultSpec

-----------------------------------------------------------------------------
(* The watchdog. *)

\* A type-correct node that is not silent is at or below its threshold.
LEMMA SilentBound ==
  ASSUME WatchdogTypeOK, NEW n \in Nodes
  PROVE  /\ silence[n] \in Nat /\ StaleThreshold[n] \in Nat
         /\ n \in Silent => silence[n] = StaleThreshold[n] + 1
         /\ n \notin Silent => silence[n] + 1 <= StaleThreshold[n] + 1
BY WatchdogTimingAssumption DEF WatchdogTypeOK, Silent

\* The restarts counted are within the limit.
LEMMA RestartBound ==
  ASSUME WatchdogTypeOK, NEW nodes, AttemptRestart(nodes)
  PROVE  restart_count' \in [Nodes -> 0..MaxRestartAttempts]
BY WatchdogTimingAssumption DEF WatchdogTypeOK, AttemptRestart

\* A message resets the silence of its sender alone.
LEMMA HeardOf ==
  ASSUME WatchdogTypeOK, NEW n \in Nodes, CbHealth(n)
  PROVE  /\ silence' \in [Nodes -> Nat]
         /\ \A m \in Nodes : silence'[m] = IF m = n THEN 0 ELSE silence[m]
         /\ Silent' = Silent \ {n}
<1>1. silence' \in [Nodes -> Nat] /\ \A m \in Nodes : silence'[m] = IF m = n THEN 0 ELSE silence[m]
  BY DEF WatchdogTypeOK, CbHealth
<1>2. \A m \in Nodes : StaleThreshold[m] \in Nat
  BY WatchdogTimingAssumption
<1> QED BY <1>1, <1>2 DEF Silent

\* A tick ages every node, but none beyond its bound.
LEMMA Ages ==
  ASSUME WatchdogTypeOK, PeriodPasses
  PROVE  /\ silence' \in [Nodes -> Nat]
         /\ \A m \in Nodes : silence'[m] <= StaleThreshold[m] + 1 /\ silence[m] <= silence'[m]
<1>1. silence' = [n \in Nodes |-> IF n \in Silent THEN silence[n] ELSE silence[n] + 1]
  BY DEF PeriodPasses
<1> QED BY <1>1, SilentBound

-----------------------------------------------------------------------------
\* Initially nobody is silent and no flag is up.
LEMMA WatchdogInitInv == ASSUME WatchdogInit PROVE WatchdogTypeOK /\ StaleIsSilent /\ NoFalseAlarm
<1>1. silence \in [Nodes -> Nat] /\ \A n \in Nodes : silence[n] <= StaleThreshold[n] + 1
  BY WatchdogTimingAssumption DEF WatchdogInit
<1>2. restart_count \in [Nodes -> 0..MaxRestartAttempts] /\ uptime \in 0..Grace
  BY WatchdogTimingAssumption DEF WatchdogInit
<1>3. is_stale = {} /\ check_due = FALSE /\ critical = FALSE /\ important = FALSE
  BY DEF WatchdogInit
<1> QED BY <1>1, <1>2, <1>3 DEF WatchdogTypeOK, StaleIsSilent, NoFalseAlarm

\* One step keeps every variable in its type.
LEMMA WatchdogStepType == ASSUME WatchdogTypeOK, [WatchdogNext]_watchdogVars PROVE WatchdogTypeOK'
<1>1. CASE CheckCycle
  <2>1. restart_count' \in [Nodes -> 0..MaxRestartAttempts]
    BY <1>1, RestartBound DEF CheckCycle
  <2>2. is_stale' \subseteq Nodes
    BY <1>1 DEF CheckCycle, WatchdogTypeOK, Silent
  <2>3. critical' \in BOOLEAN /\ important' \in BOOLEAN
    BY <1>1 DEF CheckCycle, PublishCrashFlags
  <2> QED BY <1>1, <2>1, <2>2, <2>3 DEF CheckCycle, WatchdogTypeOK
<1>2. CASE PeriodPasses
  <2>1. uptime' \in 0..Grace
    BY <1>2, WatchdogTimingAssumption DEF PeriodPasses, WatchdogTypeOK
  <2> QED BY <1>2, <2>1, Ages DEF PeriodPasses, WatchdogTypeOK
<1>3. ASSUME NEW n \in Nodes, CbHealth(n) PROVE WatchdogTypeOK'
  <2>1. \A m \in Nodes : silence'[m] <= StaleThreshold[m] + 1
    BY <1>3, HeardOf, WatchdogTimingAssumption DEF WatchdogTypeOK
  <2>2. restart_count' \in [Nodes -> 0..MaxRestartAttempts]
    BY <1>3, WatchdogTimingAssumption DEF CbHealth, WatchdogTypeOK
  <2>3. critical' \in BOOLEAN /\ important' \in BOOLEAN
    BY <1>3 DEF CbHealth, PublishCrashFlags, WatchdogTypeOK
  <2> QED BY <1>3, <2>1, <2>2, <2>3, HeardOf DEF CbHealth, WatchdogTypeOK
<1>4. CASE UNCHANGED watchdogVars
  BY <1>4 DEF watchdogVars, WatchdogTypeOK
<1> QED BY <1>1, <1>2, <1>3, <1>4 DEF WatchdogNext

\* Type correctness: every reachable state of the watchdog is well typed; silence and
\* restarts stay within their bounds.
THEOREM WatchdogTypeCorrect == WatchdogSpec => []WatchdogTypeOK
<1>1. WatchdogInit => WatchdogTypeOK
  BY WatchdogInitInv
<1>2. WatchdogTypeOK /\ [WatchdogNext]_watchdogVars => WatchdogTypeOK'
  BY WatchdogStepType
<1> QED BY <1>1, <1>2, PTL DEF WatchdogSpec

-----------------------------------------------------------------------------
\* One step keeps stale nodes silent: a message takes the flag back with the silence, the
\* check adds silent nodes only, and time makes nobody heard.
LEMMA StepStale == ASSUME WatchdogTypeOK, StaleIsSilent, [WatchdogNext]_watchdogVars PROVE StaleIsSilent'
<1> USE DEF StaleIsSilent
<1>1. CASE CheckCycle
  BY <1>1 DEF CheckCycle, Silent
<1>2. CASE PeriodPasses
  <2>1. \A m \in Nodes : silence[m] \in Nat /\ silence'[m] \in Nat /\ silence[m] <= silence'[m]
    BY <1>2, Ages, SilentBound
  <2>2. Silent \subseteq Silent'
    BY <2>1, WatchdogTimingAssumption DEF Silent
  <2> QED BY <1>2, <2>2 DEF PeriodPasses
<1>3. ASSUME NEW n \in Nodes, CbHealth(n) PROVE StaleIsSilent'
  BY <1>3, HeardOf DEF CbHealth
<1>4. CASE UNCHANGED watchdogVars
  BY <1>4 DEF watchdogVars, Silent
<1> QED BY <1>1, <1>2, <1>3, <1>4 DEF WatchdogNext

\* A node is held stale only while it is silent beyond its threshold, for every order of
\* health messages, checks and ticks (_cb_health, _check_cycle).
THEOREM StaleIsSilentHolds == WatchdogSpec => []StaleIsSilent
<1>1. WatchdogInit => StaleIsSilent
  BY WatchdogInitInv
<1>2. WatchdogTypeOK /\ StaleIsSilent /\ [WatchdogNext]_watchdogVars => StaleIsSilent'
  BY StepStale
<1> QED BY <1>1, <1>2, WatchdogTypeCorrect, PTL DEF WatchdogSpec

\* One step keeps the flags true: they are raised for nodes that are held stale by the same
\* check, and any recovery lowers them.
LEMMA StepAlarm == ASSUME NoFalseAlarm, [WatchdogNext]_watchdogVars PROVE NoFalseAlarm'
<1> USE DEF NoFalseAlarm
<1>1. CASE CheckCycle
  <2> DEFINE stale == IF uptime < Grace THEN {} ELSE Silent
  <2>1. is_stale' = is_stale \cup stale
    BY <1>1 DEF CheckCycle
  <2>2. /\ critical' = (stale \cap Critical # {})
        /\ important' = (stale \ (Critical \cup Auxiliary) # {})
    BY <1>1 DEF CheckCycle, PublishCrashFlags
  <2> HIDE DEF stale
  <2> QED BY <2>1, <2>2
<1>2. CASE PeriodPasses
  BY <1>2 DEF PeriodPasses
<1>3. ASSUME NEW n \in Nodes, CbHealth(n) PROVE NoFalseAlarm'
  <2>1. CASE n \in is_stale
    BY <1>3, <2>1 DEF CbHealth, PublishCrashFlags
  <2>2. CASE n \notin is_stale
    BY <1>3, <2>2 DEF CbHealth
  <2> QED BY <2>1, <2>2
<1>4. CASE UNCHANGED watchdogVars
  BY <1>4 DEF watchdogVars
<1> QED BY <1>1, <1>2, <1>3, <1>4 DEF WatchdogNext

\* A crash flag is up only while a node of its class is held stale (_publish_crash_flags).
THEOREM NoFalseAlarmHolds == WatchdogSpec => []NoFalseAlarm
<1>1. WatchdogInit => NoFalseAlarm
  BY WatchdogInitInv
<1>2. NoFalseAlarm /\ [WatchdogNext]_watchdogVars => NoFalseAlarm'
  BY StepAlarm
<1> QED BY <1>1, <1>2, PTL DEF WatchdogSpec

-----------------------------------------------------------------------------
(* The hardware layer. *)

\* NeverIdle is inductive together with the types.
HalInv == HalTypeOK /\ NeverIdle

USE DEF Trying, GivenUp

\* What a driver and a policy may look like.
DriverOK(d) == d \in Driver /\ (d.status = "CONNECTED" => d.errors = 0)
PolicyOK(p) == p \in Policy /\ (GivenUp(p) \/ p.attempt < MaxAttempts)

-----------------------------------------------------------------------------
LEMMA NewIsOK == DriverOK(NewDriver) /\ PolicyOK(NewPolicy)
  BY HalAssumption DEF DriverOK, PolicyOK, NewDriver, NewPolicy, Driver, Policy, Status

LEMMA RecordFaultIsOK ==
  ASSUME NEW d \in Driver PROVE DriverOK(RecordFault(d))
  BY HalAssumption DEF DriverOK, Driver, Status, RecordFault

LEMMA ConnectIsOK ==
  ASSUME NEW d \in Driver PROVE DriverOK(Connect(d))
<1>1. CASE plugged
  BY <1>1, HalAssumption DEF DriverOK, Connect, Driver, Status
<1>2. CASE ~plugged
  BY <1>2, RecordFaultIsOK DEF Connect
<1> QED BY <1>1, <1>2

LEMMA DisconnectIsOK ==
  ASSUME NEW d \in Driver
  PROVE  DriverOK(Disconnect(d)) /\ DriverOK([Disconnect(d) EXCEPT !.status = "SHUTDOWN"])
  BY DEF DriverOK, Disconnect, Driver, Status

LEMMA RefreshIsOK ==
  ASSUME NEW p, PolicyOK(p) PROVE PolicyOK(Refresh(p))
  BY NewIsOK DEF Refresh

LEMMA RecordFailureIsOK ==
  ASSUME NEW p \in Policy, ShouldAttempt(p) PROVE PolicyOK(RecordFailure(p))
  BY HalAssumption DEF PolicyOK, Policy, ShouldAttempt, RecordFailure

-----------------------------------------------------------------------------
\* An attempt, or the refusal to make one, leaves the driver and the policy in order.
LEMMA AttemptIsOK ==
  ASSUME HalInv, NEW d, DriverOK(d), AttemptReconnect(d)
  PROVE  /\ DriverOK(driver') /\ PolicyOK(policy') /\ link' \in BOOLEAN
         /\ report' \in {"none", "driver fault", "INITIAL_CONNECT_FAILED", "RECONNECT_EXHAUSTED", "RECONNECTED"}
<1> DEFINE p == Refresh(policy)
           tried == Connect(Disconnect(d))
<1>1. PolicyOK(p)
  BY RefreshIsOK DEF HalInv, HalTypeOK, NeverIdle, PolicyOK
<1>2. DriverOK(tried)
  BY ConnectIsOK, DisconnectIsOK DEF DriverOK
<1>3. CASE ShouldAttempt(p)
  <2>1. driver' = tried /\ link' = plugged /\ report' \in {"RECONNECTED", "driver fault"}
    BY <1>3 DEF AttemptReconnect
  <2>2. policy' = IF plugged THEN NewPolicy ELSE RecordFailure(p)
    BY <1>3 DEF AttemptReconnect
  <2>3. PolicyOK(policy')
    BY <2>2, <1>1, <1>3, NewIsOK, RecordFailureIsOK DEF PolicyOK
  <2> QED BY <2>1, <2>3, <1>2 DEF HalInv, HalTypeOK
<1>4. CASE ~ShouldAttempt(p)
  BY <1>1, <1>4 DEF AttemptReconnect, HalInv, HalTypeOK
<1> QED BY <1>3, <1>4

-----------------------------------------------------------------------------
LEMMA HalInitInv == ASSUME HalInit PROVE HalInv
  BY NewIsOK DEF HalInit, HalInv, HalTypeOK, NeverIdle, DriverOK, PolicyOK

LEMMA HalNextInv == ASSUME HalInv, [HalNext]_halVars PROVE HalInv'
<1> USE DEF HalInv
<1>0. DriverOK(driver) /\ PolicyOK(policy)
  BY DEF HalTypeOK, NeverIdle, DriverOK, PolicyOK
<1> SUFFICES /\ (DriverOK(driver) /\ PolicyOK(policy))'
             /\ lifecycle' \in {"unconfigured", "inactive", "active", "finalized"}
             /\ timers' \in BOOLEAN /\ due' \in BOOLEAN /\ link' \in BOOLEAN /\ plugged' \in BOOLEAN
             /\ report' \in {"none", "driver fault", "INITIAL_CONNECT_FAILED",
                             "RECONNECT_EXHAUSTED", "RECONNECTED"}
  BY DEF HalTypeOK, NeverIdle, DriverOK, PolicyOK
<1>1. CASE DataTick
  <2>1. CASE driver.status # "CONNECTED" /\ AttemptReconnect(driver)
    BY <1>0, <1>1, <2>1, AttemptIsOK DEF DataTick, HalTypeOK
  <2>2. CASE ReadFails
    <3> DEFINE d == IF Records THEN RecordFault(driver) ELSE driver
    <3>1. DriverOK(d)
      BY <1>0, RecordFaultIsOK DEF DriverOK
    <3>2. CASE AttemptReconnect(d)
      BY <3>1, <3>2, <1>1, AttemptIsOK DEF DataTick, HalTypeOK
    <3>3. CASE driver' = d /\ report' \in {"driver fault", report} /\ UNCHANGED <<policy, link>>
      BY <3>1, <3>3, <1>0, <1>1 DEF DataTick, HalTypeOK
    <3>4. AttemptReconnect(d) \/ (driver' = d /\ report' \in {"driver fault", report} /\ UNCHANGED <<policy, link>>)
      BY <2>2 DEF ReadFails
    <3> QED BY <3>2, <3>3, <3>4
  <2>3. CASE driver' = [driver EXCEPT !.errors = 0] /\ UNCHANGED <<link, policy, report>>
    <3>1. DriverOK(driver')
      BY <1>0, <2>3, HalAssumption DEF DriverOK, Driver
    <3> QED BY <1>0, <1>1, <2>3, <3>1 DEF DataTick, HalTypeOK
  <2> QED BY <1>1, <2>1, <2>2, <2>3 DEF DataTick
<1>2. CASE OnConfigure
  BY <1>2, NewIsOK DEF OnConfigure, HalTypeOK
<1>3. CASE OnActivate
  BY <1>0, <1>3, ConnectIsOK DEF OnActivate, HalTypeOK, DriverOK
<1>4. CASE OnDeactivate
  BY <1>0, <1>4, DisconnectIsOK DEF OnDeactivate, HalTypeOK, DriverOK
<1>5. CASE OnCleanup
  BY <1>0, <1>5, DisconnectIsOK DEF OnCleanup, Shutdown, HalTypeOK, DriverOK
<1>6. CASE OnShutdown
  BY <1>0, <1>6, DisconnectIsOK DEF OnShutdown, Shutdown, HalTypeOK, DriverOK
<1>7. CASE Device
  BY <1>0, <1>7 DEF Device, HalTypeOK
<1>8. CASE Tick
  <2>1. PolicyOK(policy')
    BY <1>0, <1>8, HalAssumption DEF Tick, PolicyOK, Policy
  <2> QED BY <1>0, <1>8, <2>1 DEF Tick, HalTypeOK
<1>9. CASE UNCHANGED halVars
  BY <1>0, <1>9 DEF halVars, HalTypeOK
<1> QED BY <1>1, <1>2, <1>3, <1>4, <1>5, <1>6, <1>7, <1>8, <1>9 DEF HalNext

LEMMA HalCorrect == HalSpec => []HalInv
  BY HalInitInv, HalNextInv, PTL DEF HalSpec

\* HalNode stays well typed: errors and attempts within their limits, the age of a give-up
\* within the cooldown.
THEOREM HalTypeCorrect == HalSpec => []HalTypeOK
  BY HalCorrect, PTL DEF HalInv

\* At every moment the node may try to connect or has given up and says so, and a connected
\* driver carries no errors: _safe_publish_data never returns in silence.
THEOREM NeverIdleHolds == HalSpec => []NeverIdle
  BY HalCorrect, PTL DEF HalInv
=============================================================================
