# Formal models of the Bonbon robot

This directory specifies, model-checks and proves properties of the code in
this repository that has states and order to get wrong: the safety nodes that
decide whether the robot may move (`ros2_ws/src/bonbon_safety`), and, around
them, navigation, the base of the hardware nodes and the operators' event
stream. The modules are TLA+; TLC checks them on
small instances, TLAPS checks the proofs. All paths below are relative to
`ros2_ws/src/` unless they start with a package of the repository root.

Contents: [1 The system](#1-the-system) · [2 Modules](#2-modules-and-the-code-they-model) ·
[3 Runs](#3-what-the-runs-check) · [4 Bounds and fairness](#4-bounds-and-fairness) ·
[5 Proofs](#5-what-is-proved) · [6 Divergences](#6-where-code-and-documents-disagree) ·
[7 Assumptions](#7-assumptions-and-what-is-not-modelled) · [8 Plan](#8-plan)

## 1 The system

Bonbon is a ROS 2 (rclpy) robot. Every ROS package is one or more lifecycle
nodes around a core of plain Python classes. Nodes talk over topics and
services; a node's callbacks run one at a time unless it says otherwise (the
default callback group is mutually exclusive). The inventory:

### Safety (`bonbon_safety`)

| part | state | operations | interacts with |
|---|---|---|---|
| safety state machine, `core/safety_state_machine.py` | level (7 values), clear-cycle counter, offline modules, pending startup flag | `update(snapshot)`, `reset`, `mark_startup_complete/failed`, `register/clear_module_degraded`, `trigger_docking`, `docking_complete` | called by the supervisor; calls a transition callback |
| threat assessor, `core/threat_assessor.py` | last reading and time stamp of each sensor, one-shot flags | one update method per sensor, `build_snapshot`, `reset_transient_flags` | fed by the supervisor's subscriptions |
| supervisor node, `nodes/safety_supervisor_node.py` | the two above, a lock, a 10 Hz timer, a one-shot startup timer | sensor callbacks, cycle, startup check, module health, reset service | publishes `/bonbon/safety/state` (latched, depth 1) |
| safety gate node, `nodes/safety_gate_node.py` | last level, `_supervisor_ok`, heartbeat time | heartbeat, raw velocity, raw servo commands, watchdog timer, lifecycle | between planners and motors: `/bonbon/cmd_vel_raw` to `/cmd_vel` |
| e-stop node, `nodes/estop_node.py` | button, relay | poll, safety-state callback | publishes `/bonbon/estop/state`, drives the motor relay |
| watchdog node, `nodes/watchdog_node.py` | per managed node: last message, stale flag, restart count | health callbacks, 2 Hz check | publishes crash flags |
| fault handler, `core/fault_handler.py`, `core/fault_levels.py` | active faults, attempts, recovery functions | raise, clear, attempt recovery | alerts the operator; a library class other packages use |
| failure catalogue, policies, incident log, resource monitors | tables, files, measurements | lookups, appends | read by the parts above |

Hard here: levels that latch against levels that relax by counting clear
cycles; sensors that die without a message; a lock taken twice in one call
chain; a level changed by three callbacks and published by two of them; a
gate that judges the heartbeat by a timer and not when a command passes;
latched messages that arrive after the event that outdates them; retries that
are counted across raises and clears. Correct means: the robot is not moving
while a hazard known to the supervisor forbids it, whoever of the three nodes
is hung, late or redeployed; a latched stop is left only by the operator; no
relaxation without the evidence it demands; and no state that is stuck.

### What acts within those limits

| part | state | operations | what is hard |
|---|---|---|---|
| navigation, `bonbon_navigation` | goal manager (priority queue, one active goal, history), recovery executor (a cascade of behaviours, retries, a limit in time), docking controller (phases), node state, Nav2's task, stuck counter | recommendations, service calls, a 10 Hz loop, safety state, odometry, lifecycle | Nav2 answers late or never; a stop comes while a goal is driven, recovered, preempted or queued; a full queue drops goals. A goal ends once and in one way, the active one ends, nothing is driven under a stop |
| hardware base, `bonbon_hal` | driver status and error count, reconnect policy (attempts, give-up), timers, lifecycle | data timer, connect, read, reconnect, activation | a device that comes and goes while it is reconnected: never idle in silence, data return, exhaustion is reported |
| operator events, `bonbon_operator_api` | connections per channel, count per user, event queue, two broadcasting tasks | connect, keep-alive, disconnect, emit, dispatch, broadcast | connections come and go during every await. The count is right, events arrive in order, a broken connection leaves nothing behind |

Navigation reads the safety state from its topic; none of these parts waits for
another. Navigation publishes goals to Nav2, Nav2 the velocity the gate judges.

### The rest of the repository - not modelled (section 7)

| part | state and operations | why it is left |
|---|---|---|
| actuation, `bonbon_actuation` | motion queue, one cancel flag, e-stop, level, a pool of one worker that runs gestures | its callbacks and its runs raise on fields that the repository's own messages lack: no state is left to model (section 7) |
| behaviour engine, `bonbon_behavior_engine` | behaviour state, a pool of workers, the operator alerter | the same: its first safety message raises, and no message carries what its other branches ask for (section 7) |
| text to speech, `bonbon_tts` | utterance queue, synthesizer with worker thread, speaker bridge | only the mock speaker plays in this repository; what an interruption does is decided there |
| operator commands, `bonbon_operator_api` | users, tokens, command gate | one request at a time; the service calls behind the gate are stubs |
| data stores, `bonbon_data_stores` | SQLite, migrations, vector index, backup and restore, retention | no node writes the index or takes a backup |
| hardware drivers, `bonbon_hal` | device input and output | I/O |
| language model, speech, vision, perception, spatial reasoning, gestures, affect | model calls, signal and image processing, geometry | data, little control |
| human-aware costmap | grid arithmetic | floating-point geometry |
| messages, bringup, simulation, deployment, scripts | definitions, launch files, test equipment | none of the robot's logic |
| `founder_command_center` | a web dashboard | separate from the robot |

`PROJECT.json` lists each with its sources, and, under `hazards`, every place
of the modelled code that a test would hardly reach, with the properties that
watch it.

## 2 Modules and the code they model

```
SafetyLevels                     levels, which of them permit motion, velocity caps
 |- SafetyFSM                    class SafetyStateMachine, one action per operation
 |   |- SafetyStateMachine       .. on its own, called in any order
 |   '- SafetySupervisor         SafetySupervisorNode, with ThreatAssessor
 |        '- SafetySystem        .. with SafetyGate and EstopNode (INSTANCE)
 '- SafetyGate                   SafetyGateNode; implements DeadManSwitch (abstract)
FaultHandler                     class FaultHandler
WatchdogNode                     WatchdogNode
NavigationNode                   the node, composed of
 |- GoalManager                  .. operators on a record of goals
 |- RecoveryExecutor             .. on a recovery session
 |- DockingController            .. on a docking
 '- SafetyLevels
HalNode                          HalNodeBase, DriverBase, ReconnectPolicy
OperatorEvents                   bridge, dispatcher, WebSocket manager and router
MC<module>                       the small instance of a module for TLC
<module>Proofs                   theorems; EquipmentProofs those of FaultHandler,
                                 WatchdogNode and HalNode, SafetySystemProofs those of
                                 SafetySupervisor and SafetySystem, NavigationProofs those
                                 of NavigationNode with its three parts
```

Variables carry the names of the Python attributes without the leading
underscore, actions the names of the methods in capitals. Each module keeps
next to an operation the faulty forms of it ("Fault injection: ...") that the
properties are tried against: replacing the operation by its faulty form must
break the property.

**SafetyFSM** (`core/safety_state_machine.py`). `Update(s)` is `update()`: its
chain of early returns is the order of its parts - `EStop`, the latch
`Locked`, `UpdateInitializing`, `UpdateDocking`, and `UpdateRunning`, which
holds fault, hardware fault, and then `RankHazards` (forced docking, danger,
caution, all clear). A snapshot keeps the fields the condition evaluators tell
apart: bumper, cliff sensor and IMU drift have the same effect in every branch
and are one field `contact`; camera, IMU, important node, unsafe command and
navigation timeout are `marginal`. Distances, battery and temperature are
numbers (decimetres, percent, degrees), because the thresholds and their
boundaries matter. Transition history, reasons and log lines are left out. The unknown battery
(-1) is neither critical nor low, as in the code.

**SafetyStateMachine** calls the operations in any order with any snapshot and
adds history variables: what the last snapshot showed (`last`), how many in a
row were clear (`clean`), and a bit that flips with every update (`beat`). No
operation reads them.

**ThreatAssessor** (`core/threat_assessor.py`) keeps a reading and, for lidar,
IMU, camera and person track, an age in ticks. Ages saturate one past their
limit, which also stands for "never received". `BuildSnapshot` is
`build_snapshot()` with its staleness rules: stale IMU drift is not used, a
stale person track reads -1, a lidar scan clears the cliff flags.

**SafetySupervisor** (`nodes/safety_supervisor_node.py`). A tick is a period of
the 10 Hz timer; `Tick` waits until the timers that expired have run.
`Receive(m)` is one sensor callback. `SensorCallback` includes the self-test
that the lidar and IMU callbacks trigger. `UrgentCallback` is the bumper and
e-stop callback: it takes the node's lock and, if contact or e-stop is
reported, calls the cycle, which takes the same non-reentrant lock - the state
`deadlocked`, after which nothing of the node runs (see section 6). The reset
service publishes; the startup timer and the health callbacks change the level
without publishing.

**SafetyGate** (`nodes/safety_gate_node.py`). `age` is the time since the last
heartbeat, `due` the time until the watchdog timer. The lifecycle
(`OnConfigure`, `OnActivate`, `OnDeactivate`, `OnCleanup`) is modelled with
what it leaves behind: subscriptions survive a deactivation, publishers are
dropped by a cleanup. `ClampTwist` scales the linear speed down to the cap.
The history variable `redeployed` remembers whether the node was deactivated.
**DeadManSwitch** is what motors may rely on: motion at most `Bound` ticks
after the last sign of life. The gate implements it (`ImplementsSwitch`) with
`Bound <- Timeout + Period`, and `moving` while a non-zero velocity is in force
and the node was not deactivated.

**EstopNode** (`nodes/estop_node.py`): poll, announcement and relay.

**SafetySystem** composes the three nodes. Two latched topics of depth one are
three one-place channels (the supervisor's level is on its way to the gate and
to the e-stop node separately); a newer message replaces an undelivered one,
delivery is late but sure. The nodes share the clock. The history variable
`withdrawn` counts the ticks since the supervisor's own level permitted motion.
The gate is active throughout, since its lifecycle has its own run; module health
is left to SafetySupervisor's run.

**FaultHandler** (`core/fault_handler.py`): per fault the level it is active
at, the attempts, whether a recovery function is registered; `Recover` and
`FailRecovery` are the two outcomes of `attempt_recovery()`. History: which
active faults the operator was told of, and failures since activation.

**WatchdogNode** (`nodes/watchdog_node.py`): per managed node its silence; the
check and the health callbacks as actions; a tick is a check period.

**NavigationNode** (`nodes/navigation_node.py`). `goals`, `recovery` and
`docking` are the records of the three objects; their methods are operators
that return the next record. `driving` is the task Nav2 holds. `NavLoop` is one
run of the 10 Hz loop, split by its early returns: docking, recovery, the goal's
timeout, a stuck robot, and `RoutineTick` with battery routing, the activation
of the next goal and the result of Nav2. A goal that starts Nav2 in step 8 can be
answered by Nav2 in step 9 of the same tick (`StartedAndAnswered`). A docking
carries the setting `enabled`; a controller that is not enabled is started but
does nothing. Times are flags (`late`) that the environment sets: a goal, a
docking phase or a recovery behaviour has lasted its limit. What Nav2, the
docking sensors and the battery say is chosen freely.
Costmap, localization and the velocity bridge do not change this state.

**HalNode** (`nodes/hal_node_base.py`, `base/driver_base.py`,
`base/reconnect_policy.py`). The policy's `gave_up` is the age of the give-up,
with one value for "still trying"; `Refresh` is the side effect of reading
`exhausted` after the cooldown. A tick is a data period. `Records` says whether
the driver's read reports its failures to the base class, as the serial and
LiDAR drivers do.

**OperatorEvents** (`websocket/ws_manager.py`, `websocket/ws_router.py`,
`main.py`, `ros2/ros2_bridge.py`). A step is what a coroutine does between two
awaits. `registered` is the connections in the channels' dictionaries, of which a
broadcast takes a snapshot, `todo`; in which order it serves them is left open,
which allows more than the code does. `count` is what the code believes of a user,
`seen` the local variable of `connect()`. `ready`, `queue` and `waiting` are the
put coroutines that the loop will run, the queue, and the puts that wait for
room: one that is woken goes to the end of `ready` and may be overtaken. The
history variables `overtaken` and `waited` record the two things after which
less is promised.

## 3 What the runs check

| run | question | properties |
|---|---|---|
| MCSafetyStateMachine | does `update()` rank, latch and relax as it must, in any order of calls? | `CautionHysteresis` (a stale counter never releases CAUTION), `HazardCapsSpeed` (no early return leaves a hazardous snapshot in a fast level), `DangerHolds`; `RelaxesWhenClear` (counters do not get stuck) |
| MCSafetyGate | is the gate a dead-man switch, and what of it survives a redeployment? | `DeadMan`, `DefensiveStop`, `ImplementsSwitch`, `SilenceStops` |
| MCSafetySupervisor | does the node publish what its machine decides, and find dead sensors by their age? | `PublishedNotAhead`, `SelfTestNeedsBoth`, `DangerIsPublished` |
| MCSafetySystem | end to end, does the robot stop when a node hangs, the button is held or the lidar dies? | `GateNotAhead`, `WithdrawnInTime` (a permission ends in bounded time after the supervisor's machine has withdrawn it), `HangStops`, `EStopStopsMotion`, `DeadLidarBlocksCommands` |
| MCFaultHandler | is whoever must know told, and does every activation get its retries? | `OperatorKnows`, `FullRetries` |
| MCWatchdogNode | no false alarm, and no silent critical node forgotten? | `StaleIsSilent`, `NoFalseAlarm`, `CriticalReported` |
| MCNavigation | does a goal end once and in order, and is nothing driven under a stop? | `OneOutcome` (a goal is queued, active or ended, never two of them), `QueueOrdered`, `HaltIsStill`; `ActiveEnds` |
| MCHalNode | does a device that comes and goes get its node back? | `NeverIdle`; `DataReturns`, `ExhaustionReported` |
| MCOperatorEvents | does an operator see what happened, and does a broken browser leave nothing behind? | `CountedRight`, `InOrder`; `EventsArrive`, `BrokenLeaves` |

All of these hold. Each property is stated with its reason in its module. Some
need reading with care:

- `DangerHolds` and `DangerIsPublished` except a critical battery, and the
  latter a servo fault: there the code ranks another level above DANGER
  (section 6).
- `DangerIsPublished` is also satisfied by a hung supervisor; that the robot
  stops even then is `HangStops` and `EStopStopsMotion` of the composed system,
  which rest on the gate's watchdog.
- `WithdrawnInTime` relates the gate to the supervisor's machine, not to its last
  message: it would fail if a withdrawal could wait behind an older permission.
  It takes Timeout + Period and not one message's delay, because a message may be
  late and the gate then finds out by its watchdog only.
- `DeadMan` and `ImplementsSwitch` hold until the gate is deactivated;
  afterwards an inactive gate still forwards commands while its watchdog timer
  is gone (section 6). `DefensiveStop` holds for redeployed gates too.
- In `EStopStopsMotion` the robot stops because the supervisor falls silent,
  one gate timeout later than the design intends.
- `HaltIsStill` is about the time before a docking: from the first docking on
  the node drives to the dock without looking at the safety state.
- `ActiveEnds` excepts a goal that waits in a docking which is not enabled: that
  goal does not end (section 6).
- `CountedRight` and `InOrder` say what holds until an `accept()` is overtaken or
  the queue is full: the first is about removals, by whomever they are made, and
  the count that overlapping `accept()` calls spoil is described in section 6.
  `EventsArrive` is about a burst, since under an endless overload a put that
  waits can be overtaken for ever.

Three runs, `Viol_...`, show disagreements (section 6): TLC finds a behaviour of
the code, under the same fairness, in which what a document or a comment says is
false.

## 4 Bounds and fairness

| run | bounds | why they are enough |
|---|---|---|
| MCSafetyStateMachine | deployed thresholds and hysteresis (3 and 5 cycles); counters saturate at 6; one module; snapshots: nominal, each reading on and beside each threshold, every two hazards together | no guard reads the counter above 5; conditions are monotone between thresholds; the ranking compares hazards in pairs; a second module only delays the set becoming empty |
| MCSafetyGate | timeout 4, period 2 (the ratio of the code: the period is half the timeout); speeds 0, 20, 31 and 81 cm/s, turning or not | the age saturates above timeout + period; speeds below, between and above the caps 20, 30 and 80 |
| MCSafetySupervisor | each sensor stays fresh for one tick; startup timeout 3 ticks; hysteresis 2 and 2; nominal and abnormal message of each kind of sensor | fresh and stale both occur between any two cycles; two cycles distinguish a count from a flag; thermal messages, bumper and unsafe-command messages take the same callbacks as battery, e-stop and navigation timeout and are left to the proofs, which cover all messages |
| MCSafetySystem | gate timeout 2, period 1; startup timeout 1; hysteresis 1; lidar and IMU data only; one command below every cap | what a level is caused by is checked in the smaller runs; here the order of deliveries, timers and presses matters |
| MCFaultHandler | four catalogue rows: a degradation with many retries (3 for the deployed 5), a pause whose terminal level is milder, a critical stop, one without retries; attempts saturate at 4 | the kinds of rows the catalogue holds; faults do not interact but through what is told |
| MCWatchdogNode | one node of each class, thresholds 1 and 2, grace 3, 2 restarts | classes matter, not numbers of nodes; two nodes of different classes stale in any order |
| MCNavigation | three goals (two priorities, with and without a charger), a queue of two, a cascade of two behaviours with 1 or 2 retries, one docking attempt, docking enabled or not, levels NORMAL and DANGER, battery LOW | LOW and CRITICAL both queue a charger goal and differ in its priority and in whether it preempts, which the recommendations of priority 2 do, too; all battery levels are in the proofs; the third goal overflows the queue with another one active; a cascade longer and one as long as the limit on retries; the node tells apart only levels that stop and that do not |
| MCHalNode | 2 attempts, cooldown 3 ticks, limit of 5 errors | first and last attempt differ; the cooldown outlasts a reconnection |
| MCOperatorEvents | 2 connections of one user with a limit of 1, each to either channel; a queue of 1; 3 events | the second connection is refused, or overtakes the first; the first event fills the queue, the second waits, the third overtakes it |

Saturation is named in the modules: `ClearCap`, `AttemptCap`, ages one past
their limit, uptime at `Grace`; so are the bounds on what the environment asks
for: `MaxGoals`, `MaxEvents`. `Viol_EStopStops` and `Viol_EStopLeavesFault` run
on the instance of MCSafetySupervisor, `Viol_QueuedGoalStarts` on that of
MCNavigation with two goals. Distinct states: MCSafetyStateMachine
6 058, MCSafetyGate 18 641, MCSafetySupervisor 235 536, MCSafetySystem 301 600,
MCFaultHandler 419 328, MCWatchdogNode 224, MCNavigation 522 968,
MCHalNode 1 187, MCOperatorEvents 107 170. Deadlock is checked in every run.

Fairness. Timers and the clock are weakly fair (`WF_vars(Timers)`,
`WF_vars(Clock)`): rclpy runs an expired timer as soon as the executor is free,
and all callbacks are short. In the composed system the button's poll is fair,
being a timer, and so is delivery, because the topics are reliable and latched.
Nothing else is: sensors, modules, operators, planners and the lifecycle
manager may stay silent for ever. A hung supervisor's timers are disabled, not
unfairly ignored. In SafetyStateMachine `update()` is fair, since the
supervisor's cycle calls it.

The other models assume: NavigationNode that the loop's timer runs and that time
passes the limits of goal, docking phase and behaviour - Nav2 may never answer;
HalNode that the data timer and the clock run - the device may stay away;
OperatorEvents that the event loop runs what is ready and that a send returns,
since the server's own ping ends a connection that takes nothing. Requests,
clients and failures are never fair.

## 5 What is proved

TLAPS proves the following for every value of the constants that satisfies the
assumptions named in the modules (thresholds in order, positive periods and
timeouts, messages and snapshots of their declared types; each assumption is
also evaluated in a run).

| module | theorems | argument |
|---|---|---|
| SafetyFSMProofs | (lemmas) every operation of the state machine keeps its type | one lemma for `Update`, one for the operations; used by the two modules below |
| SafetyStateMachineProofs | `TypeCorrect`, `CautionHysteresisHolds`, `EStopWins`, `FaultsLatch`, `HazardsCapSpeed`, `DangerStays`, `LockedStays` | action properties from the type invariant, one step per operation. `CautionHysteresis` needs `HysteresisInv`: in CAUTION the machine's counter is at most the number of clear snapshots really seen in a row. That is not true in other levels, and holds on entry because every way into CAUTION sets the counter to zero |
| SafetyGateProofs | `TypeCorrect`, `DeadManHolds`, `DefensiveStopHolds`, `GateImplementsSwitch` | `GateInv`: the robot moves only with an open gate, and, until a deactivation, an open gate was approved at the last check or by a heartbeat since: `age <= Timeout + (Period - due)`. The type invariant bounds `due`, so motion implies `age <= Timeout + Period`. The refinement maps every step to a step of the switch or to a stutter; the only step that is not immediate is the clock's, where `due > 0` gives the strict bound |
| SafetySystemProofs | `TypeCorrect`, `PublishedNotAheadHolds`, `SelfTestNeedsBothHolds` of the supervisor; `GateNotAheadHolds`, `WithdrawnInTimeHolds` of the composed system | `PublishedInv`: a level that permits motion is entered by a cycle, which publishes, or from another such level. In the composed system every step is a supervisor step or leaves the supervisor alone, and what the gate believes is the last level published whenever nothing is on its way (`GateView`). For `WithdrawnInTime` the steps are projected to the gate in the same way, and `SafetyGateProofs` is instantiated: its invariant and its lemmas hold of the gate in the system, which starts activated and is never deactivated. `WithdrawnInv` adds that a gate that still holds a permission after the withdrawal has heard nothing since (`silence >= withdrawn`): a delivery brings what was published last, and that is not ahead of the machine. The gate's own bound on its silence does the rest |
| EquipmentProofs | fault handler: `FaultTypeCorrect`, `OperatorKnowsHolds`, `FullRetriesHold` | `FaultInv` per fault; the extra conjuncts are that a fault whose catalogue level demands an alert was alerted of when it became active (so raising it again needs none), and that attempts are never ahead of the failures of this activation |
| | watchdog: `WatchdogTypeCorrect`, `StaleIsSilentHolds`, `NoFalseAlarmHolds` | the type invariant bounds silences and restart counts; given it, `StaleIsSilent` and then `NoFalseAlarm` are inductive: a health message lowers the node's silence and takes it from the stale ones in one step |
| | hardware base: `HalTypeCorrect`, `NeverIdleHolds` | for every limit and cooldown, and for drivers that report their faults and that do not. The two are inductive together; lemmas per operation of driver and policy, so that the three callers of `connect()` share them |
| NavigationProofs | `HaltIsStillHolds`, `FirstGoalOnlyHolds` | for every queue length, cascade, limit and set of goals, with docking enabled or not. `HaltIsStill` is not inductive, because a stop leaves Nav2's task alone in states it does not list; `IInv` says that a task is held in EXECUTING only and by no recovery, and by no deactivated node. `FirstGoalOnly` - no run checks it - explains why `QueuedGoalStarts` is violated: once the node has left IDLE it stays out of it and activates nothing more, since the manager's operations keep the active goal or drop it |
| | `TypeCorrect`, `OneOutcomeHolds`, `QueueOrderedHolds` | inductive together as `ManagerOK`: the queue is in order of priority and then of age, within its limit, all its ids were given out, and queue, active goal and history are apart. Each of the manager's operations keeps it (`EnqueueOK`, `ActivateNextOK`, ..); these rest on what an insertion, a removal and the dropping of the last do to a sequence, and the insertion's place exists because the priorities are in order. The bodies of the operators are needed in these lemmas only: the steps of the node cite them |
| OperatorEventsProofs | `TypeCorrect`, `CountedRightHolds` | for every finite set of connections, set of users and limit. `ConnectionInv`: only a handler that sends or receives is registered; a user nobody overtook has as many registered connections as are counted. Registering and removing one connection changes one cardinality by one, and `seen` is the count still unless the user was overtaken |
| | `InOrderHolds` | `EventInv`: an event is in one place - ready, queued, waiting, being sent - and nobody gets it twice (`Once`); as long as no put had to wait, ready and queue are the tail of what was emitted and whoever listens has all before it (`Straight`); a connection that was served is on the channel or gone (`Gone`), so that nothing is missing between two events it gets |

Every invariant and every action property that a run checks is a theorem, and so
is the refinement of the dead-man switch. Each inductive invariant was first
checked by TLC on the instance of its run. Proved and in no run are the type
invariants of all modules - limits of queues, counts and retries among them -,
`FirstGoalOnly`, and the action properties `FaultLatches`, `EStopFromAnyLevel` and
`LockedUntilReset`, which follow from single branches of `update()`.

Only model-checked: everything under fairness (`RelaxesWhenClear`,
`SilenceStops`, `DangerIsPublished`, `HangStops`, `EStopStopsMotion`,
`DeadLidarBlocksCommands`, `CriticalReported`, `ActiveEnds`, `DataReturns`,
`ExhaustionReported`, `EventsArrive`, `BrokenLeaves`) - the prover does not reason
about fairness and ENABLED. Induction over data and recursive operators are out of
the prover's reach as well; no module here needs them: the goal queue is treated
by what one operation does to positions, not by induction over its length.

## 6 Where code and documents disagree

Shown by a run:

| run | the text | the code |
|---|---|---|
| Viol_EStopStops | `safety_supervisor_node.py:674`: the e-stop is processed immediately | the callback waits for the lock it holds; SAFE_STOP is never published |
| Viol_EStopLeavesFault | `SAFETY_STATE_MACHINE.md:219`: an e-stop in FAULT ("still reachable") leads to SAFE_STOP | the same hang: the flag is set, `update()` never runs, the machine stays in FAULT |
| Viol_QueuedGoalStarts | `navigation_node.py:428`: step 8 "Try to activate next queued goal"; `bonbon_navigation/README.md:27` and `:235` | goals are activated in STATE_IDLE only, and no callback leads back there: what waits behind an ended or cancelled goal waits for good |

Met while modelling; the modules follow the code.

Safety:

- `safety_state_machine.py:459-486`: hardware faults and critical battery are
  tested before danger. With a person in the danger zone a servo or wheel fault
  leads to DEGRADED (0.3 m/s) and a critical battery to DOCKING (0.2 m/s);
  `SAFETY_STATE_MACHINE.md:256-259` ranks DANGER above both.
- `:368`: `_startup_complete_pending` is cleared only when it is consumed. It
  survives an e-stop, a startup timeout and `reset()`, so that the first update
  after the reset enters NORMAL without the self-test that `:346` and
  `SAFETY_STATE_MACHINE.md:218` demand.
- `safety_gate_node.py:281`: deactivation leaves the subscriptions alive; the
  next heartbeat opens the inactive gate (`:169`: all commands are dropped).
- `estop_node.py:203`: any INITIALIZING message de-asserts the relay. A late one
  restores motor power with the button held, and nothing asserts it again
  (`:13-14`).
- `fault_handler.py:264`: exhaustion replaces the active level by the terminal
  one, even if that is milder (`:130`: "escalate to"); six rows of the catalogue
  are affected.
- `safety_state_machine.py:501`: DANGER gives way to CAUTION on the first
  snapshot that holds a caution and no danger; `SAFETY_STATE_MACHINE.md:148-149`
  asks for 5 clear cycles.
- `:470`: in DANGER a hardware fault counts as a clear cycle; five of them lead
  to NORMAL with the fault present.
- `:349`: `reset()` does not look at the button; `SAFETY_STATE_MACHINE.md:232-234`
  demands its release first. The next update re-enters SAFE_STOP.
- `:326`: a module that goes offline in CAUTION, DANGER, DOCKING or INITIALIZING
  is registered but forgotten when the machine relaxes to NORMAL
  (`:94`: "All systems nominal").
- `:518`: DEGRADED entered for a hardware fault has no exit when the fault
  clears; `SAFETY_STATE_MACHINE.md:196` has one when a module recovers.
- `:420`: INITIALIZING ignores every hazard but the e-stop; with the startup flag
  it enters NORMAL for one cycle (`SAFETY_STATE_MACHINE.md:92`).
- `safety_gate_node.py:275`: a dead supervisor is noticed up to 1.5 timeouts
  late, because only the watchdog's timer compares ages (`:55-57`).
- `safety_gate_node.py:313`: a level that forbids motion takes effect with the
  next raw command; alone it stops nothing (`SAFETY_STATE_MACHINE.md:143`). The
  supervisor's zero velocity goes to `/bonbon/cmd_vel/safe`, which nobody
  subscribes.
- `safety_supervisor_node.py:722`: a reset does not restart the startup timer
  (`SAFETY_STATE_MACHINE.md:81`), so INITIALIZING after a reset has no deadline.
- `threat_assessor.py:159`: nobody calls `update_camera()`, so every snapshot
  shows a stale camera and CAUTION is never left for NORMAL for good.
- `safety_supervisor_node.py:415`: the transition callback names a policy action
  that does not exist; the exception is swallowed
  (`safety_state_machine.py:690-694`), and no transition of `update()` is logged
  or acted on.
- `fault_handler.py:223`: raising an active fault again undoes its escalation,
  and raises its level without an alert (`:206-207`: "does not re-escalate unless
  the level rises").
- `watchdog_node.py:196`: the recovery of any node withdraws the alarm of the
  others until the next check; `:223`: one restart is asked for per loss, so the
  limit of 3 (`:70`) is never reached.

Navigation:

- `navigation_node.py:430`: the first goal of a node is its last
  (Viol_QueuedGoalStarts; `FirstGoalOnlyHolds` proves it).
- `docking_controller.py:194`: with docking disabled `tick()` answers IDLE for
  good, but `start()` (`:162`) begins all the same, and the node looks at no time
  limit while it docks: a charger goal ends by a cancellation or a preemption only,
  and a queued goal waits behind it. The node reads the parameter
  `docking.enabled` (`nav_config.py:325`), while `nav_params.yaml:86` sets
  `docking_enabled`, so that this file cannot disable it.
- `navigation_node.py:707`: a safety stop does not list DOCKING, and a docking
  retry starts Nav2 without asking the safety state (the docstring at `:35`
  promises to cancel the active goal at once). The recovery executor goes on under
  a stop.
- A preempting goal cancels the active one in the manager, but not Nav2's task;
  it empties the queue without recording what became of its goals. Cancelling a
  goal that waits cancels the Nav2 task of the active one. An exception of
  `cancelTask` is swallowed (`:638`).
- `:797`: at LOW battery the loop queues a new charger goal each time round.
- `recovery_executor.py:160`: the limit of 4 retries is below the 7 behaviours of
  the cascade, so that announcing, replanning and success are never reached.
- `_publish_gated_vel` never publishes. The docking sensors' `update_*` methods
  have no caller, so that a docking ends by its time limit.

Hardware base:

- `hal_node_base.py:163`: a shutdown of the active node leaves its timers; the
  next tick reconnects the driver that was shut down (`driver_base.py:40`,
  `:157`).
- The first fault leads to FAULTED and a reconnection, so the limit of five
  consecutive errors (`driver_base.py:54`) has no effect; the return at `:186`
  ("waiting for backoff delay") is unreachable, which is what `NeverIdle` shows.
  DEGRADED counts as healthy, but is reconnected. The grace period is unused.
- USB camera and microphone raise on a failed read without recording it: their
  node does not notice, and `DataReturns` fails for them (`Records = FALSE`).
- `servo_node.py:107` sets a header that `ServoState.msg` does not have: with a neck
  servo every publication fails, unrecorded, and the arm's is not reached. Like the
  two above, this node is outside `DataReturns`.
- `estop_hal_node.py:79` and `:85`: the poll thread asserts the relay while the
  ROS thread de-asserts it, each in two assignments without a lock: the flag can
  stay set with the relay open and the button held. A reconnection sets the
  relay low while `_relay_asserted` stays TRUE.

Operator API:

- `ws_manager.py:79-82`: the count is read before `accept()` and written after
  it. Two connections that overlap leave it too low, so that a user exceeds the
  limit of five (`:26`); a connection that closes in between leaves it too high,
  and what is too high is never corrected: at five the user is locked out until
  a restart (`:48`: "count of open connections"). Whether `accept()` gives way to
  another coroutine is the server's business; the model lets it.
- `ws_router.py:115`: `send_to_websocket` swallows errors, so the handler of a
  failed welcome goes on into the receive loop, unregistered, and ends there.
- `main.py:218`: the dispatcher awaits one send after the other: a client that
  takes nothing delays every operator until its connection is closed.
- The calls behind the command gate are stubs; its halted states
  "emergency_stop" and "safety_stop" match no level of the supervisor; the
  dashboard subscribes the safety state as a string, which is not its type; a
  fresh id per command makes the check for duplicates idle.

## 7 Assumptions and what is not modelled

Assumptions about what lies outside `src/`, marked external in `PROJECT.json`:

- rclpy: callbacks of a node's default group run one at a time; an expired timer
  runs before its next expiry; its logger accepts printf-style arguments.
- A lifecycle publisher that exists publishes. The nodes' `on_activate()` and
  `on_deactivate()` do not call the base class, so the enabling of publishers is
  left to the rclpy version; the repository's test stubs behave as assumed.
- Latched reliable topics deliver their last message eventually.

- Nav2 takes a goal, drives, and answers once, late, or not at all; a cancelled
  task says nothing more. Goal ids are distinct.
- asyncio: a coroutine is not interrupted between two awaits; `Queue.get()` wakes
  the put that has waited longest, which then competes with those already due.
  A connection that is gone makes `receive_json()` raise.

Left out of the modelled parts: of navigation the costmap, the localization
monitor and the velocity bridge; of the hardware base health messages and the
exponential delay (a data tick waits at most a tenth of a second of it); of the
operator API users, tokens, permissions, the shutdown, and the order of the sends
of one broadcast.

Not modelled at all:

- Actuation. The node cannot live with the repository's own messages.
  `actuation_node.py:255` reads `level`, `actuation_enabled` and `level_name`;
  `SafetyState.msg` has `state`, `state_name` and `actuation_permitted`. The topic is
  latched, so the first thing an activated node receives raises an AttributeError
  out of its callback, before gate, cancel flag or queue change, and ends the
  executor's spin. `:498-500` and `:477-483` fill fields that `ActuationStatus.msg`
  and `ServoState.msg` lack: a run raises at `:409`, outside its `try`, with
  `_current_gesture` set and never cleared. The unit tests exercise the core
  classes and plain values, not these messages. What the callbacks would do with
  other messages - one cancel flag for all runs, cleared at `:407` - is not
  analysed here.
- Behaviour engine. `behavior_engine_node.py:256` reads `level` of the same message
  and raises before ALERTING is forced (`:264`). `has_emergency_keyword`,
  `dominant_emotion` (`:278`, `:287`; the message has `dominant_state`) and `intent`
  (`:420`) are read with `getattr` and a default and are in no message, so no
  emergency, distress or intent is ever dispatched. Once the messages fit, the
  state machine and the alerter (`operator_alerter.py:99` and `:120`, a record read
  and written without a lock by two workers) are worth a module.
- Text to speech. What an interruption does depends on a speaker, and the
  hardware package has none: `bonbon_hal` lacks the driver the bridge looks for,
  so only the mock plays. Read off the code: an interruption that falls into the
  synthesis is lost, or cuts off the emergency that caused it; `stop()` gives up
  after 5 s and a following `start()` makes two workers; `wait_until_idle` can
  return while an utterance is between queue and speaker; `TTSSafetyGate` is
  unused.
- Data stores. `faiss_store.py` writes the index and then its table outside the
  lock, so a crash in between lets an id be used twice, and swallows the errors;
  backup and restore copy three stores one after the other without a common
  snapshot. No node calls them.
- Language model, speech, vision, perception, spatial reasoning, gestures,
  affect, costmap: computations over data and calls of models.
- Messages, launch files, simulation, deployment, `founder_command_center`: none
  of the robot's logic.

Not modelled in the safety package: the outputs of policy actions and the
incident log (no consumer in the repository), deactivation and cleanup of the
supervisor, e-stop and watchdog nodes, the GPIO driver, the nodes' own health
reports and statistics, `FaultHandler`'s backoff delays (which it computes and
never waits for) and the `Watchdog` helper class.

Wiring that the models take as it is: the watchdog's crash flags have no
subscriber in the supervisor; navigation publishes its gated velocity on
`/bonbon/safety_gate/cmd_vel` while the gate subscribes `/bonbon/cmd_vel_raw`;
of the servo topics only the arm's has the type the supervisor subscribes; the
hardware layer publishes the battery as a fraction while the supervisor reads
percent; odrive, cliff and node-health updates of the assessor have no caller,
so that their flags keep their initial values in the supervisor (the state
machine's own run covers them).

## 8 Plan

Done: the safety nodes, their composition and the refinement of the dead-man
switch; fault handler and watchdog; navigation with goal manager, recovery and
docking; the hardware base; the operators' events - all with proofs of their
safety properties.

Left, in this order:

1. The composition of navigation with the safety system: a stop published by the
   supervisor to a robot at rest, the delays of two topics.
2. The poll thread of the e-stop hardware node, and drivers that do not record
   their faults.
3. Actuation and behaviour engine once their messages fit, text to speech once a
   speaker exists.
