---------------------------- MODULE SafetySystem ----------------------------
(***************************************************************************)
(* The safety supervisor, the safety gate and the e-stop node together.     *)
(* Two latched topics of depth one connect them: /bonbon/safety/state, from *)
(* the supervisor to the gate and to the e-stop node, and                   *)
(* /bonbon/estop/state, from the e-stop node to the supervisor.  A message  *)
(* is delivered late but not lost; a newer one replaces it.                 *)
(* The gate is active and stays so.  The nodes share the clock.  Module      *)
(* health reports are left to SafetySupervisor.                             *)
(***************************************************************************)
EXTENDS SafetySupervisor

CONSTANTS Timeout, Period, Commands   \* of the gate

ASSUME GateAssumption ==
  /\ Timeout \in Nat \ {0} /\ Period \in Nat \ {0}
  /\ Commands \subseteq [speed : Nat, turn : Int]

None == "None"   \* nothing is on its way to this subscriber

VARIABLES
  mode, connected, publishing, safety_state, supervisor_ok, silence, due, cmd_vel, servo,
  redeployed, button, estop_pressed, announced, relay,
  to_gate, to_estop,   \* SafetyState on its way
  to_supervisor,       \* e-stop state on its way
  withdrawn            \* history: ticks since the supervisor's level permitted motion,
                       \* saturating like the gate's clock

Gate == INSTANCE SafetyGate WITH age <- silence
Stop == INSTANCE EstopNode

gate == <<mode, connected, publishing, safety_state, supervisor_ok, silence, due, cmd_vel, servo,
          redeployed>>
estop_node == <<button, estop_pressed, announced, relay>>
channels == <<to_gate, to_estop, to_supervisor>>
system == <<vars, gate, estop_node, channels, withdrawn>>

SystemInit ==
  /\ Init
  /\ Stop!Init
  /\ mode = "active" /\ connected = TRUE /\ publishing = TRUE
  /\ safety_state = None /\ supervisor_ok = FALSE /\ silence = Gate!MaxAge + 1
  /\ due = Period /\ cmd_vel = Gate!Zero /\ servo = FALSE /\ redeployed = FALSE
  /\ to_gate = "INITIALIZING" /\ to_estop = "INITIALIZING" /\ to_supervisor = "FALSE"
  /\ withdrawn = Gate!MaxAge + 1

\* Fault injection: a message that is under way is not replaced.
HeartbeatKeepsOld ==
  /\ to_gate' = IF to_gate = None THEN published' ELSE to_gate
  /\ to_estop' = IF to_estop = None THEN published' ELSE to_estop
  /\ UNCHANGED to_supervisor

\* The supervisor publishes: its message replaces what was on its way.
Heartbeat == to_gate' = published' /\ to_estop' = published' /\ UNCHANGED to_supervisor

Cycle ==
  /\ SupervisorCycle /\ Heartbeat
  /\ withdrawn' = IF state' \in MotionPermitted THEN 0 ELSE withdrawn
  /\ UNCHANGED <<gate, estop_node>>

OperatorReset == HandleReset /\ Heartbeat /\ UNCHANGED <<gate, estop_node, withdrawn>>

StartupCheck == CheckStartupComplete /\ UNCHANGED <<gate, estop_node, channels, withdrawn>>

Sense ==
  /\ \E m \in Messages : Receive(m)
  /\ UNCHANGED <<gate, estop_node, channels, withdrawn>>

DeliverEstop ==
  /\ to_supervisor # None
  /\ Receive([topic |-> "estop", value |-> to_supervisor = "TRUE"])
  /\ to_supervisor' = None
  /\ UNCHANGED <<gate, estop_node, to_gate, to_estop, withdrawn>>

DeliverToGate ==
  /\ to_gate # None
  /\ Gate!OnSafetyState(to_gate)
  /\ to_gate' = None
  /\ UNCHANGED <<vars, estop_node, to_estop, to_supervisor, withdrawn>>

DeliverToStop ==
  /\ to_estop # None
  /\ Stop!CbSafetyState(to_estop)
  /\ to_estop' = None
  /\ UNCHANGED <<vars, gate, to_gate, to_supervisor, withdrawn>>

Poll ==
  /\ Stop!PollGpio
  /\ to_supervisor' = IF announced' THEN "TRUE" ELSE "FALSE"
  /\ UNCHANGED <<vars, gate, to_gate, to_estop, withdrawn>>

Drive ==
  /\ \E c \in Commands : Gate!OnVelRaw(c)
  /\ UNCHANGED <<vars, estop_node, channels, withdrawn>>

Watch == Gate!CheckSupervisorWatchdog /\ UNCHANGED <<vars, estop_node, channels, withdrawn>>

Operator == Stop!Turn /\ UNCHANGED <<vars, gate, channels, withdrawn>>

Clock ==
  /\ Tick /\ Gate!Tick
  /\ withdrawn' = IF state \in MotionPermitted \/ withdrawn > Gate!MaxAge
                  THEN withdrawn ELSE withdrawn + 1
  /\ UNCHANGED <<estop_node, channels>>

SystemNext ==
  \/ Cycle \/ StartupCheck \/ OperatorReset \/ Sense \/ Watch \/ Clock \/ Operator \/ Drive
  \/ DeliverEstop \/ DeliverToGate \/ DeliverToStop \/ Poll

\* The clock waits for the timers that have expired; those of a hung node do not run.
Time == Cycle \/ StartupCheck \/ Watch \/ Clock

\* Time passes and timers fire, the button is polled, reliable topics deliver.  Sensors,
\* commands, the operator and the modules owe nothing.
SystemSpec ==
  /\ SystemInit /\ [][SystemNext]_system
  /\ WF_system(Time) /\ WF_system(Poll)
  /\ WF_system(DeliverEstop) /\ WF_system(DeliverToGate) /\ WF_system(DeliverToStop)

-----------------------------------------------------------------------------
(* End to end. *)

\* Once the last heartbeat is delivered, the gate forwards commands only if the
\* supervisor's own level permits motion at this moment.
GateNotAhead == to_gate = None /\ Gate!CanMove => state \in MotionPermitted

\* However late the topics deliver and whoever hangs: once the supervisor's machine has
\* forbidden motion for longer than Timeout + Period, the gate forwards nothing.  Either the
\* level that forbids it has arrived, or nothing has and the watchdog has closed the gate; a
\* permission that was under way has been replaced.
WithdrawnInTime == withdrawn > Gate!MaxAge => ~Gate!CanMove

\* A supervisor that hangs on its own lock stops the robot for good, whatever raw
\* commands still arrive: the gate's dead-man switch covers for it.
HangStops == <>[]deadlocked => <>[](cmd_vel = Gate!Zero)

\* A button that is held down stops the robot for good, though the supervisor hangs on it
\* instead of entering SAFE_STOP.
EStopStopsMotion == <>[]button => <>[](cmd_vel = Gate!Zero)

\* A started robot whose lidar stays silent accepts no motion command from some time on.
DeadLidarBlocksCommands ==
  <>[](age["lidar"] > LidarMaxAge /\ state # "INITIALIZING" /\ ~Hidden) => <>[]~Gate!CanMove
=============================================================================
