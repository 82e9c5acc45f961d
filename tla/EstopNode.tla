----------------------------- MODULE EstopNode -----------------------------
(***************************************************************************)
(* EstopNode (bonbon_safety, nodes/estop_node.py): polls the e-stop button, *)
(* announces it on a latched topic when it changes, and drives the relay    *)
(* that cuts the motors' 24 V supply.  Its poll timer and its subscriber    *)
(* callback are atomic (one mutually exclusive callback group).             *)
(***************************************************************************)

VARIABLES
  button,          \* is the physical button pressed?
  estop_pressed,   \* _estop_pressed: what the last poll read
  announced,       \* last /bonbon/estop/state message
  relay            \* _relay_asserted: is the motor power cut?

vars == <<button, estop_pressed, announced, relay>>

TypeOK == /\ button \in BOOLEAN /\ estop_pressed \in BOOLEAN
          /\ announced \in BOOLEAN /\ relay \in BOOLEAN

\* on_activate announces the initial state.
Init == button = FALSE /\ estop_pressed = FALSE /\ announced = FALSE /\ relay = FALSE

\* The operator presses or releases the button.
Turn == button' = ~button /\ UNCHANGED <<estop_pressed, announced, relay>>

\* Fault injection: the change is not announced.
PollGpioSilent ==
  /\ button # estop_pressed
  /\ estop_pressed' = button
  /\ relay' = (button \/ relay)
  /\ UNCHANGED <<button, announced>>

\* _poll_gpio, when the button has changed since the last poll.
PollGpio ==
  /\ button # estop_pressed
  /\ estop_pressed' = button
  /\ announced' = button
  /\ relay' = (button \/ relay)
  /\ UNCHANGED button

\* _cb_safety_state: SAFE_STOP cuts the power, INITIALIZING restores it.
CbSafetyState(level) ==
  /\ relay' = (level = "SAFE_STOP" \/ (relay /\ level # "INITIALIZING"))
  /\ UNCHANGED <<button, estop_pressed, announced>>
=============================================================================
