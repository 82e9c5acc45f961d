--------------------------- MODULE DeadManSwitch ---------------------------
(* What the motors may rely on: motion is never older than Bound ticks      *)
(* beyond the last sign of life of the supervisor.                          *)
EXTENDS Naturals

CONSTANT Bound

VARIABLES
  moving,   \* is the robot under a non-zero velocity command?
  age       \* ticks since the last sign of life, saturating at Bound + 1

Init == moving = FALSE /\ age = Bound + 1

Beat == age' = 0 /\ UNCHANGED moving

Move == age <= Bound /\ moving' = TRUE /\ UNCHANGED age

Stop == moving' = FALSE /\ UNCHANGED age

\* Time does not pass the bound while the robot moves.
Tick ==
  /\ moving => age < Bound
  /\ age' = IF age <= Bound THEN age + 1 ELSE age
  /\ UNCHANGED moving

Next == Beat \/ Move \/ Stop \/ Tick

Spec == Init /\ [][Next]_<<moving, age>>
=============================================================================
