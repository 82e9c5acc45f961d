-------------------------- MODULE RecoveryExecutor --------------------------
(***************************************************************************)
(* RecoveryExecutor (bonbon_navigation, core/recovery_executor.py): the     *)
(* cascade of behaviours tried when a goal fails or the robot is stuck.  An *)
(* executor is a record; "late" says that the running behaviour's time is   *)
(* over.  What the behaviours do to the robot is left out.                  *)
(***************************************************************************)
EXTENDS Naturals, Sequences

CONSTANTS
  Cascade,       \* behavior_sequence
  RetryLimits    \* values of max_retries_per_goal that a configuration may have

Instant == {"clear_costmap", "replan"}
Timed == {"wait", "backup", "spin", "announce"}

ASSUME CascadeAssumption ==
  Cascade \in Seq(Instant \cup Timed \cup {"escalate"}) \ {<<>>} /\ RetryLimits \subseteq Nat

Recovery ==
  {r \in [max_retries : RetryLimits, behavior : 1..Len(Cascade), begun : BOOLEAN, late : BOOLEAN,
           total_attempts : Nat, outcome : {"NONE", "IN_PROGRESS", "SUCCEEDED", "EXHAUSTED"}] :
     r.total_attempts <= r.max_retries}

\* reset() opens a session; before the first one there is no state.
Session(limit, outcome) ==
  [max_retries |-> limit, behavior |-> 1, begun |-> FALSE, late |-> FALSE, total_attempts |-> 0,
   outcome |-> outcome]
NoRecovery == {Session(limit, "NONE") : limit \in RetryLimits}
Reset(r) == Session(r.max_retries, "IN_PROGRESS")

IsActive(r) == r.outcome = "IN_PROGRESS"

\* step(): a behaviour that is done hands over to the next one.
Advance(r) ==
  IF r.behavior = Len(Cascade)
  THEN [r EXCEPT !.total_attempts = @ + 1, !.outcome = "SUCCEEDED"]
  ELSE [r EXCEPT !.total_attempts = @ + 1, !.behavior = @ + 1, !.begun = FALSE, !.late = FALSE]

\* Fault injection: the number of attempts is not limited.
StepUnlimited(r) ==
  LET b == Cascade[r.behavior]
  IN  CASE b = "escalate" -> [r EXCEPT !.outcome = "EXHAUSTED"]
        [] b \in Instant -> [r EXCEPT !.behavior = 1]
        [] b \in Timed /\ ~r.begun -> [r EXCEPT !.begun = TRUE]
        [] b \in Timed /\ r.begun /\ r.late -> [r EXCEPT !.behavior = 1, !.begun = FALSE, !.late = FALSE]
        [] OTHER -> r

\* step() and _execute_behavior(), for an active session.
Step(r) ==
  LET b == Cascade[r.behavior]
      more == r.total_attempts < r.max_retries
  IN  CASE ~more -> [r EXCEPT !.outcome = "EXHAUSTED"]
        [] more /\ b = "escalate" ->
             [r EXCEPT !.begun = TRUE, !.total_attempts = @ + 1, !.outcome = "EXHAUSTED"]
        [] more /\ b \in Instant -> Advance(r)
        [] more /\ b \in Timed /\ ~r.begun -> [r EXCEPT !.begun = TRUE]
        [] more /\ b \in Timed /\ r.begun /\ r.late -> Advance(r)
        [] OTHER -> r

=============================================================================
