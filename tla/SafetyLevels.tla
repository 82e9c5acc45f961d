---------------------------- MODULE SafetyLevels ----------------------------
(* The safety levels and the capabilities STATE_PROPERTIES gives each of    *)
(* them (bonbon_safety, core/safety_state_machine.py).  The supervisor      *)
(* copies the capabilities into every SafetyState message.                  *)
EXTENDS Integers

SafetyLevel == {"INITIALIZING", "NORMAL", "CAUTION", "DANGER",
                "DOCKING", "DEGRADED", "FAULT", "SAFE_STOP"}

\* actuation_permitted and navigation_permitted: the two agree on every level.
MotionPermitted == {"NORMAL", "CAUTION", "DOCKING", "DEGRADED"}

\* max_velocity_mps, in cm/s.
MaxVelocity == [l \in SafetyLevel |->
  CASE l = "NORMAL" -> 80 [] l \in {"CAUTION", "DEGRADED"} -> 30
    [] l = "DOCKING" -> 20 [] OTHER -> 0]
=============================================================================
