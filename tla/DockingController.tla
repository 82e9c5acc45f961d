------------------------- MODULE DockingController -------------------------
(***************************************************************************)
(* DockingController (bonbon_navigation, behaviors/docking_controller.py):  *)
(* the phases of driving onto a charger.  A controller is a record; "late"  *)
(* says that the phase has lasted longer than its limit.  Undocking and     *)
(* abort have no caller in the repository and are left out.                 *)
(***************************************************************************)
EXTENDS Naturals

CONSTANTS
  MaxDockAttempts,   \* max_dock_attempts
  DockingSettings    \* values of docking.enabled that a configuration may have

ASSUME DockAssumption == MaxDockAttempts \in Nat /\ DockingSettings \subseteq BOOLEAN

Dock ==
  [enabled : DockingSettings,
   phase : {"IDLE", "APPROACHING", "ALIGNING", "FINAL_APPROACH", "CONTACT", "FAILED"},
   retry_count : 0..MaxDockAttempts, late : BOOLEAN]

Controller(enabled, phase) ==
  [enabled |-> enabled, phase |-> phase, retry_count |-> 0, late |-> FALSE]

\* start() does not ask whether docking is enabled.
NoDock == {Controller(e, "IDLE") : e \in DockingSettings}
StartDock(d) == Controller(d.enabled, "APPROACHING")

\* What the beacon, the marker and the contacts say: near the charger, heading and
\* position within tolerance, touching it.
Reading == [near : BOOLEAN, aligned : BOOLEAN, contact : BOOLEAN]

Transition(d, phase) == [d EXCEPT !.phase = phase, !.late = FALSE]

\* A phase that times out is begun again, up to the limit.
Retry(d, phase) ==
  IF d.retry_count < MaxDockAttempts
  THEN [Transition(d, phase) EXCEPT !.retry_count = @ + 1]
  ELSE [d EXCEPT !.phase = "FAILED"]

\* tick(): a controller that is not enabled does nothing.  The time limit is looked at last
\* and overrules what the sensors said, even a contact made in the same tick.
Tick(d, s) ==
  CASE ~d.enabled -> d
    [] d.enabled /\ d.phase = "APPROACHING" /\ d.late -> [d EXCEPT !.phase = "FAILED"]
    [] d.enabled /\ d.phase = "APPROACHING" /\ ~d.late /\ s.near -> Transition(d, "ALIGNING")
    [] d.enabled /\ d.phase = "ALIGNING" /\ d.late -> Retry(d, "APPROACHING")
    [] d.enabled /\ d.phase = "ALIGNING" /\ ~d.late /\ s.aligned -> Transition(d, "FINAL_APPROACH")
    [] d.enabled /\ d.phase = "FINAL_APPROACH" /\ d.late -> Retry(d, "ALIGNING")
    [] d.enabled /\ d.phase = "FINAL_APPROACH" /\ ~d.late /\ s.contact -> Transition(d, "CONTACT")
    [] OTHER -> d

\* What tick() returns: IDLE, whatever the phase, when docking is not enabled.
Reported(d) == IF d.enabled THEN d.phase ELSE "IDLE"

\* A retry of the alignment asks Nav2 for the way to the pre-dock point again.
AsksForWay(d, s) == d.phase = "ALIGNING" /\ Tick(d, s).phase = "APPROACHING"

=============================================================================
