---------------------------- MODULE FaultHandler ----------------------------
(***************************************************************************)
(* The fault pipeline shared by the modules (bonbon_safety,                 *)
(* core/fault_handler.py, class FaultHandler): detect, alert the operator,  *)
(* retry a bounded number of times, escalate.  One action per public        *)
(* operation; a registered recovery function may succeed or fail each time. *)
(* Events are abstracted to the fallback level of each active fault.        *)
(***************************************************************************)
EXTENDS Integers

CONSTANTS
  Faults,      \* the fault identifiers of the catalogue
  Definition,  \* catalogue row of each: level, alert, max_attempts, terminal
  AttemptCap   \* bound: attempts are counted up to here

FallbackLevel == 0..5   \* NORMAL .. HUMAN_REQUIRED
SAFE_STOP == 3
Inactive == -1

ASSUME DefinitionAssumption ==
  /\ Definition \in [Faults -> [level : FallbackLevel, alert : BOOLEAN,
                                max_attempts : Nat, terminal : FallbackLevel]]
  /\ AttemptCap \in Nat
  /\ \A f \in Faults : Definition[f].max_attempts < AttemptCap

VARIABLES
  active,      \* _active: fallback level of each fault, or Inactive
  attempts,    \* _attempts, saturating at AttemptCap
  recovery,    \* faults with a registered recovery function
  \* History: no action reads it.
  told,        \* active faults the operator was alerted of (escalation_sink)
  failed       \* failed recoveries since the fault became active

faultVars == <<active, attempts, recovery, told, failed>>

FaultTypeOK ==
  /\ active \in [Faults -> FallbackLevel \cup {Inactive}]
  /\ attempts \in [Faults -> 0..AttemptCap]
  /\ recovery \subseteq Faults
  /\ told \subseteq Faults
  /\ failed \in [Faults -> 0..AttemptCap]

FaultInit ==
  /\ active = [f \in Faults |-> Inactive]
  /\ attempts = [f \in Faults |-> 0]
  /\ recovery = {}
  /\ told = {}
  /\ failed = [f \in Faults |-> 0]

IsActive(f) == active[f] # Inactive

RequiresOperator(level) == level >= SAFE_STOP

Count(n) == IF n < AttemptCap THEN n + 1 ELSE n

RegisterRecovery(f) ==
  /\ recovery' = recovery \cup {f}
  /\ UNCHANGED <<active, attempts, told, failed>>

\* A fault that is already active takes its catalogue level again, without an alert.
RaiseFault(f) ==
  /\ active' = [active EXCEPT ![f] = Definition[f].level]
  /\ told' = IF ~IsActive(f) /\ (Definition[f].alert \/ RequiresOperator(Definition[f].level))
             THEN told \cup {f} ELSE told
  /\ failed' = IF IsActive(f) THEN failed ELSE [failed EXCEPT ![f] = 0]
  /\ UNCHANGED <<attempts, recovery>>

\* Fault injection: the attempts are kept for the next activation.
ClearFaultKeepsAttempts(f) ==
  /\ IsActive(f)
  /\ active' = [active EXCEPT ![f] = Inactive]
  /\ told' = told \ {f}
  /\ UNCHANGED <<attempts, recovery, failed>>

ClearFault(f) ==
  /\ IsActive(f)
  /\ active' = [active EXCEPT ![f] = Inactive]
  /\ attempts' = [attempts EXCEPT ![f] = 0]
  /\ told' = told \ {f}
  /\ UNCHANGED <<recovery, failed>>

\* attempt_recovery when the recovery function succeeds: the fault is cleared.
Recover(f) == f \in recovery /\ ClearFault(f)

\* Fault injection: the last attempt does not alert the operator.
FailRecoverySilent(f) ==
  /\ IsActive(f)
  /\ attempts' = [attempts EXCEPT ![f] = Count(@)]
  /\ active' = IF attempts'[f] >= Definition[f].max_attempts
               THEN [active EXCEPT ![f] = Definition[f].terminal] ELSE active
  /\ failed' = [failed EXCEPT ![f] = Count(@)]
  /\ UNCHANGED <<recovery, told>>

\* attempt_recovery when it fails, raises or is not registered: the attempt that
\* exhausts the policy, and every one after it, sets the terminal level and alerts.
FailRecovery(f) ==
  /\ IsActive(f)
  /\ attempts' = [attempts EXCEPT ![f] = Count(@)]
  /\ failed' = [failed EXCEPT ![f] = Count(@)]
  /\ \/ /\ attempts'[f] >= Definition[f].max_attempts
        /\ active' = [active EXCEPT ![f] = Definition[f].terminal]
        /\ told' = told \cup {f}
     \/ /\ attempts'[f] < Definition[f].max_attempts
        /\ UNCHANGED <<active, told>>
  /\ UNCHANGED recovery

FaultNext ==
  \E f \in Faults :
    \/ RegisterRecovery(f) \/ RaiseFault(f) \/ ClearFault(f) \/ Recover(f) \/ FailRecovery(f)

FaultSpec == FaultInit /\ [][FaultNext]_faultVars

-----------------------------------------------------------------------------
(* What the pipeline guarantees. *)

\* The operator was alerted of every active fault that demands it, by its catalogue row
\* or by the level it has reached: no path to such a level goes without an alert.
OperatorKnows ==
  \A f \in Faults :
    IsActive(f) /\ (Definition[f].alert \/ RequiresOperator(active[f])) => f \in told

\* A level other than the catalogue's is reached only after max_attempts failures of this
\* activation: what an earlier activation used up does not count.
FullRetries ==
  \A f \in Faults :
    IsActive(f) /\ active[f] # Definition[f].level => failed[f] >= Definition[f].max_attempts
=============================================================================
