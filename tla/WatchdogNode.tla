---------------------------- MODULE WatchdogNode ----------------------------
(***************************************************************************)
(* WatchdogNode (bonbon_safety, nodes/watchdog_node.py): follows the health *)
(* messages of the managed nodes, declares a node stale when it is silent   *)
(* for too long, asks for a restart and publishes two crash flags.  The     *)
(* health callbacks and the 2 Hz check are atomic (one callback group).     *)
(* Time passes in check periods.                                            *)
(***************************************************************************)
EXTENDS Integers

CONSTANTS
  Nodes,               \* managed nodes
  Critical,            \* those of class CRITICAL
  Auxiliary,           \* those of class AUXILIARY; the others raise the important flag
  StaleThreshold,      \* expected_period_sec * stale_multiplier of each, in ticks
  Grace,               \* startup_grace_sec, in ticks
  MaxRestartAttempts   \* max_restart_attempts

ASSUME NodesAssumption == Critical \subseteq Nodes /\ Auxiliary \subseteq Nodes \ Critical
ASSUME WatchdogTimingAssumption ==
  StaleThreshold \in [Nodes -> Nat] /\ Grace \in Nat /\ MaxRestartAttempts \in Nat

VARIABLES
  silence,         \* now - last_seen of each node, saturating above its threshold
  is_stale,        \* the nodes with is_stale set
  restart_count,   \* restart_count of each node
  uptime,          \* now - _startup_time, saturating at Grace
  check_due,       \* has the check timer expired?
  critical, important   \* last crash flags published

watchdogVars == <<silence, is_stale, restart_count, uptime, check_due, critical, important>>

WatchdogTypeOK ==
  /\ silence \in [Nodes -> Nat] /\ \A n \in Nodes : silence[n] <= StaleThreshold[n] + 1
  /\ is_stale \subseteq Nodes
  /\ restart_count \in [Nodes -> 0..MaxRestartAttempts]
  /\ uptime \in 0..Grace
  /\ check_due \in BOOLEAN /\ critical \in BOOLEAN /\ important \in BOOLEAN

\* on_activate: every node counts as just seen.
WatchdogInit ==
  /\ silence = [n \in Nodes |-> 0]
  /\ is_stale = {}
  /\ restart_count = [n \in Nodes |-> 0]
  /\ uptime = 0
  /\ check_due = FALSE
  /\ critical = FALSE /\ important = FALSE

PublishCrashFlags(stale) ==
  /\ critical' = (stale \cap Critical # {})
  /\ important' = (stale \ (Critical \cup Auxiliary) # {})

\* Fault injection: a recovered node keeps its crash flags up.
CbHealthQuiet(n) ==
  /\ silence' = [silence EXCEPT ![n] = 0]
  /\ is_stale' = is_stale \ {n}
  /\ restart_count' = [restart_count EXCEPT ![n] = IF n \in is_stale THEN 0 ELSE @]
  /\ UNCHANGED <<uptime, check_due, critical, important>>

\* Fault injection: a node that is heard of again stays stale.
CbHealthKeepsStale(n) ==
  /\ silence' = [silence EXCEPT ![n] = 0]
  /\ UNCHANGED <<is_stale, restart_count, uptime, check_due, critical, important>>

\* _cb_health: the recovery of any node lowers both crash flags.
CbHealth(n) ==
  /\ silence' = [silence EXCEPT ![n] = 0]
  /\ is_stale' = is_stale \ {n}
  /\ \/ /\ n \in is_stale
        /\ restart_count' = [restart_count EXCEPT ![n] = 0]
        /\ PublishCrashFlags({})
     \/ n \notin is_stale /\ UNCHANGED <<restart_count, critical, important>>
  /\ UNCHANGED <<uptime, check_due>>

Silent == {n \in Nodes : silence[n] > StaleThreshold[n]}

AttemptRestart(nodes) ==
  restart_count' = [n \in Nodes |->
    IF n \in nodes /\ restart_count[n] < MaxRestartAttempts THEN restart_count[n] + 1
    ELSE restart_count[n]]

\* Fault injection: the flags report only the nodes found stale in this check.
CheckCycleNewOnly ==
  /\ check_due
  /\ check_due' = FALSE
  /\ LET stale == IF uptime < Grace THEN {} ELSE Silent IN
     /\ is_stale' = is_stale \cup stale
     /\ AttemptRestart(stale \ is_stale)
     /\ PublishCrashFlags(stale \ is_stale)
  /\ UNCHANGED <<silence, uptime>>

\* _check_cycle: a restart is asked for when a node is newly stale.
CheckCycle ==
  /\ check_due
  /\ check_due' = FALSE
  /\ LET stale == IF uptime < Grace THEN {} ELSE Silent IN
     /\ is_stale' = is_stale \cup stale
     /\ AttemptRestart(stale \ is_stale)
     /\ PublishCrashFlags(stale)
  /\ UNCHANGED <<silence, uptime>>

PeriodPasses ==
  /\ ~check_due
  /\ check_due' = TRUE
  /\ uptime' = IF uptime < Grace THEN uptime + 1 ELSE uptime
  /\ silence' = [n \in Nodes |-> IF n \in Silent THEN silence[n] ELSE silence[n] + 1]
  /\ UNCHANGED <<is_stale, restart_count, critical, important>>

Timers == CheckCycle \/ PeriodPasses

WatchdogNext == CheckCycle \/ PeriodPasses \/ \E n \in Nodes : CbHealth(n)

\* Time passes and the check timer fires; the managed nodes owe nothing.
WatchdogSpec == WatchdogInit /\ [][WatchdogNext]_watchdogVars /\ WF_watchdogVars(Timers)

-----------------------------------------------------------------------------
(* What the watchdog guarantees. *)

\* A node is held stale only while it is silent beyond its threshold: the flag is taken
\* back by the first message, whichever of check and message comes first.
StaleIsSilent == is_stale \subseteq Silent

\* A crash flag is up only while a node of that class is held stale.
NoFalseAlarm ==
  /\ critical => is_stale \cap Critical # {}
  /\ important => is_stale \ (Critical \cup Auxiliary) # {}

\* A critical node that stays silent is reported again and again, though the recovery of
\* other nodes lowers the flag in between.
CriticalReported == (\E n \in Critical : <>[](n \in Silent)) => []<>critical

=============================================================================
