------------------------------ MODULE HalNode ------------------------------
(***************************************************************************)
(* HalNodeBase (bonbon_hal, nodes/hal_node_base.py) with the DriverBase and *)
(* the ReconnectPolicy it owns: a lifecycle node that reads one device with *)
(* every period of a timer and connects again when the device fails.  One   *)
(* thread executes timers and lifecycle callbacks, so each is one action.   *)
(* A unit of time is the period of the data timer.  Backoff is left out:    *)
(* the node sleeps a tenth of a second at most and then tries.              *)
(***************************************************************************)
EXTENDS Naturals

CONSTANTS
  MaxAttempts,   \* max_attempts
  Cooldown,      \* cooldown_sec in data periods
  MaxErrors,     \* _MAX_CONSEC_ERRORS: errors are counted up to here
  Records        \* the driver records a failing read (the USB drivers do not)

ASSUME HalAssumption ==
  /\ MaxAttempts \in Nat \ {0} /\ MaxErrors \in Nat \ {0}
  /\ Cooldown \in Nat /\ Cooldown >= 2
  /\ Records \in BOOLEAN

VARIABLES
  lifecycle,   \* state of the node
  timers,      \* the data timer is running
  due,         \* the data timer has expired and its callback is to come
  driver,      \* DriverBase: status and consecutive errors
  link,        \* the driver's connection works
  policy,      \* ReconnectPolicy: attempts, and how long ago it gave up
  report,      \* the last HalFault published
  plugged      \* the device is there

halVars == <<lifecycle, timers, due, driver, link, policy, report, plugged>>

Status == {"DISCONNECTED", "CONNECTED", "FAULTED", "SHUTDOWN"}
Trying == Cooldown + 1   \* _gave_up_at is None
Driver == [status : Status, errors : 0..MaxErrors]
Policy == [attempt : 0..MaxAttempts, gave_up : 0..Trying]
NewDriver == [status |-> "DISCONNECTED", errors |-> 0]
NewPolicy == [attempt |-> 0, gave_up |-> Trying]

HalTypeOK ==
  /\ lifecycle \in {"unconfigured", "inactive", "active", "finalized"}
  /\ timers \in BOOLEAN /\ due \in BOOLEAN /\ link \in BOOLEAN /\ plugged \in BOOLEAN
  /\ driver \in Driver
  /\ policy \in Policy
  /\ report \in {"none", "driver fault", "INITIAL_CONNECT_FAILED", "RECONNECT_EXHAUSTED", "RECONNECTED"}

HalInit ==
  /\ lifecycle = "unconfigured"
  /\ timers = FALSE /\ due = FALSE
  /\ driver = NewDriver /\ link = FALSE
  /\ policy = NewPolicy
  /\ report = "none"
  /\ plugged \in BOOLEAN

-----------------------------------------------------------------------------
(* DriverBase *)

RecordFault(d) ==
  [status |-> "FAULTED", errors |-> IF d.errors < MaxErrors THEN d.errors + 1 ELSE MaxErrors]

\* connect() of a driver that is not shut down succeeds if the device is there.
Connect(d) == IF plugged THEN [status |-> "CONNECTED", errors |-> 0] ELSE RecordFault(d)

Disconnect(d) == [d EXCEPT !.status = "DISCONNECTED"]

Shutdown ==
  /\ driver' = [Disconnect(driver) EXCEPT !.status = "SHUTDOWN"]
  /\ link' = FALSE

-----------------------------------------------------------------------------
(* ReconnectPolicy *)

\* Fault injection: once given up, for good.
RefreshNever(p) == p

\* Fault injection: the cooldown is not waited for.
RefreshAtOnce(p) == IF p.gave_up # Trying THEN NewPolicy ELSE p

\* should_attempt begins with the reset when the cooldown has passed.
Refresh(p) == IF p.gave_up = Cooldown THEN NewPolicy ELSE p

GivenUp(p) == p.gave_up # Trying

\* Fault injection: the give-up is noted one attempt late.
RecordFailureLate(p) ==
  [attempt |-> p.attempt + 1,
   gave_up |-> IF p.attempt >= MaxAttempts THEN 0 ELSE p.gave_up]

RecordFailure(p) ==
  [attempt |-> p.attempt + 1,
   gave_up |-> IF p.attempt + 1 >= MaxAttempts THEN 0 ELSE p.gave_up]

ShouldAttempt(p) == ~GivenUp(p) /\ p.attempt < MaxAttempts

-----------------------------------------------------------------------------
(* HalNodeBase *)

\* _attempt_reconnect, with driver d.
AttemptReconnect(d) ==
  LET p == Refresh(policy)
      tried == Connect(Disconnect(d))
  IN  IF ShouldAttempt(p)
      THEN /\ driver' = tried
           /\ link' = plugged
           /\ policy' = IF plugged THEN NewPolicy ELSE RecordFailure(p)
           /\ report' = IF plugged THEN "RECONNECTED" ELSE "driver fault"
      ELSE /\ driver' = d
           /\ policy' = p
           /\ report' = IF GivenUp(p) THEN "RECONNECT_EXHAUSTED" ELSE report
           /\ UNCHANGED link

\* A read that fails: the driver records it or only raises it; then errors are counted.
ReadFails ==
  LET d == IF Records THEN RecordFault(driver) ELSE driver
  IN  IF d.errors >= MaxErrors
      THEN AttemptReconnect(d)
      ELSE /\ driver' = d
           /\ report' = IF Records THEN "driver fault" ELSE report
           /\ UNCHANGED <<policy, link>>

\* _safe_publish_data
DataTick ==
  /\ timers /\ due
  /\ due' = FALSE
  /\ \/ driver.status # "CONNECTED" /\ AttemptReconnect(driver)
     \/ driver.status = "CONNECTED" /\ ~link /\ ReadFails
     \/ /\ driver.status = "CONNECTED" /\ link
        /\ driver' = [driver EXCEPT !.errors = 0]
        /\ UNCHANGED <<link, policy, report>>
  /\ UNCHANGED <<lifecycle, timers, plugged>>

OnConfigure ==
  /\ lifecycle = "unconfigured"
  /\ lifecycle' = "inactive"
  /\ driver' = NewDriver /\ policy' = NewPolicy
  /\ UNCHANGED <<timers, due, link, report, plugged>>

\* The first connect does not ask the policy, nor tell it.
OnActivate ==
  /\ lifecycle = "inactive"
  /\ lifecycle' = "active"
  /\ driver' = Connect(driver) /\ link' = plugged
  /\ report' = IF plugged THEN report ELSE "INITIAL_CONNECT_FAILED"
  /\ timers' = TRUE /\ due' = FALSE
  /\ UNCHANGED <<policy, plugged>>

OnDeactivate ==
  /\ lifecycle = "active"
  /\ lifecycle' = "inactive"
  /\ timers' = FALSE /\ due' = FALSE
  /\ driver' = Disconnect(driver) /\ link' = FALSE
  /\ UNCHANGED <<policy, report, plugged>>

OnCleanup ==
  /\ lifecycle = "inactive"
  /\ lifecycle' = "unconfigured"
  /\ Shutdown
  /\ UNCHANGED <<timers, due, policy, report, plugged>>

\* on_shutdown does what on_cleanup does, but may find the timers running.
OnShutdown ==
  /\ lifecycle # "finalized"
  /\ lifecycle' = "finalized"
  /\ IF lifecycle = "unconfigured" /\ driver = NewDriver THEN UNCHANGED <<driver, link>> ELSE Shutdown
  /\ UNCHANGED <<timers, due, policy, report, plugged>>

-----------------------------------------------------------------------------
(* The device and the clock. *)

\* The device comes and goes; a connection to one that went is lost.
Device ==
  /\ plugged' = ~plugged
  /\ link' = FALSE
  /\ UNCHANGED <<lifecycle, timers, due, driver, policy, report>>

\* A running data timer is served before its next period.
Tick ==
  /\ ~(timers /\ due)
  /\ due' = timers
  /\ policy' = [policy EXCEPT !.gave_up = IF @ < Cooldown THEN @ + 1 ELSE @]
  /\ UNCHANGED <<lifecycle, timers, driver, link, report, plugged>>

HalNext ==
  \/ DataTick
  \/ OnConfigure \/ OnActivate \/ OnDeactivate \/ OnCleanup \/ OnShutdown
  \/ Device \/ Tick

HalSpec == HalInit /\ [][HalNext]_halVars

\* Time passes and the executor calls the timer that has expired; the lifecycle manager and
\* the device need not do anything.
HalFairSpec == HalSpec /\ WF_halVars(DataTick) /\ WF_halVars(Tick)

-----------------------------------------------------------------------------
(* What the hardware layer guarantees. *)

\* A node without its device is never idle in silence: at every moment the policy either
\* allows an attempt or has given up and says so, whatever activations, successes and
\* cooldowns came before.  Nor does a connected driver carry errors of an earlier connection,
\* which would trip the limit on errors with its first failure.
NeverIdle ==
  /\ GivenUp(policy) \/ policy.attempt < MaxAttempts
  /\ driver.status = "CONNECTED" => driver.errors = 0

\* A device that is there for good delivers data for good, however long it had been away, and
\* however the node was activated and deactivated in the meantime.
DataReturns ==
  <>[](lifecycle = "active" /\ plugged) => <>[](driver.status = "CONNECTED" /\ link)

\* A device that stays away is reported as FATAL again and again: the retries that a cooldown
\* allows do not outrun the report.
ExhaustionReported ==
  <>[](lifecycle = "active" /\ ~plugged) => []<>(report = "RECONNECT_EXHAUSTED")
=============================================================================
