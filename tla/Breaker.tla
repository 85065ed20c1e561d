------------------------------- MODULE Breaker -------------------------------
(***************************************************************************)
(* A dependency's circuit breaker                                          *)
(* (crates/registry/src/services/circuit_breaker.rs) and callers that use  *)
(* it as its tests do: ask is_call_permitted, make the call, record how it *)
(* went.  Each of the three takes the write lock once, so each is a step;  *)
(* between them anything may happen, and a result may be recorded long     *)
(* after the circuit has changed.  Ages replace the clock: what is older   *)
(* than its limit is all the same.                                         *)
(***************************************************************************)
EXTENDS Integers

CONSTANTS
  BrCalls,     \* calls in flight at a time
  BrConfigs    \* the configurations a breaker is made with

\* CircuitBreakerConfig; times are in seconds, which are the ticks here.
BrConfig ==
  [failures : Nat \ {0}, window : Nat, recovery : Nat, successes : Nat \ {0}]

ASSUME BrAssumption == BrConfigs \subseteq BrConfig

\* The breakers of CircuitBreakers::new.
BrPresets ==
  [postgres_primary |-> [failures |-> 3, window |-> 5, recovery |-> 15, successes |-> 1],
   postgres_replica |-> [failures |-> 3, window |-> 5, recovery |-> 10, successes |-> 1],
   redis            |-> [failures |-> 3, window |-> 2, recovery |-> 5, successes |-> 1],
   kms_signing      |-> [failures |-> 5, window |-> 10, recovery |-> 30, successes |-> 1],
   kms_key_fetch    |-> [failures |-> 3, window |-> 30, recovery |-> 60, successes |-> 1],
   audit_write      |-> [failures |-> 5, window |-> 10, recovery |-> 30, successes |-> 1]]

VARIABLES
  brConfig,   \* the breaker's configuration
  brInner,    \* CircuitBreakerInner
  brCall,     \* [BrCalls -> "idle", or "out": permitted and not yet recorded]
  brUp,       \* the dependency works
  brRow       \* history: [0..BrWindow -> failures recorded in that many last ticks],
              \* those since the last success or the last change of state

brVars == <<brConfig, brInner, brCall, brUp, brRow>>

-----------------------------------------------------------------------------
BrFailureThreshold == brConfig.failures
BrWindow == brConfig.window
BrRecovery == brConfig.recovery
BrSuccessThreshold == brConfig.successes

BrInnerType ==
  [state : {"closed", "open", "half_open"},
   failures : 0..BrFailureThreshold, successes : 0..BrSuccessThreshold,
   windowAge : 0..(BrWindow + 1), openAge : 0..(BrRecovery + 1)]

BrNoRow == [a \in 0..BrWindow |-> 0]

BrTypeOK ==
  /\ brConfig \in BrConfigs
  /\ brInner \in BrInnerType
  /\ brCall \in [BrCalls -> {"idle", "out"}]
  /\ brUp \in BOOLEAN
  /\ brRow \in [0..BrWindow -> Nat]

BrInit ==
  /\ brConfig \in BrConfigs
  /\ brInner = [state |-> "closed", failures |-> 0, successes |-> 0,
                windowAge |-> 0, openAge |-> 0]
  /\ brCall = [c \in BrCalls |-> "idle"]
  /\ brUp = TRUE
  /\ brRow = BrNoRow

\* update_state, first thing under the lock in every operation.
BrUpdated(b) ==
  IF b.state = "closed" /\ b.windowAge > BrWindow
    THEN [b EXCEPT !.failures = 0, !.windowAge = 0]
  ELSE IF b.state = "open" /\ b.openAge > BrRecovery
    THEN [b EXCEPT !.state = "half_open", !.successes = 0]
  ELSE b

\* A slip: a half-open circuit lets nothing through.
BrPermitsClosed(b) == b.state = "closed"

BrPermits(b) == b.state \in {"closed", "half_open"}

\* record_success after update_state.  Nothing happens to an open circuit:
\* "Shouldn't happen if we check is_call_permitted first", which it does when
\* the call was permitted before the circuit opened.
BrSuccess(b) ==
  CASE b.state = "closed" -> [b EXCEPT !.failures = 0]
    [] b.state = "half_open" ->
         IF b.successes + 1 >= BrSuccessThreshold
           THEN [b EXCEPT !.state = "closed", !.failures = 0, !.successes = 0]
           ELSE [b EXCEPT !.successes = @ + 1]
    [] OTHER -> b

\* A slip: it takes one failure more than the threshold.
BrFailureLate(b) ==
  CASE b.state = "closed" ->
         IF b.failures >= BrFailureThreshold
           THEN [b EXCEPT !.state = "open", !.openAge = 0]
           ELSE [b EXCEPT !.failures = @ + 1]
    [] b.state = "half_open" ->
         [b EXCEPT !.state = "open", !.successes = 0, !.openAge = 0]
    [] OTHER -> b

\* record_failure after update_state.
BrFailure(b) ==
  CASE b.state = "closed" ->
         IF b.failures + 1 >= BrFailureThreshold
           THEN [b EXCEPT !.failures = @ + 1, !.state = "open", !.openAge = 0]
           ELSE [b EXCEPT !.failures = @ + 1]
    [] b.state = "half_open" ->
         [b EXCEPT !.state = "open", !.successes = 0, !.openAge = 0]
    [] OTHER -> b

-----------------------------------------------------------------------------
\* is_call_permitted: also how time moves the circuit.
BrAsk(c) ==
  /\ brCall[c] = "idle"
  /\ brInner' = BrUpdated(brInner)
  /\ brCall' = IF BrPermits(brInner') THEN [brCall EXCEPT ![c] = "out"] ELSE brCall
  /\ UNCHANGED <<brConfig, brUp, brRow>>

\* The call ends as the dependency is at that moment, and is recorded.
BrRecordSuccess(c) ==
  /\ brCall[c] = "out"
  /\ brUp
  /\ brInner' = BrSuccess(BrUpdated(brInner))
  /\ brCall' = [brCall EXCEPT ![c] = "idle"]
  /\ brRow' = BrNoRow
  /\ UNCHANGED <<brConfig, brUp>>

BrRecordFailure(c) ==
  /\ brCall[c] = "out"
  /\ ~brUp
  /\ brInner' = BrFailure(BrUpdated(brInner))
  /\ brCall' = [brCall EXCEPT ![c] = "idle"]
  /\ brRow' = IF brInner'.state = "closed" THEN [a \in 0..BrWindow |-> brRow[a] + 1] ELSE BrNoRow
  /\ UNCHANGED <<brConfig, brUp>>

BrDependencyChanges ==
  /\ brUp' = ~brUp
  /\ UNCHANGED <<brConfig, brInner, brCall, brRow>>

BrOlder(age, limit) == IF age <= limit THEN age + 1 ELSE age

BrTick ==
  /\ brInner' = [brInner EXCEPT !.windowAge = BrOlder(@, BrWindow),
                                !.openAge = BrOlder(@, BrRecovery)]
  /\ brRow' = [a \in 0..BrWindow |-> IF a = 0 THEN 0 ELSE brRow[a - 1]]
  /\ UNCHANGED <<brConfig, brCall, brUp>>

BrRecord(c) == BrRecordSuccess(c) \/ BrRecordFailure(c)

BrNext ==
  \/ \E c \in BrCalls : BrAsk(c) \/ BrRecord(c)
  \/ BrDependencyChanges
  \/ BrTick

\* Time passes, and a permitted call ends some day (it has a timeout).
BrFairness == WF_brVars(BrTick) /\ \A c \in BrCalls : WF_brVars(BrRecord(c))

BrSpec == BrInit /\ [][BrNext]_brVars /\ BrFairness

-----------------------------------------------------------------------------
\* How much a closed circuit can miss.  The window is tumbling, so a row of
\* failures longer than the threshold can straddle two of them; but never
\* more than twice one short of it within a window's length.
BrMissesBounded ==
  brInner.state = "closed" =>
    brRow[BrWindow] <= 2 * (BrFailureThreshold - 1)

\* A circuit recovers: once its dependency works for good and callers keep
\* asking, it closes and stays closed.  A late failure can open it again from
\* half open, and only delays this.
BrRecovers ==
  /\ <>[]brUp
  /\ \A c \in BrCalls : WF_brVars(BrAsk(c))
  => <>[](brInner.state = "closed")
=============================================================================
