------------------------------ MODULE Envelope ------------------------------
(***************************************************************************)
(* The behavioral envelope's arithmetic: time windows and validation of    *)
(* crates/core/src/types/envelope.rs, and the refill period that           *)
(* crates/sdk/src/rate_limiter.rs makes of the requests per minute.  A     *)
(* step builds a limiter from some envelope; what is stated holds of each. *)
(***************************************************************************)
EXTENDS Integers, FiniteSets

CONSTANTS
  EnvDays,       \* bound: the days of the week looked at
  EnvDayLists,   \* bound: the day lists of windows
  EnvHour,       \* bound: hours windows are given, u8
  EnvRates       \* bound: max_requests_per_minute and max_burst, u32

ASSUME EnvAssumption ==
  /\ EnvDays \subseteq 0..6
  /\ EnvDayLists \subseteq SUBSET Nat
  /\ EnvHour \subseteq Nat /\ EnvRates \subseteq Nat

VARIABLE env     \* the limiter's envelope, with one time window

EnvWindow == [start : EnvHour, end : EnvHour, days : EnvDayLists]

EnvHours == 0..23

EnvNone == [rpm |-> 0, burst |-> 0]

\* TimeWindow::validate
EnvWindowValid(w) ==
  w.start <= 23 /\ w.end <= 23 /\ \A d \in w.days : d <= 6

\* BehavioralEnvelope::validate (a session longer than any token is only
\* warned about).
EnvValid(rpm, burst, w) ==
  rpm # 0 /\ burst # 0 /\ burst <= rpm /\ EnvWindowValid(w)

\* A slip: the end hour is still inside.
EnvContainsEnd(w, day, hour) ==
  /\ w.days = {} \/ day \in w.days
  /\ IF w.start <= w.end THEN hour >= w.start /\ hour <= w.end
                         ELSE hour >= w.start \/ hour <= w.end

\* TimeWindow::contains.  An empty list is every day; a window that passes
\* midnight is judged by the day it is.
EnvContains(w, day, hour) ==
  /\ w.days = {} \/ day \in w.days
  /\ IF w.start <= w.end THEN hour >= w.start /\ hour < w.end
                         ELSE hour >= w.start \/ hour < w.end

\* BehavioralRateLimiter::new: milliseconds between two cells; the division
\* truncates, and the period is at least one.
EnvPeriod(rpm) == IF 60000 \div rpm > 1 THEN 60000 \div rpm ELSE 1

\* No limiter comes of an invalid envelope: the grant's answer is an error.
EnvNew ==
  /\ env = EnvNone
  /\ \E rpm \in EnvRates, burst \in EnvRates, w \in EnvWindow :
       /\ EnvValid(rpm, burst, w)
       /\ env' = [rpm |-> rpm, burst |-> burst, window |-> w]

EnvInit == env = EnvNone

EnvSpec == EnvInit /\ [][EnvNew]_env

EnvWindowIsRound ==
  \A day \in EnvDays, hour \in EnvHours :
    EnvContains(env.window, day, hour) <=>
      /\ env.window.days = {} \/ day \in env.window.days
      /\ (hour - env.window.start) % 24 < (env.window.end - env.window.start) % 24

EnvRateRounds ==
  LET made == 60000 \div EnvPeriod(env.rpm) IN
  /\ made < 2 * env.rpm
  /\ env.rpm <= made \/ made = 60000

\* What a limiter enforces is what its envelope says.  Its window is open, on a
\* listed day, exactly for the hours from start up to and without end, round
\* midnight where end comes first: (end - start) mod 24 of them, so never for a
\* whole day.  And the truncated period never costs the agent a request, and
\* gives it less than twice what the human allowed; above 60000 a minute the
\* limiter stays at 60000.
EnvAsSaid == env # EnvNone => EnvWindowIsRound /\ EnvRateRounds
=============================================================================
