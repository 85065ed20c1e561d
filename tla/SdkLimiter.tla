----------------------------- MODULE SdkLimiter -----------------------------
(***************************************************************************)
(* The rate limit the SDK keeps on itself (crates/sdk/src/rate_limiter.rs) *)
(* and how the client puts it in place and consults it                     *)
(* (crates/sdk/src/client.rs, request_grant and authenticate_request).     *)
(*                                                                         *)
(* The limiter of the `governor' crate is a bucket: up to LimBurst cells,  *)
(* one more each LimPeriod.  A grant that is approved brings a new, full   *)
(* bucket.  The client keeps grants and limiters in two maps under two     *)
(* locks; as in SdkClient one provider is modelled.                        *)
(***************************************************************************)
EXTENDS Integers

CONSTANTS
  LimTasks,    \* tasks that use the client
  LimBurst,    \* envelope.max_burst
  LimPeriod,   \* ticks between two cells: replenish_period
  LimMinute,   \* ticks of the interval requests are counted over
  LimLoads     \* bound: grants stored in one interval

ASSUME LimAssumption ==
  /\ {LimBurst, LimPeriod, LimMinute, LimLoads} \subseteq Nat \ {0}

VARIABLES
  limTask,      \* [LimTasks -> "idle", "insert" (request_grant between its maps)]
  limBucket,    \* the limiter in the map, or NoBucket
  limAdmitted,  \* history: [LimAges -> requests a limiter admitted in that many last ticks]
  limLoaded,    \* history: [LimAges -> limiters stored in that many last ticks]
  limFor        \* history: ticks the map has had a limiter, up to LimMinute

limVars == <<limTask, limBucket, limAdmitted, limLoaded, limFor>>

\* The age 0 is the tick that goes on; LimOldest takes in a whole interval.
LimOldest == LimMinute - 1

LimAges == 0..LimOldest

NoBucket == [cells |-> 0, phase |-> 0, set |-> FALSE]

\* The quota starts with the whole burst.
LimFresh == [cells |-> LimBurst, phase |-> 0, set |-> TRUE]

\* More requests than any interval admits: counting stops here.
LimCap == (1 + LimLoads) * LimBurst + LimMinute + 1

\* What happens now is counted for every age.
LimBump(f) == [a \in LimAges |-> IF f[a] < LimCap THEN f[a] + 1 ELSE f[a]]

LimInit ==
  /\ limTask = [t \in LimTasks |-> "idle"]
  /\ limBucket = NoBucket
  /\ limAdmitted = [a \in LimAges |-> 0]
  /\ limLoaded = [a \in LimAges |-> 0]
  /\ limFor = 0

-----------------------------------------------------------------------------
\* request_grant, answered "approved": the grant is stored, and from now on
\* tokens can be had.
LimStoreGrant(t) ==
  /\ limTask[t] = "idle"
  /\ limTask' = [limTask EXCEPT ![t] = "insert"]
  /\ UNCHANGED <<limBucket, limAdmitted, limLoaded, limFor>>

\* ...then, under the other lock, its limiter, in place of the one there was.
LimStoreLimiter(t) ==
  /\ limTask[t] = "insert"
  /\ limLoaded[LimOldest] < LimLoads
  /\ limTask' = [limTask EXCEPT ![t] = "idle"]
  /\ limBucket' = LimFresh
  /\ limLoaded' = LimBump(limLoaded)
  /\ UNCHANGED <<limAdmitted, limFor>>

\* A slip: the request is looked at (would_allow) and no cell is taken.
LimTakeNothing(b) == b

\* limiter.check: one cell.
LimTake(b) == [b EXCEPT !.cells = @ - 1]

\* authenticate_request of a task with no call in progress.  Without a limiter
\* in the map nothing is checked.  check refuses outside the envelope's time
\* windows and when a human must be online, before it takes a cell; a refusal
\* changes nothing.
LimAdmit(t) ==
  /\ limTask[t] = "idle"
  /\ \/ ~limBucket.set /\ UNCHANGED <<limBucket, limAdmitted>>
     \/ /\ limBucket.cells > 0
        /\ limBucket' = LimTake(limBucket)
        /\ limAdmitted' = LimBump(limAdmitted)
  /\ UNCHANGED <<limTask, limLoaded, limFor>>

LimShift(f) == [a \in LimAges |-> IF a = 0 THEN 0 ELSE f[a - 1]]

\* A slip: a full bucket gains cells as well.
LimRefillAlways(b) ==
  IF ~b.set THEN b
  ELSE IF b.phase + 1 < LimPeriod THEN [b EXCEPT !.phase = @ + 1]
  ELSE [b EXCEPT !.phase = 0, !.cells = @ + 1]

\* A bucket gains its next cell at the end of a period, unless it is full.
LimRefill(b) ==
  IF ~b.set \/ b.cells = LimBurst THEN b
  ELSE IF b.phase + 1 < LimPeriod THEN [b EXCEPT !.phase = @ + 1]
  ELSE [b EXCEPT !.phase = 0, !.cells = @ + 1]

LimTick ==
  /\ limBucket' = LimRefill(limBucket)
  /\ limAdmitted' = LimShift(limAdmitted)
  /\ limLoaded' = LimShift(limLoaded)
  /\ limFor' = IF limBucket.set /\ limFor < LimMinute THEN limFor + 1 ELSE limFor
  /\ UNCHANGED limTask

LimNext ==
  \/ \E t \in LimTasks : LimStoreGrant(t) \/ LimStoreLimiter(t) \/ LimAdmit(t)
  \/ LimTick

LimSpec == LimInit /\ [][LimNext]_limVars

-----------------------------------------------------------------------------
LimBucketOK ==
  limBucket \in [cells : 0..LimBurst, phase : 0..(LimPeriod - 1), set : BOOLEAN]

\* What the limiter really promises of an interval it was in place for: the
\* refill, one burst, and one more burst for each grant stored in it.  (The
\* envelope's max_requests_per_minute alone is not a bound: a full bucket adds
\* its burst, and request_grant fills it again.)
LimRateHeld ==
  limFor = LimMinute =>
    limAdmitted[LimOldest] <= LimBurst * (1 + limLoaded[LimOldest]) + LimOldest \div LimPeriod
=============================================================================
