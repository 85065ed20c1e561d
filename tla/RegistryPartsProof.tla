------------------------- MODULE RegistryPartsProof -------------------------
(***************************************************************************)
(* Proofs about the parts of the registry beside grants and tokens: the    *)
(* in-flight limiter, the signing key, the arithmetic of the behavioral    *)
(* envelope, a dependency's circuit breaker, readiness and registration,   *)
(* for any number of requests, calls, probes, agents, manifests, passwords *)
(* and replicas and any configuration.                                     *)
(***************************************************************************)
EXTENDS InFlight, SigningKey, Envelope, Breaker, Health, Registration, DatabaseProof,
        FiniteSetTheorems, TLAPS

-----------------------------------------------------------------------------
(* The in-flight limiter *)

\* How the number of requests that are in S changes when r moves.
LEMMA IfMoved ==
  ASSUME IfTypeOK, NEW r \in IfRequests, NEW to \in {"out", "serving", "refused"},
         ifAt' = [ifAt EXCEPT ![r] = to], NEW S
  PROVE  /\ Cardinality(IfIn(S)) \in Nat /\ Cardinality(IfIn(S))' \in Nat
         /\ Cardinality(IfIn(S))' =
              Cardinality(IfIn(S)) - (IF ifAt[r] \in S THEN 1 ELSE 0)
                                   + (IF to \in S THEN 1 ELSE 0)
<1> DEFINE before == IfIn(S)
           other == before \ {r}
<1>1. before \in SUBSET IfRequests /\ (r \in before <=> ifAt[r] \in S)
      BY DEF IfIn
<1>2. IsFiniteSet(before) /\ Cardinality(before) \in Nat
      BY <1>1, FS_Subset, FS_CardinalityType, IfAssumption
<1>3. /\ IsFiniteSet(other) /\ Cardinality(other) \in Nat
      /\ Cardinality(other) = Cardinality(before) - (IF ifAt[r] \in S THEN 1 ELSE 0)
      BY <1>1, <1>2, FS_RemoveElement, FS_CardinalityType
<1>4. /\ IsFiniteSet(other \cup {r}) /\ Cardinality(other \cup {r}) = Cardinality(other) + 1
      BY <1>3, FS_AddElement
<1>5. IfIn(S)' = IF to \in S THEN other \cup {r} ELSE other
      BY DEF IfIn, IfTypeOK
<1>6. Cardinality(IfIn(S))' = Cardinality(IfIn(S)')
      OBVIOUS
<1> HIDE DEF before, other
<1>7. Cardinality(IfIn(S))' = Cardinality(other) + (IF to \in S THEN 1 ELSE 0)
      BY <1>3, <1>4, <1>5, <1>6
<1> QED BY <1>2, <1>3, <1>7 DEF before

\* Nobody is in the middleware at first.
LEMMA IfInvInit == IfInit => IfTypeOK /\ IfHeld
<1> SUFFICES ASSUME IfInit PROVE IfTypeOK /\ IfHeld
    OBVIOUS
<1>1. IfIn({"serving"}) = {} /\ IfIn({"serving", "refused"}) = {}
      BY DEF IfInit, IfIn
<1> QED BY <1>1, FS_EmptySet, IfAssumption DEF IfInit, IfTypeOK, IfHeld

\* Arrivals and ends keep the counter in step with the requests.
LEMMA IfStep == IfTypeOK /\ IfHeld /\ [IfNext]_ifVars => (IfTypeOK /\ IfHeld)'
<1> DEFINE serving == Cardinality(IfIn({"serving"}))
           inside == Cardinality(IfIn({"serving", "refused"}))
<1> SUFFICES ASSUME IfTypeOK, IfHeld, [IfNext]_ifVars PROVE (IfTypeOK /\ IfHeld)'
    OBVIOUS
<1>1. CASE UNCHANGED ifVars
      BY <1>1 DEF ifVars, IfTypeOK, IfHeld, IfIn
<1>2. ASSUME NEW r \in IfRequests, IfArrive(r) PROVE (IfTypeOK /\ IfHeld)'
  <2>1. PICK to \in {"serving", "refused"} :
          /\ ifAt' = [ifAt EXCEPT ![r] = to]
          /\ to = "serving" <=> ifCurrent < IfMax
        BY <1>2 DEF IfArrive, IfRoom
  <2>2. ifAt[r] = "out" /\ ifCurrent' = ifCurrent + 1 /\ IfTypeOK'
        BY <1>2 DEF IfArrive, IfTypeOK
  <2>3. /\ serving \in Nat /\ serving' \in Nat
        /\ serving' = serving + (IF to = "serving" THEN 1 ELSE 0)
    <3>1. /\ to \in {"out", "serving", "refused"} /\ ifAt' = [ifAt EXCEPT ![r] = to]
          BY <2>1
    <3>2. /\ serving \in Nat /\ serving' \in Nat
          /\ serving' = serving - (IF ifAt[r] \in {"serving"} THEN 1 ELSE 0)
                               + (IF to \in {"serving"} THEN 1 ELSE 0)
          BY <3>1, IfMoved, Zenon
    <3> HIDE DEF serving
    <3> QED BY <3>1, <3>2, <2>2
  <2>4. inside \in Nat /\ inside' = inside + 1
    <3>1. /\ to \in {"out", "serving", "refused"} /\ ifAt' = [ifAt EXCEPT ![r] = to]
          BY <2>1
    <3>2. /\ inside \in Nat
          /\ inside' = inside - (IF ifAt[r] \in {"serving", "refused"} THEN 1 ELSE 0)
                             + (IF to \in {"serving", "refused"} THEN 1 ELSE 0)
          BY <3>1, IfMoved, Zenon
    <3> HIDE DEF inside
    <3> QED BY <3>1, <3>2, <2>1, <2>2
  <2>5. serving <= inside
    <3>1. /\ IfIn({"serving"}) \in SUBSET IfIn({"serving", "refused"})
          /\ IfIn({"serving", "refused"}) \in SUBSET IfRequests
          BY DEF IfIn
    <3>2. IsFiniteSet(IfIn({"serving", "refused"}))
          BY <3>1, FS_Subset, IfAssumption
    <3> QED BY <3>1, <3>2, FS_Subset
  <2>6. serving <= IfMax /\ ifCurrent = inside
        BY DEF IfHeld
  <2> HIDE DEF serving, inside
  <2>7. serving' <= IfMax /\ ifCurrent' = inside'
        BY <2>1, <2>2, <2>3, <2>4, <2>5, <2>6, IfAssumption
  <2> QED BY <2>2, <2>7 DEF IfHeld, serving, inside
<1>3. ASSUME NEW r \in IfRequests, IfGiveBack(r) \/ IfDone(r) PROVE (IfTypeOK /\ IfHeld)'
  <2>1. /\ ifAt' = [ifAt EXCEPT ![r] = "out"] /\ ifCurrent' = ifCurrent - 1
        /\ ifAt[r] \in {"serving", "refused"}
        BY <1>3 DEF IfGiveBack, IfDone
  <2>2. serving \in Nat /\ serving' \in Nat /\ serving' <= serving
    <3>1. /\ serving \in Nat /\ serving' \in Nat
          /\ serving' = serving - (IF ifAt[r] \in {"serving"} THEN 1 ELSE 0)
                               + (IF "out" \in {"serving"} THEN 1 ELSE 0)
          BY <2>1, IfMoved, Zenon
    <3> HIDE DEF serving
    <3> QED BY <3>1
  <2>3. inside \in Nat /\ inside' \in Nat /\ inside' = inside - 1
    <3>1. /\ inside \in Nat /\ inside' \in Nat
          /\ inside' = inside - (IF ifAt[r] \in {"serving", "refused"} THEN 1 ELSE 0)
                             + (IF "out" \in {"serving", "refused"} THEN 1 ELSE 0)
          BY <2>1, IfMoved, Zenon
    <3> HIDE DEF inside
    <3> QED BY <3>1, <2>1
  <2>4. serving <= IfMax /\ ifCurrent = inside
        BY DEF IfHeld
  <2> HIDE DEF serving, inside
  <2>5. serving' <= IfMax /\ ifCurrent' = inside' /\ ifCurrent' \in Nat
        BY <2>1, <2>2, <2>3, <2>4, IfAssumption
  <2>6. IfTypeOK'
        BY <2>1, <2>5 DEF IfTypeOK
  <2> QED BY <2>5, <2>6 DEF IfHeld, serving, inside
<1> QED BY <1>1, <1>2, <1>3 DEF IfNext

\* However arrivals overlap, requests end or are refused: at most max_requests are
\* served at once and the counter is exactly those in the middleware.
THEOREM InFlightHeld == IfSpec => []IfHeld
BY IfInvInit, IfStep, PTL DEF IfSpec

-----------------------------------------------------------------------------
(* The signing key *)

\* What is published lies between the newest version at the start and the newest
\* one; a key of the process's own is the only one it signs with.
KeyInv ==
  /\ KeyTypeOK
  /\ keyHeld.start = keyHeld.public
  /\ keyHeld.start <= keyVault
  /\ IF keyHeld = KeyDown THEN keySigned = {} ELSE keyHeld.public # 0
  /\ \A v \in keySigned :
       IF keyHeld.backend = "vault" THEN keyHeld.start <= v ELSE v = keyHeld.public

\* No process has a key at first.
LEMMA KeyInvInit == KeyInit => KeyInv
BY KeyAssumption DEF KeyInit, KeyInv, KeyTypeOK, KeyDown

\* Every step keeps what is known of the key.
LEMMA KeyStep == KeyInv /\ [KeyNext]_keyVars => KeyInv'
<1> SUFFICES ASSUME KeyInv, [KeyNext]_keyVars PROVE KeyInv'
    OBVIOUS
<1> USE KeyAssumption DEF KeyInv, KeyTypeOK, KeyDown
<1>1. CASE UNCHANGED keyVars
      BY <1>1 DEF keyVars
<1>2. CASE KeyStart
      BY <1>2 DEF KeyStart, KeyRead
<1>3. CASE KeyStop
      BY <1>3 DEF KeyStop
<1>4. CASE KeySign
  <2>1. /\ keyHeld # KeyDown /\ keyHeld' = keyHeld /\ keyVault' = keyVault
        /\ keySigned' = keySigned \cup
             {IF keyHeld.backend = "vault" THEN keyVault ELSE keyHeld.public}
        BY <1>4 DEF KeySign
  <2>2. CASE keyHeld.backend = "vault"
        BY <2>1, <2>2
  <2>3. CASE keyHeld.backend # "vault"
    <3>1. keySigned' = keySigned \cup {keyHeld.public} /\ keyHeld.public \in 1..KeyVersions
          BY <2>1, <2>3
    <3> QED BY <2>1, <2>3, <3>1
  <2> QED BY <2>2, <2>3
<1>5. CASE KeyRotate
      BY <1>5 DEF KeyRotate
<1> QED BY <1>1, <1>2, <1>3, <1>4, <1>5 DEF KeyNext

\* The published key verifies all the process has signed, for any number of
\* versions, until the key is rotated in Vault beside it.
THEOREM PublishedKeyVerifies == KeySpec => []KeyPublishedVerifies
<1>1. KeyInv => KeyPublishedVerifies
      BY DEF KeyInv, KeyTypeOK, KeyPublishedVerifies, KeyPublished
<1> QED BY <1>1, KeyInvInit, KeyStep, PTL DEF KeySpec

-----------------------------------------------------------------------------
(* The envelope *)

\* A window is open from its start, round midnight, for its length.
LEMMA WindowRound ==
  ASSUME NEW start \in 0..23, NEW end \in 0..23, NEW hour \in 0..23
  PROVE  (IF start <= end THEN hour >= start /\ hour < end
                          ELSE hour >= start \/ hour < end)
           <=> (hour - start) % 24 < (end - start) % 24
<1>1. \A x \in 0..23 : x % 24 = x
      OBVIOUS
<1>2. \A x \in (-23)..(-1) : x % 24 = x + 24
      OBVIOUS
<1>3. /\ start <= end => (end - start) % 24 = end - start
      /\ start > end => (end - start) % 24 = end - start + 24
      BY <1>1, <1>2
<1>4. /\ start <= hour => (hour - start) % 24 = hour - start
      /\ start > hour => (hour - start) % 24 = hour - start + 24
      BY <1>1, <1>2
<1> QED BY <1>3, <1>4

\* The period that truncation leaves gives back the rate, and less than twice it.
LEMMA PeriodRounds ==
  ASSUME NEW rpm \in Nat \ {0}
  PROVE  LET made == 60000 \div EnvPeriod(rpm) IN
         /\ made < 2 * rpm
         /\ rpm <= made \/ made = 60000
<1> DEFINE q == 60000 \div rpm
           p == EnvPeriod(rpm)
           made == 60000 \div p
<1>1. q \in Nat /\ q * rpm <= 60000 /\ 60000 < (q + 1) * rpm
      OBVIOUS
<1>2. CASE q > 1
  <2>1. p = q
        BY <1>2 DEF EnvPeriod
  <2>2. made \in Nat /\ made * q <= 60000 /\ 60000 < (made + 1) * q
        BY <1>1, <1>2, <2>1
  <2> QED BY <1>1, <1>2, <2>2
<1>3. CASE q <= 1
  <2>1. p = 1
        BY <1>1, <1>3 DEF EnvPeriod
  <2>2. made = 60000
        BY <2>1
  <2>3. 60000 < 2 * rpm
        BY <1>1, <1>3
  <2> QED BY <2>2, <2>3
<1> QED BY <1>1, <1>2, <1>3

\* A limiter's envelope is a valid one.
EnvInv ==
  env # EnvNone =>
    /\ env.rpm \in Nat \ {0}
    /\ env.window.start \in 0..23 /\ env.window.end \in 0..23

\* There is no envelope at first.
LEMMA EnvInvInit == EnvInit => EnvInv
BY DEF EnvInit, EnvInv

\* An envelope that is accepted is a valid one.
LEMMA EnvStep == EnvInv /\ [EnvNew]_env => EnvInv'
<1> SUFFICES ASSUME EnvInv, EnvNew PROVE EnvInv'
    BY DEF EnvInv
<1>1. PICK rpm \in EnvRates, burst \in EnvRates, w \in EnvWindow :
        /\ EnvValid(rpm, burst, w)
        /\ env' = [rpm |-> rpm, burst |-> burst, window |-> w]
      BY DEF EnvNew
<1>2. rpm \in Nat \ {0} /\ w.start \in 0..23 /\ w.end \in 0..23
  <2>1. rpm \in Nat /\ w.start \in Nat /\ w.end \in Nat
        BY EnvAssumption DEF EnvWindow
  <2>2. rpm # 0 /\ w.start <= 23 /\ w.end <= 23
        BY <1>1 DEF EnvValid, EnvWindowValid
  <2> QED BY <2>1, <2>2
<1>3. env'.rpm = rpm /\ env'.window = w
      BY <1>1
<1> QED BY <1>2, <1>3 DEF EnvInv

\* Whatever the days, hours and rates: a window is open for its hours, and the
\* truncated period gives back the envelope's rate.
THEOREM EnvelopeAsSaid == EnvSpec => []EnvAsSaid
<1>1. EnvInv => EnvAsSaid
  <2> SUFFICES ASSUME EnvInv, env # EnvNone PROVE EnvWindowIsRound /\ EnvRateRounds
      BY DEF EnvAsSaid
  <2>1. EnvWindowIsRound
    <3>1. ASSUME NEW day \in EnvDays, NEW hour \in EnvHours
          PROVE  EnvContains(env.window, day, hour) <=>
                   /\ env.window.days = {} \/ day \in env.window.days
                   /\ (hour - env.window.start) % 24 < (env.window.end - env.window.start) % 24
      <4>1. env.window.start \in 0..23 /\ env.window.end \in 0..23 /\ hour \in 0..23
            BY DEF EnvInv, EnvHours
      <4> QED BY <4>1, WindowRound DEF EnvContains
    <3> QED BY <3>1 DEF EnvWindowIsRound
  <2>2. EnvRateRounds
    <3>1. env.rpm \in Nat \ {0}
          BY DEF EnvInv
    <3> QED BY <3>1, PeriodRounds DEF EnvRateRounds
  <2> QED BY <2>1, <2>2
<1> QED BY <1>1, EnvInvInit, EnvStep, PTL DEF EnvSpec

-----------------------------------------------------------------------------
(* The circuit breaker *)

\* A closed circuit has counted the failures recorded since its window began,
\* which are short of the threshold; and so are those from before, because they
\* were counted in the window that ended there.  Past its end nothing is recorded
\* before the window starts anew.
BrWindowCounted ==
  /\ brInner.failures < BrFailureThreshold
  /\ IF brInner.windowAge <= BrWindow
       THEN /\ brRow[brInner.windowAge] <= brInner.failures
            /\ brRow[BrWindow] - brRow[brInner.windowAge] < BrFailureThreshold
       ELSE brRow[0] = 0 /\ brRow[BrWindow] <= brInner.failures

BrInv ==
  /\ BrTypeOK
  /\ \A a, b \in 0..BrWindow : a <= b => brRow[a] <= brRow[b]
  /\ IF brInner.state = "closed" THEN BrWindowCounted ELSE brRow = BrNoRow

\* A breaker's configuration, field by field.
LEMMA BrConfigured ==
  BrTypeOK =>
    /\ BrFailureThreshold \in Nat \ {0} /\ BrSuccessThreshold \in Nat \ {0}
    /\ BrWindow \in Nat /\ BrRecovery \in Nat
BY BrAssumption DEF BrTypeOK, BrConfig, BrFailureThreshold, BrSuccessThreshold, BrWindow, BrRecovery

\* What each update of a breaker's state makes of it.
LEMMA BrClears ==
  ASSUME NEW b \in BrInnerType, 0 \in 0..BrFailureThreshold
  PROVE  LET c == [b EXCEPT !.failures = 0] IN
         c \in BrInnerType /\ c.state = b.state /\ c.failures = 0
<1>1. \A f \in 0..BrFailureThreshold :
        LET c == [b EXCEPT !.failures = f] IN
        c \in BrInnerType /\ c.state = b.state /\ c.failures = f
      BY DEF BrInnerType
<1> QED BY <1>1, Zenon

\* A failure is counted.
LEMMA BrCounts ==
  ASSUME NEW b \in BrInnerType, b.failures + 1 \in 0..BrFailureThreshold
  PROVE  LET c == [b EXCEPT !.failures = b.failures + 1] IN
         c \in BrInnerType /\ c.state = b.state /\ c.failures = b.failures + 1 /\ c.windowAge = b.windowAge
<1>1. \A f \in 0..BrFailureThreshold :
        LET c == [b EXCEPT !.failures = f] IN
        c \in BrInnerType /\ c.state = b.state /\ c.failures = f /\ c.windowAge = b.windowAge
      BY DEF BrInnerType
<1> QED BY <1>1, Zenon

\* A success is counted.
LEMMA BrSucceeds ==
  ASSUME NEW b \in BrInnerType, b.successes + 1 \in 0..BrSuccessThreshold
  PROVE  LET c == [b EXCEPT !.successes = b.successes + 1] IN
         c \in BrInnerType /\ c.state = b.state
<1>1. \A n \in 0..BrSuccessThreshold :
        LET c == [b EXCEPT !.successes = n] IN
        c \in BrInnerType /\ c.state = b.state
      BY DEF BrInnerType
<1> QED BY <1>1, Zenon

\* A window starts anew.
LEMMA BrStarts ==
  ASSUME NEW b \in BrInnerType, 0 \in 0..BrFailureThreshold, 0 \in 0..(BrWindow + 1)
  PROVE  LET c == [b EXCEPT !.failures = 0, !.windowAge = 0] IN
         c \in BrInnerType /\ c.state = b.state /\ c.failures = 0 /\ c.windowAge = 0
<1>1. \A f \in 0..BrFailureThreshold, w \in 0..(BrWindow + 1) :
        LET c == [b EXCEPT !.failures = f, !.windowAge = w] IN
        c \in BrInnerType /\ c.state = b.state /\ c.failures = f /\ c.windowAge = w
      BY DEF BrInnerType
<1> QED BY <1>1, Zenon

\* An open circuit lets calls through on trial.
LEMMA BrHalfOpens ==
  ASSUME NEW b \in BrInnerType, 0 \in 0..BrSuccessThreshold
  PROVE  LET c == [b EXCEPT !.state = "half_open", !.successes = 0] IN
         c \in BrInnerType /\ c.state = "half_open"
<1>1. \A n \in 0..BrSuccessThreshold :
        LET c == [b EXCEPT !.state = "half_open", !.successes = n] IN
        c \in BrInnerType /\ c.state = "half_open"
      BY DEF BrInnerType
<1> QED BY <1>1, Zenon

\* A circuit closes with nothing counted.
LEMMA BrCloses ==
  ASSUME NEW b \in BrInnerType, 0 \in 0..BrFailureThreshold, 0 \in 0..BrSuccessThreshold
  PROVE  LET c == [b EXCEPT !.state = "closed", !.failures = 0, !.successes = 0] IN
         c \in BrInnerType /\ c.state = "closed" /\ c.failures = 0
<1>1. \A f \in 0..BrFailureThreshold, n \in 0..BrSuccessThreshold :
        LET c == [b EXCEPT !.state = "closed", !.failures = f, !.successes = n] IN
        c \in BrInnerType /\ c.state = "closed" /\ c.failures = f
      BY DEF BrInnerType
<1> QED BY <1>1, Zenon

\* The failure that fills the count opens the circuit.
LEMMA BrFills ==
  ASSUME NEW b \in BrInnerType, b.failures + 1 \in 0..BrFailureThreshold, 0 \in 0..(BrRecovery + 1)
  PROVE  LET c == [b EXCEPT !.failures = b.failures + 1, !.state = "open", !.openAge = 0] IN
         c \in BrInnerType /\ c.state = "open"
<1>1. \A f \in 0..BrFailureThreshold, o \in 0..(BrRecovery + 1) :
        LET c == [b EXCEPT !.failures = f, !.state = "open", !.openAge = o] IN
        c \in BrInnerType /\ c.state = "open"
      BY DEF BrInnerType
<1> QED BY <1>1, Zenon

\* A failure on trial opens the circuit again.
LEMMA BrOpens ==
  ASSUME NEW b \in BrInnerType, 0 \in 0..BrSuccessThreshold, 0 \in 0..(BrRecovery + 1)
  PROVE  LET c == [b EXCEPT !.state = "open", !.successes = 0, !.openAge = 0] IN
         c \in BrInnerType /\ c.state = "open"
<1>1. \A n \in 0..BrSuccessThreshold, o \in 0..(BrRecovery + 1) :
        LET c == [b EXCEPT !.state = "open", !.successes = n, !.openAge = o] IN
        c \in BrInnerType /\ c.state = "open"
      BY DEF BrInnerType
<1> QED BY <1>1, Zenon

\* The window and the open period grow older.
LEMMA BrAges ==
  ASSUME NEW b \in BrInnerType,
         BrOlder(b.windowAge, BrWindow) \in 0..(BrWindow + 1),
         BrOlder(b.openAge, BrRecovery) \in 0..(BrRecovery + 1)
  PROVE  LET c == [b EXCEPT !.windowAge = BrOlder(b.windowAge, BrWindow),
                            !.openAge = BrOlder(b.openAge, BrRecovery)] IN
         /\ c \in BrInnerType /\ c.state = b.state /\ c.failures = b.failures
         /\ c.windowAge = BrOlder(b.windowAge, BrWindow)
<1>1. \A w \in 0..(BrWindow + 1), o \in 0..(BrRecovery + 1) :
        LET c == [b EXCEPT !.windowAge = w, !.openAge = o] IN
        c \in BrInnerType /\ c.state = b.state /\ c.failures = b.failures /\ c.windowAge = w
      BY DEF BrInnerType
<1> QED BY <1>1, Zenon

\* With no failure on record there is nothing a circuit could have missed.
BrNoneOnRecord == BrTypeOK /\ brRow = BrNoRow /\ brInner.failures < BrFailureThreshold

\* With no failure on record nothing can have been missed.
LEMMA BrNothingMissed == BrNoneOnRecord => BrInv
<1> SUFFICES ASSUME BrNoneOnRecord PROVE BrInv
    OBVIOUS
<1> USE DEF BrNoneOnRecord
<1>1. /\ BrFailureThreshold \in Nat \ {0} /\ BrWindow \in Nat
      /\ brInner.failures \in Nat /\ brInner.windowAge \in Nat
      BY BrConfigured DEF BrTypeOK, BrInnerType
<1>2. \A a \in 0..BrWindow : brRow[a] = 0
      BY DEF BrNoRow
<1>3. 0 \in 0..BrWindow /\ BrWindow \in 0..BrWindow
      BY <1>1
<1>4. brInner.windowAge <= BrWindow => brInner.windowAge \in 0..BrWindow
      BY <1>1
<1>5. BrWindowCounted
      BY <1>1, <1>2, <1>3, <1>4 DEF BrWindowCounted
<1> QED BY <1>2, <1>5 DEF BrInv

\* A new breaker has nothing on record.
LEMMA BrInvInit == BrInit => BrInv
<1> SUFFICES ASSUME BrInit PROVE BrInv
    OBVIOUS
<1>1. brConfig \in BrConfig
      BY BrAssumption DEF BrInit
<1>2. BrTypeOK
      BY <1>1 DEF BrInit, BrTypeOK, BrInnerType, BrConfig, BrNoRow, BrFailureThreshold, BrSuccessThreshold,
         BrWindow, BrRecovery
<1> QED BY <1>2, BrConfigured, BrNothingMissed DEF BrInit, BrNoneOnRecord

\* update_state keeps what is known of the circuit: a window that has passed is
\* one whose failures become those from before.
LEMMA BrUpdates ==
  ASSUME BrInv, NEW b, b = BrUpdated(brInner)
  PROVE  /\ b \in BrInnerType
         /\ b.state = "closed" <=> brInner.state = "closed"
         /\ b.state = "closed" =>
              /\ b.failures < BrFailureThreshold
              /\ b.windowAge \in 0..BrWindow
              /\ brRow[b.windowAge] <= b.failures
              /\ brRow[BrWindow] - brRow[b.windowAge] < BrFailureThreshold
<1>1. /\ BrFailureThreshold \in Nat \ {0} /\ BrSuccessThreshold \in Nat /\ BrWindow \in Nat
      /\ brRow \in [0..BrWindow -> Nat] /\ brInner \in BrInnerType
      /\ brInner.state = "closed" => BrWindowCounted
      BY BrConfigured DEF BrInv, BrTypeOK
<1>2. /\ 0 \in 0..BrFailureThreshold /\ 0 \in 0..BrSuccessThreshold
      /\ 0 \in 0..BrWindow /\ 0 \in 0..(BrWindow + 1)
      BY <1>1
<1>3. brInner.failures \in Nat /\ brInner.windowAge \in Nat
      BY <1>1 DEF BrInnerType
<1>4. CASE brInner.state = "closed" /\ brInner.windowAge > BrWindow
  <2>1. b = [brInner EXCEPT !.failures = 0, !.windowAge = 0]
        BY <1>4 DEF BrUpdated
  <2>2. /\ b \in BrInnerType /\ b.state = brInner.state /\ b.failures = 0 /\ b.windowAge = 0
        BY <2>1, <1>1, <1>2, BrStarts, Zenon
  <2>3. brRow[0] = 0 /\ brRow[BrWindow] < BrFailureThreshold
        BY <1>1, <1>3, <1>4 DEF BrWindowCounted
  <2> QED BY <1>1, <1>2, <1>4, <2>2, <2>3
<1>5. CASE brInner.state = "closed" /\ ~(brInner.windowAge > BrWindow)
  <2>1. b = brInner
        BY <1>5 DEF BrUpdated
  <2> QED BY <1>1, <1>3, <1>5, <2>1 DEF BrWindowCounted
<1>6. CASE brInner.state = "open" /\ brInner.openAge > BrRecovery
  <2>1. b = [brInner EXCEPT !.state = "half_open", !.successes = 0]
        BY <1>6 DEF BrUpdated
  <2>2. b \in BrInnerType /\ b.state = "half_open"
        BY <2>1, <1>1, <1>2, BrHalfOpens, Zenon
  <2> QED BY <1>6, <2>2
<1>7. CASE /\ brInner.state # "closed"
           /\ ~(brInner.state = "open" /\ brInner.openAge > BrRecovery)
      BY <1>1, <1>7 DEF BrUpdated
<1> QED BY <1>4, <1>5, <1>6, <1>7

\* A success leaves no failure behind in a closed circuit.
LEMMA BrAfterSuccess ==
  ASSUME BrTypeOK, NEW b \in BrInnerType
  PROVE  /\ BrSuccess(b) \in BrInnerType
         /\ BrSuccess(b).state = "closed" => BrSuccess(b).failures = 0
<1>1. /\ BrFailureThreshold \in Nat \ {0} /\ BrSuccessThreshold \in Nat \ {0}
      /\ b.successes \in 0..BrSuccessThreshold
      BY BrConfigured DEF BrInnerType
<1>2. 0 \in 0..BrFailureThreshold /\ 0 \in 0..BrSuccessThreshold
      BY <1>1
<1>3. CASE b.state = "closed"
  <2>1. BrSuccess(b) = [b EXCEPT !.failures = 0]
        BY <1>3 DEF BrSuccess
  <2> QED BY <2>1, <1>2, BrClears, Zenon
<1>4. CASE b.state = "half_open" /\ b.successes + 1 >= BrSuccessThreshold
  <2>1. BrSuccess(b) = [b EXCEPT !.state = "closed", !.failures = 0, !.successes = 0]
        BY <1>4 DEF BrSuccess
  <2> QED BY <2>1, <1>2, BrCloses, Zenon
<1>5. CASE b.state = "half_open" /\ ~(b.successes + 1 >= BrSuccessThreshold)
  <2>1. BrSuccess(b) = [b EXCEPT !.successes = b.successes + 1]
        BY <1>5 DEF BrSuccess
  <2>2. b.successes + 1 \in 0..BrSuccessThreshold
        BY <1>1, <1>5
  <2>3. BrSuccess(b) \in BrInnerType /\ BrSuccess(b).state = b.state
        BY <2>1, <2>2, BrSucceeds, Zenon
  <2> QED BY <1>5, <2>3
<1>6. CASE b.state \notin {"closed", "half_open"}
      BY <1>6 DEF BrSuccess
<1> QED BY <1>3, <1>4, <1>5, <1>6

\* A failure is counted while the circuit stays closed.
LEMMA BrAfterFailure ==
  ASSUME BrTypeOK, NEW b \in BrInnerType, b.state = "closed" => b.failures < BrFailureThreshold
  PROVE  /\ BrFailure(b) \in BrInnerType
         /\ BrFailure(b).state = "closed" =>
              /\ b.state = "closed"
              /\ BrFailure(b).failures = b.failures + 1
              /\ BrFailure(b).failures < BrFailureThreshold
              /\ BrFailure(b).windowAge = b.windowAge
<1>1. /\ BrFailureThreshold \in Nat \ {0} /\ BrSuccessThreshold \in Nat \ {0}
      /\ BrRecovery \in Nat /\ b.failures \in 0..BrFailureThreshold
      BY BrConfigured DEF BrInnerType
<1>2. 0 \in 0..BrSuccessThreshold /\ 0 \in 0..(BrRecovery + 1)
      BY <1>1
<1>3. b.state = "closed" => b.failures + 1 \in 0..BrFailureThreshold
      BY <1>1
<1>4. CASE b.state = "closed" /\ b.failures + 1 >= BrFailureThreshold
  <2>1. BrFailure(b) = [b EXCEPT !.failures = b.failures + 1, !.state = "open", !.openAge = 0]
        BY <1>4 DEF BrFailure
  <2>2. BrFailure(b) \in BrInnerType /\ BrFailure(b).state = "open"
    <3>1. b.failures + 1 \in 0..BrFailureThreshold
          BY <1>3, <1>4
    <3>2. LET c == [b EXCEPT !.failures = b.failures + 1, !.state = "open", !.openAge = 0] IN
          c \in BrInnerType /\ c.state = "open"
          BY <3>1, <1>2, BrFills, Zenon
    <3> QED BY <2>1, <3>2, Zenon
  <2> QED BY <2>2
<1>5. CASE b.state = "closed" /\ ~(b.failures + 1 >= BrFailureThreshold)
  <2>1. BrFailure(b) = [b EXCEPT !.failures = b.failures + 1]
        BY <1>5 DEF BrFailure
  <2>2. /\ BrFailure(b) \in BrInnerType
        /\ BrFailure(b).failures = b.failures + 1 /\ BrFailure(b).windowAge = b.windowAge
        BY <2>1, <1>3, <1>5, BrCounts, Zenon
  <2> QED BY <1>1, <1>5, <2>2
<1>6. CASE b.state = "half_open"
  <2>1. BrFailure(b) = [b EXCEPT !.state = "open", !.successes = 0, !.openAge = 0]
        BY <1>6 DEF BrFailure
  <2>2. BrFailure(b) \in BrInnerType /\ BrFailure(b).state = "open"
        BY <2>1, <1>2, BrOpens, Zenon
  <2> QED BY <2>2
<1>7. CASE b.state \notin {"closed", "half_open"}
      BY <1>7 DEF BrFailure
<1> QED BY <1>4, <1>5, <1>6, <1>7

\* A failure recorded in a circuit that stays closed.
LEMMA BrFailureCounted ==
  ASSUME BrInv, NEW b, b = BrUpdated(brInner), UNCHANGED brConfig,
         brInner' = BrFailure(b), brInner'.state = "closed",
         brRow' = [a \in 0..BrWindow |-> brRow[a] + 1], BrTypeOK'
  PROVE  BrInv'
<1> DEFINE w == b.windowAge
<1>1. /\ BrFailureThreshold \in Nat /\ BrFailureThreshold' = BrFailureThreshold
      /\ BrWindow \in Nat /\ BrWindow' = BrWindow
      BY BrConfigured DEF BrInv, BrFailureThreshold, BrWindow
<1>2. b \in BrInnerType /\ (b.state = "closed" => b.failures < BrFailureThreshold)
      BY BrUpdates
<1>3. /\ b.state = "closed" /\ brInner'.windowAge = w /\ brInner'.failures = b.failures + 1
      /\ brInner'.failures < BrFailureThreshold /\ b.failures \in Nat
      BY <1>2, BrAfterFailure DEF BrInv, BrInnerType
<1>4. /\ w \in 0..BrWindow /\ brRow[w] <= b.failures
      /\ brRow[BrWindow] - brRow[w] < BrFailureThreshold
      BY <1>3, BrUpdates
<1>5. \A a \in 0..BrWindow : brRow[a] \in Nat /\ brRow'[a] = brRow[a] + 1
      BY DEF BrInv, BrTypeOK
<1>6. BrWindowCounted'
  <2>1. /\ w \in Nat /\ w <= BrWindow /\ BrWindow \in 0..BrWindow
        /\ brRow[w] \in Nat /\ brRow'[w] = brRow[w] + 1
        /\ brRow[BrWindow] \in Nat /\ brRow'[BrWindow] = brRow[BrWindow] + 1
        BY <1>1, <1>4, <1>5
  <2> HIDE DEF w
  <2> QED BY <1>1, <1>3, <1>4, <2>1 DEF BrWindowCounted
<1>7. \A x, y \in 0..BrWindow : x <= y => brRow'[x] <= brRow'[y]
      BY <1>5 DEF BrInv
<1> QED BY <1>1, <1>6, <1>7 DEF BrInv

\* Time passes.
LEMMA BrTicks == ASSUME BrInv, BrTick PROVE BrInv'
<1> USE DEF BrInv
<1>1. /\ BrFailureThreshold \in Nat \ {0} /\ BrFailureThreshold' = BrFailureThreshold
      /\ BrWindow \in Nat /\ BrWindow' = BrWindow
      /\ BrRecovery \in Nat /\ BrRecovery' = BrRecovery
      /\ BrSuccessThreshold' = BrSuccessThreshold
      BY BrConfigured DEF BrTick, BrFailureThreshold, BrWindow, BrRecovery, BrSuccessThreshold
<1>2. /\ brInner \in BrInnerType /\ brRow \in [0..BrWindow -> Nat]
      BY DEF BrTypeOK
<1>3. brInner' = [brInner EXCEPT !.windowAge = BrOlder(brInner.windowAge, BrWindow),
                                 !.openAge = BrOlder(brInner.openAge, BrRecovery)]
      BY DEF BrTick
<1>4. /\ BrOlder(brInner.windowAge, BrWindow) \in 0..(BrWindow + 1)
      /\ BrOlder(brInner.openAge, BrRecovery) \in 0..(BrRecovery + 1)
  <2>1. brInner.windowAge \in 0..(BrWindow + 1) /\ brInner.openAge \in 0..(BrRecovery + 1)
        BY <1>2 DEF BrInnerType
  <2>2. \A n \in Nat : \A k \in 0..(n + 1) : BrOlder(k, n) \in 0..(n + 1)
        BY DEF BrOlder
  <2> QED BY <1>1, <2>1, <2>2
<1>5. /\ brInner' \in BrInnerType /\ brInner'.state = brInner.state
      /\ brInner'.failures = brInner.failures
      /\ brInner'.windowAge = BrOlder(brInner.windowAge, BrWindow)
      BY <1>2, <1>3, <1>4, BrAges, Zenon
<1>6. brRow' = [a \in 0..BrWindow |-> IF a = 0 THEN 0 ELSE brRow[a - 1]]
      BY DEF BrTick
<1>7. /\ brRow' \in [0..BrWindow -> Nat]
      /\ brRow'[0] = 0
      /\ \A a \in 0..BrWindow : a # 0 => a - 1 \in 0..BrWindow /\ brRow'[a] = brRow[a - 1]
      BY <1>1, <1>2, <1>6
<1>8. BrTypeOK'
      BY <1>1, <1>5, <1>7 DEF BrTypeOK, BrTick, BrInnerType
<1>9. \A a, b \in 0..BrWindow : a <= b => brRow'[a] <= brRow'[b]
  <2> SUFFICES ASSUME NEW a \in 0..BrWindow, NEW b \in 0..BrWindow, a <= b
               PROVE  brRow'[a] <= brRow'[b]
      OBVIOUS
  <2>1. CASE a = 0
        BY <2>1, <1>7
  <2>2. CASE a # 0
        BY <2>2, <1>1, <1>2, <1>7
  <2> QED BY <2>1, <2>2
<1>10. CASE brInner.state # "closed"
  <2>1. brRow' = BrNoRow'
        BY <1>10, <1>1, <1>2, <1>6 DEF BrNoRow
  <2> QED BY <1>10, <1>1, <1>5, <1>8, <1>9, <2>1
<1>11. CASE brInner.state = "closed"
  <2>1. BrWindowCounted /\ brInner.windowAge \in 0..(BrWindow + 1) /\ brInner.failures \in Nat
        BY <1>11, <1>2 DEF BrInnerType
  <2>2. brRow[BrWindow] \in Nat /\ brRow'[BrWindow] \in Nat /\ brRow'[BrWindow] <= brRow[BrWindow]
        BY <1>1, <1>2, <1>7
  <2>3. ASSUME brInner.windowAge < BrWindow PROVE BrWindowCounted'
    <3> DEFINE w == brInner.windowAge
    <3>1. /\ brInner'.windowAge = w + 1 /\ w + 1 \in 0..BrWindow /\ w \in 0..BrWindow
          BY <1>1, <1>5, <2>1, <2>3 DEF BrOlder
    <3>2. brRow'[w + 1] = brRow[w] /\ brRow[w] \in Nat
          BY <3>1, <1>2, <1>7
    <3>3. /\ brInner.failures < BrFailureThreshold /\ brRow[w] <= brInner.failures
          /\ brRow[BrWindow] - brRow[w] < BrFailureThreshold
          BY <3>1, <2>1, <2>3 DEF BrWindowCounted
    <3>4. /\ brRow'[brInner'.windowAge] = brRow[w] /\ brInner'.windowAge <= BrWindow'
          BY <3>1, <3>2, <1>1
    <3> HIDE DEF w
    <3>5. brRow'[BrWindow'] - brRow[w] < BrFailureThreshold'
          BY <3>2, <3>3, <1>1, <2>2
    <3>6. brInner'.failures < BrFailureThreshold' /\ brRow[w] <= brInner'.failures
          BY <3>3, <1>1, <1>5
    <3> QED BY <3>4, <3>5, <3>6 DEF BrWindowCounted
  <2>4. ASSUME brInner.windowAge >= BrWindow PROVE BrWindowCounted'
    <3>1. brInner'.windowAge = BrWindow + 1
          BY <1>1, <1>5, <2>1, <2>4 DEF BrOlder
    <3>2. brRow[BrWindow] <= brInner.failures /\ brInner.failures < BrFailureThreshold
      <4>1. CASE brInner.windowAge = BrWindow
            BY <4>1, <1>1, <2>1 DEF BrWindowCounted
      <4>2. CASE brInner.windowAge # BrWindow
            BY <4>2, <1>1, <2>1, <2>4 DEF BrWindowCounted
      <4> QED BY <4>1, <4>2
    <3>3. brRow'[BrWindow'] <= brInner'.failures /\ ~(brInner'.windowAge <= BrWindow')
          BY <3>1, <3>2, <1>1, <1>5, <2>1, <2>2
    <3>4. brInner'.failures < BrFailureThreshold' /\ brRow'[0] = 0
          BY <3>2, <1>1, <1>5, <1>7
    <3> QED BY <3>3, <3>4 DEF BrWindowCounted
  <2>5. BrWindowCounted'
        BY <1>1, <2>1, <2>3, <2>4
  <2> QED BY <1>11, <1>1, <1>5, <1>8, <1>9, <2>5
<1> QED BY <1>10, <1>11

\* Every step of a call, of the dependency or of time keeps the invariant.
LEMMA BrInvStep == BrInv /\ [BrNext]_brVars => BrInv'
<1> SUFFICES ASSUME BrInv, [BrNext]_brVars PROVE BrInv'
    OBVIOUS
<1> DEFINE b == BrUpdated(brInner)
<1>1. CASE UNCHANGED brVars
      BY <1>1 DEF brVars, BrInv, BrTypeOK, BrInnerType, BrNoRow, BrWindowCounted, BrFailureThreshold,
         BrSuccessThreshold, BrWindow, BrRecovery
<1>2. BrTypeOK /\ b \in BrInnerType
      BY BrUpdates DEF BrInv
<1>3. UNCHANGED brConfig =>
        /\ BrFailureThreshold \in Nat \ {0} /\ BrFailureThreshold' = BrFailureThreshold
        /\ BrSuccessThreshold \in Nat \ {0} /\ BrSuccessThreshold' = BrSuccessThreshold
        /\ BrWindow \in Nat /\ BrWindow' = BrWindow
        /\ BrRecovery \in Nat /\ BrRecovery' = BrRecovery
        /\ BrInnerType' = BrInnerType /\ BrNoRow' = BrNoRow
      BY <1>2, BrConfigured
      DEF BrFailureThreshold, BrSuccessThreshold, BrWindow, BrRecovery, BrInnerType, BrNoRow
<1>4. ASSUME NEW c \in BrCalls, BrAsk(c) PROVE BrInv'
  <2>1. brInner' = b /\ brRow' = brRow /\ UNCHANGED <<brConfig, brUp>>
        /\ brCall' \in [BrCalls -> {"idle", "out"}]
        BY <1>4, <1>2 DEF BrAsk, BrTypeOK
  <2>2. BrTypeOK'
        BY <2>1, <1>2, <1>3 DEF BrTypeOK
  <2>3. brInner'.state = "closed" => BrWindowCounted'
    <3> SUFFICES ASSUME b.state = "closed" PROVE BrWindowCounted'
        BY <2>1
    <3> QED BY <2>1, <1>3, BrUpdates DEF BrWindowCounted
  <2>4. brInner'.state # "closed" => brRow' = BrNoRow'
        BY <2>1, <1>3, BrUpdates DEF BrInv
  <2> QED BY <2>1, <2>2, <2>3, <2>4, <1>3 DEF BrInv
<1>5. ASSUME NEW c \in BrCalls, BrRecordSuccess(c) PROVE BrInv'
  <2>1. brInner' = BrSuccess(b) /\ brRow' = BrNoRow /\ UNCHANGED <<brConfig, brUp>>
        /\ brCall' \in [BrCalls -> {"idle", "out"}]
        BY <1>5, <1>2 DEF BrRecordSuccess, BrTypeOK
  <2>2. BrSuccess(b) \in BrInnerType
        BY <1>2, BrAfterSuccess
  <2>3. BrTypeOK' /\ brRow' = BrNoRow'
        BY <2>1, <2>2, <1>2, <1>3 DEF BrTypeOK, BrNoRow
  <2>4. BrSuccess(b).state = "closed" => BrSuccess(b).failures = 0
        BY <1>2, BrAfterSuccess
  <2>5. CASE brInner'.state = "closed"
    <3>1. brInner'.failures < BrFailureThreshold'
          BY <2>1, <2>4, <2>5, <1>3
    <3>2. BrNoneOnRecord'
          BY <2>3, <3>1 DEF BrNoneOnRecord
    <3> QED BY <3>2, BrNothingMissed, PTL
  <2>6. CASE brInner'.state # "closed"
        BY <2>6, <2>1, <2>3, <1>3 DEF BrInv, BrNoRow
  <2> QED BY <2>5, <2>6
<1>6. ASSUME NEW c \in BrCalls, BrRecordFailure(c) PROVE BrInv'
  <2>1. /\ brInner' = BrFailure(b) /\ UNCHANGED <<brConfig, brUp>>
        /\ brCall' \in [BrCalls -> {"idle", "out"}]
        /\ brRow' = IF brInner'.state = "closed" THEN [a \in 0..BrWindow |-> brRow[a] + 1] ELSE BrNoRow
        BY <1>6, <1>2 DEF BrRecordFailure, BrTypeOK
  <2>2. BrFailure(b) \in BrInnerType
    <3>1. b.state = "closed" => b.failures < BrFailureThreshold
          BY BrUpdates
    <3> QED BY <3>1, <1>2, BrAfterFailure
  <2>3. brRow' \in [0..BrWindow -> Nat]
        BY <2>1, <1>2 DEF BrTypeOK, BrNoRow
  <2>4. BrTypeOK'
        BY <2>1, <2>2, <2>3, <1>2, <1>3 DEF BrTypeOK
  <2>5. CASE brInner'.state = "closed"
        BY <2>1, <2>4, <2>5, BrFailureCounted
  <2>6. CASE brInner'.state # "closed"
        BY <2>1, <2>4, <2>6, <1>3 DEF BrInv, BrNoRow
  <2> QED BY <2>5, <2>6
<1>7. CASE BrDependencyChanges
      BY <1>7 DEF BrDependencyChanges, BrInv, BrTypeOK, BrInnerType, BrNoRow, BrWindowCounted,
         BrFailureThreshold, BrSuccessThreshold, BrWindow, BrRecovery
<1>8. CASE BrTick
      BY <1>8, BrTicks
<1> QED BY <1>1, <1>4, <1>5, <1>6, <1>7, <1>8 DEF BrNext, BrRecord

\* The invariant holds of every reachable state.
LEMMA BrInvariant == BrSpec => []BrInv
BY BrInvInit, BrInvStep, PTL DEF BrSpec

\* What is before the window and what is in it are each short of the threshold.
LEMMA BrInvMisses == BrInv => BrMissesBounded
<1> SUFFICES ASSUME BrInv, brInner.state = "closed"
             PROVE  brRow[BrWindow] <= 2 * (BrFailureThreshold - 1)
    BY DEF BrMissesBounded
<1>1. /\ BrFailureThreshold \in Nat \ {0} /\ BrWindow \in Nat
      /\ brInner.failures \in Nat /\ brInner.windowAge \in Nat
      BY BrConfigured DEF BrInv, BrTypeOK, BrInnerType
<1>2. brRow \in [0..BrWindow -> Nat] /\ BrWindowCounted
      BY DEF BrInv, BrTypeOK
<1> QED BY <1>1, <1>2 DEF BrWindowCounted

\* A closed circuit has missed, within any window's length, no more than twice one
\* short of the threshold, for any configuration.
THEOREM ClosedCircuitMisses == BrSpec => []BrMissesBounded
BY BrInvMisses, BrInvariant, PTL

-----------------------------------------------------------------------------
(* Readiness *)

\* A probe is answered by a process that serves, so a check fails in one that has
\* long set its marks, and a process on its way up has no failed check behind it.
HlInv ==
  /\ HlTypeOK
  /\ \A s \in HlServices : hl[s].failed => hl[s].at = "serving" /\ ~hl[s].ready
  /\ \A p \in HlProbes : hlProbe[p] # HlNoProbe => hl[hlProbe[p].of].at = "serving"

\* Every process is down at first and no probe is under way.
LEMMA HlInvInit == HlInit => HlInv
BY DEF HlInit, HlInv, HlTypeOK, HlProcess, HlDown, HlNoProbe

\* A process and what can be known of it.
LEMMA HlProcesses ==
  ASSUME HlTypeOK, NEW s \in HlServices
  PROVE  /\ hl[s] \in HlProcess
         /\ hl[s].done \in 0..2
         /\ hl[s].at \in {"down", "boot", "warm", "serving"}
         /\ hl[s].started \in BOOLEAN /\ hl[s].ready \in BOOLEAN
         /\ hl[s].cacheReady \in BOOLEAN /\ hl[s].failed \in BOOLEAN
BY DEF HlTypeOK, HlProcess

\* One process changes, none of the probes; what serves goes on serving.
LEMMA HlProcessChanges ==
  ASSUME HlInv, NEW s \in HlServices, NEW x \in HlProcess, hl' = [hl EXCEPT ![s] = x],
         UNCHANGED <<hlProbe, hlUp, hlRouted>>,
         hl[s].at # "serving", x.failed = FALSE
  PROVE  HlInv'
BY DEF HlInv, HlTypeOK

\* A process comes up, one step after another.
LEMMA HlBoots == ASSUME HlInv, NEW s \in HlServices, HlBoot(s) PROVE HlInv'
<1>1. /\ HlTypeOK /\ hl[s] \in HlProcess /\ hl[s].done \in 0..2 /\ hl[s].cacheReady \in BOOLEAN
      /\ HlDown \in HlProcess
      BY HlProcesses DEF HlInv, HlDown, HlProcess
<1>2. hl[s].at # "serving" => hl[s].failed = FALSE
      BY HlProcesses DEF HlInv
<1>3. CASE HlStart(s)
  <2>1. /\ hl' = [hl EXCEPT ![s] = [hl[s] EXCEPT !.at = "boot"]]
        /\ UNCHANGED <<hlProbe, hlUp, hlRouted>> /\ hl[s].at = "down"
        BY <1>3 DEF HlStart
  <2>2. /\ [hl[s] EXCEPT !.at = "boot"] \in HlProcess
        /\ [hl[s] EXCEPT !.at = "boot"].failed = hl[s].failed
        BY <1>1 DEF HlProcess
  <2> QED BY <1>2, <2>1, <2>2, HlProcessChanges
<1>4. CASE HlConnect(s)
  <2>1. Len(HlNeeds[s]) = 2
        BY DEF HlNeeds, HlServices
  <2> DEFINE x == IF hlUp[HlNeeds[s][hl[s].done + 1]]
                    THEN [hl[s] EXCEPT !.done = hl[s].done + 1] ELSE HlDown
  <2>2. /\ hl' = [hl EXCEPT ![s] = x]
        /\ UNCHANGED <<hlProbe, hlUp, hlRouted>> /\ hl[s].at = "boot"
    <3>1. hl' = [hl EXCEPT ![s] = x]
          BY <1>4, Zenon DEF HlConnect
    <3>2. UNCHANGED <<hlProbe, hlUp, hlRouted>> /\ hl[s].at = "boot"
          BY <1>4 DEF HlConnect
    <3> QED BY <3>1, <3>2
  <2>3. hl[s].done + 1 \in 0..2
        BY <1>1, <1>4, <2>1 DEF HlConnect
  <2>4. \A n \in 0..2 : /\ [hl[s] EXCEPT !.done = n] \in HlProcess
                        /\ [hl[s] EXCEPT !.done = n].failed = hl[s].failed
        BY <1>1 DEF HlProcess
  <2>5. x \in HlProcess /\ x.failed = FALSE
    <3>1. CASE x = HlDown
          BY <3>1, <1>1 DEF HlDown
    <3>2. CASE x = [hl[s] EXCEPT !.done = hl[s].done + 1]
          BY <3>2, <1>2, <2>2, <2>3, <2>4
    <3> QED BY <3>1, <3>2
  <2> QED BY <2>2, <2>5, HlProcessChanges
<1>5. CASE HlServe(s)
  <2> DEFINE r == (s = "registry" \/ hl[s].cacheReady)
             x == [hl[s] EXCEPT !.at = "serving", !.started = TRUE, !.ready = r]
  <2>1. /\ hl' = [hl EXCEPT ![s] = x]
        /\ UNCHANGED <<hlProbe, hlUp, hlRouted>> /\ hl[s].at # "serving"
        BY <1>5, <1>1 DEF HlServe
  <2>2. x \in HlProcess /\ x.failed = hl[s].failed
        BY <1>1 DEF HlProcess
  <2> QED BY <1>2, <2>1, <2>2, HlProcessChanges
<1>6. CASE s = "verifier" /\ HlWarmUp
  <2> DEFINE x == [hl[s] EXCEPT !.at = "warm", !.cacheReady = hlUp["redis"]]
  <2>1. /\ hl' = [hl EXCEPT ![s] = x]
        /\ UNCHANGED <<hlProbe, hlUp, hlRouted>> /\ hl[s].at # "serving"
        BY <1>6, <1>1 DEF HlWarmUp
  <2>2. hlUp["redis"] \in BOOLEAN
        BY <1>1 DEF HlTypeOK, HlStores
  <2>3. x \in HlProcess /\ x.failed = hl[s].failed
        BY <1>1, <2>2 DEF HlProcess
  <2> QED BY <1>2, <2>1, <2>3, HlProcessChanges
<1> QED BY <1>3, <1>4, <1>5, <1>6 DEF HlBoot

\* A process dies, and with it the probes it was answering.
LEMMA HlCrashes == ASSUME HlInv, NEW s \in HlServices, HlCrash(s) PROVE HlInv'
<1>1. HlDown \in HlProcess /\ HlDown.failed = FALSE
      BY DEF HlDown, HlProcess
<1>2. /\ hl' = [hl EXCEPT ![s] = HlDown] /\ UNCHANGED <<hlUp, hlRouted>>
      /\ hlProbe' = [p \in HlProbes |->
           IF hlProbe[p] # HlNoProbe /\ hlProbe[p].of = s THEN HlNoProbe ELSE hlProbe[p]]
      BY DEF HlCrash
<1>3. HlTypeOK'
      BY <1>1, <1>2 DEF HlInv, HlTypeOK
<1>4. ASSUME NEW s2 \in HlServices, hl'[s2].failed
      PROVE  hl'[s2].at = "serving" /\ ~hl'[s2].ready
      BY <1>1, <1>2, <1>4 DEF HlInv, HlTypeOK
<1>5. ASSUME NEW p \in HlProbes, hlProbe'[p] # HlNoProbe
      PROVE  hl'[hlProbe'[p].of].at = "serving"
  <2>1. hlProbe'[p] = hlProbe[p] /\ hlProbe[p].of # s /\ hlProbe[p] # HlNoProbe
        BY <1>2, <1>5
  <2>2. hlProbe[p].of \in HlServices
        BY <2>1 DEF HlInv, HlTypeOK
  <2> QED BY <2>1, <2>2, <1>2 DEF HlInv, HlTypeOK
<1> QED BY <1>3, <1>4, <1>5 DEF HlInv

\* An answer ends its probe.
LEMMA HlAnswers ==
  ASSUME HlTypeOK, NEW p \in HlProbes, NEW s \in HlServices, NEW ok \in BOOLEAN, HlAnswer(p, s, ok)
  PROVE  /\ hlProbe' \in [HlProbes -> {HlNoProbe} \cup [at : HlStores, of : HlServices]]
         /\ hlRouted' \in [HlServices -> BOOLEAN]
         /\ \A q \in HlProbes : hlProbe'[q] # HlNoProbe => hlProbe'[q] = hlProbe[q]
BY DEF HlTypeOK, HlAnswer, HlStores

\* A probe reaches a process that serves.
LEMMA HlProbesStart ==
  ASSUME HlInv, NEW p \in HlProbes, NEW s \in HlServices, HlProbeStarts(p, s)
  PROVE  HlInv'
<1>1. HlTypeOK /\ UNCHANGED <<hl, hlUp>>
      BY DEF HlInv, HlProbeStarts
<1>2. CASE HlMarkedReady(s)
  <2>1. PICK d \in HlStores : hlProbe' = [hlProbe EXCEPT ![p] = [at |-> d, of |-> s]]
        BY <1>2 DEF HlProbeStarts, HlStores
  <2>2. hl[s].at = "serving" /\ hlRouted' = hlRouted
        BY <1>2 DEF HlMarkedReady, HlProbeStarts
  <2>3. [at |-> d, of |-> s] \in [at : {"postgres", "redis"}, of : HlServices]
        BY DEF HlStores
  <2> QED BY <1>1, <2>1, <2>2, <2>3 DEF HlInv, HlTypeOK
<1>3. CASE ~HlMarkedReady(s)
  <2>1. HlAnswer(p, s, FALSE)
        BY <1>3 DEF HlProbeStarts
  <2> QED BY <1>1, <2>1, HlAnswers DEF HlInv, HlTypeOK, HlStores
<1> QED BY <1>2, <1>3

\* A check has failed, in the midst of a probe of a serving process.
LEMMA HlFails ==
  ASSUME HlInv, NEW p \in HlProbes, hlProbe[p] # HlNoProbe, NEW s, s = hlProbe[p].of,
         HlCheckFailed(s), HlAnswer(p, s, FALSE), UNCHANGED hlUp
  PROVE  HlInv'
<1>1. HlTypeOK /\ s \in HlServices /\ hl[s].at = "serving"
      BY DEF HlInv, HlTypeOK
<1>2. hl[s] \in HlProcess /\ hl[s].cacheReady \in BOOLEAN
      BY <1>1, HlProcesses
<1> DEFINE c == IF s = "verifier" THEN FALSE ELSE hl[s].cacheReady
           x == [hl[s] EXCEPT !.failed = TRUE, !.ready = FALSE, !.cacheReady = c]
<1>3. hl' = [hl EXCEPT ![s] = x]
      BY <1>1 DEF HlCheckFailed, HlTypeOK
<1>4. c \in BOOLEAN
      BY <1>2
<1> HIDE DEF c
<1>5. x \in HlProcess /\ x.at = hl[s].at /\ x.ready = FALSE
      BY <1>2, <1>4 DEF HlProcess
<1> HIDE DEF x
<1>6. /\ hlProbe' \in [HlProbes -> {HlNoProbe} \cup [at : HlStores, of : HlServices]]
      /\ hlRouted' \in [HlServices -> BOOLEAN]
      /\ \A q \in HlProbes : hlProbe'[q] # HlNoProbe => hlProbe'[q] = hlProbe[q]
      BY <1>1, HlAnswers
<1>7. HlTypeOK'
      BY <1>1, <1>3, <1>5, <1>6 DEF HlTypeOK, HlStores
<1>8. ASSUME NEW s2 \in HlServices, hl'[s2].failed
      PROVE  hl'[s2].at = "serving" /\ ~hl'[s2].ready
      BY <1>1, <1>3, <1>5, <1>8 DEF HlInv, HlTypeOK
<1>9. ASSUME NEW q \in HlProbes, hlProbe'[q] # HlNoProbe
      PROVE  hl'[hlProbe'[q].of].at = "serving"
  <2>1. hlProbe'[q] = hlProbe[q] /\ hl[hlProbe[q].of].at = "serving" /\ hlProbe[q].of \in HlServices
        BY <1>6, <1>9 DEF HlInv, HlTypeOK
  <2> QED BY <2>1, <1>1, <1>3, <1>5 DEF HlTypeOK
<1> QED BY <1>7, <1>8, <1>9 DEF HlInv

\* A probe makes its next check.
LEMMA HlChecks == ASSUME HlInv, NEW p \in HlProbes, HlProbeGoesOn(p) PROVE HlInv'
<1>1. /\ HlTypeOK /\ UNCHANGED hlUp
      /\ hlProbe[p].at \in {"postgres", "redis"}
      BY DEF HlInv, HlProbeGoesOn, HlCheckPostgres, HlCheckRedis
<1>2. hlProbe[p] # HlNoProbe
      BY <1>1 DEF HlNoProbe
<1>3. hlProbe[p] \in [at : {"postgres", "redis"}, of : HlServices] /\ hlProbe[p].of \in HlServices
      BY <1>1, <1>2 DEF HlTypeOK
<1>4. CASE /\ hlProbe' = [hlProbe EXCEPT ![p].at = "redis"]
           /\ UNCHANGED <<hl, hlRouted>>
  <2>1. /\ [hlProbe[p] EXCEPT !.at = "redis"] \in [at : {"postgres", "redis"}, of : HlServices]
        /\ [hlProbe[p] EXCEPT !.at = "redis"].of = hlProbe[p].of
        BY <1>3
  <2> QED BY <1>1, <1>2, <1>4, <2>1 DEF HlInv, HlTypeOK
<1>5. CASE HlAnswer(p, hlProbe[p].of, TRUE) /\ UNCHANGED hl
      BY <1>1, <1>3, <1>5, HlAnswers DEF HlInv, HlTypeOK, HlStores
<1>6. CASE HlCheckFailed(hlProbe[p].of) /\ HlAnswer(p, hlProbe[p].of, FALSE)
      BY <1>1, <1>2, <1>6, HlFails
<1> QED BY <1>4, <1>5, <1>6 DEF HlProbeGoesOn, HlCheckPostgres, HlCheckRedis

\* Every step keeps the invariant.
LEMMA HlInvStep == HlInv /\ [HlNext]_hlVars => HlInv'
<1> SUFFICES ASSUME HlInv, [HlNext]_hlVars PROVE HlInv'
    OBVIOUS
<1>1. CASE UNCHANGED hlVars
      BY <1>1 DEF hlVars, HlInv, HlTypeOK
<1>2. ASSUME NEW s \in HlServices, HlBoot(s) PROVE HlInv'
      BY <1>2, HlBoots
<1>3. ASSUME NEW s \in HlServices, HlCrash(s) PROVE HlInv'
      BY <1>3, HlCrashes
<1>4. ASSUME NEW p \in HlProbes, NEW s \in HlServices, HlProbeStarts(p, s) PROVE HlInv'
      BY <1>4, HlProbesStart
<1>5. ASSUME NEW p \in HlProbes, HlProbeGoesOn(p) PROVE HlInv'
      BY <1>5, HlChecks
<1>6. ASSUME NEW d \in HlStores, HlStoreChanges(d) PROVE HlInv'
      BY <1>6 DEF HlStoreChanges, HlInv, HlTypeOK
<1> QED BY <1>1, <1>2, <1>3, <1>4, <1>5, <1>6 DEF HlNext

\* The invariant holds of every reachable state.
LEMMA HlInvariant == HlSpec => []HlInv
BY HlInvInit, HlInvStep, PTL DEF HlSpec

\* A process whose check has failed has no mark left.
LEMMA HlInvFailed == HlInv => HlFailedStaysOut
BY DEF HlInv, HlFailedStaysOut, HlMarkedReady

\* A registry or verifier that has failed one readiness check since it came up is
\* never again marked ready, however probes overlap, stores go and come back and
\* processes restart beside it: nothing but a boot sets the mark (handlers.rs,
\* readiness; health.rs).
THEOREM FailedStaysOut == HlSpec => []HlFailedStaysOut
BY HlInvFailed, HlInvariant, PTL

-----------------------------------------------------------------------------
(* Registration *)

\* A request that may still insert.
RegPending(h) == regOp[h].at \in {"exists", "insert"}

RegAuthentic(x) == x.by \in RegOtps \/ RegVerified(x.m, x.by)

\* The unique index, and a row without its own key's signature or a password.
RegRowsOK ==
  /\ \A a, b \in RegAgents : RegTaken(a) /\ RegTaken(b) /\ a # b =>
       primary[a].m.name # primary[b].m.name
  /\ \A a \in RegAgents : RegTaken(a) => RegAuthentic(primary[a])
  /\ \A h \in RegTasks : regOp[h].at = "insert" => RegAuthentic(regOp[h])

\* No replica has a row the primary does not have.
RegStreamsPast ==
  \A r \in Replicas : \A i \in 1..Len(stream[r]) : \A a \in RegAgents :
    stream[r][i][a] # RegAbsent => RegTaken(a)

\* A password is with one request, or on one row, and gone from Redis then.
RegOtpHeld ==
  /\ \A h \in RegTasks : RegPending(h) /\ regOp[h].by \in RegOtps =>
       /\ regOtp[regOp[h].by] = "gone"
       /\ \A k \in RegTasks : RegPending(k) /\ regOp[k].by = regOp[h].by => k = h
       /\ \A a \in RegAgents : RegTaken(a) => primary[a].by # regOp[h].by
  /\ \A a \in RegAgents : RegTaken(a) /\ primary[a].by \in RegOtps =>
       /\ regOtp[primary[a].by] = "gone"
       /\ \A b \in RegAgents : RegTaken(b) /\ primary[b].by = primary[a].by => b = a

\* An agent that a deletion found inactive is active now only if it was
\* registered meanwhile.
RegRechecks ==
  \A h \in RegTasks : regOp[h].at = "recheck" /\ primary[regOp[h].a].active =>
    regOp[h].a \in regRaced

RegInv ==
  /\ RegTypeOK
  /\ \A r \in Replicas : stream[r] # <<>>
  /\ RegRowsOK
  /\ RegStreamsPast
  /\ RegOtpHeld
  /\ RegRechecks
  /\ RegDeletionHolds

\* The fields of an operation, by where it stands.
LEMMA RegFields ==
  ASSUME NEW o \in RegOperation
  PROVE  /\ o.at \in {"idle", "exists", "insert", "recheck"}
         /\ o.at \in {"exists", "insert"} =>
              o.m \in RegManifests /\ o.by \in RegOtps \cup RegSigners
         /\ o.at = "recheck" => o.a \in RegAgents
<1>1. CASE o = RegIdle
      BY <1>1 DEF RegIdle
<1>2. CASE o \in [at : {"exists", "insert"}, m : RegManifests, by : RegOtps \cup RegSigners]
      BY <1>2
<1>3. CASE o \in [at : {"recheck"}, a : RegAgents]
      BY <1>3
<1> QED BY <1>1, <1>2, <1>3 DEF RegOperation

\* The operations there are.
LEMMA RegOperations ==
  /\ RegIdle \in RegOperation /\ RegIdle.at = "idle"
  /\ \A at \in {"exists", "insert"}, m \in RegManifests, k \in RegOtps \cup RegSigners :
       [at |-> at, m |-> m, by |-> k] \in RegOperation
  /\ \A a \in RegAgents : [at |-> "recheck", a |-> a] \in RegOperation
BY DEF RegOperation, RegIdle

\* A key is not a password.
LEMMA RegApart == \A k \in RegSigners : k \notin RegOtps
BY RegAssumption DEF RegSigners

\* A row is never taken for the absence of one.
LEMMA RegRowThere == \A w \in RegRow : w # RegAbsent
<1>1. ASSUME NEW w \in RegRow PROVE w # RegAbsent
  <2>1. DOMAIN w = {"active", "m", "by"}
        BY DEF RegRow
  <2>2. DOMAIN RegAbsent = {"active", "m"}
        BY DEF RegAbsent
  <2> QED BY <2>1, <2>2
<1> QED BY <1>1

\* There are no agents and no passwords in use.
LEMMA RegInvInit == RegInit => RegInv
<1> SUFFICES ASSUME RegInit PROVE RegInv
    OBVIOUS
<1>1. /\ primary = [a \in RegAgents |-> RegAbsent]
      /\ stream = [r \in Replicas |-> <<primary>>]
      /\ regOp = [h \in RegTasks |-> RegIdle]
      /\ regOtp = [o \in RegOtps |-> "unissued"]
      /\ regTold = {} /\ regRaced = {}
      BY DEF RegInit, DbInit
<1>2. primary \in RegTable
      BY <1>1 DEF RegTable
<1>3. \A r \in Replicas : stream[r] \in Seq(RegTable) /\ stream[r] # <<>>
  <2>1. \A t \in RegTable : <<t>> \in Seq(RegTable) /\ <<t>> # <<>>
        OBVIOUS
  <2>2. \A r \in Replicas : stream[r] = <<primary>>
        BY <1>1
  <2> QED BY <1>2, <2>1, <2>2
<1>4. RegTypeOK
      BY <1>1, <1>2, <1>3, RegOperations DEF RegTypeOK
<1>5. \A r \in Replicas : \A i \in 1..Len(stream[r]) : stream[r][i] = primary
      BY <1>1, <1>2
<1>6. RegStreamsPast
      BY <1>5 DEF RegStreamsPast, RegTaken
<1>7. \A a \in RegAgents : ~RegTaken(a)
      BY <1>1 DEF RegTaken
<1>8. \A h \in RegTasks : ~RegPending(h) /\ regOp[h].at = "idle"
      BY <1>1 DEF RegPending, RegIdle
<1>9. RegRowsOK /\ RegOtpHeld /\ RegRechecks /\ RegDeletionHolds
      BY <1>1, <1>7, <1>8 DEF RegRowsOK, RegOtpHeld, RegRechecks, RegDeletionHolds
<1> QED BY <1>3, <1>4, <1>6, <1>9 DEF RegInv

\* Where the tables stay, a request that only gets on keeps the invariant.
LEMMA RegMove ==
  ASSUME RegInv, NEW h \in RegTasks, NEW o \in RegOperation, RegGoto(h, o),
         UNCHANGED <<dbVars, regOtp, regRaced, regTold>>,
         o.at = "insert" => RegAuthentic(o),
         o.at \in {"exists", "insert"} /\ o.by \in RegOtps =>
           RegPending(h) /\ o.by = regOp[h].by,
         o.at = "recheck" => ~primary[o.a].active
  PROVE  RegInv'
<1>1. /\ regOp \in [RegTasks -> RegOperation]
      /\ regOp' \in [RegTasks -> RegOperation]
      /\ \A k \in RegTasks : regOp'[k] = IF k = h THEN o ELSE regOp[k]
      BY DEF RegInv, RegTypeOK, RegGoto
<1>2. UNCHANGED <<primary, stream, regOtp, regRaced, regTold>>
      BY DEF dbVars
<1>3. RegTypeOK'
      BY <1>1, <1>2 DEF RegInv, RegTypeOK
<1>4. RegRowsOK'
      BY <1>1, <1>2 DEF RegInv, RegRowsOK, RegTaken, RegAuthentic, RegVerified
<1>5. RegStreamsPast' /\ RegDeletionHolds' /\ \A r \in Replicas : stream'[r] # <<>>
      BY <1>2 DEF RegInv, RegStreamsPast, RegTaken, RegDeletionHolds
<1>6. RegOtpHeld'
  <2>1. \A k \in RegTasks : RegPending(k)' /\ regOp'[k].by \in RegOtps =>
          RegPending(k) /\ regOp'[k].by = regOp[k].by
        BY <1>1 DEF RegPending
  <2> QED BY <1>1, <1>2, <2>1 DEF RegInv, RegOtpHeld, RegTaken
<1>7. RegRechecks'
      BY <1>1, <1>2 DEF RegInv, RegRechecks
<1> QED BY <1>3, <1>4, <1>5, <1>6, <1>7 DEF RegInv

\* A request that goes on and leaves the primary alone, or adds or closes one
\* row.
LEMMA RegMoves ==
  ASSUME RegInv, NEW h \in RegTasks,
         \/ RegStart(h) \/ RegExists(h) \/ RegBreakOff(h)
         \/ RegInsert(h) /\ UNCHANGED <<dbVars, regRaced>>
         \/ RegDelete(h) /\ UNCHANGED <<dbVars, regTold>>
  PROVE  RegInv'
<1>a. /\ regOp[h] \in RegOperation
      /\ regOp[h].at = "insert" => RegAuthentic(regOp[h])
      BY DEF RegInv, RegTypeOK, RegRowsOK
<1>b. RegIdle.at = "idle" /\ RegIdle \in RegOperation
      BY RegOperations
<1>c. RegGoto(h, RegIdle) /\ UNCHANGED <<dbVars, regOtp, regRaced, regTold>> => RegInv'
      BY <1>b, RegMove
<1>1. CASE RegStart(h)
  <2>1. PICK m \in RegManifests, k \in RegSigners : RegGoto(h, [at |-> "exists", m |-> m, by |-> k])
        BY <1>1 DEF RegStart
  <2> DEFINE o == [at |-> "exists", m |-> m, by |-> k]
  <2>2. o \in RegOperation /\ o.at = "exists" /\ o.by \notin RegOtps
        BY RegOperations, RegApart
  <2>3. UNCHANGED <<dbVars, regOtp, regRaced, regTold>>
        BY <1>1 DEF RegStart, regRest
  <2> HIDE DEF o
  <2>4. RegGoto(h, o)
        BY <2>1 DEF o
  <2> QED BY <2>2, <2>3, <2>4, RegMove
<1>2. CASE RegExists(h)
  <2> DEFINE c == regOp[h]
             o == [c EXCEPT !.at = "insert"]
  <2>1. UNCHANGED <<dbVars, regOtp, regRaced, regTold>> /\ c.at = "exists"
        BY <1>2 DEF RegExists, regRest
  <2>2. CASE RegGoto(h, RegIdle)
        BY <2>1, <2>2, <1>c
  <2>3. CASE (c.by \in RegOtps \/ RegVerified(c.m, c.by)) /\ RegGoto(h, o)
    <3>1. c \in [at : {"exists", "insert"}, m : RegManifests, by : RegOtps \cup RegSigners]
          BY <1>a, <2>1 DEF RegOperation, RegIdle
    <3>2. o \in [at : {"exists", "insert"}, m : RegManifests, by : RegOtps \cup RegSigners]
          BY <3>1
    <3>3. o.at = "insert" /\ o.m = c.m /\ o.by = c.by
          BY <3>1
    <3>4. o \in RegOperation
          BY <3>2 DEF RegOperation
    <3>5. RegPending(h) /\ RegAuthentic(o)
          BY <2>1, <2>3, <3>3 DEF RegPending, RegAuthentic
    <3> HIDE DEF o
    <3> QED BY <2>1, <2>3, <3>3, <3>4, <3>5, RegMove
  <2> QED BY <1>2, <2>2, <2>3 DEF RegExists
<1>3. CASE RegBreakOff(h)
      BY <1>3, <1>c DEF RegBreakOff, regRest
<1>4. CASE RegInsert(h) /\ UNCHANGED <<dbVars, regRaced>>
      BY <1>4, <1>c DEF RegInsert
<1>5. CASE RegDelete(h) /\ UNCHANGED <<dbVars, regTold>>
  <2>1. UNCHANGED <<dbVars, regOtp, regRaced, regTold>>
        BY <1>5 DEF RegDelete
  <2>2. PICK a \in RegAgents :
          \/ primary[a].active /\ Commit([primary EXCEPT ![a].active = FALSE]) /\ UNCHANGED regOp
          \/ ~primary[a].active /\ RegGoto(h, [at |-> "recheck", a |-> a])
        BY <1>5 DEF RegDelete
  <2>3. CASE UNCHANGED regOp
        BY <2>1, <2>3 DEF dbVars, RegInv, RegTypeOK, RegRowsOK, RegStreamsPast, RegOtpHeld,
           RegRechecks, RegDeletionHolds, RegPending, RegTaken, RegAuthentic
  <2>4. CASE ~primary[a].active /\ RegGoto(h, [at |-> "recheck", a |-> a])
    <3> DEFINE o == [at |-> "recheck", a |-> a]
    <3>1. o \in RegOperation /\ o.at = "recheck" /\ o.a = a
          BY RegOperations
    <3> HIDE DEF o
    <3>2. RegGoto(h, o)
          BY <2>4 DEF o
    <3> QED BY <2>1, <2>4, <3>1, <3>2, RegMove
  <2> QED BY <2>2, <2>3, <2>4
<1> QED BY <1>1, <1>2, <1>3, <1>4, <1>5

\* The password leaves Redis, and is with this request only.
LEMMA RegBootstraps == ASSUME RegInv, NEW h \in RegTasks, RegBootstrap(h) PROVE RegInv'
<1>1. PICK m \in RegManifests, o \in RegOtps :
        /\ regOtp[o] = "live" /\ regOtp' = [regOtp EXCEPT ![o] = "gone"]
        /\ RegGoto(h, [at |-> "exists", m |-> m, by |-> o])
      BY DEF RegBootstrap
<1> DEFINE c == [at |-> "exists", m |-> m, by |-> o]
<1>2. c \in RegOperation /\ c.at = "exists" /\ c.by = o
      BY RegOperations
<1>3. UNCHANGED <<primary, stream, regRaced, regTold>>
      BY DEF RegBootstrap, dbVars, regRest
<1>4. regOp' = [regOp EXCEPT ![h] = c]
      BY <1>1 DEF RegGoto
<1> HIDE DEF c
<1>5. /\ regOp \in [RegTasks -> RegOperation] /\ regOp' \in [RegTasks -> RegOperation]
      /\ \A k \in RegTasks : regOp'[k] = IF k = h THEN c ELSE regOp[k]
      BY <1>2, <1>4 DEF RegInv, RegTypeOK
<1>6. /\ regOtp' \in [RegOtps -> {"unissued", "live", "gone"}]
      /\ regOtp'[o] = "gone" /\ \A q \in RegOtps : regOtp[q] = "gone" => regOtp'[q] = "gone"
      BY <1>1 DEF RegInv, RegTypeOK
<1>7. RegTypeOK'
      BY <1>3, <1>5, <1>6 DEF RegInv, RegTypeOK
<1>8. RegRowsOK'
      BY <1>2, <1>3, <1>5 DEF RegInv, RegRowsOK, RegTaken, RegAuthentic, RegVerified
<1>9. RegStreamsPast' /\ RegDeletionHolds' /\ \A r \in Replicas : stream'[r] # <<>>
      BY <1>3 DEF RegInv, RegStreamsPast, RegTaken, RegDeletionHolds
<1>10. RegOtpHeld'
  <2>1. /\ \A k \in RegTasks : RegPending(k) => regOp[k].by # o
        /\ \A a \in RegAgents : RegTaken(a) => primary[a].by # o
        BY <1>1 DEF RegInv, RegOtpHeld
  <2>2. \A k \in RegTasks : RegPending(k)' <=> k = h \/ RegPending(k)
        BY <1>2, <1>5 DEF RegPending
  <2>3. ASSUME NEW k \in RegTasks, RegPending(k)', regOp'[k].by \in RegOtps
        PROVE  /\ regOtp'[regOp'[k].by] = "gone"
               /\ \A j \in RegTasks : RegPending(j)' /\ regOp'[j].by = regOp'[k].by => j = k
               /\ \A a \in RegAgents : RegTaken(a)' => primary'[a].by # regOp'[k].by
    <3>1. CASE k = h
          BY <3>1, <2>1, <2>2, <1>2, <1>3, <1>5, <1>6 DEF RegTaken
    <3>2. CASE k # h
      <4>1. /\ RegPending(k) /\ regOp'[k] = regOp[k] /\ regOp[k].by \in RegOtps
            /\ regOp[k].by # o
            BY <3>2, <2>1, <2>2, <2>3, <1>5
      <4>2. /\ regOtp[regOp[k].by] = "gone"
            /\ \A j \in RegTasks : RegPending(j) /\ regOp[j].by = regOp[k].by => j = k
            /\ \A a \in RegAgents : RegTaken(a) => primary[a].by # regOp[k].by
            BY <4>1 DEF RegInv, RegOtpHeld
      <4> QED BY <4>1, <4>2, <2>2, <1>2, <1>3, <1>5, <1>6 DEF RegTaken
    <3> QED BY <3>1, <3>2
  <2>4. \A a \in RegAgents : RegTaken(a)' /\ primary'[a].by \in RegOtps =>
          /\ regOtp'[primary'[a].by] = "gone"
          /\ \A b \in RegAgents : RegTaken(b)' /\ primary'[b].by = primary'[a].by => b = a
        BY <1>3, <1>6 DEF RegTaken, RegInv, RegOtpHeld
  <2> QED BY <2>3, <2>4 DEF RegOtpHeld
<1>11. RegRechecks'
      BY <1>2, <1>3, <1>5 DEF RegInv, RegRechecks
<1> QED BY <1>7, <1>8, <1>9, <1>10, <1>11 DEF RegInv

\* A password is issued, or its time is over.
LEMMA RegOtpTurns ==
  ASSUME RegInv, NEW o \in RegOtps, RegStoreOtp(o) \/ RegOtpExpires(o)
  PROVE  RegInv'
<1>1. UNCHANGED <<primary, stream, regOp, regRaced, regTold>>
      BY DEF RegStoreOtp, RegOtpExpires, dbVars, regRest
<1>2. /\ regOtp' \in [RegOtps -> {"unissued", "live", "gone"}]
      /\ \A q \in RegOtps : regOtp[q] = "gone" => regOtp'[q] = "gone"
      BY DEF RegStoreOtp, RegOtpExpires, RegInv, RegTypeOK
<1>3. RegTypeOK' /\ RegRowsOK' /\ RegStreamsPast' /\ RegRechecks' /\ RegDeletionHolds'
      BY <1>1, <1>2 DEF RegInv, RegTypeOK, RegRowsOK, RegStreamsPast, RegRechecks,
         RegDeletionHolds, RegTaken, RegAuthentic
<1>4. RegOtpHeld'
      BY <1>1, <1>2 DEF RegInv, RegOtpHeld, RegPending, RegTaken
<1> QED BY <1>1, <1>3, <1>4 DEF RegInv

\* A replica catches up.
LEMMA RegReplicates == ASSUME RegInv, RegReplicate PROVE RegInv'
<1>1. PICK q \in Replicas : Replicate(q)
      BY DEF RegReplicate
<1>2. UNCHANGED <<primary, regOp, regOtp, regRaced, regTold>>
      BY <1>1 DEF RegReplicate, regRest, Replicate
<1>3. /\ stream \in [Replicas -> Seq(RegTable)]
      /\ \A r \in Replicas : stream[r] # <<>>
      BY DEF RegInv, RegTypeOK
<1>4. /\ stream' \in [Replicas -> Seq(RegTable)]
      /\ \A r \in Replicas : stream'[r] # <<>>
      /\ \A r \in Replicas : \A i \in 1..Len(stream'[r]) :
           \E j \in 1..Len(stream[r]) : stream'[r][i] = stream[r][j]
      BY <1>1, <1>3, ReplicateStreams
<1>5. RegTypeOK'
      BY <1>2, <1>4 DEF RegInv, RegTypeOK
<1>6. RegStreamsPast'
  <2> SUFFICES ASSUME NEW r \in Replicas, NEW i \in 1..Len(stream'[r]), NEW a \in RegAgents,
                      stream'[r][i][a] # RegAbsent
               PROVE  RegTaken(a)'
      BY DEF RegStreamsPast
  <2>1. PICK j \in 1..Len(stream[r]) : stream'[r][i] = stream[r][j]
        BY <1>4
  <2> QED BY <2>1, <1>2 DEF RegInv, RegStreamsPast, RegTaken
<1>7. RegRowsOK' /\ RegOtpHeld' /\ RegRechecks' /\ RegDeletionHolds'
      BY <1>2 DEF RegInv, RegRowsOK, RegOtpHeld, RegRechecks, RegDeletionHolds, RegPending,
         RegTaken, RegAuthentic
<1> QED BY <1>4, <1>5, <1>6, <1>7 DEF RegInv

\* A deletion that found no active agent looks at a replica.
LEMMA RegLooksAgain == ASSUME RegInv, NEW h \in RegTasks, RegRecheck(h) PROVE RegInv'
<1>1. PICK t \in Views :
        regTold' = IF t[regOp[h].a] = RegAbsent THEN regTold ELSE regTold \cup {regOp[h].a}
      BY DEF RegRecheck
<1>2. /\ UNCHANGED <<primary, stream, regOtp, regRaced>> /\ regOp[h].at = "recheck"
      /\ regOp' = [regOp EXCEPT ![h] = RegIdle]
      BY DEF RegRecheck, dbVars, RegGoto
<1>3. /\ regOp \in [RegTasks -> RegOperation] /\ regOp' \in [RegTasks -> RegOperation]
      /\ \A k \in RegTasks : regOp'[k] = regOp[k] \/ regOp'[k].at = "idle"
      BY <1>2, RegOperations DEF RegInv, RegTypeOK
<1>4. regOp[h].a \in RegAgents
      BY <1>2, <1>3, RegFields
<1>5. \A a \in RegAgents : t[a] # RegAbsent => RegTaken(a)
  <2>1. /\ stream \in [Replicas -> Seq(RegTable)]
        /\ \A r \in Replicas : stream[r] # <<>>
        BY DEF RegInv, RegTypeOK
  <2>2. \/ t = primary
        \/ \E r \in Replicas : \E i \in 1..Len(stream[r]) : t = stream[r][i]
        BY <2>1, ViewIsPast
  <2> QED BY <2>2 DEF RegInv, RegStreamsPast, RegTaken
<1>6. regTold' \subseteq RegAgents
      BY <1>1, <1>4 DEF RegInv, RegTypeOK
<1>7. RegTypeOK'
      BY <1>2, <1>3, <1>6 DEF RegInv, RegTypeOK
<1>8. RegDeletionHolds'
  <2> SUFFICES ASSUME NEW a \in regTold'
               PROVE  primary[a] # RegAbsent /\ (primary[a].active => a \in regRaced)
      BY <1>2 DEF RegDeletionHolds
  <2>1. CASE a \in regTold
        BY <2>1 DEF RegInv, RegDeletionHolds
  <2>2. CASE a \notin regTold
    <3>1. a = regOp[h].a /\ t[a] # RegAbsent
          BY <1>1, <2>2
    <3>2. primary[a] # RegAbsent
          BY <3>1, <1>4, <1>5 DEF RegTaken
    <3>3. primary[a].active => a \in regRaced
          BY <3>1, <1>2 DEF RegInv, RegRechecks
    <3> QED BY <3>2, <3>3
  <2> QED BY <2>1, <2>2
<1>9. RegRowsOK' /\ RegStreamsPast' /\ RegRechecks'
      BY <1>2, <1>3 DEF RegInv, RegRowsOK, RegStreamsPast, RegRechecks, RegTaken, RegAuthentic
<1>10. RegOtpHeld'
       BY <1>2, <1>3 DEF RegInv, RegOtpHeld, RegPending, RegTaken
<1> QED BY <1>2, <1>7, <1>8, <1>9, <1>10 DEF RegInv

\* What a commit leaves on the way to the replicas.
LEMMA RegCommits ==
  ASSUME RegInv, NEW t \in RegTable, Commit(t),
         \A a \in RegAgents : RegTaken(a) => t[a] # RegAbsent
  PROVE  /\ primary' = t /\ stream' \in [Replicas -> Seq(RegTable)]
         /\ \A r \in Replicas : stream'[r] # <<>>
         /\ RegStreamsPast'
<1>1. primary' = t
      BY DEF Commit
<1>2. stream \in [Replicas -> Seq(RegTable)]
      BY DEF RegInv, RegTypeOK
<1>3. /\ stream' \in [Replicas -> Seq(RegTable)]
      /\ \A r \in Replicas : stream'[r] # <<>>
      /\ \A r \in Replicas : \A i \in 1..Len(stream'[r]) :
           \/ i \in 1..Len(stream[r]) /\ stream'[r][i] = stream[r][i]
           \/ stream'[r][i] = t
      BY <1>2, CommitStreams
<1>4. RegStreamsPast'
  <2> SUFFICES ASSUME NEW r \in Replicas, NEW i \in 1..Len(stream'[r]), NEW a \in RegAgents,
                      stream'[r][i][a] # RegAbsent
               PROVE  RegTaken(a)'
      BY DEF RegStreamsPast
  <2>1. CASE i \in 1..Len(stream[r]) /\ stream'[r][i] = stream[r][i]
        BY <2>1, <1>1 DEF RegInv, RegStreamsPast, RegTaken
  <2>2. CASE stream'[r][i] = t
        BY <2>2, <1>1 DEF RegTaken
  <2> QED BY <2>1, <2>2, <1>3
<1> QED BY <1>1, <1>3, <1>4

\* A row comes into being where there was none; the password is the row's now.
LEMMA RegPuts ==
  ASSUME RegInv, NEW h \in RegTasks, RegInsert(h), RegFree(regOp[h].m), RegPut(h)
  PROVE  RegInv'
<1> DEFINE m == regOp[h].m
           by == regOp[h].by
           row == [active |-> TRUE, m |-> m, by |-> by]
           t == [primary EXCEPT ![m.id] = row]
<1>1. /\ regOp[h] \in RegOperation /\ regOp[h].at = "insert" /\ RegAuthentic(regOp[h])
      /\ regOp' = [regOp EXCEPT ![h] = RegIdle] /\ UNCHANGED <<regOtp, regTold>>
      /\ Commit(t)
      /\ regRaced' = IF \E k \in RegTasks : regOp[k] = [at |-> "recheck", a |-> m.id]
                     THEN regRaced \cup {m.id} ELSE regRaced
      BY DEF RegInsert, RegPut, RegGoto, RegInv, RegTypeOK, RegRowsOK
<1>2. m \in RegManifests /\ by \in RegOtps \cup RegSigners /\ m.id \in RegAgents
      BY <1>1, RegFields, RegAssumption
<1>3. row \in RegRow /\ row.active /\ row.m = m /\ row.by = by /\ row # RegAbsent
      BY <1>2, RegRowThere DEF RegRow
<1>4. ~RegTaken(m.id) /\ \A a \in RegAgents : RegTaken(a) => primary[a].m.name # m.name
      BY <1>2 DEF RegFree, RegTaken
<1>i. RegAuthentic(row)
      BY <1>1 DEF RegAuthentic
<1>j. RegPending(h)
      BY <1>1 DEF RegPending
<1> HIDE DEF row
<1>5. t \in RegTable
      BY <1>2, <1>3 DEF RegInv, RegTypeOK, RegTable
<1>6. \A a \in RegAgents : t[a] = IF a = m.id THEN row ELSE primary[a]
      BY <1>2 DEF RegInv, RegTypeOK, RegTable
<1>k. \A a \in RegAgents : RegTaken(a) => t[a] # RegAbsent
      BY <1>3, <1>6 DEF RegTaken
<1> HIDE DEF t, m, by
<1>7. /\ primary' = t /\ stream' \in [Replicas -> Seq(RegTable)]
      /\ \A r \in Replicas : stream'[r] # <<>>
      /\ RegStreamsPast'
      BY <1>1, <1>5, <1>k, RegCommits
<1>8. \A a \in RegAgents : primary'[a] = IF a = m.id THEN row ELSE primary[a]
      BY <1>6, <1>7
<1>9. \A a \in RegAgents : RegTaken(a)' <=> a = m.id \/ RegTaken(a)
      BY <1>3, <1>8 DEF RegTaken
<1>10. /\ regOp \in [RegTasks -> RegOperation] /\ regOp' \in [RegTasks -> RegOperation]
       /\ \A k \in RegTasks : (k # h /\ regOp'[k] = regOp[k]) \/ regOp'[k].at = "idle"
       BY <1>1, RegOperations DEF RegInv, RegTypeOK
<1>11. regRaced \subseteq regRaced' /\ regRaced' \subseteq RegAgents
       BY <1>1, <1>2 DEF RegInv, RegTypeOK
<1>12. RegTypeOK'
       BY <1>1, <1>5, <1>7, <1>10, <1>11 DEF RegInv, RegTypeOK
<1>13. RegRowsOK'
  <2>1. ASSUME NEW a \in RegAgents, NEW b \in RegAgents, RegTaken(a)', RegTaken(b)', a # b
        PROVE  primary'[a].m.name # primary'[b].m.name
    <3>1. CASE a = m.id
          BY <3>1, <2>1, <1>3, <1>4, <1>8, <1>9
    <3>2. CASE b = m.id
          BY <3>2, <2>1, <1>3, <1>4, <1>8, <1>9
    <3>3. CASE a # m.id /\ b # m.id
          BY <3>3, <2>1, <1>8, <1>9 DEF RegInv, RegRowsOK
    <3> QED BY <3>1, <3>2, <3>3
  <2>2. \A a \in RegAgents : RegTaken(a)' => RegAuthentic(primary'[a])
        BY <1>8, <1>9, <1>i DEF RegInv, RegRowsOK
  <2>3. \A k \in RegTasks : regOp'[k].at = "insert" => RegAuthentic(regOp'[k])
        BY <1>10 DEF RegInv, RegRowsOK
  <2> QED BY <2>1, <2>2, <2>3 DEF RegRowsOK, RegAuthentic
<1>14. RegOtpHeld'
  <2>a. \A k \in RegTasks : RegPending(k)' => k # h /\ RegPending(k) /\ regOp'[k] = regOp[k]
        BY <1>10 DEF RegPending
  <2>b. by \in RegOtps =>
          /\ regOtp[by] = "gone"
          /\ \A k \in RegTasks : RegPending(k) /\ regOp[k].by = by => k = h
          /\ \A a \in RegAgents : RegTaken(a) => primary[a].by # by
        BY <1>j DEF RegInv, RegOtpHeld, by
  <2>1. ASSUME NEW k \in RegTasks, RegPending(k)', regOp'[k].by \in RegOtps
        PROVE  /\ regOtp'[regOp'[k].by] = "gone"
               /\ \A j \in RegTasks : RegPending(j)' /\ regOp'[j].by = regOp'[k].by => j = k
               /\ \A a \in RegAgents : RegTaken(a)' => primary'[a].by # regOp'[k].by
    <3>1. /\ regOtp[regOp[k].by] = "gone"
          /\ \A j \in RegTasks : RegPending(j) /\ regOp[j].by = regOp[k].by => j = k
          /\ \A a \in RegAgents : RegTaken(a) => primary[a].by # regOp[k].by
          BY <2>1, <2>a DEF RegInv, RegOtpHeld
    <3>2. regOp[k].by # by
          BY <2>1, <2>a, <2>b
    <3> QED BY <3>1, <3>2, <2>1, <2>a, <1>1, <1>3, <1>8, <1>9
  <2>2. ASSUME NEW a \in RegAgents, RegTaken(a)', primary'[a].by \in RegOtps
        PROVE  /\ regOtp'[primary'[a].by] = "gone"
               /\ \A b \in RegAgents : RegTaken(b)' /\ primary'[b].by = primary'[a].by => b = a
    <3>1. CASE a = m.id
          BY <3>1, <2>2, <2>b, <1>1, <1>3, <1>8, <1>9
    <3>2. CASE a # m.id
      <4>1. RegTaken(a) /\ primary'[a] = primary[a] /\ primary[a].by \in RegOtps
            BY <3>2, <2>2, <1>8, <1>9
      <4>2. /\ regOtp[primary[a].by] = "gone"
            /\ \A b \in RegAgents : RegTaken(b) /\ primary[b].by = primary[a].by => b = a
            BY <4>1 DEF RegInv, RegOtpHeld
      <4>3. primary[a].by # by
            BY <4>1, <2>b
      <4> QED BY <4>1, <4>2, <4>3, <1>1, <1>3, <1>8, <1>9
    <3> QED BY <3>1, <3>2
  <2> QED BY <2>1, <2>2 DEF RegOtpHeld
<1>15. RegRechecks'
  <2> SUFFICES ASSUME NEW k \in RegTasks, regOp'[k].at = "recheck",
                      primary'[regOp'[k].a].active
               PROVE  regOp'[k].a \in regRaced'
      BY DEF RegRechecks
  <2>1. regOp'[k] = regOp[k] /\ regOp[k] \in RegOperation /\ regOp[k].a \in RegAgents
        BY <1>10, RegFields
  <2>2. CASE regOp[k].a = m.id
    <3>1. regOp[k] = [at |-> "recheck", a |-> m.id]
      <4>1. regOp[k] \in [at : {"recheck"}, a : RegAgents]
            BY <2>1 DEF RegOperation, RegIdle
      <4> QED BY <4>1, <2>2
    <3> QED BY <3>1, <2>1, <2>2, <1>1
  <2>3. CASE regOp[k].a # m.id
        BY <2>1, <2>3, <1>8, <1>11 DEF RegInv, RegRechecks
  <2> QED BY <2>2, <2>3
<1>16. RegDeletionHolds'
  <2> SUFFICES ASSUME NEW a \in regTold
               PROVE  primary'[a] # RegAbsent /\ (primary'[a].active => a \in regRaced')
      BY <1>1 DEF RegDeletionHolds
  <2>1. a \in RegAgents /\ RegTaken(a) /\ (primary[a].active => a \in regRaced)
        BY DEF RegInv, RegTypeOK, RegDeletionHolds, RegTaken
  <2>2. a # m.id
        BY <2>1, <1>4
  <2> QED BY <2>1, <2>2, <1>8, <1>11 DEF RegTaken
<1> QED BY <1>7, <1>12, <1>13, <1>14, <1>15, <1>16 DEF RegInv

\* An active row is deactivated, for good.
LEMMA RegDeactivates ==
  ASSUME RegInv, NEW h \in RegTasks, RegDelete(h), NEW a \in RegAgents, primary[a].active,
         Commit([primary EXCEPT ![a].active = FALSE]), regTold' = regTold \cup {a},
         UNCHANGED regOp
  PROVE  RegInv'
<1> DEFINE row == [primary[a] EXCEPT !.active = FALSE]
           t == [primary EXCEPT ![a].active = FALSE]
<1>1. UNCHANGED <<regOp, regOtp, regRaced>>
      BY DEF RegDelete
<1>2. primary[a] \in RegRow
      BY DEF RegInv, RegTypeOK, RegTable, RegAbsent
<1>3. /\ row \in RegRow /\ ~row.active /\ row.m = primary[a].m /\ row.by = primary[a].by
      /\ row # RegAbsent /\ RegTaken(a)
  <2>1. /\ row \in RegRow /\ ~row.active /\ row.m = primary[a].m /\ row.by = primary[a].by
        BY <1>2 DEF RegRow
  <2> HIDE DEF row
  <2> QED BY <2>1, <1>2, RegRowThere DEF RegTaken
<1>4. t = [primary EXCEPT ![a] = row]
      BY Zenon
<1> HIDE DEF row
<1>5. t \in RegTable
  <2> HIDE DEF t
  <2> QED BY <1>3, <1>4 DEF RegInv, RegTypeOK, RegTable
<1>6. \A b \in RegAgents : t[b] = IF b = a THEN row ELSE primary[b]
  <2> HIDE DEF t
  <2> QED BY <1>4 DEF RegInv, RegTypeOK, RegTable
<1>7. Commit(t)
      OBVIOUS
<1> HIDE DEF t
<1>8. \A b \in RegAgents : RegTaken(b) => t[b] # RegAbsent
      BY <1>3, <1>6 DEF RegTaken
<1>9. /\ primary' = t /\ stream' \in [Replicas -> Seq(RegTable)]
      /\ \A r \in Replicas : stream'[r] # <<>>
      /\ RegStreamsPast'
      BY <1>5, <1>7, <1>8, RegCommits
<1>10. \A b \in RegAgents :
         /\ RegTaken(b)' <=> RegTaken(b)
         /\ RegTaken(b) => /\ primary'[b].m = primary[b].m /\ primary'[b].by = primary[b].by
                           /\ primary'[b].active => primary[b].active /\ b # a
       BY <1>3, <1>6, <1>9 DEF RegTaken
<1>11. RegTypeOK'
       BY <1>1, <1>5, <1>9 DEF RegInv, RegTypeOK
<1>12. RegRowsOK'
       BY <1>1, <1>10 DEF RegInv, RegRowsOK, RegAuthentic, RegVerified
<1>13. RegOtpHeld'
       BY <1>1, <1>10 DEF RegInv, RegOtpHeld, RegPending
<1>14. \A b \in RegAgents : primary'[b].active => primary[b].active /\ b # a
       BY <1>3, <1>6, <1>9
<1>15. RegRechecks'
  <2> SUFFICES ASSUME NEW k \in RegTasks, regOp[k].at = "recheck",
                      primary'[regOp[k].a].active
               PROVE  regOp[k].a \in regRaced
      BY <1>1 DEF RegRechecks
  <2>1. regOp[k].a \in RegAgents
        BY RegFields DEF RegInv, RegTypeOK
  <2> QED BY <2>1, <1>14 DEF RegInv, RegRechecks
<1>16. RegDeletionHolds'
  <2> SUFFICES ASSUME NEW b \in regTold \cup {a}
               PROVE  primary'[b] # RegAbsent /\ (primary'[b].active => b \in regRaced)
      BY <1>1 DEF RegDeletionHolds
  <2>1. b \in RegAgents
        BY DEF RegInv, RegTypeOK
  <2>2. CASE b = a
        BY <2>2, <1>3, <1>6, <1>9
  <2>3. CASE b \in regTold
    <3>1. RegTaken(b) /\ (primary[b].active => b \in regRaced)
          BY <2>3 DEF RegInv, RegDeletionHolds, RegTaken
    <3> QED BY <2>1, <3>1, <1>10, <1>14 DEF RegTaken
  <2> QED BY <2>2, <2>3
<1> QED BY <1>9, <1>11, <1>12, <1>13, <1>15, <1>16 DEF RegInv

\* Every step keeps what is known of rows, replicas, passwords and answers.
LEMMA RegInvStep == RegInv /\ [RegNext]_regVars => RegInv'
<1> SUFFICES ASSUME RegInv, [RegNext]_regVars PROVE RegInv'
    OBVIOUS
<1>1. CASE UNCHANGED regVars
      BY <1>1 DEF regVars, regRest, RegInv, RegTypeOK, RegRowsOK, RegStreamsPast, RegOtpHeld,
         RegRechecks, RegDeletionHolds, RegPending, RegTaken, RegAuthentic
<1>2. ASSUME NEW h \in RegTasks, RegInsert(h) PROVE RegInv'
  <2>1. CASE RegFree(regOp[h].m) /\ RegPut(h)
        BY <1>2, <2>1, RegPuts
  <2>2. CASE UNCHANGED <<dbVars, regRaced>>
        BY <1>2, <2>2, RegMoves
  <2> QED BY <1>2, <2>1, <2>2 DEF RegInsert
<1>3. ASSUME NEW h \in RegTasks, RegDelete(h) PROVE RegInv'
  <2>1. PICK a \in RegAgents :
          \/ /\ primary[a].active
             /\ Commit([primary EXCEPT ![a].active = FALSE])
             /\ regTold' = regTold \cup {a}
             /\ UNCHANGED regOp
          \/ /\ ~primary[a].active
             /\ RegGoto(h, [at |-> "recheck", a |-> a])
             /\ UNCHANGED <<dbVars, regTold>>
        BY <1>3, Zenon DEF RegDelete
  <2>2. CASE UNCHANGED <<dbVars, regTold>>
        BY <1>3, <2>2, RegMoves
  <2> QED BY <1>3, <2>1, <2>2, RegDeactivates, Zenon
<1>4. ASSUME NEW h \in RegTasks, RegStart(h) \/ RegExists(h) \/ RegBreakOff(h) PROVE RegInv'
      BY <1>4, RegMoves
<1> QED BY <1>1, <1>2, <1>3, <1>4, RegBootstraps, RegLooksAgain, RegOtpTurns, RegReplicates, Zenon
        DEF RegNext

\* So it holds of every reachable state.
LEMMA RegInvariant == RegSpec => []RegInv
BY RegInvInit, RegInvStep, PTL DEF RegSpec

\* agents.rs deactivate_agent: a deletion answered with 204 holds, except for an
\* agent registered while the deletion was looking for it.
THEOREM DeletionHolds == RegSpec => []RegDeletionHolds
<1>1. RegInv => RegDeletionHolds
      BY DEF RegInv
<1> QED BY <1>1, RegInvariant, PTL

\* agents.rs, cache.rs GETDEL: one password brings in at most one agent, and who
\* is on record is there by a password or by the signature of its own key.
THEOREM OtpBringsOne == RegSpec => []RegOtpOnce
<1>1. RegInv => RegOtpOnce
  <2> SUFFICES ASSUME RegInv PROVE RegOtpOnce
      OBVIOUS
  <2>1. \A a \in RegAgents : RegTaken(a) =>
          primary[a].by \in RegOtps \/ RegVerified(primary[a].m, primary[a].by)
        BY DEF RegInv, RegRowsOK, RegAuthentic
  <2>2. ASSUME NEW o \in RegOtps, NEW made, made = {a \in RegAgents : RegTaken(a) /\ primary[a].by = o}
        PROVE  Cardinality(made) <= 1 /\ (made # {} => regOtp[o] = "gone")
    <3>1. CASE made = {}
          BY <3>1, FS_EmptySet
    <3>2. CASE made # {}
      <4>1. PICK a \in made : TRUE
            BY <3>2
      <4>2. a \in RegAgents /\ RegTaken(a) /\ primary[a].by = o
            BY <4>1, <2>2
      <4>3. /\ regOtp[o] = "gone"
            /\ \A b \in RegAgents : RegTaken(b) /\ primary[b].by = o => b = a
            BY <4>2 DEF RegInv, RegOtpHeld
      <4>4. made = {a}
            BY <4>1, <4>3, <2>2
      <4> QED BY <4>3, <4>4, FS_Singleton
    <3> QED BY <3>1, <3>2
  <2> QED BY <2>1, <2>2 DEF RegOtpOnce
<1> QED BY <1>1, RegInvariant, PTL

\* queries.rs insert_agent, a plain INSERT: of the registrations of one id, or of
\* one name, the first stays; a row is never replaced or re-activated.
THEOREM FirstManifestStays == RegSpec => RegFirstStays
<1> DEFINE A == \A a \in RegAgents : primary[a] # RegAbsent =>
                  /\ primary'[a].m = primary[a].m
                  /\ primary'[a].active => primary[a].active
                  /\ \A b \in RegAgents \ {a} :
                       primary'[b] # RegAbsent => primary'[b].m.name # primary'[a].m.name
<1>1. RegInv /\ RegInv' /\ [RegNext]_regVars => [A]_regVars
  <2> SUFFICES ASSUME RegInv, RegInv', RegNext PROVE A
      OBVIOUS
  \* Rows change only by their being made, or deactivated.
  <2>1. \A a \in RegAgents : RegTaken(a) =>
          /\ primary'[a].m = primary[a].m /\ RegTaken(a)'
          /\ primary'[a].active => primary[a].active
    <3>1. CASE UNCHANGED primary
          BY <3>1 DEF RegTaken
    <3>2. ASSUME NEW h \in RegTasks, RegFree(regOp[h].m), RegPut(h), RegInsert(h)
          PROVE  \A a \in RegAgents : RegTaken(a) => primary'[a] = primary[a]
      <4>1. PICK row : primary' = [primary EXCEPT ![regOp[h].m.id] = row]
            BY <3>2 DEF RegPut, Commit
      <4> QED BY <4>1, <3>2 DEF RegFree, RegTaken, RegInv, RegTypeOK, RegTable
    <3>3. ASSUME NEW h \in RegTasks, NEW a \in RegAgents, primary[a].active,
                 Commit([primary EXCEPT ![a].active = FALSE])
          PROVE  \A b \in RegAgents : RegTaken(b) =>
                   /\ primary'[b].m = primary[b].m /\ RegTaken(b)'
                   /\ primary'[b].active => primary[b].active
      <4>1. primary[a] \in RegRow
            BY <3>3 DEF RegInv, RegTypeOK, RegTable, RegAbsent
      <4>2. /\ [primary[a] EXCEPT !.active = FALSE] \in RegRow
            /\ [primary[a] EXCEPT !.active = FALSE].m = primary[a].m
            /\ ~[primary[a] EXCEPT !.active = FALSE].active
            BY <4>1 DEF RegRow
      <4>3. /\ primary' = [primary EXCEPT ![a] = [primary[a] EXCEPT !.active = FALSE]]
            BY <3>3, Zenon DEF Commit
      <4>4. \A b \in RegAgents : primary'[b] = IF b = a THEN [primary[a] EXCEPT !.active = FALSE]
                                               ELSE primary[b]
        <5>1. primary \in RegTable
              BY DEF RegInv, RegTypeOK
        <5> QED BY <4>3, <5>1 DEF RegTable
      <4>5. primary'[a] # RegAbsent
            BY <4>2, <4>4, RegRowThere, Zenon
      <4> QED BY <4>2, <4>4, <4>5 DEF RegTaken
    <3>4. ASSUME NEW h \in RegTasks, RegInsert(h)
          PROVE  \/ UNCHANGED primary
                 \/ \A a \in RegAgents : RegTaken(a) => primary'[a] = primary[a]
          BY <3>4, <3>2 DEF RegInsert, dbVars
    <3>5. ASSUME NEW h \in RegTasks, RegDelete(h)
          PROVE  \/ UNCHANGED primary
                 \/ \A b \in RegAgents : RegTaken(b) =>
                      /\ primary'[b].m = primary[b].m /\ RegTaken(b)'
                      /\ primary'[b].active => primary[b].active
      <4>1. PICK a \in RegAgents :
              \/ primary[a].active /\ Commit([primary EXCEPT ![a].active = FALSE])
              \/ UNCHANGED dbVars
            BY <3>5, Zenon DEF RegDelete
      <4> QED BY <4>1, <3>5, <3>3 DEF dbVars
    <3>6. ASSUME NEW h \in RegTasks,
                 RegStart(h) \/ RegBootstrap(h) \/ RegExists(h) \/ RegRecheck(h) \/ RegBreakOff(h)
          PROVE  UNCHANGED primary
          BY <3>6 DEF RegStart, RegBootstrap, RegExists, RegRecheck, RegBreakOff, dbVars
    <3>7. ASSUME NEW o \in RegOtps, RegStoreOtp(o) \/ RegOtpExpires(o) PROVE UNCHANGED primary
          BY <3>7 DEF RegStoreOtp, RegOtpExpires, dbVars
    <3>8. ASSUME RegReplicate PROVE UNCHANGED primary
          BY <3>8 DEF RegReplicate, Replicate
    <3>9. \/ UNCHANGED primary
          \/ \A a \in RegAgents : RegTaken(a) => primary'[a] = primary[a]
          \/ \A b \in RegAgents : RegTaken(b) =>
               /\ primary'[b].m = primary[b].m /\ RegTaken(b)'
               /\ primary'[b].active => primary[b].active
          BY <3>4, <3>5, <3>6, <3>7, <3>8, Zenon DEF RegNext
    <3> QED BY <3>1, <3>9 DEF RegTaken
  <2>2. \A a, b \in RegAgents : RegTaken(a)' /\ RegTaken(b)' /\ a # b =>
          primary'[a].m.name # primary'[b].m.name
        BY DEF RegInv, RegRowsOK
  <2> QED BY <2>1, <2>2 DEF RegTaken
<1> QED BY <1>1, RegInvariant, PTL DEF RegSpec, RegFirstStays
=============================================================================
