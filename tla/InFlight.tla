------------------------------ MODULE InFlight ------------------------------
(***************************************************************************)
(* The in-flight limiter of crates/registry/src/middleware.rs: a counter   *)
(* raised by every arrival and lowered when its guard is dropped, or at    *)
(* once by the arrival that finds too many.                                *)
(***************************************************************************)
EXTENDS Integers, FiniteSets

CONSTANTS
  IfRequests,   \* requests that may be in the middleware at a time
  IfMax         \* max_requests

ASSUME IfAssumption == IsFiniteSet(IfRequests) /\ IfMax \in Nat

VARIABLES
  ifAt,         \* [IfRequests -> "out", "serving" (holds a guard), "refused" (still counted)]
  ifCurrent     \* the shared counter

ifVars == <<ifAt, ifCurrent>>

IfIn(S) == {r \in IfRequests : ifAt[r] \in S}

IfTypeOK ==
  /\ ifAt \in [IfRequests -> {"out", "serving", "refused"}]
  /\ ifCurrent \in Nat

IfInit == ifAt = [r \in IfRequests |-> "out"] /\ ifCurrent = 0

\* A slip: the comparison lets one more in.
IfRoomForOneMore(current) == current <= IfMax

IfRoom(current) == current < IfMax

\* try_acquire: fetch_add, and the old value decides.
IfArrive(r) ==
  /\ ifAt[r] = "out"
  /\ ifCurrent' = ifCurrent + 1
  /\ ifAt' = [ifAt EXCEPT ![r] = IF IfRoom(ifCurrent) THEN "serving" ELSE "refused"]

\* ... fetch_sub of a refused one; 503.
IfGiveBack(r) ==
  /\ ifAt[r] = "refused"
  /\ ifCurrent' = ifCurrent - 1
  /\ ifAt' = [ifAt EXCEPT ![r] = "out"]

\* The guard is dropped: the request is answered, cancelled or panics.
IfDone(r) ==
  /\ ifAt[r] = "serving"
  /\ ifCurrent' = ifCurrent - 1
  /\ ifAt' = [ifAt EXCEPT ![r] = "out"]

IfNext == \E r \in IfRequests : IfArrive(r) \/ IfGiveBack(r) \/ IfDone(r)

IfSpec == IfInit /\ [][IfNext]_ifVars

-----------------------------------------------------------------------------
\* Never more than max_requests are processed at once, and no slot is ever
\* lost: the counter is the number of requests in the middleware, refused ones
\* that have not yet taken themselves off included.
IfHeld ==
  /\ Cardinality(IfIn({"serving"})) <= IfMax
  /\ ifCurrent = Cardinality(IfIn({"serving", "refused"}))
=============================================================================
