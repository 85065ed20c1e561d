------------------------------ MODULE Database ------------------------------
(***************************************************************************)
(* The registry's Postgres as the services use it through DbPool: every    *)
(* write, and the few reads that name it, go to the primary; every other   *)
(* read goes to `read_replica()`, which rotates over asynchronously fed    *)
(* replicas and is the primary itself when none is configured.             *)
(*                                                                         *)
(* A database state is one value (the tables a module is about).           *)
(* `stream[r]' starts with the state replica r shows and continues with    *)
(* the commits still on their way to it, in commit order, so a replica is  *)
(* always at some earlier state of the primary and only moves forward.     *)
(***************************************************************************)
EXTENDS Naturals, Sequences

CONSTANT Replicas      \* the configured read replicas, possibly none

VARIABLES primary,     \* the committed state of the primary
          stream       \* [Replicas -> non-empty sequences of states]

dbVars == <<primary, stream>>

DbInit(t) ==
  /\ primary = t
  /\ stream = [r \in Replicas |-> <<t>>]

\* One autocommitted statement on `db.primary()`.
Commit(t) ==
  /\ primary' = t
  /\ stream' = [r \in Replicas |-> Append(stream[r], t)]

\* Replica r replays the next commit it received.
Replicate(r) ==
  /\ Len(stream[r]) > 1
  /\ stream' = [stream EXCEPT ![r] = Tail(@)]
  /\ UNCHANGED primary

\* What one `db.read_replica()' query may see.  The rotation counter is shared
\* by every endpoint of the process, so any replica may be next.
Views ==
  IF Replicas = {} THEN {primary} ELSE {Head(stream[r]) : r \in Replicas}
=============================================================================
