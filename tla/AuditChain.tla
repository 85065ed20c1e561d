----------------------------- MODULE AuditChain -----------------------------
(***************************************************************************)
(* The hash chain of the audit log: AuditService::record of                *)
(* crates/registry/src/services/audit.rs, and the verification of one      *)
(* agent's events in handlers/audit.rs.                                    *)
(*                                                                         *)
(* Each registry process keeps the hash of the last event it recorded in   *)
(* previous_hash; record() reads it, signs and inserts a row that names    *)
(* it, and writes it back, with awaits between.  Row hashes are taken to   *)
(* be collision free, so a hash is the row's position in the log (its      *)
(* place in created_at order) and 0 is the genesis hash.                   *)
(***************************************************************************)
EXTENDS Naturals, Sequences, FiniteSets

CONSTANTS
  Procs,        \* registry processes
  Handlers,     \* requests in flight
  Home,         \* [Handlers -> Procs]: the process that serves each
  Agents,       \* agents the events are about
  MaxEvents     \* bound: rows ever inserted

ASSUME AuditAssumption ==
  /\ Home \in [Handlers -> Procs]
  /\ MaxEvents \in Nat

VARIABLES
  log,          \* the audit_events rows
  previous,     \* [Procs -> previous_hash]
  op,           \* [Handlers -> what record() holds]
  quiet         \* history: so far no two calls of record() overlapped, none was
                \* dropped between insert and write-back, one process recorded
                \* and it was not restarted since

vars == <<log, previous, op, quiet>>

Genesis == 0

Event == [agent : Agents, previous : 0..MaxEvents]

Idle == [at |-> "idle"]

Recording ==
  {Idle} \cup [at : {"insert"}, event : Event] \cup [at : {"advance"}, hash : 1..MaxEvents]

Init ==
  /\ log = <<>>
  /\ previous = [p \in Procs |-> Genesis]
  /\ op = [h \in Handlers |-> Idle]
  /\ quiet = TRUE

-----------------------------------------------------------------------------
\* Nobody else is recording, in this process or in another.
Alone(h) ==
  /\ \A k \in Handlers \ {h} : op[k] = Idle
  /\ \A p \in Procs \ {Home[h]} : previous[p] = Genesis

\* A slip: the hash of the row to come is written before the row is.
BeginAdvanced(h, a) ==
  /\ op[h] = Idle
  /\ Len(log) < MaxEvents
  /\ op' = [op EXCEPT ![h] =
              [at |-> "insert", event |-> [agent |-> a, previous |-> previous[Home[h]]]]]
  /\ previous' = [previous EXCEPT ![Home[h]] = Len(log) + 1]
  /\ quiet' = (quiet /\ Alone(h))
  /\ UNCHANGED log

\* The lock is only held for the read.
Begin(h, a) ==
  /\ op[h] = Idle
  /\ op' = [op EXCEPT ![h] =
              [at |-> "insert", event |-> [agent |-> a, previous |-> previous[Home[h]]]]]
  /\ quiet' = (quiet /\ Alone(h))
  /\ UNCHANGED <<log, previous>>

\* A slip: the hash handed on is that of the row after.
InsertHashNext(h) ==
  /\ op[h].at = "insert"
  /\ Len(log) < MaxEvents
  /\ log' = Append(log, op[h].event)
  /\ op' = [op EXCEPT ![h] = [at |-> "advance", hash |-> Len(log) + 2]]
  /\ UNCHANGED <<previous, quiet>>

Insert(h) ==
  /\ op[h].at = "insert"
  /\ Len(log) < MaxEvents
  /\ log' = Append(log, op[h].event)
  /\ op' = [op EXCEPT ![h] = [at |-> "advance", hash |-> Len(log) + 1]]
  /\ UNCHANGED <<previous, quiet>>

\* A slip: the hash kept is the one the row names.
AdvanceToPrevious(h) ==
  /\ op[h].at = "advance"
  /\ previous' = [previous EXCEPT ![Home[h]] = log[op[h].hash].previous]
  /\ op' = [op EXCEPT ![h] = Idle]
  /\ UNCHANGED <<log, quiet>>

Advance(h) ==
  /\ op[h].at = "advance"
  /\ previous' = [previous EXCEPT ![Home[h]] = op[h].hash]
  /\ op' = [op EXCEPT ![h] = Idle]
  /\ UNCHANGED <<log, quiet>>

\* The signer or the insert fails, or the request is dropped at an await.
Abandon(h) ==
  /\ op[h] # Idle
  /\ op' = [op EXCEPT ![h] = Idle]
  /\ quiet' = (quiet /\ op[h].at # "advance")
  /\ UNCHANGED <<log, previous>>

\* A crash, and `initialize()', which starts from genesis whatever is in the log.
Restart(p) ==
  /\ previous' = [previous EXCEPT ![p] = Genesis]
  /\ op' = [h \in Handlers |-> IF Home[h] = p THEN Idle ELSE op[h]]
  /\ quiet' = (quiet /\ log = <<>>)
  /\ UNCHANGED log

Next ==
  \/ \E h \in Handlers :
       \/ \E a \in Agents : Begin(h, a)
       \/ Insert(h) \/ Advance(h) \/ Abandon(h)
  \/ \E p \in Procs : Restart(p)

Spec == Init /\ [][Next]_vars

-----------------------------------------------------------------------------
(* GET /v1/audit/:agent_id/verify *)

\* query_audit_events_for_verification: where the rows of agent a stand.
RowsOf(rows, a) == {i \in 1..Len(rows) : rows[i].agent = a}

\* The walk over one agent's rows in created_at order: each must name the hash of
\* the row before it among that agent's rows, the first the genesis hash.  What a
\* row's own hash covers is as it was when it was hashed.
Verifies(rows, a) ==
  LET mine == RowsOf(rows, a)
      before(i) == {k \in mine : k < i}
  IN  \A i \in mine :
        IF before(i) = {} THEN rows[i].previous = Genesis
        ELSE /\ rows[i].previous \in before(i)
             /\ \A k \in before(i) : k <= rows[i].previous

-----------------------------------------------------------------------------
\* The type of every variable.
TypeOK ==
  /\ log \in Seq(Event) /\ Len(log) <= MaxEvents
  /\ previous \in [Procs -> 0..MaxEvents]
  /\ op \in [Handlers -> Recording]
  /\ quiet \in BOOLEAN

\* Whatever overlaps, fails or restarts, the hash a row names is genesis or that
\* of a row inserted before it: following the hashes back from any row meets
\* every row at most once and ends at genesis.
ChainsGrounded == \A i \in 1..Len(log) : log[i].previous < i

\* While one process records one event at a time and is not restarted, and no
\* request is dropped between insert and write-back, the log is one chain, and
\* the events of an agent verify if there are no others in the log.
QuietChainLinear ==
  quiet =>
    /\ \A i \in 1..Len(log) : log[i].previous = i - 1
    /\ \A a \in Agents : (\A i \in 1..Len(log) : log[i].agent = a) => Verifies(log, a)

-----------------------------------------------------------------------------
(* What the documentation says and the code does not do. *)

\* "Verify audit chain integrity for an agent.": a log that nobody touched and
\* that was written undisturbed verifies for every agent.
AgentChainsVerify == quiet => \A a \in Agents : Verifies(log, a)
=============================================================================
