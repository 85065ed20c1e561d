------------------------------- MODULE Grants -------------------------------
(***************************************************************************)
(* The capability grants of the registry: crates/registry/src/services/    *)
(* grant.rs with the HTTP handlers of handlers/grants.rs and the queries   *)
(* of db/queries.rs they run.                                              *)
(*                                                                         *)
(* A handler is one HTTP request in flight.  Each of its database calls is *)
(* an await point, hence an action of its own; what it read earlier is in  *)
(* op[h].  Reads go to a possibly lagging replica, the conditional UPDATEs *)
(* to the primary.                                                         *)
(***************************************************************************)
EXTENDS Database, Integers, FiniteSets

CONSTANTS
  Handlers,     \* requests the registry may be serving at a time
  Agents,       \* registered agents
  SPs,          \* service providers
  Caps,         \* capabilities, with their filters and limits
  TypeKey,      \* [Caps -> Keys]: capability_type_key drops filters and limits
  Keys,         \* kinds of capability
  Lists,        \* bound: the capability lists that clients send
  MaxPending,   \* GrantConfig.max_pending_per_agent
  MaxGrants     \* bound: grant rows ever inserted

ASSUME GrantsAssumption ==
  /\ IsFiniteSet(Handlers) /\ Handlers # {}
  /\ TypeKey \in [Caps -> Keys]
  /\ Lists \subseteq SUBSET Caps
  /\ MaxPending \in Nat
  /\ MaxGrants \in Nat

\* Grant ids are numbered in insertion order (the order of requested_at).
GrantIds == 1..MaxGrants

KeysOf(C) == {TypeKey[c] : c \in C}

VARIABLES
  op,           \* [Handlers -> what the request in flight knows and does next]
  lapsed,       \* pending grants whose expires_at has passed
  asked,        \* history: the capabilities each grant was requested with
  audit         \* the audit events written, as <<event, grant>>

vars == <<primary, stream, op, lapsed, asked, audit>>

-----------------------------------------------------------------------------
Absent == [status |-> "none"]

Row == [status : {"pending", "approved", "denied", "revoked"},
        agent : Agents, sp : SPs, caps : SUBSET Caps]

Table == [GrantIds -> Row \cup {Absent}]

PendingOf(t, a) == {g \in GrantIds : t[g].status = "pending" /\ t[g].agent = a}

Idle == [at |-> "idle"]

Events == {"requested", "approved", "denied", "revoked"}

Operation ==
  {Idle}
    \cup [at : {"find", "insert"}, a : Agents, s : SPs, caps : SUBSET Caps]
    \cup [at : {"approve"}, g : GrantIds, caps : SUBSET Caps]
    \cup [at : {"deny", "revoke", "recheck"}, g : GrantIds]
    \cup [at : {"audit"}, event : Events, g : GrantIds]

Goto(h, o) == op' = [op EXCEPT ![h] = o]

Succeed(h, e, g) == Goto(h, [at |-> "audit", event |-> e, g |-> g])

Update(g, row) == Commit([primary EXCEPT ![g] = row])

Init ==
  /\ DbInit([g \in GrantIds |-> Absent])
  /\ op = [h \in Handlers |-> Idle]
  /\ lapsed = {}
  /\ asked = [g \in GrantIds |-> {}]
  /\ audit = {}

-----------------------------------------------------------------------------
(* POST /v1/grants/request *)

\* A slip: the limit itself still lets a request through.
CountPendingOffByOne(h, a, s, C) ==
  /\ op[h] = Idle
  /\ Cardinality(PendingOf(primary, a)) <= MaxPending
  /\ Goto(h, [at |-> "find", a |-> a, s |-> s, caps |-> C])
  /\ UNCHANGED <<dbVars, lapsed, asked, audit>>

\* The limit is checked against the primary, before anything is inserted.
CountPending(h, a, s, C) ==
  /\ op[h] = Idle
  /\ Cardinality(PendingOf(primary, a)) < MaxPending
  /\ Goto(h, [at |-> "find", a |-> a, s |-> s, caps |-> C])
  /\ UNCHANGED <<dbVars, lapsed, asked, audit>>

\* The newest pending grant for the same agent and provider is the answer,
\* whatever its capabilities; the look-up sees a replica.
FindPending(h) ==
  /\ op[h].at = "find"
  /\ \E t \in Views :
       LET found == {g \in PendingOf(t, op[h].a) : t[g].sp = op[h].s}
       IN  \/ /\ found = {}
              /\ Goto(h, [op[h] EXCEPT !.at = "insert"])
           \/ \E g \in found :
                /\ \A k \in found : k <= g
                /\ Succeed(h, "requested", g)
  /\ UNCHANGED <<dbVars, lapsed, asked, audit>>

\* The partial unique index on (agent, provider, capabilities).
Unique(a, s, C) ==
  \A g \in PendingOf(primary, a) : primary[g].sp # s \/ primary[g].caps # C

InsertGrant(h) ==
  /\ op[h].at = "insert"
  /\ Unique(op[h].a, op[h].s, op[h].caps)
  /\ \E g \in GrantIds :
       /\ primary[g] = Absent
       /\ \A k \in GrantIds : k < g => primary[k] # Absent
       /\ Update(g, [status |-> "pending", agent |-> op[h].a, sp |-> op[h].s,
                     caps |-> op[h].caps])
       /\ asked' = [asked EXCEPT ![g] = op[h].caps]
       /\ Succeed(h, "requested", g)
  /\ UNCHANGED <<lapsed, audit>>

-----------------------------------------------------------------------------
(* POST /v1/grants/:grant_id/approve *)

\* A slip: the kinds of the approver's list are not compared.
GrantableAnything(C) == {C} \cup (Lists \ {{}})

\* The capability lists an approver may persist for a requested list C: all of
\* C when the body names none, else any non-empty list over C's keys.
Grantable(C) ==
  {C} \cup {D \in Lists \ {{}} : KeysOf(D) \subseteq KeysOf(C)}

\* A slip: expires_at is not looked at.
ReadForApprovalLate(h, g) ==
  /\ op[h] = Idle
  /\ \E t \in Views :
       /\ t[g].status = "pending"
       /\ \E D \in Grantable(t[g].caps) :
            Goto(h, [at |-> "approve", g |-> g, caps |-> D])
  /\ UNCHANGED <<dbVars, lapsed, asked, audit>>

ReadForApproval(h, g) ==
  /\ op[h] = Idle
  /\ g \notin lapsed
  /\ \E t \in Views :
       /\ t[g].status = "pending"
       /\ \E D \in Grantable(t[g].caps) :
            Goto(h, [at |-> "approve", g |-> g, caps |-> D])
  /\ UNCHANGED <<dbVars, lapsed, asked, audit>>

\* A slip: the UPDATE trusts the status that was read.
ApproveGrantUnguarded(h) ==
  /\ op[h].at = "approve"
  /\ Update(op[h].g, [primary[op[h].g] EXCEPT !.status = "approved",
                                              !.caps = op[h].caps])
  /\ Succeed(h, "approved", op[h].g)
  /\ UNCHANGED <<lapsed, asked, audit>>

\* UPDATE ... WHERE id AND status = 'pending'; the expiry is not re-checked.
ApproveGrant(h) ==
  /\ op[h].at = "approve"
  /\ primary[op[h].g].status = "pending"
  /\ Update(op[h].g, [primary[op[h].g] EXCEPT !.status = "approved",
                                              !.caps = op[h].caps])
  /\ Succeed(h, "approved", op[h].g)
  /\ UNCHANGED <<lapsed, asked, audit>>

(* POST /v1/grants/:grant_id/deny *)

ReadForDenial(h, g) ==
  /\ op[h] = Idle
  /\ \E t \in Views : t[g].status = "pending"
  /\ Goto(h, [at |-> "deny", g |-> g])
  /\ UNCHANGED <<dbVars, lapsed, asked, audit>>

\* A slip: the UPDATE trusts the status that was read.
DenyGrantUnguarded(h) ==
  /\ op[h].at = "deny"
  /\ Update(op[h].g, [primary[op[h].g] EXCEPT !.status = "denied"])
  /\ Succeed(h, "denied", op[h].g)
  /\ UNCHANGED <<lapsed, asked, audit>>

\* A slip: a status that is not in the grant_status enumeration.
DenyGrantRenamed(h) ==
  /\ op[h].at = "deny"
  /\ primary[op[h].g].status = "pending"
  /\ Update(op[h].g, [primary[op[h].g] EXCEPT !.status = "rejected"])
  /\ Succeed(h, "denied", op[h].g)
  /\ UNCHANGED <<lapsed, asked, audit>>

DenyGrant(h) ==
  /\ op[h].at = "deny"
  /\ primary[op[h].g].status = "pending"
  /\ Update(op[h].g, [primary[op[h].g] EXCEPT !.status = "denied"])
  /\ Succeed(h, "denied", op[h].g)
  /\ UNCHANGED <<lapsed, asked, audit>>

(* POST /v1/grants/:grant_id/revoke *)

\* The handler only wants the row for the audit event; any status will do.
ReadForRevocation(h, g) ==
  /\ op[h] = Idle
  /\ \E t \in Views : t[g] # Absent
  /\ Goto(h, [at |-> "revoke", g |-> g])
  /\ UNCHANGED <<dbVars, lapsed, asked, audit>>

\* An UPDATE that matches no row sends the request to a second look-up.
RevokeGrant(h) ==
  /\ op[h].at = "revoke"
  /\ IF primary[op[h].g].status = "approved"
     THEN /\ Update(op[h].g, [primary[op[h].g] EXCEPT !.status = "revoked"])
          /\ Succeed(h, "revoked", op[h].g)
     ELSE /\ Goto(h, [op[h] EXCEPT !.at = "recheck"])
          /\ UNCHANGED dbVars
  /\ UNCHANGED <<lapsed, asked, audit>>

\* A slip: any row falls through to success.
RecheckAnyStatus(h) ==
  /\ op[h].at = "recheck"
  /\ \E t \in Views : t[op[h].g] # Absent
  /\ Succeed(h, "revoked", op[h].g)
  /\ UNCHANGED <<dbVars, lapsed, asked, audit>>

\* A replica row that says approved falls through to success.
RecheckRevoked(h) ==
  /\ op[h].at = "recheck"
  /\ \E t \in Views : t[op[h].g].status = "approved"
  /\ Succeed(h, "revoked", op[h].g)
  /\ UNCHANGED <<dbVars, lapsed, asked, audit>>

-----------------------------------------------------------------------------
\* The operation has succeeded; its audit event is attempted, the outcome of
\* the attempt is discarded (`let _ = state.audit.record(..)').
RecordAudit(h) ==
  /\ op[h].at = "audit"
  /\ \/ audit' = audit \cup {<<op[h].event, op[h].g>>}
     \/ UNCHANGED audit
  /\ Goto(h, Idle)
  /\ UNCHANGED <<dbVars, lapsed, asked>>

\* Every `?' and early Err: agent or grant not found, a look-up that shows the
\* wrong status, an UPDATE that matched no row, a duplicate-key or connection
\* error; and a request dropped by a timeout, a disconnect or a crash.
Abandon(h) ==
  /\ op[h] # Idle
  /\ Goto(h, Idle)
  /\ UNCHANGED <<dbVars, lapsed, asked, audit>>

\* The clock passes expires_at of g; nothing reads it once g is decided.
Lapse(g) ==
  /\ primary[g].status = "pending"
  /\ lapsed' = lapsed \cup {g}
  /\ UNCHANGED <<dbVars, op, asked, audit>>

CatchUp(r) == Replicate(r) /\ UNCHANGED <<op, lapsed, asked, audit>>

Request(h) ==
  \/ \E a \in Agents, s \in SPs, C \in Lists : CountPending(h, a, s, C)
  \/ FindPending(h)
  \/ InsertGrant(h)

Decide(h) ==
  \/ \E g \in GrantIds :
       \/ ReadForApproval(h, g)
       \/ ReadForDenial(h, g)
       \/ ReadForRevocation(h, g)
  \/ ApproveGrant(h)
  \/ DenyGrant(h)
  \/ RevokeGrant(h)
  \/ RecheckRevoked(h)

Next ==
  \/ \E h \in Handlers : Request(h) \/ Decide(h) \/ RecordAudit(h) \/ Abandon(h)
  \/ \E g \in GrantIds : Lapse(g)
  \/ \E r \in Replicas : CatchUp(r)

Spec == Init /\ [][Next]_vars

-----------------------------------------------------------------------------
\* The type of every variable.
TypeOK ==
  /\ primary \in Table
  /\ stream \in [Replicas -> Seq(Table)]
  /\ \A r \in Replicas : stream[r] # <<>>
  /\ op \in [Handlers -> Operation]
  /\ lapsed \subseteq GrantIds
  /\ asked \in [GrantIds -> SUBSET Caps]
  /\ audit \subseteq Events \X GrantIds

\* Requests for agent a that have passed the limit check and not inserted yet.
Admitted(a) == {h \in Handlers : op[h].at \in {"find", "insert"} /\ op[h].a = a}

\* The pending limit is checked before the insert and not with it, so it can
\* be exceeded; counted with those about to be inserted, the pending grants of
\* an agent exceed it by less than the number of requests in flight.
PendingOvershootBounded ==
  \A a \in Agents :
    Cardinality(PendingOf(primary, a)) + Cardinality(Admitted(a))
      < MaxPending + Cardinality(Handlers)

\* Every grant g of t is an earlier stage of the same grant in u.
Behind(t, u) ==
  \A g \in GrantIds :
    t[g] # Absent =>
      /\ u[g] # Absent
      /\ u[g].agent = t[g].agent /\ u[g].sp = t[g].sp
      /\ \/ t[g].status = "pending"
         \/ u[g].status = t[g].status /\ u[g].caps = t[g].caps
         \/ t[g].status = "approved" /\ u[g].status = "revoked"
            /\ u[g].caps = t[g].caps

\* A replica never shows a decision the primary does not have or has replaced
\* by a different one: the checks a handler makes on a replica can only be out
\* of date, never wrong about the past.
ReplicaBehind ==
  \A r \in Replicas : \A i \in 1..Len(stream[r]) : Behind(stream[r][i], primary)

\* What has been answered with success, or written to the audit log.
Claimed ==
  audit \cup {<<op[h].event, op[h].g>> : h \in {k \in Handlers : op[k].at = "audit"}}

Consistent(e) ==
  CASE e = "requested" -> {"pending", "approved", "denied", "revoked"}
    [] e = "denied"    -> {"denied"}
    [] OTHER           -> {"approved", "revoked"}

\* A success answer and an audit event tell the truth about the grant for ever:
\* an approval is only reported for a grant that was approved, a denial for one
\* that stays denied, and a revocation never for a pending or denied grant.
AnswersTruthful ==
  \A c \in Claimed : primary[c[2]].status \in Consistent(c[1])

\* approve_grant checks the kinds of capability against a replica's row before
\* its UPDATE; no interleaving lets an approved grant cover a kind that was not
\* requested, or approve nothing of something.
GrantedKindsRequested ==
  \A g \in GrantIds :
    primary[g].status \in {"approved", "revoked"} =>
      /\ KeysOf(primary[g].caps) \subseteq KeysOf(asked[g])
      /\ asked[g] # {} => primary[g].caps # {}

\* The approval window of g has closed: it has lapsed undecided or denied, and
\* no approval that was read in time is on its way.
Closed(g) ==
  /\ g \in lapsed
  /\ primary[g].status \in {"pending", "denied"}
  /\ \A h \in Handlers : op[h].at = "approve" => op[h].g # g

\* expires_at is only looked at before the UPDATE and on a replica's row, yet a
\* window that has closed never opens again.
ClosedStaysClosed == [][\A g \in GrantIds : Closed(g) => Closed(g)']_vars

\* The status and the kinds of each grant follow the abstract life cycle.
StatusOf == [g \in GrantIds |-> primary[g].status]
ScopeOf ==
  [g \in GrantIds |-> IF primary[g] = Absent THEN {} ELSE KeysOf(primary[g].caps)]

Lifecycle == INSTANCE GrantLifecycle
  WITH Grants <- GrantIds, status <- StatusOf, scope <- ScopeOf

LifecycleRefined == Lifecycle!LSpec

-----------------------------------------------------------------------------
(* What the documentation says and the code does not do. *)

\* "Revoke a grant.": a successful answer leaves the grant revoked.
RevocationsTruthful ==
  \A g \in GrantIds : <<"revoked", g>> \in Claimed => primary[g].status = "revoked"
=============================================================================
