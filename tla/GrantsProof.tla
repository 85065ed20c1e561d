---------------------------- MODULE GrantsProof ----------------------------
(***************************************************************************)
(* Theorems about Grants, for every set of handlers, agents, providers,    *)
(* capabilities and replicas and every limit.                              *)
(***************************************************************************)
EXTENDS Grants, DatabaseProof, FiniteSetTheorems

-----------------------------------------------------------------------------
(* What each stage of a request carries. *)

\* What a request in flight holds, by where it is.
LEMMA OperationShape ==
  ASSUME NEW o \in Operation
  PROVE  /\ o.at \in {"find", "insert"} =>
              o.a \in Agents /\ o.s \in SPs /\ o.caps \in SUBSET Caps
         /\ o.at \in {"find", "insert"} =>
              /\ [o EXCEPT !.at = "insert"] \in Operation
              /\ [o EXCEPT !.at = "insert"].at = "insert"
         /\ o.at = "approve" => o.g \in GrantIds /\ o.caps \in SUBSET Caps
         /\ o.at \in {"deny", "revoke", "recheck"} =>
              /\ o.g \in GrantIds /\ [o EXCEPT !.at = "recheck"] \in Operation
              /\ [o EXCEPT !.at = "recheck"].at = "recheck"
         /\ o.at = "audit" => o.event \in Events /\ o.g \in GrantIds
         /\ o.at = "idle" => o = Idle
BY DEF Operation, Idle

\* Rewriting one present row keeps a table a table.
LEMMA UpdateTable ==
  ASSUME NEW t \in Table, NEW g \in GrantIds, NEW row \in Row
  PROVE  /\ [t EXCEPT ![g] = row] \in Table
         /\ [t EXCEPT ![g] = row][g] = row
         /\ \A k \in GrantIds : k # g => [t EXCEPT ![g] = row][k] = t[k]
BY DEF Table

\* A row of the table with one of its columns changed is a row.
LEMMA PresentRow ==
  ASSUME NEW t \in Table, NEW g \in GrantIds, t[g].status # "none"
  PROVE  /\ t[g] \in Row
         /\ \A s \in {"approved", "denied", "revoked"} :
              [t[g] EXCEPT !.status = s] \in Row
         /\ \A C \in SUBSET Caps :
              [t[g] EXCEPT !.status = "approved", !.caps = C] \in Row
<1>1. t[g] \in Row
  BY DEF Table, Absent
<1>. QED BY <1>1 DEF Row

\* A row has a status; only a missing one has none.
LEMMA RowStatus == \A row \in Row : row.status # "none" /\ row # Absent
BY DEF Row, Absent

-----------------------------------------------------------------------------
(* Type correctness. *)

\* The table is empty and no request in flight.
LEMMA TypeInit == Init => TypeOK
<1> SUFFICES ASSUME Init PROVE TypeOK
  OBVIOUS
<1>1. primary \in Table
  BY DEF Init, DbInit, Table
<1>2. <<primary>> \in Seq(Table) /\ <<primary>> # <<>>
  BY <1>1
<1>3. stream = [r \in Replicas |-> <<primary>>]
  BY DEF Init, DbInit
<1>4. op \in [Handlers -> Operation]
  BY DEF Init, Operation
<1>. QED BY <1>1, <1>2, <1>3, <1>4 DEF Init, TypeOK

\* An update of one row, by any action, keeps the database well typed.
LEMMA UpdateType ==
  ASSUME TypeOK, NEW g \in GrantIds, NEW row \in Row, Update(g, row)
  PROVE  /\ primary' = [primary EXCEPT ![g] = row]
         /\ primary' \in Table
         /\ stream' \in [Replicas -> Seq(Table)]
         /\ \A r \in Replicas : stream'[r] # <<>>
         /\ \A r \in Replicas : \A i \in 1..Len(stream'[r]) :
              \/ i \in 1..Len(stream[r]) /\ stream'[r][i] = stream[r][i]
              \/ stream'[r][i] = primary'
<1> DEFINE table == [primary EXCEPT ![g] = row]
<1>1. table \in Table
  BY UpdateTable DEF TypeOK
<1>2. stream \in [Replicas -> Seq(Table)]
  BY DEF TypeOK
<1>3. Commit(table)
  BY DEF Update
<1>4. primary' = table
  BY <1>3 DEF Commit
<1>5. primary' = [primary EXCEPT ![g] = row]
  BY <1>4
<1> HIDE DEF table
<1>. QED BY <1>1, <1>2, <1>3, <1>4, <1>5, CommitStreams

\* Every step keeps the types.
LEMMA TypeNext == TypeOK /\ [Next]_vars => TypeOK'
<1> SUFFICES ASSUME TypeOK, [Next]_vars PROVE TypeOK'
  OBVIOUS
<1> USE DEF Goto, Succeed
<1>1. ASSUME NEW h \in Handlers, Request(h) PROVE TypeOK'
  <2>1. CASE \E a \in Agents, s \in SPs, C \in Lists : CountPending(h, a, s, C)
    BY <2>1, GrantsAssumption DEF CountPending, TypeOK, Operation, dbVars
  <2>2. CASE FindPending(h)
    <3>1. op[h] \in Operation /\ op[h].at = "find"
      BY <2>2 DEF FindPending, TypeOK
    <3>2. \/ op' = [op EXCEPT ![h] = [op[h] EXCEPT !.at = "insert"]]
          \/ \E g \in GrantIds :
               op' = [op EXCEPT ![h] = [at |-> "audit", event |-> "requested", g |-> g]]
      BY <2>2 DEF FindPending, PendingOf
    <3>3. [op[h] EXCEPT !.at = "insert"] \in Operation
      BY <3>1, OperationShape
    <3>4. \A g \in GrantIds : [at |-> "audit", event |-> "requested", g |-> g] \in Operation
      BY DEF Operation, Events
    <3>5. op' \in [Handlers -> Operation]
      BY <3>2, <3>3, <3>4 DEF TypeOK
    <3>. QED BY <2>2, <3>5 DEF FindPending, TypeOK, dbVars
  <2>3. CASE InsertGrant(h)
    <3>1. PICK g \in GrantIds :
            /\ Update(g, [status |-> "pending", agent |-> op[h].a, sp |-> op[h].s,
                          caps |-> op[h].caps])
            /\ asked' = [asked EXCEPT ![g] = op[h].caps]
            /\ op' = [op EXCEPT ![h] = [at |-> "audit", event |-> "requested", g |-> g]]
      BY <2>3 DEF InsertGrant
    <3>2. op[h].a \in Agents /\ op[h].s \in SPs /\ op[h].caps \in SUBSET Caps
      BY <2>3, OperationShape DEF InsertGrant, TypeOK
    <3>3. [status |-> "pending", agent |-> op[h].a, sp |-> op[h].s,
           caps |-> op[h].caps] \in Row
      BY <3>2 DEF Row
    <3>4. /\ primary' \in Table
          /\ stream' \in [Replicas -> Seq(Table)]
          /\ \A r \in Replicas : stream'[r] # <<>>
      BY <3>1, <3>3, UpdateType
    <3>5. op' \in [Handlers -> Operation]
      BY <3>1 DEF TypeOK, Operation, Events
    <3>. QED BY <3>1, <3>2, <3>4, <3>5, <2>3 DEF InsertGrant, TypeOK
  <2>. QED BY <1>1, <2>1, <2>2, <2>3 DEF Request
<1>2. ASSUME NEW h \in Handlers, Decide(h) PROVE TypeOK'
  <2>1. ASSUME NEW g \in GrantIds, ReadForApproval(h, g) PROVE TypeOK'
    <3>1. PICK t \in Views : /\ t[g].status = "pending"
                             /\ \E D \in Grantable(t[g].caps) :
                                  op' = [op EXCEPT ![h] = [at |-> "approve", g |-> g, caps |-> D]]
      BY <2>1 DEF ReadForApproval
    <3>2. t \in Table
      BY ViewIsPast DEF TypeOK
    <3>3. t[g].caps \in SUBSET Caps
      BY <3>1, <3>2, PresentRow DEF Row
    <3>4. Grantable(t[g].caps) \subseteq SUBSET Caps
      BY <3>3, GrantsAssumption DEF Grantable
    <3>. QED BY <2>1, <3>1, <3>4 DEF ReadForApproval, TypeOK, Operation, dbVars
  <2>2. ASSUME NEW g \in GrantIds, ReadForDenial(h, g) \/ ReadForRevocation(h, g)
        PROVE  TypeOK'
    BY <2>2 DEF ReadForDenial, ReadForRevocation, TypeOK, Operation, dbVars
  <2>3. ASSUME ApproveGrant(h) \/ DenyGrant(h) PROVE TypeOK'
    <3>1. op[h].g \in GrantIds /\ primary[op[h].g].status # "none"
      BY <2>3, OperationShape DEF ApproveGrant, DenyGrant, TypeOK
    <3>2. \E row \in Row : Update(op[h].g, row)
      <4>1. CASE ApproveGrant(h)
        BY <4>1, <3>1, PresentRow, OperationShape DEF ApproveGrant, TypeOK
      <4>2. CASE DenyGrant(h)
        BY <4>2, <3>1, PresentRow DEF DenyGrant, TypeOK
      <4>. QED BY <2>3, <4>1, <4>2
    <3>3. /\ primary' \in Table
          /\ stream' \in [Replicas -> Seq(Table)]
          /\ \A r \in Replicas : stream'[r] # <<>>
      BY <3>1, <3>2, UpdateType
    <3>4. op' \in [Handlers -> Operation]
      BY <2>3, <3>1 DEF ApproveGrant, DenyGrant, TypeOK, Operation, Events
    <3>. QED BY <2>3, <3>3, <3>4 DEF ApproveGrant, DenyGrant, TypeOK
  <2>4. CASE RevokeGrant(h)
    <3>1. op[h].g \in GrantIds /\ [op[h] EXCEPT !.at = "recheck"] \in Operation
      BY <2>4, OperationShape DEF RevokeGrant, TypeOK
    <3>2. CASE primary[op[h].g].status = "approved"
      <4>1. [primary[op[h].g] EXCEPT !.status = "revoked"] \in Row
        BY <3>1, <3>2, PresentRow DEF TypeOK
      <4>2. /\ primary' \in Table
            /\ stream' \in [Replicas -> Seq(Table)]
            /\ \A r \in Replicas : stream'[r] # <<>>
        BY <2>4, <3>1, <3>2, <4>1, UpdateType DEF RevokeGrant
      <4>3. op' \in [Handlers -> Operation]
        BY <2>4, <3>1, <3>2 DEF RevokeGrant, TypeOK, Operation, Events
      <4>. QED BY <2>4, <4>2, <4>3 DEF RevokeGrant, TypeOK
    <3>3. CASE primary[op[h].g].status # "approved"
      BY <2>4, <3>1, <3>3 DEF RevokeGrant, TypeOK, dbVars
    <3>. QED BY <3>2, <3>3
  <2>5. CASE RecheckRevoked(h)
    BY <2>5, OperationShape DEF RecheckRevoked, TypeOK, Operation, Events, dbVars
  <2>. QED BY <1>2, <2>1, <2>2, <2>3, <2>4, <2>5 DEF Decide
<1>3. ASSUME NEW h \in Handlers, RecordAudit(h) PROVE TypeOK'
  <2>1. op[h].event \in Events /\ op[h].g \in GrantIds
    BY <1>3, OperationShape DEF RecordAudit, TypeOK
  <2>2. audit' \subseteq Events \X GrantIds
    BY <1>3, <2>1 DEF RecordAudit, TypeOK
  <2>. QED BY <1>3, <2>2 DEF RecordAudit, TypeOK, Operation, dbVars
<1>4. ASSUME NEW h \in Handlers, Abandon(h) PROVE TypeOK'
  BY <1>4 DEF Abandon, TypeOK, Operation, dbVars
<1>5. ASSUME NEW g \in GrantIds, Lapse(g) PROVE TypeOK'
  BY <1>5 DEF Lapse, TypeOK, dbVars
<1>6. ASSUME NEW r \in Replicas, CatchUp(r) PROVE TypeOK'
  <2>1. /\ stream' \in [Replicas -> Seq(Table)]
        /\ \A q \in Replicas : stream'[q] # <<>>
    BY <1>6, ReplicateStreams DEF CatchUp, TypeOK
  <2>. QED BY <1>6, <2>1 DEF CatchUp, Replicate, TypeOK
<1>7. CASE UNCHANGED vars
  BY <1>7 DEF vars, TypeOK
<1>. QED BY <1>1, <1>2, <1>3, <1>4, <1>5, <1>6, <1>7 DEF Next

\* Every variable keeps its type.
THEOREM TypeCorrect == Spec => []TypeOK
BY TypeInit, TypeNext, PTL DEF Spec

-----------------------------------------------------------------------------
(* Replicas show the past. *)

\* A table is an earlier stage of itself.
LEMMA BehindReflexive == ASSUME NEW t PROVE Behind(t, t)
BY DEF Behind

\* Stages are ordered.
LEMMA BehindTransitive ==
  ASSUME NEW t \in Table, NEW u \in Table, NEW v \in Table, Behind(t, u), Behind(u, v)
  PROVE  Behind(t, v)
<1> SUFFICES ASSUME NEW g \in GrantIds, t[g] # Absent
             PROVE  /\ v[g] # Absent
                    /\ v[g].agent = t[g].agent /\ v[g].sp = t[g].sp
                    /\ \/ t[g].status = "pending"
                       \/ v[g].status = t[g].status /\ v[g].caps = t[g].caps
                       \/ t[g].status = "approved" /\ v[g].status = "revoked"
                          /\ v[g].caps = t[g].caps
  BY DEF Behind
<1>1. /\ u[g] # Absent
      /\ u[g].agent = t[g].agent /\ u[g].sp = t[g].sp
      /\ \/ t[g].status = "pending"
         \/ u[g].status = t[g].status /\ u[g].caps = t[g].caps
         \/ t[g].status = "approved" /\ u[g].status = "revoked"
            /\ u[g].caps = t[g].caps
  BY DEF Behind
<1>2. /\ v[g] # Absent
      /\ v[g].agent = u[g].agent /\ v[g].sp = u[g].sp
      /\ \/ u[g].status = "pending"
         \/ v[g].status = u[g].status /\ v[g].caps = u[g].caps
         \/ u[g].status = "approved" /\ v[g].status = "revoked"
            /\ v[g].caps = u[g].caps
  BY <1>1 DEF Behind
<1>. QED BY <1>1, <1>2

\* What any step does to the primary and the streams, and to the history of
\* what was asked.
HistoryStep ==
  /\ Behind(primary, primary')
  /\ \A r \in Replicas : \A i \in 1..Len(stream'[r]) :
       \/ \E j \in 1..Len(stream[r]) : stream'[r][i] = stream[r][j]
       \/ stream'[r][i] = primary'
  /\ \A g \in GrantIds :
       /\ primary[g] # Absent => asked'[g] = asked[g]
       /\ primary'[g].status = "pending" =>
            \/ primary[g].status = "pending" /\ primary'[g].caps = primary[g].caps
            \/ primary[g] = Absent /\ primary'[g].caps = asked'[g]

\* A step that touches neither the table nor what was asked.
LEMMA UnchangedHistory ==
  ASSUME TypeOK, UNCHANGED <<dbVars, asked>>
  PROVE  HistoryStep
BY BehindReflexive DEF HistoryStep, dbVars, TypeOK, Table, Absent

\* A statement that inserts a grant or moves one on.
LEMMA UpdateHistory ==
  ASSUME TypeOK, NEW g \in GrantIds, NEW row \in Row, Update(g, row),
         asked' = [asked EXCEPT ![g] = asked'[g]],
         \/ primary[g] = Absent /\ row.status = "pending" /\ row.caps = asked'[g]
         \/ /\ primary[g].status = "pending" /\ row.status # "pending"
            /\ row.agent = primary[g].agent /\ row.sp = primary[g].sp
            /\ UNCHANGED asked
         \/ /\ primary[g].status = "approved" /\ row.status = "revoked"
            /\ row.agent = primary[g].agent /\ row.sp = primary[g].sp
            /\ row.caps = primary[g].caps
            /\ UNCHANGED asked
  PROVE  HistoryStep
<1>0. primary \in Table /\ primary' = [primary EXCEPT ![g] = row]
  BY UpdateType DEF TypeOK
<1>1. /\ primary'[g] = row
      /\ \A k \in GrantIds : k # g => primary'[k] = primary[k]
  BY <1>0, UpdateTable
<1>2. \A r \in Replicas : \A i \in 1..Len(stream'[r]) :
       \/ \E j \in 1..Len(stream[r]) : stream'[r][i] = stream[r][j]
       \/ stream'[r][i] = primary'
  BY UpdateType
<1>3. Behind(primary, primary')
  BY <1>1, RowStatus DEF Behind
<1>4. \A k \in GrantIds :
       /\ primary[k] # Absent => asked'[k] = asked[k]
       /\ primary'[k].status = "pending" =>
            \/ primary[k].status = "pending" /\ primary'[k].caps = primary[k].caps
            \/ primary[k] = Absent /\ primary'[k].caps = asked'[k]
  BY <1>1 DEF TypeOK
<1>. QED BY <1>2, <1>3, <1>4 DEF HistoryStep

\* Every step moves grants forward only, on the primary and on each replica.
LEMMA StepHistory == TypeOK /\ [Next]_vars => HistoryStep
<1> SUFFICES ASSUME TypeOK, [Next]_vars PROVE HistoryStep
  OBVIOUS
<1>1. ASSUME NEW h \in Handlers, InsertGrant(h) PROVE HistoryStep
  <2>1. PICK g \in GrantIds :
          /\ primary[g] = Absent
          /\ Update(g, [status |-> "pending", agent |-> op[h].a, sp |-> op[h].s,
                        caps |-> op[h].caps])
          /\ asked' = [asked EXCEPT ![g] = op[h].caps]
    BY <1>1 DEF InsertGrant
  <2>2. op[h].a \in Agents /\ op[h].s \in SPs /\ op[h].caps \in SUBSET Caps
    BY <1>1, OperationShape DEF InsertGrant, TypeOK
  <2>3. [status |-> "pending", agent |-> op[h].a, sp |-> op[h].s,
         caps |-> op[h].caps] \in Row
    BY <2>2 DEF Row
  <2>4. asked'[g] = op[h].caps /\ asked' = [asked EXCEPT ![g] = asked'[g]]
    BY <2>1 DEF TypeOK
  <2>. QED BY <2>1, <2>3, <2>4, UpdateHistory
<1>2. ASSUME NEW h \in Handlers, ApproveGrant(h) PROVE HistoryStep
  <2>1. /\ op[h].g \in GrantIds /\ op[h].caps \in SUBSET Caps
        /\ primary[op[h].g].status = "pending"
    BY <1>2, OperationShape DEF ApproveGrant, TypeOK
  <2> DEFINE row == [primary[op[h].g] EXCEPT !.status = "approved", !.caps = op[h].caps]
  <2>2. primary[op[h].g] \in Row /\ row \in Row
    BY <2>1, PresentRow DEF TypeOK
  <2>3. /\ row.status = "approved" /\ row.agent = primary[op[h].g].agent
        /\ row.sp = primary[op[h].g].sp
    BY <2>2 DEF Row
  <2>4. Update(op[h].g, row) /\ UNCHANGED asked
    BY <1>2 DEF ApproveGrant
  <2>5. asked' = [asked EXCEPT ![op[h].g] = asked'[op[h].g]]
    BY <2>4, <2>1 DEF TypeOK
  <2> HIDE DEF row
  <2>. QED BY <2>1, <2>2, <2>3, <2>4, <2>5, UpdateHistory
<1>3. ASSUME NEW h \in Handlers, DenyGrant(h) PROVE HistoryStep
  <2>1. /\ op[h].g \in GrantIds
        /\ primary[op[h].g].status = "pending"
    BY <1>3, OperationShape DEF DenyGrant, TypeOK
  <2> DEFINE row == [primary[op[h].g] EXCEPT !.status = "denied"]
  <2>2. primary[op[h].g] \in Row /\ row \in Row
    BY <2>1, PresentRow DEF TypeOK
  <2>3. /\ row.status = "denied" /\ row.agent = primary[op[h].g].agent
        /\ row.sp = primary[op[h].g].sp
    BY <2>2 DEF Row
  <2>4. Update(op[h].g, row) /\ UNCHANGED asked
    BY <1>3 DEF DenyGrant
  <2>5. asked' = [asked EXCEPT ![op[h].g] = asked'[op[h].g]]
    BY <2>4, <2>1 DEF TypeOK
  <2> HIDE DEF row
  <2>. QED BY <2>1, <2>2, <2>3, <2>4, <2>5, UpdateHistory
<1>4. ASSUME NEW h \in Handlers, RevokeGrant(h) PROVE HistoryStep
  <2>1. op[h].g \in GrantIds
    BY <1>4, OperationShape DEF RevokeGrant, TypeOK
  <2>2. CASE primary[op[h].g].status = "approved"
    <3> DEFINE row == [primary[op[h].g] EXCEPT !.status = "revoked"]
    <3>1. primary[op[h].g] \in Row /\ row \in Row
      BY <2>1, <2>2, PresentRow DEF TypeOK
    <3>2. /\ row.status = "revoked" /\ row.agent = primary[op[h].g].agent
          /\ row.sp = primary[op[h].g].sp /\ row.caps = primary[op[h].g].caps
      BY <3>1 DEF Row
    <3>3. Update(op[h].g, row) /\ UNCHANGED asked
      BY <1>4, <2>2 DEF RevokeGrant
    <3>4. asked' = [asked EXCEPT ![op[h].g] = asked'[op[h].g]]
      BY <3>3, <2>1 DEF TypeOK
    <3> HIDE DEF row
    <3>. QED BY <2>1, <2>2, <3>1, <3>2, <3>3, <3>4, UpdateHistory
  <2>3. CASE primary[op[h].g].status # "approved"
    BY <1>4, <2>3, UnchangedHistory DEF RevokeGrant, dbVars
  <2>. QED BY <2>2, <2>3
<1>5. ASSUME NEW r \in Replicas, CatchUp(r) PROVE HistoryStep
  <2>1. \A q \in Replicas : \A i \in 1..Len(stream'[q]) :
         \E j \in 1..Len(stream[q]) : stream'[q][i] = stream[q][j]
    BY <1>5, ReplicateStreams DEF CatchUp, TypeOK
  <2>2. UNCHANGED <<primary, asked>>
    BY <1>5 DEF CatchUp, Replicate
  <2>. QED BY <2>1, <2>2, BehindReflexive DEF HistoryStep
<1>6. ASSUME UNCHANGED <<dbVars, asked>> PROVE HistoryStep
  BY <1>6, UnchangedHistory
<1>. QED
  BY <1>1, <1>2, <1>3, <1>4, <1>5, <1>6
  DEF Next, Request, Decide, CountPending, FindPending, ReadForApproval, ReadForDenial,
      ReadForRevocation, RecheckRevoked, RecordAudit, Abandon, Lapse, vars, dbVars

\* What a replica shows stays behind the primary.
LEMMA ReplicaBehindNext ==
  TypeOK /\ TypeOK' /\ HistoryStep /\ ReplicaBehind => ReplicaBehind'
<1> SUFFICES ASSUME TypeOK, TypeOK', HistoryStep, ReplicaBehind,
                    NEW r \in Replicas, NEW i \in 1..Len(stream'[r])
             PROVE  Behind(stream'[r][i], primary')
  BY DEF ReplicaBehind
<1>1. CASE stream'[r][i] = primary'
  BY <1>1, BehindReflexive
<1>2. ASSUME NEW j \in 1..Len(stream[r]), stream'[r][i] = stream[r][j]
      PROVE  Behind(stream'[r][i], primary')
  <2>1. stream[r] \in Seq(Table) /\ primary \in Table /\ primary' \in Table
    BY DEF TypeOK
  <2>2. stream[r][j] \in Table
    BY <2>1
  <2>3. Behind(stream[r][j], primary) /\ Behind(primary, primary')
    BY DEF ReplicaBehind, HistoryStep
  <2>4. Behind(stream[r][j], primary')
    BY <2>1, <2>2, <2>3, BehindTransitive
  <2>. QED BY <2>4, <1>2
<1>. QED BY <1>1, <1>2 DEF HistoryStep

\* At first all tables are empty.
LEMMA ReplicaBehindInit == Init => ReplicaBehind
<1> SUFFICES ASSUME Init PROVE ReplicaBehind
  OBVIOUS
<1>1. \A r \in Replicas : stream[r] = <<primary>>
  BY DEF Init, DbInit
<1>. QED BY <1>1, BehindReflexive DEF ReplicaBehind

\* A replica only ever shows earlier stages of the primary's grants.
THEOREM ReplicasShowThePast == Spec => []ReplicaBehind
<1>1. TypeOK /\ [Next]_vars /\ ReplicaBehind => ReplicaBehind'
  BY TypeNext, StepHistory, ReplicaBehindNext
<1>. QED BY <1>1, ReplicaBehindInit, TypeCorrect, PTL DEF Spec

-----------------------------------------------------------------------------
(* Approvals stay within what was asked. *)

AsAsked(t) == \A g \in GrantIds : t[g].status = "pending" => t[g].caps = asked[g]

\* Until it is decided a grant carries the requested list, on the primary and
\* on every state a replica may still show.
PendingAsAsked ==
  /\ AsAsked(primary)
  /\ \A r \in Replicas : \A i \in 1..Len(stream[r]) : AsAsked(stream[r][i])

Within(C, D) == KeysOf(C) \subseteq KeysOf(D) /\ (D # {} => C # {})

\* An approval on its way to the primary holds a list within what was asked.
ApprovalsWithin ==
  \A h \in Handlers :
    op[h].at = "approve" =>
      primary[op[h].g] # Absent /\ Within(op[h].caps, asked[op[h].g])

ScopeInv == ReplicaBehind /\ PendingAsAsked /\ ApprovalsWithin /\ GrantedKindsRequested

\* A pending grant covers what was asked for it until it is decided.
LEMMA PendingAsAskedNext ==
  TypeOK /\ HistoryStep /\ ReplicaBehind /\ PendingAsAsked => PendingAsAsked'
<1> SUFFICES ASSUME TypeOK, HistoryStep, ReplicaBehind, PendingAsAsked
             PROVE  PendingAsAsked'
  OBVIOUS
<1>1. AsAsked(primary)'
  BY DEF HistoryStep, PendingAsAsked, AsAsked, Absent
<1>2. ASSUME NEW r \in Replicas, NEW i \in 1..Len(stream'[r])
      PROVE  \A g \in GrantIds :
               stream'[r][i][g].status = "pending" => stream'[r][i][g].caps = asked'[g]
  <2>1. CASE stream'[r][i] = primary'
    BY <2>1, <1>1 DEF AsAsked
  <2>2. ASSUME NEW j \in 1..Len(stream[r]), stream'[r][i] = stream[r][j],
               NEW g \in GrantIds, stream[r][j][g].status = "pending"
        PROVE  stream[r][j][g].caps = asked'[g]
    <3>1. stream[r][j][g].caps = asked[g]
      BY <2>2 DEF PendingAsAsked, AsAsked
    <3>2. primary[g] # Absent
      BY <2>2 DEF ReplicaBehind, Behind, Absent
    <3>. QED BY <3>1, <3>2 DEF HistoryStep
  <2>. QED BY <2>1, <2>2 DEF HistoryStep
<1>. QED BY <1>1, <1>2 DEF PendingAsAsked, AsAsked

\* Whatever look-up decides on an approval, the grant exists and is asked for.
LEMMA ViewAsAsked ==
  ASSUME TypeOK, ReplicaBehind, PendingAsAsked,
         NEW t \in Views, NEW g \in GrantIds
  PROVE  /\ t \in Table
         /\ t[g] # Absent => primary[g] # Absent
         /\ t[g].status = "pending" => t[g].caps = asked[g]
         /\ t[g].status = "approved" => primary[g].status \in {"approved", "revoked"}
<1>1. \/ t = primary
      \/ \E r \in Replicas : \E i \in 1..Len(stream[r]) : t = stream[r][i]
  BY ViewIsPast DEF TypeOK
<1>2. CASE t = primary
  BY <1>2 DEF TypeOK, PendingAsAsked, AsAsked
<1>3. ASSUME NEW r \in Replicas, NEW i \in 1..Len(stream[r]), t = stream[r][i]
      PROVE  /\ t \in Table
             /\ t[g] # Absent => primary[g] # Absent
             /\ t[g].status = "pending" => t[g].caps = asked[g]
             /\ t[g].status = "approved" => primary[g].status \in {"approved", "revoked"}
  <2>1. stream[r] \in Seq(Table)
    BY DEF TypeOK
  <2>2. t \in Table
    BY <2>1, <1>3
  <2>3. Behind(t, primary) /\ AsAsked(t)
    BY <1>3 DEF ReplicaBehind, PendingAsAsked
  <2>. QED BY <2>2, <2>3 DEF Behind, AsAsked, Absent
<1>. QED BY <1>1, <1>2, <1>3

\* No step lets a grant cover a kind that was not asked for.
LEMMA ScopeNext == TypeOK /\ TypeOK' /\ ScopeInv /\ [Next]_vars => ScopeInv'
<1> SUFFICES ASSUME TypeOK, TypeOK', ScopeInv, [Next]_vars PROVE ScopeInv'
  OBVIOUS
<1> USE DEF ScopeInv
<1>1. HistoryStep
  BY StepHistory
<1>2. ReplicaBehind' /\ PendingAsAsked'
  BY <1>1, ReplicaBehindNext, PendingAsAskedNext
<1>3. \A g \in GrantIds :
        primary[g] # Absent => primary'[g] # Absent /\ asked'[g] = asked[g]
  BY <1>1 DEF HistoryStep, Behind
<1>4. ASSUME NEW k \in Handlers, op'[k].at = "approve", op'[k] = op[k]
      PROVE  primary'[op'[k].g] # Absent /\ Within(op'[k].caps, asked'[op'[k].g])
  <2>1. op[k].g \in GrantIds
    BY <1>4, OperationShape DEF TypeOK
  <2>. QED BY <1>3, <1>4, <2>1 DEF ApprovalsWithin
<1>5. ASSUME NEW h \in Handlers, NEW g \in GrantIds, ReadForApproval(h, g)
      PROVE  ApprovalsWithin' /\ GrantedKindsRequested'
  <2>1. PICK t \in Views : /\ t[g].status = "pending"
                           /\ \E D \in Grantable(t[g].caps) :
                                Goto(h, [at |-> "approve", g |-> g, caps |-> D])
    BY <1>5 DEF ReadForApproval
  <2>2. PICK D \in Grantable(t[g].caps) :
               op' = [op EXCEPT ![h] = [at |-> "approve", g |-> g, caps |-> D]]
    BY <2>1 DEF Goto
  <2>3. t[g].caps = asked[g] /\ primary[g] # Absent
    BY <2>1, ViewAsAsked DEF Absent
  <2>4. Within(D, asked[g])
    BY <2>2, <2>3 DEF Grantable, Within
  <2>5. UNCHANGED <<primary, asked>>
    BY <1>5 DEF ReadForApproval, dbVars
  <2>6. op'[h] = [at |-> "approve", g |-> g, caps |-> D]
    BY <2>2 DEF TypeOK
  <2>7. \A k \in Handlers : k # h => op'[k] = op[k]
    BY <2>2 DEF TypeOK
  <2>8. ApprovalsWithin'
    BY <1>4, <2>3, <2>4, <2>5, <2>6, <2>7 DEF ApprovalsWithin
  <2>. QED BY <2>5, <2>8 DEF GrantedKindsRequested
<1>6. ASSUME NEW h \in Handlers, NEW o, Goto(h, o), o.at # "approve"
      PROVE  ApprovalsWithin'
  <2>1. op' = [op EXCEPT ![h] = o] /\ op \in [Handlers -> Operation]
    BY <1>6 DEF Goto, TypeOK
  <2>2. op'[h] = o /\ \A k \in Handlers : k # h => op'[k] = op[k]
    BY <2>1
  <2>. QED BY <1>4, <1>6, <2>2 DEF ApprovalsWithin
<1>7. ASSUME NEW h \in Handlers, ApproveGrant(h) PROVE GrantedKindsRequested'
  <2>1. /\ op[h].g \in GrantIds /\ op[h].caps \in SUBSET Caps
        /\ primary[op[h].g].status = "pending" /\ primary \in Table
    BY <1>7, OperationShape DEF ApproveGrant, TypeOK
  <2>2. /\ primary[op[h].g] \in Row
        /\ [primary[op[h].g] EXCEPT !.status = "approved", !.caps = op[h].caps] \in Row
    BY <2>1, PresentRow
  <2>3. primary' = [primary EXCEPT ![op[h].g] =
                     [primary[op[h].g] EXCEPT !.status = "approved", !.caps = op[h].caps]]
    BY <1>7 DEF ApproveGrant, Update, Commit
  <2> DEFINE row == [primary[op[h].g] EXCEPT !.status = "approved", !.caps = op[h].caps]
  <2>8. row.caps = op[h].caps
    BY <2>2 DEF Row
  <2>9. primary' = [primary EXCEPT ![op[h].g] = row] /\ row \in Row
    BY <2>2, <2>3
  <2> HIDE DEF row
  <2>4. primary'[op[h].g].caps = op[h].caps
    BY <2>1, <2>8, <2>9, UpdateTable
  <2>5. \A k \in GrantIds : k # op[h].g => primary'[k] = primary[k]
    BY <2>1, <2>9, UpdateTable
  <2>6. asked' = asked
    BY <1>7 DEF ApproveGrant
  <2>7. Within(op[h].caps, asked[op[h].g])
    BY <1>7 DEF ApproveGrant, ApprovalsWithin
  <2>. QED BY <2>4, <2>5, <2>6, <2>7 DEF GrantedKindsRequested, Within
<1>8. ASSUME NEW g \in GrantIds, NEW row \in Row, Update(g, row),
             \A k \in GrantIds : k # g => asked'[k] = asked[k],
             \/ row.status \in {"pending", "denied"}
             \/ /\ primary[g].status = "approved" /\ row.caps = primary[g].caps
                /\ asked' = asked
      PROVE  GrantedKindsRequested'
  <2>1. primary \in Table /\ primary' = [primary EXCEPT ![g] = row]
    BY <1>8, UpdateType DEF TypeOK
  <2>2. primary'[g] = row /\ \A k \in GrantIds : k # g => primary'[k] = primary[k]
    BY <2>1, UpdateTable
  <2>. QED BY <1>8, <2>2 DEF GrantedKindsRequested
<1>9. ASSUME NEW h \in Handlers, InsertGrant(h) PROVE GrantedKindsRequested'
  <2>1. PICK g \in GrantIds :
          /\ Update(g, [status |-> "pending", agent |-> op[h].a, sp |-> op[h].s,
                        caps |-> op[h].caps])
          /\ asked' = [asked EXCEPT ![g] = op[h].caps]
    BY <1>9 DEF InsertGrant
  <2>2. [status |-> "pending", agent |-> op[h].a, sp |-> op[h].s,
         caps |-> op[h].caps] \in Row
    BY <1>9, OperationShape DEF InsertGrant, TypeOK, Row
  <2>3. \A k \in GrantIds : k # g => asked'[k] = asked[k]
    BY <2>1 DEF TypeOK
  <2>. QED BY <2>1, <2>2, <2>3, <1>8
<1>10. ASSUME NEW h \in Handlers, DenyGrant(h) PROVE GrantedKindsRequested'
  <2>1. op[h].g \in GrantIds /\ primary[op[h].g].status = "pending" /\ primary \in Table
    BY <1>10, OperationShape DEF DenyGrant, TypeOK
  <2> DEFINE row == [primary[op[h].g] EXCEPT !.status = "denied"]
  <2>2. primary[op[h].g] \in Row /\ row \in Row
    BY <2>1, PresentRow
  <2>3. row.status = "denied"
    BY <2>2 DEF Row
  <2>4. Update(op[h].g, row) /\ asked' = asked
    BY <1>10 DEF DenyGrant
  <2> HIDE DEF row
  <2>. QED BY <2>1, <2>2, <2>3, <2>4, <1>8
<1>11. ASSUME NEW h \in Handlers, RevokeGrant(h) PROVE GrantedKindsRequested'
  <2>1. op[h].g \in GrantIds /\ primary \in Table
    BY <1>11, OperationShape DEF RevokeGrant, TypeOK
  <2>2. CASE primary[op[h].g].status = "approved"
    <3> DEFINE row == [primary[op[h].g] EXCEPT !.status = "revoked"]
    <3>1. primary[op[h].g] \in Row /\ row \in Row
      BY <2>1, <2>2, PresentRow
    <3>2. row.caps = primary[op[h].g].caps
      BY <3>1 DEF Row
    <3>3. Update(op[h].g, row) /\ asked' = asked
      BY <1>11, <2>2 DEF RevokeGrant
    <3> HIDE DEF row
    <3>. QED BY <2>1, <2>2, <3>1, <3>2, <3>3, <1>8
  <2>3. CASE primary[op[h].g].status # "approved"
    BY <1>11, <2>3 DEF RevokeGrant, dbVars, GrantedKindsRequested
  <2>. QED BY <2>2, <2>3
<1>12. ASSUME UNCHANGED <<primary, asked>> PROVE GrantedKindsRequested'
  BY <1>12 DEF GrantedKindsRequested
<1>13. ASSUME NEW h \in Handlers, Request(h) PROVE ApprovalsWithin' /\ GrantedKindsRequested'
  <2>1. \E o : Goto(h, o) /\ o.at # "approve"
    <3>1. ASSUME NEW a, NEW s, NEW C, CountPending(h, a, s, C)
          PROVE  \E o : Goto(h, o) /\ o.at # "approve"
      <4>1. Goto(h, [at |-> "find", a |-> a, s |-> s, caps |-> C])
        BY <3>1 DEF CountPending
      <4>. QED BY <4>1
    <3>2. CASE FindPending(h)
      <4>1. op[h] \in Operation /\ op[h].at = "find"
        BY <3>2 DEF FindPending, TypeOK
      <4>2. \/ Goto(h, [op[h] EXCEPT !.at = "insert"])
            \/ \E g : Goto(h, [at |-> "audit", event |-> "requested", g |-> g])
        BY <3>2 DEF FindPending, Succeed
      <4>3. [op[h] EXCEPT !.at = "insert"].at # "approve"
        BY <4>1, OperationShape
      <4>. QED BY <4>2, <4>3
    <3>3. CASE InsertGrant(h)
      <4>1. \E g : Goto(h, [at |-> "audit", event |-> "requested", g |-> g])
        BY <3>3 DEF InsertGrant, Succeed
      <4>. QED BY <4>1
    <3>. QED BY <1>13, <3>1, <3>2, <3>3 DEF Request
  <2>2. GrantedKindsRequested'
    BY <1>13, <1>9, <1>12 DEF Request, CountPending, FindPending, dbVars
  <2>. QED BY <2>1, <2>2, <1>6
<1>14. ASSUME NEW h \in Handlers, Decide(h) PROVE ApprovalsWithin' /\ GrantedKindsRequested'
  <2>1. CASE \E g \in GrantIds : ReadForApproval(h, g)
    BY <2>1, <1>5
  <2>2. ASSUME NEW g \in GrantIds, ReadForDenial(h, g) \/ ReadForRevocation(h, g)
        PROVE  ApprovalsWithin' /\ GrantedKindsRequested'
    <3>1. \/ Goto(h, [at |-> "deny", g |-> g])
          \/ Goto(h, [at |-> "revoke", g |-> g])
      BY <2>2 DEF ReadForDenial, ReadForRevocation
    <3>2. ApprovalsWithin'
      BY <3>1, <1>6
    <3>. QED BY <2>2, <3>2, <1>12 DEF ReadForDenial, ReadForRevocation, dbVars
  <2>3. CASE ApproveGrant(h) \/ DenyGrant(h) \/ RevokeGrant(h) \/ RecheckRevoked(h)
    <3>1. \E o : Goto(h, o) /\ o.at # "approve"
      <4>1. \/ \E e, g : Goto(h, [at |-> "audit", event |-> e, g |-> g])
            \/ op[h].at = "revoke" /\ Goto(h, [op[h] EXCEPT !.at = "recheck"])
        BY <2>3 DEF ApproveGrant, DenyGrant, RevokeGrant, RecheckRevoked, Succeed
      <4>2. op[h].at = "revoke" => [op[h] EXCEPT !.at = "recheck"].at # "approve"
        BY OperationShape DEF TypeOK
      <4>. QED BY <4>1, <4>2
    <3>2. GrantedKindsRequested'
      BY <2>3, <1>7, <1>10, <1>11, <1>12 DEF RecheckRevoked, dbVars
    <3>. QED BY <3>1, <3>2, <1>6
  <2>. QED BY <1>14, <2>1, <2>2, <2>3 DEF Decide
<1>15. ASSUME NEW h \in Handlers, RecordAudit(h) \/ Abandon(h)
       PROVE  ApprovalsWithin' /\ GrantedKindsRequested'
  <2>1. Goto(h, Idle) /\ Idle.at # "approve"
    BY <1>15 DEF RecordAudit, Abandon, Idle
  <2>. QED BY <1>15, <2>1, <1>6, <1>12 DEF RecordAudit, Abandon, dbVars
<1>16. ASSUME UNCHANGED <<op, primary, asked>>
       PROVE  ApprovalsWithin' /\ GrantedKindsRequested'
  BY <1>16 DEF ApprovalsWithin, GrantedKindsRequested
<1>17. ApprovalsWithin' /\ GrantedKindsRequested'
  BY <1>13, <1>14, <1>15, <1>16 DEF Next, Lapse, CatchUp, Replicate, vars, dbVars
<1>. QED BY <1>2, <1>17

\* At first there is no grant.
LEMMA ScopeInit == Init => ScopeInv
<1> SUFFICES ASSUME Init PROVE ScopeInv
  OBVIOUS
<1>1. /\ primary = [g \in GrantIds |-> Absent]
      /\ \A r \in Replicas : stream[r] = <<primary>>
      /\ \A h \in Handlers : op[h] = Idle
  BY DEF Init, DbInit
<1>2. ReplicaBehind
  BY ReplicaBehindInit
<1>3. AsAsked(primary)
  BY <1>1 DEF AsAsked, Absent
<1>. QED BY <1>1, <1>2, <1>3
     DEF ScopeInv, PendingAsAsked, ApprovalsWithin, GrantedKindsRequested, Absent, Idle

\* No interleaving of approvals with anything else makes a grant cover a kind
\* of capability that was not requested.
THEOREM KindsRequested == Spec => []GrantedKindsRequested
<1>1. TypeOK /\ [Next]_vars /\ ScopeInv => ScopeInv'
  BY TypeNext, ScopeNext
<1>2. ScopeInv => GrantedKindsRequested
  BY DEF ScopeInv
<1>. QED BY <1>1, <1>2, ScopeInit, TypeCorrect, PTL DEF Spec

-----------------------------------------------------------------------------
(* Success answers and audit events stay true. *)

\* What was answered or audited is about grants.
LEMMA ClaimedType == TypeOK => Claimed \subseteq Events \X GrantIds
<1> SUFFICES ASSUME TypeOK PROVE Claimed \subseteq Events \X GrantIds
  OBVIOUS
<1>1. ASSUME NEW h \in Handlers, op[h].at = "audit"
      PROVE  <<op[h].event, op[h].g>> \in Events \X GrantIds
  BY <1>1, OperationShape DEF TypeOK
<1>2. audit \subseteq Events \X GrantIds
  BY DEF TypeOK
<1>. QED BY <1>1, <1>2 DEF Claimed

\* The stages that make an answer true are never left.
LEMMA StatusStays ==
  ASSUME TypeOK, TypeOK', HistoryStep, NEW e \in Events, NEW g \in GrantIds,
         primary[g].status \in Consistent(e)
  PROVE  primary'[g].status \in Consistent(e)
<1>1. primary[g] # Absent
  BY DEF Consistent, Absent, Events
<1>2. /\ primary'[g] # Absent
      /\ \/ primary[g].status = "pending"
         \/ primary'[g].status = primary[g].status
         \/ primary[g].status = "approved" /\ primary'[g].status = "revoked"
  BY <1>1 DEF HistoryStep, Behind
<1>3. primary'[g].status \in {"pending", "approved", "denied", "revoked"}
  BY <1>2 DEF TypeOK, Table, Row
<1>. QED BY <1>2, <1>3 DEF Consistent, Events

\* No step makes an earlier answer untrue.
LEMMA AnswersNext ==
  TypeOK /\ TypeOK' /\ ScopeInv /\ AnswersTruthful /\ [Next]_vars => AnswersTruthful'
<1> SUFFICES ASSUME TypeOK, TypeOK', ScopeInv, AnswersTruthful, [Next]_vars
             PROVE  AnswersTruthful'
  OBVIOUS
<1>1. HistoryStep
  BY StepHistory
<1>2. ASSUME NEW c \in Claimed PROVE primary'[c[2]].status \in Consistent(c[1])
  <2>1. c[1] \in Events /\ c[2] \in GrantIds
    BY ClaimedType
  <2>2. primary[c[2]].status \in Consistent(c[1])
    BY DEF AnswersTruthful
  <2>. QED BY <1>1, <2>1, <2>2, StatusStays
<1>3. ASSUME Claimed' \subseteq Claimed PROVE AnswersTruthful'
  BY <1>2, <1>3 DEF AnswersTruthful
<1>4. ASSUME NEW h \in Handlers, NEW o, Goto(h, o), o.at # "audit", audit' = audit
      PROVE  AnswersTruthful'
  <2>1. op' = [op EXCEPT ![h] = o] /\ op \in [Handlers -> Operation]
    BY <1>4 DEF Goto, TypeOK
  <2>2. op'[h] = o /\ \A k \in Handlers : k # h => op'[k] = op[k]
    BY <2>1
  <2>3. Claimed' \subseteq Claimed
    BY <1>4, <2>2 DEF Claimed
  <2>. QED BY <2>3, <1>3
<1>5. ASSUME NEW h \in Handlers, NEW e \in Events, NEW g \in GrantIds, Succeed(h, e, g),
             audit' = audit, primary'[g].status \in Consistent(e)
      PROVE  AnswersTruthful'
  <2>1. /\ op' = [op EXCEPT ![h] = [at |-> "audit", event |-> e, g |-> g]]
        /\ op \in [Handlers -> Operation]
    BY <1>5 DEF Succeed, Goto, TypeOK
  <2>2. /\ op'[h] = [at |-> "audit", event |-> e, g |-> g]
        /\ \A k \in Handlers : k # h => op'[k] = op[k]
    BY <2>1
  <2>3. op'[h].event = e /\ op'[h].g = g
    BY <2>2
  <2>4. ASSUME NEW c \in Claimed' PROVE c \in Claimed \/ c = <<e, g>>
    <3>1. CASE c \in audit'
      BY <3>1, <1>5 DEF Claimed
    <3>2. ASSUME NEW k \in Handlers, op'[k].at = "audit", c = <<op'[k].event, op'[k].g>>
          PROVE  c \in Claimed \/ c = <<e, g>>
      BY <3>2, <2>2, <2>3 DEF Claimed
    <3>. QED BY <3>1, <3>2 DEF Claimed
  <2>. QED BY <1>2, <1>5, <2>4 DEF AnswersTruthful
<1>6. ASSUME NEW g \in GrantIds, NEW row \in Row, Update(g, row) PROVE primary'[g] = row
  <2>1. primary \in Table /\ primary' = [primary EXCEPT ![g] = row]
    BY <1>6, UpdateType DEF TypeOK
  <2>. QED BY <2>1, UpdateTable
<1>7. ASSUME NEW h \in Handlers, Request(h) PROVE AnswersTruthful'
  <2>1. ASSUME NEW a, NEW s, NEW C, CountPending(h, a, s, C) PROVE AnswersTruthful'
    <3>1. Goto(h, [at |-> "find", a |-> a, s |-> s, caps |-> C]) /\ audit' = audit
      BY <2>1 DEF CountPending
    <3>. QED BY <3>1, <1>4
  <2>2. CASE FindPending(h)
    <3>1. op[h] \in Operation /\ op[h].at = "find" /\ UNCHANGED <<primary, audit>>
      BY <2>2 DEF FindPending, TypeOK, dbVars
    <3>2. CASE Goto(h, [op[h] EXCEPT !.at = "insert"])
      <4>1. [op[h] EXCEPT !.at = "insert"].at # "audit"
        BY <3>1, OperationShape
      <4>. QED BY <3>1, <3>2, <4>1, <1>4
    <3>3. ASSUME NEW t \in Views, NEW g \in PendingOf(t, op[h].a), Succeed(h, "requested", g)
          PROVE  AnswersTruthful'
      <4>1. g \in GrantIds /\ t[g] # Absent
        BY <3>3 DEF PendingOf, Absent
      <4>2. primary[g] # Absent
        BY <4>1, ViewAsAsked DEF ScopeInv
      <4>3. primary[g].status \in Consistent("requested")
        BY <4>1, <4>2 DEF TypeOK, Table, Row, Consistent
      <4>. QED BY <3>1, <3>3, <4>1, <4>3, <1>5 DEF Events
    <3>. QED BY <2>2, <3>2, <3>3 DEF FindPending
  <2>3. CASE InsertGrant(h)
    <3>1. PICK g \in GrantIds :
            /\ Update(g, [status |-> "pending", agent |-> op[h].a, sp |-> op[h].s,
                          caps |-> op[h].caps])
            /\ Succeed(h, "requested", g)
      BY <2>3 DEF InsertGrant
    <3>2. [status |-> "pending", agent |-> op[h].a, sp |-> op[h].s,
           caps |-> op[h].caps] \in Row
      BY <2>3, OperationShape DEF InsertGrant, TypeOK, Row
    <3>3. primary'[g].status = "pending"
      BY <3>1, <3>2, <1>6
    <3>. QED BY <2>3, <3>1, <3>3, <1>5 DEF InsertGrant, Events, Consistent
  <2>. QED BY <1>7, <2>1, <2>2, <2>3 DEF Request
<1>8. ASSUME NEW h \in Handlers, Decide(h) PROVE AnswersTruthful'
  <2>1. ASSUME NEW g \in GrantIds,
               ReadForApproval(h, g) \/ ReadForDenial(h, g) \/ ReadForRevocation(h, g)
        PROVE  AnswersTruthful'
    <3>1. /\ audit' = audit
          /\ \/ \E D : Goto(h, [at |-> "approve", g |-> g, caps |-> D])
             \/ Goto(h, [at |-> "deny", g |-> g])
             \/ Goto(h, [at |-> "revoke", g |-> g])
      BY <2>1 DEF ReadForApproval, ReadForDenial, ReadForRevocation
    <3>. QED BY <3>1, <1>4
  <2>2. CASE ApproveGrant(h)
    <3>1. /\ op[h].g \in GrantIds /\ op[h].caps \in SUBSET Caps
          /\ primary[op[h].g].status # "none"
      BY <2>2, OperationShape DEF ApproveGrant, TypeOK
    <3> DEFINE row == [primary[op[h].g] EXCEPT !.status = "approved", !.caps = op[h].caps]
    <3>2. primary[op[h].g] \in Row /\ row \in Row
      BY <3>1, PresentRow DEF TypeOK
    <3>3. row.status = "approved"
      BY <3>2 DEF Row
    <3>4. /\ Update(op[h].g, row) /\ Succeed(h, "approved", op[h].g) /\ audit' = audit
      BY <2>2 DEF ApproveGrant
    <3> HIDE DEF row
    <3>5. primary'[op[h].g].status = "approved"
      BY <3>1, <3>2, <3>3, <3>4, <1>6
    <3>. QED BY <3>1, <3>4, <3>5, <1>5 DEF Events, Consistent
  <2>3. CASE DenyGrant(h)
    <3>1. op[h].g \in GrantIds /\ primary[op[h].g].status # "none"
      BY <2>3, OperationShape DEF DenyGrant, TypeOK
    <3> DEFINE row == [primary[op[h].g] EXCEPT !.status = "denied"]
    <3>2. primary[op[h].g] \in Row /\ row \in Row
      BY <3>1, PresentRow DEF TypeOK
    <3>3. row.status = "denied"
      BY <3>2 DEF Row
    <3>4. Update(op[h].g, row) /\ Succeed(h, "denied", op[h].g) /\ audit' = audit
      BY <2>3 DEF DenyGrant
    <3> HIDE DEF row
    <3>5. primary'[op[h].g].status = "denied"
      BY <3>1, <3>2, <3>3, <3>4, <1>6
    <3>. QED BY <3>1, <3>4, <3>5, <1>5 DEF Events, Consistent
  <2>4. CASE RevokeGrant(h)
    <3>1. /\ op[h].g \in GrantIds /\ audit' = audit
          /\ [op[h] EXCEPT !.at = "recheck"].at = "recheck"
      BY <2>4, OperationShape DEF RevokeGrant, TypeOK
    <3>2. CASE primary[op[h].g].status = "approved"
      <4> DEFINE row == [primary[op[h].g] EXCEPT !.status = "revoked"]
      <4>2. primary[op[h].g] \in Row /\ row \in Row
        BY <3>1, <3>2, PresentRow DEF TypeOK
      <4>3. row.status = "revoked"
        BY <4>2 DEF Row
      <4>4. Update(op[h].g, row) /\ Succeed(h, "revoked", op[h].g)
        BY <2>4, <3>2 DEF RevokeGrant
      <4> HIDE DEF row
      <4>5. primary'[op[h].g].status = "revoked"
        BY <3>1, <4>2, <4>3, <4>4, <1>6
      <4>. QED BY <3>1, <4>4, <4>5, <1>5 DEF Events, Consistent
    <3>3. CASE primary[op[h].g].status # "approved"
      <4>1. Goto(h, [op[h] EXCEPT !.at = "recheck"])
        BY <2>4, <3>3 DEF RevokeGrant
      <4>. QED BY <3>1, <4>1, <1>4
    <3>. QED BY <3>2, <3>3
  <2>5. CASE RecheckRevoked(h)
    <3>1. PICK t \in Views : t[op[h].g].status = "approved"
      BY <2>5 DEF RecheckRevoked
    <3>2. op[h].g \in GrantIds /\ UNCHANGED <<primary, audit>> /\ Succeed(h, "revoked", op[h].g)
      BY <2>5, OperationShape DEF RecheckRevoked, TypeOK, dbVars
    <3>3. primary[op[h].g].status \in {"approved", "revoked"}
      BY <3>1, <3>2, ViewAsAsked DEF ScopeInv
    <3>. QED BY <3>2, <3>3, <1>5 DEF Events, Consistent
  <2>. QED BY <1>8, <2>1, <2>2, <2>3, <2>4, <2>5 DEF Decide
<1>9. ASSUME NEW h \in Handlers, RecordAudit(h) PROVE AnswersTruthful'
  <2>1. op' = [op EXCEPT ![h] = Idle] /\ op \in [Handlers -> Operation]
    BY <1>9 DEF RecordAudit, Goto, TypeOK
  <2>2. op'[h] = Idle /\ \A k \in Handlers : k # h => op'[k] = op[k]
    BY <2>1
  <2>3. audit' \subseteq Claimed
    BY <1>9 DEF RecordAudit, Claimed
  <2>4. Claimed' \subseteq Claimed
    BY <2>2, <2>3 DEF Claimed, Idle
  <2>. QED BY <2>4, <1>3
<1>10. ASSUME NEW h \in Handlers, Abandon(h) PROVE AnswersTruthful'
  <2>1. Goto(h, Idle) /\ Idle.at # "audit" /\ audit' = audit
    BY <1>10 DEF Abandon, Idle
  <2>. QED BY <2>1, <1>4
<1>11. ASSUME UNCHANGED <<op, audit>> PROVE AnswersTruthful'
  <2>1. Claimed' = Claimed
    BY <1>11 DEF Claimed
  <2>. QED BY <2>1, <1>3
<1>. QED
  BY <1>7, <1>8, <1>9, <1>10, <1>11 DEF Next, Lapse, CatchUp, vars

\* At first nothing was answered.
LEMMA AnswersInit == Init => AnswersTruthful
BY DEF Init, AnswersTruthful, Claimed, Idle

\* What a client was told, and what the audit log says, of a grant stays true of
\* it whatever else happens and whatever replica the handlers looked at.
THEOREM AnswersStayTrue == Spec => []AnswersTruthful
<1>1. TypeOK /\ [Next]_vars /\ ScopeInv => ScopeInv'
  BY TypeNext, ScopeNext
<1>2. TypeOK /\ [Next]_vars /\ ScopeInv /\ AnswersTruthful => AnswersTruthful'
  BY TypeNext, AnswersNext
<1>. QED BY <1>1, <1>2, ScopeInit, AnswersInit, TypeCorrect, PTL DEF Spec

-----------------------------------------------------------------------------
(* The pending limit is overshot by at most the requests in flight. *)

\* The sets that are counted are finite.
LEMMA PressureTypes ==
  ASSUME NEW a
  PROVE  /\ IsFiniteSet(PendingOf(primary, a)) /\ Cardinality(PendingOf(primary, a)) \in Nat
         /\ IsFiniteSet(Admitted(a)) /\ Cardinality(Admitted(a)) \in Nat
         /\ IsFiniteSet(PendingOf(primary, a)') /\ Cardinality(PendingOf(primary, a)') \in Nat
         /\ IsFiniteSet(Admitted(a)') /\ Cardinality(Admitted(a)') \in Nat
         /\ Cardinality(Handlers) \in Nat /\ Cardinality(Handlers) > 0 /\ MaxPending \in Nat
<1>1. IsFiniteSet(GrantIds) /\ IsFiniteSet(Handlers) /\ Handlers # {} /\ MaxPending \in Nat
  BY FS_Interval, GrantsAssumption DEF GrantIds
<1>2. /\ PendingOf(primary, a) \subseteq GrantIds /\ PendingOf(primary, a)' \subseteq GrantIds
      /\ Admitted(a) \subseteq Handlers /\ Admitted(a)' \subseteq Handlers
  BY DEF PendingOf, Admitted
<1>3. /\ IsFiniteSet(PendingOf(primary, a)) /\ IsFiniteSet(PendingOf(primary, a)')
      /\ IsFiniteSet(Admitted(a)) /\ IsFiniteSet(Admitted(a)')
  BY <1>1, <1>2, FS_Subset
<1>4. Cardinality(Handlers) \in Nat /\ Cardinality(Handlers) # 0
  BY <1>1, FS_CardinalityType, FS_EmptySet
<1>. QED BY <1>1, <1>3, <1>4, FS_CardinalityType

\* Rows that leave the pending state and requests that give up relieve it.
LEMMA Relief ==
  ASSUME PendingOvershootBounded,
         \A a \in Agents : /\ PendingOf(primary, a)' \subseteq PendingOf(primary, a)
                           /\ Admitted(a)' \subseteq Admitted(a)
  PROVE  PendingOvershootBounded'
<1> SUFFICES ASSUME NEW a \in Agents
             PROVE  Cardinality(PendingOf(primary, a)') + Cardinality(Admitted(a)')
                      < MaxPending + Cardinality(Handlers)
  BY DEF PendingOvershootBounded
<1>1. /\ Cardinality(PendingOf(primary, a)') <= Cardinality(PendingOf(primary, a))
      /\ Cardinality(Admitted(a)') <= Cardinality(Admitted(a))
  BY PressureTypes, FS_Subset
<1>2. Cardinality(PendingOf(primary, a)) + Cardinality(Admitted(a))
        < MaxPending + Cardinality(Handlers)
  BY DEF PendingOvershootBounded
<1>. QED BY <1>1, <1>2, PressureTypes

\* A request past the count and the grant it inserts are counted once.
LEMMA PressureNext == TypeOK /\ [Next]_vars /\ PendingOvershootBounded => PendingOvershootBounded'
<1> SUFFICES ASSUME TypeOK, [Next]_vars, PendingOvershootBounded PROVE PendingOvershootBounded'
  OBVIOUS
<1>1. ASSUME NEW h \in Handlers, NEW o, Goto(h, o)
      PROVE  op'[h] = o /\ \A k \in Handlers : k # h => op'[k] = op[k]
  BY <1>1 DEF Goto, TypeOK
<1>2. ASSUME NEW h \in Handlers, NEW o, Goto(h, o), o.at \notin {"find", "insert"}
      PROVE  \A a \in Agents : Admitted(a)' \subseteq Admitted(a) \ {h}
  <2>1. op'[h] = o /\ \A k \in Handlers : k # h => op'[k] = op[k]
    BY <1>1, <1>2
  <2>. QED BY <1>2, <2>1 DEF Admitted
<1>3. ASSUME NEW g \in GrantIds, NEW row \in Row, Update(g, row),
             primary[g].status # "pending" => row.status # "pending",
             row.agent = primary[g].agent
      PROVE  \A a \in Agents : PendingOf(primary, a)' \subseteq PendingOf(primary, a)
  <2>1. primary \in Table /\ primary' = [primary EXCEPT ![g] = row]
    BY <1>3, UpdateType DEF TypeOK
  <2>2. primary'[g] = row /\ \A k \in GrantIds : k # g => primary'[k] = primary[k]
    BY <2>1, UpdateTable
  <2>. QED BY <1>3, <2>2 DEF PendingOf
<1>4. ASSUME UNCHANGED primary
      PROVE  \A a \in Agents : PendingOf(primary, a)' \subseteq PendingOf(primary, a)
  BY <1>4 DEF PendingOf
<1>5. ASSUME UNCHANGED op PROVE \A a \in Agents : Admitted(a)' \subseteq Admitted(a)
  BY <1>5 DEF Admitted
<1>6. ASSUME NEW h \in Handlers, NEW a \in Agents, NEW s \in SPs, NEW C \in Lists,
             CountPending(h, a, s, C)
      PROVE  PendingOvershootBounded'
  <2>1. UNCHANGED primary /\ Goto(h, [at |-> "find", a |-> a, s |-> s, caps |-> C])
    BY <1>6 DEF CountPending, dbVars
  <2>2. op'[h].a = a /\ \A k \in Handlers : k # h => op'[k] = op[k]
    BY <2>1, <1>1
  <2>3. ASSUME NEW b \in Agents, b # a
        PROVE  Admitted(b)' \subseteq Admitted(b)
    BY <2>2, <2>3 DEF Admitted
  <2>4. Cardinality(PendingOf(primary, a)) < MaxPending
    BY <1>6 DEF CountPending
  <2>5. Cardinality(Admitted(a)') <= Cardinality(Handlers)
    <3>1. Admitted(a)' \subseteq Handlers
      BY DEF Admitted
    <3>. QED BY <3>1, FS_Subset, GrantsAssumption
  <2>6. \A b \in Agents : PendingOf(primary, b)' = PendingOf(primary, b)
    BY <2>1 DEF PendingOf
  <2>7. ASSUME NEW b \in Agents
        PROVE  Cardinality(PendingOf(primary, b)') + Cardinality(Admitted(b)')
                 < MaxPending + Cardinality(Handlers)
    <3>1. CASE b = a
      BY <3>1, <2>4, <2>5, <2>6, PressureTypes
    <3>2. CASE b # a
      <4>1. Cardinality(Admitted(b)') <= Cardinality(Admitted(b))
        BY <3>2, <2>3, PressureTypes, FS_Subset
      <4>2. Cardinality(PendingOf(primary, b)) + Cardinality(Admitted(b))
              < MaxPending + Cardinality(Handlers)
        BY DEF PendingOvershootBounded
      <4>3. Cardinality(PendingOf(primary, b)') = Cardinality(PendingOf(primary, b))
        BY <2>6
      <4>. QED BY <4>1, <4>2, <4>3, PressureTypes
    <3>. QED BY <3>1, <3>2
  <2>. QED BY <2>7 DEF PendingOvershootBounded
<1>7. ASSUME NEW h \in Handlers, FindPending(h) PROVE PendingOvershootBounded'
  <2>1. op[h] \in Operation /\ op[h].at = "find" /\ UNCHANGED primary
    BY <1>7 DEF FindPending, TypeOK, dbVars
  <2>2. CASE Goto(h, [op[h] EXCEPT !.at = "insert"])
    <3>1. op'[h] = [op[h] EXCEPT !.at = "insert"] /\ \A k \in Handlers : k # h => op'[k] = op[k]
      BY <2>2, <1>1
    <3>2. op'[h].a = op[h].a
      BY <3>1, <2>1 DEF Operation, Idle
    <3>3. \A a \in Agents : Admitted(a)' \subseteq Admitted(a)
      BY <3>1, <3>2, <2>1 DEF Admitted
    <3>. QED BY <2>1, <3>3, <1>4, Relief
  <2>3. CASE \E g : Goto(h, [at |-> "audit", event |-> "requested", g |-> g])
    <3>1. \A a \in Agents : Admitted(a)' \subseteq Admitted(a)
      BY <2>3, <1>2
    <3>. QED BY <2>1, <3>1, <1>4, Relief
  <2>. QED BY <1>7, <2>2, <2>3 DEF FindPending, Succeed
<1>8. ASSUME NEW h \in Handlers, InsertGrant(h) PROVE PendingOvershootBounded'
  <2> DEFINE row == [status |-> "pending", agent |-> op[h].a, sp |-> op[h].s,
                     caps |-> op[h].caps]
  <2>1. PICK g \in GrantIds :
          /\ Update(g, row)
          /\ Goto(h, [at |-> "audit", event |-> "requested", g |-> g])
    BY <1>8 DEF InsertGrant, Succeed
  <2>2. /\ op[h].at = "insert" /\ op[h].a \in Agents /\ op[h].s \in SPs
        /\ op[h].caps \in SUBSET Caps
    BY <1>8, OperationShape DEF InsertGrant, TypeOK
  <2>3. row \in Row /\ row.agent = op[h].a
    BY <2>2 DEF Row
  <2> HIDE DEF row
  <2>4. primary \in Table /\ primary' = [primary EXCEPT ![g] = row]
    BY <2>1, <2>3, UpdateType DEF TypeOK
  <2>5. primary'[g] = row /\ \A k \in GrantIds : k # g => primary'[k] = primary[k]
    BY <2>3, <2>4, UpdateTable
  <2>6. \A a \in Agents : Admitted(a)' \subseteq Admitted(a) \ {h}
    BY <2>1, <1>2
  <2>7. ASSUME NEW a \in Agents
        PROVE  Cardinality(PendingOf(primary, a)') + Cardinality(Admitted(a)')
                 < MaxPending + Cardinality(Handlers)
    <3>1. CASE a = op[h].a
      <4>1. PendingOf(primary, a)' \subseteq PendingOf(primary, a) \cup {g}
        BY <2>5 DEF PendingOf
      <4>2. h \in Admitted(a)
        BY <3>1, <2>2 DEF Admitted
      <4>3. Cardinality(PendingOf(primary, a)') <= Cardinality(PendingOf(primary, a)) + 1
        <5>1. /\ IsFiniteSet(PendingOf(primary, a) \cup {g})
              /\ Cardinality(PendingOf(primary, a) \cup {g})
                   <= Cardinality(PendingOf(primary, a)) + 1
              /\ Cardinality(PendingOf(primary, a) \cup {g}) \in Nat
          <6>1. /\ IsFiniteSet(PendingOf(primary, a))
                /\ Cardinality(PendingOf(primary, a)) \in Nat
            BY PressureTypes
          <6>2. /\ IsFiniteSet(PendingOf(primary, a) \cup {g})
                /\ Cardinality(PendingOf(primary, a) \cup {g})
                     = IF g \in PendingOf(primary, a)
                       THEN Cardinality(PendingOf(primary, a))
                       ELSE Cardinality(PendingOf(primary, a)) + 1
            BY <6>1, FS_AddElement
          <6>. QED BY <6>1, <6>2
        <5>2. Cardinality(PendingOf(primary, a)')
                <= Cardinality(PendingOf(primary, a) \cup {g})
          BY <4>1, <5>1, FS_Subset
        <5>. QED BY <5>1, <5>2, PressureTypes
      <4>4. Cardinality(Admitted(a)') <= Cardinality(Admitted(a)) - 1
        <5>1. /\ IsFiniteSet(Admitted(a) \ {h})
              /\ Cardinality(Admitted(a) \ {h}) = Cardinality(Admitted(a)) - 1
          BY <4>2, PressureTypes, FS_RemoveElement
        <5>. QED BY <5>1, <2>6, FS_Subset
      <4>5. Cardinality(PendingOf(primary, a)) + Cardinality(Admitted(a))
              < MaxPending + Cardinality(Handlers)
        BY DEF PendingOvershootBounded
      <4>. QED BY <4>3, <4>4, <4>5, PressureTypes
    <3>2. CASE a # op[h].a
      <4>1. PendingOf(primary, a)' \subseteq PendingOf(primary, a)
        BY <3>2, <2>3, <2>5 DEF PendingOf
      <4>2. /\ Cardinality(PendingOf(primary, a)') <= Cardinality(PendingOf(primary, a))
            /\ Cardinality(Admitted(a)') <= Cardinality(Admitted(a))
        BY <4>1, <2>6, PressureTypes, FS_Subset
      <4>3. Cardinality(PendingOf(primary, a)) + Cardinality(Admitted(a))
              < MaxPending + Cardinality(Handlers)
        BY DEF PendingOvershootBounded
      <4>. QED BY <4>2, <4>3, PressureTypes
    <3>. QED BY <3>1, <3>2
  <2>. QED BY <2>7 DEF PendingOvershootBounded
<1>9. ASSUME NEW h \in Handlers, Decide(h) PROVE PendingOvershootBounded'
  <2>1. \A a \in Agents : Admitted(a)' \subseteq Admitted(a)
    <3>1. \E o : Goto(h, o) /\ o.at \notin {"find", "insert"}
      <4>1. \/ \E e, g : Goto(h, [at |-> "audit", event |-> e, g |-> g])
            \/ \E g, D : Goto(h, [at |-> "approve", g |-> g, caps |-> D])
            \/ \E g : Goto(h, [at |-> "deny", g |-> g])
            \/ \E g : Goto(h, [at |-> "revoke", g |-> g])
            \/ op[h].at = "revoke" /\ Goto(h, [op[h] EXCEPT !.at = "recheck"])
        BY <1>9 DEF Decide, ReadForApproval, ReadForDenial, ReadForRevocation, ApproveGrant,
                    DenyGrant, RevokeGrant, RecheckRevoked, Succeed
      <4>2. op[h].at = "revoke" => [op[h] EXCEPT !.at = "recheck"].at = "recheck"
        BY OperationShape DEF TypeOK
      <4>3. /\ \A e, g : [at |-> "audit", event |-> e, g |-> g].at = "audit"
            /\ \A g, D : [at |-> "approve", g |-> g, caps |-> D].at = "approve"
            /\ \A g : [at |-> "deny", g |-> g].at = "deny"
            /\ \A g : [at |-> "revoke", g |-> g].at = "revoke"
        OBVIOUS
      <4>4. /\ "audit" \notin {"find", "insert"} /\ "approve" \notin {"find", "insert"}
            /\ "deny" \notin {"find", "insert"} /\ "revoke" \notin {"find", "insert"}
            /\ "recheck" \notin {"find", "insert"}
        OBVIOUS
      <4>. QED BY <4>1, <4>2, <4>3, <4>4, Zenon
    <3>. QED BY <3>1, <1>2
  <2>2. CASE ApproveGrant(h)
    <3>1. /\ op[h].g \in GrantIds /\ op[h].caps \in SUBSET Caps
          /\ primary[op[h].g].status = "pending"
      BY <2>2, OperationShape DEF ApproveGrant, TypeOK
    <3> DEFINE row == [primary[op[h].g] EXCEPT !.status = "approved", !.caps = op[h].caps]
    <3>2. primary[op[h].g] \in Row /\ row \in Row
      BY <3>1, PresentRow DEF TypeOK
    <3>3. row.agent = primary[op[h].g].agent
      BY <3>2 DEF Row
    <3>4. Update(op[h].g, row)
      BY <2>2 DEF ApproveGrant
    <3> HIDE DEF row
    <3>. QED BY <2>1, <3>1, <3>2, <3>3, <3>4, <1>3, Relief
  <2>3. CASE DenyGrant(h)
    <3>1. op[h].g \in GrantIds /\ primary[op[h].g].status = "pending"
      BY <2>3, OperationShape DEF DenyGrant, TypeOK
    <3> DEFINE row == [primary[op[h].g] EXCEPT !.status = "denied"]
    <3>2. primary[op[h].g] \in Row /\ row \in Row
      BY <3>1, PresentRow DEF TypeOK
    <3>3. row.agent = primary[op[h].g].agent
      BY <3>2 DEF Row
    <3>4. Update(op[h].g, row)
      BY <2>3 DEF DenyGrant
    <3> HIDE DEF row
    <3>. QED BY <2>1, <3>1, <3>2, <3>3, <3>4, <1>3, Relief
  <2>4. CASE RevokeGrant(h) /\ primary[op[h].g].status = "approved"
    <3>1. op[h].g \in GrantIds
      BY <2>4, OperationShape DEF RevokeGrant, TypeOK
    <3> DEFINE row == [primary[op[h].g] EXCEPT !.status = "revoked"]
    <3>2. primary[op[h].g] \in Row /\ row \in Row
      BY <2>4, <3>1, PresentRow DEF TypeOK
    <3>3. row.agent = primary[op[h].g].agent /\ row.status # "pending"
      BY <3>2 DEF Row
    <3>4. Update(op[h].g, row)
      BY <2>4 DEF RevokeGrant
    <3> HIDE DEF row
    <3>. QED BY <2>1, <3>1, <3>2, <3>3, <3>4, <1>3, Relief
  <2>5. CASE UNCHANGED primary
    BY <2>1, <2>5, <1>4, Relief
  <2>. QED
    BY <1>9, <2>2, <2>3, <2>4, <2>5
    DEF Decide, ReadForApproval, ReadForDenial, ReadForRevocation, RevokeGrant,
        RecheckRevoked, dbVars
<1>10. ASSUME NEW h \in Handlers, RecordAudit(h) \/ Abandon(h) PROVE PendingOvershootBounded'
  <2>1. Goto(h, Idle) /\ Idle.at = "idle" /\ UNCHANGED primary
    BY <1>10 DEF RecordAudit, Abandon, Idle, dbVars
  <2>2. \A a \in Agents : Admitted(a)' \subseteq Admitted(a)
    BY <2>1, <1>2
  <2>. QED BY <2>1, <2>2, <1>4, Relief
<1>11. ASSUME UNCHANGED <<op, primary>> PROVE PendingOvershootBounded'
  BY <1>11, <1>4, <1>5, Relief
<1>. QED
  BY <1>6, <1>7, <1>8, <1>9, <1>10, <1>11
  DEF Next, Request, Lapse, CatchUp, Replicate, vars, dbVars

\* At first nothing is counted.
LEMMA PressureInit == Init => PendingOvershootBounded
<1> SUFFICES ASSUME Init, NEW a \in Agents
             PROVE  Cardinality(PendingOf(primary, a)) + Cardinality(Admitted(a))
                      < MaxPending + Cardinality(Handlers)
  BY DEF PendingOvershootBounded
<1>1. PendingOf(primary, a) = {} /\ Admitted(a) = {}
  BY DEF Init, DbInit, PendingOf, Admitted, Absent, Idle
<1>2. Cardinality({}) = 0
  BY FS_EmptySet
<1>. QED BY <1>1, <1>2, PressureTypes

\* However the requests of an agent interleave, its pending grants exceed the
\* limit by less than the number of requests the registry serves at a time.
THEOREM OvershootBounded == Spec => []PendingOvershootBounded
BY PressureInit, PressureNext, TypeCorrect, PTL DEF Spec

-----------------------------------------------------------------------------
(* Grants implements the abstract life cycle. *)

\* What a statement on the table is in the life cycle.
LEMMA UpdateLifecycle ==
  ASSUME TypeOK, NEW g \in GrantIds, NEW row \in Row, Update(g, row)
  PROVE  /\ StatusOf' = [StatusOf EXCEPT ![g] = row.status]
         /\ ScopeOf' = [ScopeOf EXCEPT ![g] = KeysOf(row.caps)]
<1>1. primary \in Table /\ primary' = [primary EXCEPT ![g] = row]
  BY UpdateType DEF TypeOK
<1>2. primary'[g] = row /\ \A k \in GrantIds : k # g => primary'[k] = primary[k]
  BY <1>1, UpdateTable
<1>3. row # Absent
  BY RowStatus
<1>. QED BY <1>2, <1>3 DEF StatusOf, ScopeOf

\* An empty table is where the life cycle begins.
LEMMA LifecycleInit == Init => Lifecycle!LInit
BY DEF Init, DbInit, Lifecycle!LInit, StatusOf, ScopeOf, Absent

\* Every step is a step of the life cycle or none.
LEMMA LifecycleStep ==
  TypeOK /\ ScopeInv /\ [Next]_vars => [Lifecycle!LNext]_<<StatusOf, ScopeOf>>
<1> SUFFICES ASSUME TypeOK, ScopeInv, [Next]_vars
             PROVE  [Lifecycle!LNext]_<<StatusOf, ScopeOf>>
  OBVIOUS
<1> USE DEF Lifecycle!LNext, Lifecycle!Become
<1>1. ASSUME UNCHANGED primary PROVE UNCHANGED <<StatusOf, ScopeOf>>
  BY <1>1 DEF StatusOf, ScopeOf
<1>2. \A C \in SUBSET Caps : KeysOf(C) \in SUBSET Keys
  BY GrantsAssumption DEF KeysOf
<1>3. ASSUME NEW h \in Handlers, InsertGrant(h) PROVE Lifecycle!LNext
  <2> DEFINE row == [status |-> "pending", agent |-> op[h].a, sp |-> op[h].s,
                     caps |-> op[h].caps]
  <2>1. PICK g \in GrantIds : primary[g] = Absent /\ Update(g, row)
    BY <1>3 DEF InsertGrant
  <2>2. op[h].a \in Agents /\ op[h].s \in SPs /\ op[h].caps \in SUBSET Caps
    BY <1>3, OperationShape DEF InsertGrant, TypeOK
  <2>3. row \in Row /\ row.status = "pending" /\ row.caps \in SUBSET Caps
    BY <2>2 DEF Row
  <2> HIDE DEF row
  <2>4. Lifecycle!LRequest(g, KeysOf(row.caps))
    <3>1. StatusOf[g] = "none"
      BY <2>1 DEF StatusOf, Absent
    <3>. QED BY <3>1, <2>1, <2>3, UpdateLifecycle DEF Lifecycle!LRequest
  <2>. QED BY <2>3, <2>4, <1>2
<1>4. ASSUME NEW h \in Handlers, ApproveGrant(h) PROVE Lifecycle!LNext
  <2>1. /\ op[h].g \in GrantIds /\ op[h].caps \in SUBSET Caps
        /\ primary[op[h].g].status = "pending"
    BY <1>4, OperationShape DEF ApproveGrant, TypeOK
  <2> DEFINE row == [primary[op[h].g] EXCEPT !.status = "approved", !.caps = op[h].caps]
  <2>2. primary[op[h].g] \in Row /\ row \in Row
    BY <2>1, PresentRow DEF TypeOK
  <2>3. row.status = "approved" /\ row.caps = op[h].caps
    BY <2>2 DEF Row
  <2>4. Update(op[h].g, row)
    BY <1>4 DEF ApproveGrant
  <2> HIDE DEF row
  <2>5. primary[op[h].g].caps = asked[op[h].g]
    BY <2>1 DEF ScopeInv, PendingAsAsked, AsAsked
  <2>6. KeysOf(op[h].caps) \subseteq KeysOf(asked[op[h].g])
    BY <1>4 DEF ApproveGrant, ScopeInv, ApprovalsWithin, Within
  <2>7. /\ StatusOf[op[h].g] = "pending"
        /\ ScopeOf[op[h].g] = KeysOf(primary[op[h].g].caps)
    BY <2>1, <2>2, RowStatus DEF StatusOf, ScopeOf
  <2>8. Lifecycle!LApprove(op[h].g, KeysOf(op[h].caps))
    BY <2>1, <2>2, <2>3, <2>4, <2>5, <2>6, <2>7, UpdateLifecycle DEF Lifecycle!LApprove
  <2>. QED BY <2>1, <2>8, <1>2
<1>5. ASSUME NEW h \in Handlers, NEW s, NEW row,
             op[h].g \in GrantIds, primary[op[h].g] \in Row, row \in Row, Update(op[h].g, row),
             row.caps = primary[op[h].g].caps, row.status = s
      PROVE  /\ StatusOf' = [StatusOf EXCEPT ![op[h].g] = s]
             /\ StatusOf[op[h].g] = primary[op[h].g].status
             /\ UNCHANGED ScopeOf
  <2>1. ScopeOf[op[h].g] = KeysOf(primary[op[h].g].caps)
    BY <1>5, RowStatus DEF ScopeOf
  <2>2. ScopeOf' = [ScopeOf EXCEPT ![op[h].g] = ScopeOf[op[h].g]]
    BY <1>5, <2>1, UpdateLifecycle
  <2>3. ScopeOf' = ScopeOf
    BY <2>2 DEF ScopeOf
  <2>. QED BY <1>5, <2>3, UpdateLifecycle DEF StatusOf
<1>6. ASSUME NEW h \in Handlers, DenyGrant(h) PROVE Lifecycle!LNext
  <2>1. op[h].g \in GrantIds /\ primary[op[h].g].status = "pending"
    BY <1>6, OperationShape DEF DenyGrant, TypeOK
  <2> DEFINE row == [primary[op[h].g] EXCEPT !.status = "denied"]
  <2>2. primary[op[h].g] \in Row /\ row \in Row
    BY <2>1, PresentRow DEF TypeOK
  <2>3. row.status = "denied" /\ row.caps = primary[op[h].g].caps
    BY <2>2 DEF Row
  <2>4. Update(op[h].g, row)
    BY <1>6 DEF DenyGrant
  <2> HIDE DEF row
  <2>5. Lifecycle!LDeny(op[h].g)
    BY <2>1, <2>2, <2>3, <2>4, <1>5 DEF Lifecycle!LDeny
  <2>. QED BY <2>1, <2>5
<1>7. ASSUME NEW h \in Handlers, RevokeGrant(h), primary[op[h].g].status = "approved"
      PROVE  Lifecycle!LNext
  <2>1. op[h].g \in GrantIds
    BY <1>7, OperationShape DEF RevokeGrant, TypeOK
  <2> DEFINE row == [primary[op[h].g] EXCEPT !.status = "revoked"]
  <2>2. primary[op[h].g] \in Row /\ row \in Row
    BY <1>7, <2>1, PresentRow DEF TypeOK
  <2>3. row.status = "revoked" /\ row.caps = primary[op[h].g].caps
    BY <2>2 DEF Row
  <2>4. Update(op[h].g, row)
    BY <1>7 DEF RevokeGrant
  <2> HIDE DEF row
  <2>5. Lifecycle!LRevoke(op[h].g)
    BY <1>7, <2>1, <2>2, <2>3, <2>4, <1>5 DEF Lifecycle!LRevoke
  <2>. QED BY <2>1, <2>5
<1>8. \/ \E h \in Handlers : \/ InsertGrant(h) \/ ApproveGrant(h) \/ DenyGrant(h)
                             \/ RevokeGrant(h) /\ primary[op[h].g].status = "approved"
      \/ UNCHANGED primary
  BY DEF Next, Request, Decide, CountPending, FindPending, ReadForApproval, ReadForDenial,
         ReadForRevocation, RevokeGrant, RecheckRevoked, RecordAudit, Abandon, Lapse,
         CatchUp, Replicate, vars, dbVars
<1>. QED BY <1>1, <1>3, <1>4, <1>6, <1>7, <1>8

\* Every behaviour of the handlers, the replicas and the primary is a behaviour of
\* the abstract life cycle: one request, at most one decision, no widening.
THEOREM GrantsImplementLifecycle == Spec => LifecycleRefined
<1>1. TypeOK /\ [Next]_vars /\ ScopeInv => ScopeInv'
  BY TypeNext, ScopeNext
<1>2. TypeOK /\ ScopeInv /\ [Next]_vars => [Lifecycle!LNext]_(Lifecycle!lifecycleVars)
  BY LifecycleStep DEF Lifecycle!lifecycleVars
<1>. QED
  BY <1>1, <1>2, ScopeInit, LifecycleInit, TypeCorrect, PTL
  DEF Spec, LifecycleRefined, Lifecycle!LSpec

\* What the life cycle comes to for whoever relies on a grant.
DecisionStands(g) ==
  /\ StatusOf[g] \in {"denied", "revoked"} => StatusOf'[g] = StatusOf[g]
  /\ StatusOf[g] = "approved" => StatusOf'[g] \in {"approved", "revoked"}
  /\ StatusOf[g] # "none" => StatusOf'[g] # "none" /\ ScopeOf'[g] \subseteq ScopeOf[g]

\* A step of the life cycle takes no decision back.
LEMMA LifecycleStands == Lifecycle!LNext => \A g \in GrantIds : DecisionStands(g)
<1> SUFFICES ASSUME Lifecycle!LNext, NEW g \in GrantIds PROVE DecisionStands(g)
  OBVIOUS
<1>1. PICK k \in GrantIds :
        \/ \E K \in SUBSET Keys : Lifecycle!LRequest(k, K) \/ Lifecycle!LApprove(k, K)
        \/ Lifecycle!LDeny(k) \/ Lifecycle!LRevoke(k)
  BY DEF Lifecycle!LNext
<1>2. PICK to :
        /\ \/ StatusOf[k] = "none" /\ to = "pending"
           \/ StatusOf[k] = "pending" /\ to \in {"approved", "denied"}
           \/ StatusOf[k] = "approved" /\ to = "revoked"
        /\ StatusOf' = [StatusOf EXCEPT ![k] = to]
        /\ \E K : /\ StatusOf[k] # "none" => K \subseteq ScopeOf[k]
                  /\ ScopeOf' = [ScopeOf EXCEPT ![k] = K]
  <2>1. ScopeOf = [ScopeOf EXCEPT ![k] = ScopeOf[k]]
    BY DEF ScopeOf
  <2>. QED
    BY <1>1, <2>1 DEF Lifecycle!LRequest, Lifecycle!LApprove, Lifecycle!LDeny, Lifecycle!LRevoke,
                      Lifecycle!Become
<1>3. PICK K : /\ StatusOf[k] # "none" => K \subseteq ScopeOf[k]
               /\ ScopeOf' = [ScopeOf EXCEPT ![k] = K]
  BY <1>2
<1>4. /\ StatusOf'[g] = IF g = k THEN to ELSE StatusOf[g]
      /\ ScopeOf'[g] = IF g = k THEN K ELSE ScopeOf[g]
  BY <1>2, <1>3 DEF StatusOf, ScopeOf
<1>. QED BY <1>2, <1>3, <1>4 DEF DecisionStands

\* Whatever requests overlap, are retried or read from a replica that is behind
\* (grant.rs): a denial or a revocation is final, an approval only ends by a
\* revocation, and what a grant covers never grows after it was asked for.
THEOREM DecisionsStand == Spec => [][\A g \in GrantIds : DecisionStands(g)]_<<StatusOf, ScopeOf>>
<1>1. [Lifecycle!LNext]_(Lifecycle!lifecycleVars) =>
        [\A g \in GrantIds : DecisionStands(g)]_<<StatusOf, ScopeOf>>
  BY LifecycleStands DEF Lifecycle!lifecycleVars
<1>. QED BY <1>1, GrantsImplementLifecycle, PTL DEF LifecycleRefined, Lifecycle!LSpec

-----------------------------------------------------------------------------
(* A closed approval window stays closed. *)

\* A window that is closed stays closed in every step.
LEMMA ClosedStep ==
  TypeOK /\ [Next]_vars => \A g \in GrantIds : Closed(g) => Closed(g)'
<1> SUFFICES ASSUME TypeOK, [Next]_vars, NEW g \in GrantIds, Closed(g)
             PROVE  Closed(g)'
  OBVIOUS
<1>1. /\ g \in lapsed /\ primary[g].status \in {"pending", "denied"} /\ primary[g] # Absent
      /\ \A h \in Handlers : op[h].at = "approve" => op[h].g # g
  BY DEF Closed, Absent
<1>2. g \in lapsed'
  BY <1>1 DEF Next, Request, Decide, CountPending, FindPending, InsertGrant,
              ReadForApproval, ReadForDenial, ReadForRevocation, ApproveGrant, DenyGrant,
              RevokeGrant, RecheckRevoked, RecordAudit, Abandon, Lapse, CatchUp, vars
<1>3. ASSUME NEW k \in GrantIds, NEW row \in Row, Update(k, row),
             k = g => row.status \in {"pending", "denied"}
      PROVE  primary'[g].status \in {"pending", "denied"}
  <2>1. primary \in Table /\ primary' = [primary EXCEPT ![k] = row]
    BY <1>3, UpdateType DEF TypeOK
  <2>. QED BY <1>1, <1>3, <2>1, UpdateTable
<1>4. primary'[g].status \in {"pending", "denied"}
  <2>1. ASSUME NEW h \in Handlers, InsertGrant(h)
        PROVE  primary'[g].status \in {"pending", "denied"}
    <3> DEFINE row == [status |-> "pending", agent |-> op[h].a, sp |-> op[h].s,
                       caps |-> op[h].caps]
    <3>1. PICK k \in GrantIds : Update(k, row)
      BY <2>1 DEF InsertGrant
    <3>2. op[h].a \in Agents /\ op[h].s \in SPs /\ op[h].caps \in SUBSET Caps
      BY <2>1, OperationShape DEF InsertGrant, TypeOK
    <3>3. row \in Row /\ row.status = "pending"
      BY <3>2 DEF Row
    <3> HIDE DEF row
    <3>. QED BY <3>1, <3>3, <1>3
  <2>2. ASSUME NEW h \in Handlers, ApproveGrant(h)
        PROVE  primary'[g].status \in {"pending", "denied"}
    <3>1. /\ op[h].g \in GrantIds /\ op[h].caps \in SUBSET Caps /\ op[h].g # g
          /\ primary[op[h].g].status # "none"
      BY <1>1, <2>2, OperationShape DEF ApproveGrant, TypeOK
    <3>2. [primary[op[h].g] EXCEPT !.status = "approved", !.caps = op[h].caps] \in Row
      BY <3>1, PresentRow DEF TypeOK
    <3>. QED BY <2>2, <3>1, <3>2, <1>3 DEF ApproveGrant
  <2>3. ASSUME NEW h \in Handlers, DenyGrant(h)
        PROVE  primary'[g].status \in {"pending", "denied"}
    <3>1. op[h].g \in GrantIds /\ primary[op[h].g].status # "none"
      BY <2>3, OperationShape DEF DenyGrant, TypeOK
    <3> DEFINE row == [primary[op[h].g] EXCEPT !.status = "denied"]
    <3>2. primary[op[h].g] \in Row /\ row \in Row
      BY <3>1, PresentRow DEF TypeOK
    <3>3. row.status = "denied" /\ Update(op[h].g, row)
      BY <2>3, <3>2 DEF Row, DenyGrant
    <3> HIDE DEF row
    <3>. QED BY <3>1, <3>2, <3>3, <1>3
  <2>4. ASSUME NEW h \in Handlers, RevokeGrant(h), primary[op[h].g].status = "approved"
        PROVE  primary'[g].status \in {"pending", "denied"}
    <3>1. op[h].g \in GrantIds /\ op[h].g # g
      BY <1>1, <2>4, OperationShape DEF RevokeGrant, TypeOK
    <3>2. [primary[op[h].g] EXCEPT !.status = "revoked"] \in Row
      BY <2>4, <3>1, PresentRow DEF TypeOK
    <3>. QED BY <2>4, <3>1, <3>2, <1>3 DEF RevokeGrant
  <2>5. CASE UNCHANGED primary
    BY <1>1, <2>5
  <2>. QED
    BY <2>1, <2>2, <2>3, <2>4, <2>5
    DEF Next, Request, Decide, CountPending, FindPending, ReadForApproval, ReadForDenial,
        ReadForRevocation, RevokeGrant, RecheckRevoked, RecordAudit, Abandon, Lapse,
        CatchUp, Replicate, vars, dbVars
<1>5. ASSUME NEW h \in Handlers, op'[h].at = "approve" PROVE op'[h].g # g
  <2>1. ASSUME NEW k \in Handlers, NEW o, Goto(k, o), o.at = "approve" => o.g # g
        PROVE  op'[h].g # g
    <3>1. op' = [op EXCEPT ![k] = o] /\ op \in [Handlers -> Operation]
      BY <2>1 DEF Goto, TypeOK
    <3>. QED BY <1>1, <1>5, <2>1, <3>1
  <2>2. ASSUME NEW k \in Handlers, Request(k)
        PROVE  \E o : Goto(k, o) /\ (o.at = "approve" => o.g # g)
    <3>1. \/ \E a, s, C : Goto(k, [at |-> "find", a |-> a, s |-> s, caps |-> C])
          \/ op[k].at = "find" /\ Goto(k, [op[k] EXCEPT !.at = "insert"])
          \/ \E e, i : Goto(k, [at |-> "audit", event |-> e, g |-> i])
      BY <2>2 DEF Request, CountPending, FindPending, InsertGrant, Succeed
    <3>2. op[k].at = "find" => [op[k] EXCEPT !.at = "insert"].at = "insert"
      BY OperationShape DEF TypeOK
    <3>3. /\ \A a, s, C : [at |-> "find", a |-> a, s |-> s, caps |-> C].at = "find"
          /\ \A e, i : [at |-> "audit", event |-> e, g |-> i].at = "audit"
          /\ "find" # "approve" /\ "audit" # "approve" /\ "insert" # "approve"
      OBVIOUS
    <3>. QED BY <3>1, <3>2, <3>3, Zenon
  <2>3. ASSUME NEW k \in Handlers, Decide(k)
        PROVE  \E o : Goto(k, o) /\ (o.at = "approve" => o.g # g)
    <3>1. \/ \E i, D : i # g /\ Goto(k, [at |-> "approve", g |-> i, caps |-> D])
          \/ \E i : Goto(k, [at |-> "deny", g |-> i])
          \/ \E i : Goto(k, [at |-> "revoke", g |-> i])
          \/ \E e, i : Goto(k, [at |-> "audit", event |-> e, g |-> i])
          \/ op[k].at = "revoke" /\ Goto(k, [op[k] EXCEPT !.at = "recheck"])
      BY <1>1, <2>3 DEF Decide, ReadForApproval, ReadForDenial, ReadForRevocation, ApproveGrant,
                  DenyGrant, RevokeGrant, RecheckRevoked, Succeed
    <3>2. op[k].at = "revoke" => [op[k] EXCEPT !.at = "recheck"].at = "recheck"
      BY OperationShape DEF TypeOK
    <3>3. ASSUME NEW i, NEW D, i # g, Goto(k, [at |-> "approve", g |-> i, caps |-> D])
          PROVE  \E o : Goto(k, o) /\ (o.at = "approve" => o.g # g)
      <4>1. [at |-> "approve", g |-> i, caps |-> D].g # g
        BY <3>3
      <4>. QED BY <3>3, <4>1
    <3>4. /\ \A i : [at |-> "deny", g |-> i].at = "deny"
          /\ \A i : [at |-> "revoke", g |-> i].at = "revoke"
          /\ \A e, i : [at |-> "audit", event |-> e, g |-> i].at = "audit"
          /\ "deny" # "approve" /\ "revoke" # "approve" /\ "audit" # "approve"
          /\ "recheck" # "approve"
      OBVIOUS
    <3>. QED BY <3>1, <3>2, <3>3, <3>4, Zenon
  <2>4. ASSUME NEW k \in Handlers, RecordAudit(k) \/ Abandon(k)
        PROVE  Goto(k, Idle) /\ Idle.at # "approve"
    BY <2>4 DEF RecordAudit, Abandon, Idle
  <2>5. CASE UNCHANGED op
    BY <1>1, <1>5, <2>5
  <2>. QED BY <2>1, <2>2, <2>3, <2>4, <2>5 DEF Next, Lapse, CatchUp, vars
<1>. QED BY <1>2, <1>4, <1>5 DEF Closed

\* Once the approval window of a grant has closed with no approval on its way,
\* nothing approves the grant.
THEOREM WindowsStayClosed == Spec => ClosedStaysClosed
<1>1. TypeOK /\ [Next]_vars => [\A g \in GrantIds : Closed(g) => Closed(g)']_vars
  BY ClosedStep
<1>. QED BY <1>1, TypeCorrect, PTL DEF Spec, ClosedStaysClosed
=============================================================================
