---------------------------- MODULE TokensProof ----------------------------
(***************************************************************************)
(* Theorems about Tokens, for every set of requests, grants, providers,    *)
(* nonces and replicas and every life, window, skew and bound.             *)
(***************************************************************************)
EXTENDS Tokens, DatabaseProof, FiniteSetTheorems

\* What is assumed of the constants, and the time beyond all others.
LEMMA Constants ==
  /\ Lifetime \in Nat /\ Window \in Nat /\ Skew \in Nat /\ NonceTTL \in Nat
  /\ MaxTokens \in Nat /\ MaxTime \in Nat /\ Lifetime <= NonceTTL
  /\ IsFiniteSet(Handlers) /\ GrantSP \in [Grants -> SPs]
  /\ Never \in Nat /\ Never = MaxTime + Lifetime + NonceTTL + 2
BY TokensAssumption DEF Never

-----------------------------------------------------------------------------
(* What each stage of a request carries. *)

\* What a verification holds between its nonce and its answer.
LEMMA VerificationShape ==
  ASSUME NEW o \in Verification
  PROVE  /\ o.at \in {"expire", "lookup"} /\ o.j \in Jtis /\ o.s \in SPs /\ o.n \in Nonces
         /\ o.late \in SUBSET {"done", "already"}
         /\ LET d == [o EXCEPT !.at = "lookup"] IN
              /\ d \in Verification /\ d.at = "lookup"
              /\ d.j = o.j /\ d.s = o.s /\ d.n = o.n /\ d.late = o.late
BY DEF Verification

\* What a request in flight holds, by where it is.
LEMMA OperationShape ==
  ASSUME NEW o \in Operation
  PROVE  /\ o.at = "idle" => o = Idle
         /\ o.at \in {"find", "insert"} => o.g \in Grants /\ o.s \in SPs /\ o.checked \in BOOLEAN
         /\ o.at = "insert" => o.issued \in Nat
         /\ o.at \in {"cache", "revoke", "mark", "recheck"} => o.j \in Jtis
         /\ o.at \in {"expire", "lookup"} => o \in Verification
         /\ o.at = "row" => o.hit \in BOOLEAN
         /\ o.at \in {"row", "fill", "decide", "allowed"} => o.req \in Verification
         /\ o.at \in {"fill", "decide", "allowed"} => o.row \in Row
         /\ o.at = "allowed" => o.time \in Nat /\ o.again \in BOOLEAN
         /\ o.at \in {"idle", "find", "insert", "cache", "revoke", "mark", "recheck", "expire",
                      "lookup", "row", "fill", "decide", "allowed"}
<1>1. CASE o = Idle
      BY <1>1 DEF Idle
<1>2. CASE o \in [at : {"find"}, g : Grants, s : SPs, checked : BOOLEAN]
      BY <1>2
<1>3. CASE o \in [at : {"insert"}, g : Grants, s : SPs, checked : BOOLEAN, issued : Nat]
      BY <1>3
<1>4. CASE o \in [at : {"cache", "revoke", "mark", "recheck"}, j : Jtis]
      BY <1>4
<1>5. CASE o \in Verification
      BY <1>5, VerificationShape
<1>6. CASE o \in [at : {"row"}, hit : BOOLEAN, req : Verification]
      BY <1>6
<1>7. CASE o \in [at : {"fill", "decide"}, row : Row, req : Verification]
      BY <1>7
<1>8. CASE o \in [at : {"allowed"}, time : Nat, again : BOOLEAN, row : Row, req : Verification]
      BY <1>8
<1> QED BY <1>1, <1>2, <1>3, <1>4, <1>5, <1>6, <1>7, <1>8 DEF Operation

\* A stage that only changes its name.
LEMMA OperationTurns ==
  ASSUME NEW o \in Operation
  PROVE  /\ o.at = "revoke" =>
              \A at \in {"mark", "recheck"} :
                LET d == [o EXCEPT !.at = at] IN d \in Operation /\ d.at = at /\ d.j = o.j
         /\ o.at = "fill" =>
              LET d == [o EXCEPT !.at = "decide"] IN
              d \in Operation /\ d.at = "decide" /\ d.row = o.row /\ d.req = o.req
<1>a. \A v \in Verification : v.at \in {"expire", "lookup"}
      BY DEF Verification
<1>1. ASSUME o.at = "revoke", NEW at \in {"mark", "recheck"}
      PROVE  LET d == [o EXCEPT !.at = at] IN d \in Operation /\ d.at = at /\ d.j = o.j
  <2> DEFINE d == [o EXCEPT !.at = at]
  <2>1. o \in [at : {"cache", "revoke", "mark", "recheck"}, j : Jtis]
        BY <1>1, <1>a DEF Operation, Idle
  <2>2. d \in [at : {"cache", "revoke", "mark", "recheck"}, j : Jtis] /\ d.at = at /\ d.j = o.j
        BY <2>1
  <2>3. d \in Operation
        BY <2>2 DEF Operation
  <2> QED BY <2>2, <2>3
<1>2. ASSUME o.at = "fill"
      PROVE  LET d == [o EXCEPT !.at = "decide"] IN
             d \in Operation /\ d.at = "decide" /\ d.row = o.row /\ d.req = o.req
  <2> DEFINE d == [o EXCEPT !.at = "decide"]
  <2>1. o \in [at : {"fill", "decide"}, row : Row, req : Verification]
        BY <1>2, <1>a DEF Operation, Idle
  <2>2. /\ d \in [at : {"fill", "decide"}, row : Row, req : Verification]
        /\ d.at = "decide" /\ d.row = o.row /\ d.req = o.req
        BY <2>1
  <2>3. d \in Operation
        BY <2>2 DEF Operation
  <2> QED BY <2>2, <2>3
<1> QED BY <1>1, <1>2

\* The stages that are made anew.
LEMMA OperationMade ==
  /\ Idle \in Operation /\ Idle.at = "idle"
  /\ \A g \in Grants, s \in SPs, c \in BOOLEAN :
       [at |-> "find", g |-> g, s |-> s, checked |-> c] \in Operation
  /\ \A g \in Grants, s \in SPs, c \in BOOLEAN, i \in Nat :
       [at |-> "insert", g |-> g, s |-> s, checked |-> c, issued |-> i] \in Operation
  /\ \A at \in {"cache", "revoke"}, j \in Jtis : [at |-> at, j |-> j] \in Operation
  /\ \A o \in Verification : o \in Operation
  /\ \A j \in Jtis, s \in SPs, n \in Nonces, l \in SUBSET {"done", "already"} :
       [at |-> "expire", j |-> j, s |-> s, n |-> n, late |-> l] \in Verification
  /\ \A hit \in BOOLEAN, q \in Verification :
       [at |-> "row", hit |-> hit, req |-> q] \in Operation
  /\ \A at \in {"fill", "decide"}, row \in Row, q \in Verification :
       [at |-> at, row |-> row, req |-> q] \in Operation
  /\ \A i \in Nat, again \in BOOLEAN, row \in Row, q \in Verification :
       [at |-> "allowed", time |-> i, again |-> again, row |-> row, req |-> q] \in Operation
<1>1. Idle \in Operation /\ Idle.at = "idle"
      BY DEF Operation, Idle
<1>2. /\ \A g \in Grants, s \in SPs, c \in BOOLEAN :
           [at |-> "find", g |-> g, s |-> s, checked |-> c] \in Operation
      /\ \A g \in Grants, s \in SPs, c \in BOOLEAN, i \in Nat :
           [at |-> "insert", g |-> g, s |-> s, checked |-> c, issued |-> i] \in Operation
      /\ \A at \in {"cache", "revoke"}, j \in Jtis : [at |-> at, j |-> j] \in Operation
      BY DEF Operation
<1>3. /\ \A o \in Verification : o \in Operation
      /\ \A j \in Jtis, s \in SPs, n \in Nonces, l \in SUBSET {"done", "already"} :
           [at |-> "expire", j |-> j, s |-> s, n |-> n, late |-> l] \in Verification
      BY DEF Operation, Verification
<1>4. /\ \A hit \in BOOLEAN, q \in Verification :
           [at |-> "row", hit |-> hit, req |-> q] \in Operation
      /\ \A at \in {"fill", "decide"}, row \in Row, q \in Verification :
           [at |-> at, row |-> row, req |-> q] \in Operation
      BY DEF Operation
<1>5. \A i \in Nat, again \in BOOLEAN, row \in Row, q \in Verification :
        [at |-> "allowed", time |-> i, again |-> again, row |-> row, req |-> q] \in Operation
      BY DEF Operation
<1> QED BY <1>1, <1>2, <1>3, <1>4, <1>5

-----------------------------------------------------------------------------
(* Rows, and what is in Redis. *)

\* A row of issued_tokens, and the row once it is revoked.
LEMMA RowShape ==
  ASSUME NEW row \in Row
  PROVE  /\ row # Absent
         /\ row.grant \in Grants /\ row.sp \in SPs /\ row.issued \in Nat /\ row.revoked \in BOOLEAN
         /\ LET d == [row EXCEPT !.revoked = TRUE] IN
              /\ d \in Row /\ d.revoked /\ d.grant = row.grant /\ d.sp = row.sp
              /\ d.issued = row.issued
<1>1. row # Absent
  <2>1. DOMAIN row = {"grant", "sp", "issued", "revoked"} /\ DOMAIN Absent = {"grant"}
        BY DEF Row, Absent
  <2> QED BY <2>1
<1> QED BY <1>1 DEF Row

\* The database with one row put in place.
LEMMA StateShape ==
  ASSUME NEW t \in State
  PROVE  /\ t.grant \in [Grants -> {"pending", "approved", "revoked"}]
         /\ \A j \in Jtis : t.token[j] = Absent \/ t.token[j] \in Row
         /\ \A j \in Jtis, row \in Row :
              LET u == [t EXCEPT !.token[j] = row] IN
              /\ u \in State /\ u.grant = t.grant
              /\ \A k \in Jtis : u.token[k] = IF k = j THEN row ELSE t.token[k]
         /\ \A g \in Grants, st \in {"pending", "approved", "revoked"} :
              LET u == [t EXCEPT !.grant[g] = st] IN
              /\ u \in State /\ u.token = t.token
              /\ \A k \in Grants : u.grant[k] = IF k = g THEN st ELSE t.grant[k]
BY DEF State

\* The entries that Redis may have for a token.
LEMMA EntryShape ==
  /\ Missing \in Entry /\ Missing.kind = "none"
  /\ Partial \in Entry /\ Partial.kind = "partial"
  /\ \A e \in Entry : e.kind = "full" =>
       /\ e.sp \in SPs /\ e.revoked \in BOOLEAN /\ e.until \in Nat
       /\ LET d == [e EXCEPT !.revoked = TRUE] IN
            d \in Entry /\ d.kind = "full" /\ d.revoked /\ d.sp = e.sp
<1>1. /\ Missing \in Entry /\ Missing.kind = "none"
      /\ Partial \in Entry /\ Partial.kind = "partial"
      BY DEF Entry, Missing, Partial
<1>2. ASSUME NEW e \in Entry, e.kind = "full"
      PROVE  /\ e.sp \in SPs /\ e.revoked \in BOOLEAN /\ e.until \in Nat
             /\ LET d == [e EXCEPT !.revoked = TRUE] IN
                  d \in Entry /\ d.kind = "full" /\ d.revoked /\ d.sp = e.sp
  <2> DEFINE d == [e EXCEPT !.revoked = TRUE]
  <2>1. e \in [kind : {"full"}, sp : SPs, revoked : BOOLEAN, until : Nat]
        BY <1>2, <1>1 DEF Entry
  <2>2. /\ d \in [kind : {"full"}, sp : SPs, revoked : BOOLEAN, until : Nat]
        /\ d.kind = "full" /\ d.revoked /\ d.sp = e.sp
        BY <2>1
  <2>3. d \in Entry
        BY <2>2 DEF Entry
  <2> QED BY <2>1, <2>2, <2>3
<1> QED BY <1>1, <1>2

\* What a fill writes: the row, unrevoked.
LEMMA CachedShape ==
  ASSUME NEW row \in Row, now \in Nat
  PROVE  /\ Cached(row) \in Entry /\ Cached(row).kind = "full" /\ Cached(row).sp = row.sp
         /\ ~Cached(row).revoked
<1> USE Constants
<1>1. Exp(row) \in Nat
  <2>1. row.issued \in Nat
        BY RowShape
  <2> QED BY <2>1 DEF Exp
<1>2. (IF Exp(row) > now THEN Exp(row) ELSE now + 1) \in Nat
      BY <1>1
<1>3. row.sp \in SPs
      BY RowShape
<1> QED BY <1>2, <1>3 DEF Cached, Entry

\* What a mark leaves: revoked, or a flag that is no entry.
LEMMA MarkedShape ==
  ASSUME NEW j \in Jtis, cache[j] \in Entry
  PROVE  /\ Marked(j) \in Entry
         /\ Marked(j).kind = "full" =>
              Marked(j).revoked /\ cache[j].kind = "full" /\ Marked(j).sp = cache[j].sp
<1>1. CASE Hit(j)
      BY <1>1, EntryShape DEF Marked, Hit
<1>2. CASE ~Hit(j)
      BY <1>2, EntryShape DEF Marked
<1> QED BY <1>1, <1>2

-----------------------------------------------------------------------------
(* Type correctness. *)

\* The database and Redis are empty and no request is in flight.
LEMMA TypeInit == Init => TypeOK
<1> USE Constants
<1> SUFFICES ASSUME Init PROVE TypeOK
    OBVIOUS
<1>1. primary \in State
      BY DEF Init, DbInit, State
<1>2. <<primary>> \in Seq(State) /\ <<primary>> # <<>>
      BY <1>1
<1>3. stream = [r \in Replicas |-> <<primary>>]
      BY DEF Init, DbInit
<1>4. stream \in [Replicas -> Seq(State)] /\ \A r \in Replicas : stream[r] # <<>>
      BY <1>2, <1>3
<1>5. op \in [Handlers -> Operation] /\ cache \in [Jtis -> Entry]
      BY OperationMade, EntryShape DEF Init
<1>6. /\ now \in Nat /\ nonces \in [Nonces -> Nat] /\ answered \subseteq Jtis
      /\ checked \subseteq Jtis /\ told \in [Jtis -> SUBSET {"done", "already"}]
      /\ excused \subseteq Jtis /\ spent \subseteq Nonces \X Jtis
      BY DEF Init
<1> QED BY <1>1, <1>4, <1>5, <1>6 DEF TypeOK

\* A commit of a state keeps the database's types.
LEMMA CommitType ==
  ASSUME TypeOK, NEW t \in State, Commit(t)
  PROVE  /\ primary' = t /\ primary' \in State
         /\ stream' \in [Replicas -> Seq(State)] /\ \A r \in Replicas : stream'[r] # <<>>
BY CommitStreams DEF TypeOK, Commit

\* What a replica query may see is a state.
LEMMA ViewType == ASSUME TypeOK, NEW t \in Views PROVE t \in State
<1>1. \/ t = primary
      \/ \E r \in Replicas : \E i \in 1..Len(stream[r]) : t = stream[r][i]
      BY ViewIsPast DEF TypeOK
<1> QED BY <1>1 DEF TypeOK

\* One request moves to a well-formed stage.
LEMMA GotoType ==
  ASSUME TypeOK, NEW h \in Handlers, NEW o \in Operation, Goto(h, o)
  PROVE  /\ op' \in [Handlers -> Operation] /\ op'[h] = o
         /\ \A k \in Handlers : k # h => op'[k] = op[k]
BY DEF TypeOK, Goto

\* The token is in the database.
There(j) == primary.token[j] # Absent

\* A token is written to Redis after it was inserted.
InsertedFirst == \A h \in Handlers : op[h].at = "cache" => There(op[h].j)

\* Every step keeps the types.
LEMMA TypeNext == TypeOK /\ InsertedFirst /\ [Next]_vars => TypeOK'
<1> USE Constants
<1> SUFFICES ASSUME TypeOK, InsertedFirst, [Next]_vars PROVE TypeOK'
    OBVIOUS
<1>a. /\ primary \in State /\ stream \in [Replicas -> Seq(State)]
      /\ \A r \in Replicas : stream[r] # <<>>
      /\ now \in Nat /\ op \in [Handlers -> Operation] /\ cache \in [Jtis -> Entry]
      /\ nonces \in [Nonces -> Nat] /\ answered \subseteq Jtis /\ checked \subseteq Jtis
      /\ told \in [Jtis -> SUBSET {"done", "already"}] /\ excused \subseteq Jtis
      /\ spent \subseteq Nonces \X Jtis
      BY DEF TypeOK
<1>b. Idle \in Operation
      BY OperationMade
<1>1. CASE UNCHANGED vars
      BY <1>1, <1>a DEF vars, TypeOK
\* Only the stage of one request changes.
<1>c. ASSUME NEW h \in Handlers, NEW o \in Operation, Goto(h, o),
             UNCHANGED <<dbVars, now, redis, history>>
      PROVE  TypeOK'
  <2>1. op' \in [Handlers -> Operation]
        BY <1>c, GotoType
  <2> QED BY <2>1, <1>a, <1>c DEF TypeOK, dbVars, redis, history
<1>2. ASSUME NEW h \in Handlers, NEW g \in Grants, RequestToken(h, g) PROVE TypeOK'
  <2>1. [at |-> "find", g |-> g, s |-> GrantSP[g], checked |-> TRUE] \in Operation
        BY OperationMade
  <2> QED BY <1>2, <2>1, <1>c DEF RequestToken
<1>3. ASSUME NEW h \in Handlers, NEW g \in Grants, NEW s \in SPs, RequestTokenInFull(h, g, s)
      PROVE  TypeOK'
  <2>1. [at |-> "find", g |-> g, s |-> s, checked |-> FALSE] \in Operation
        BY OperationMade
  <2> QED BY <1>3, <2>1, <1>c DEF RequestTokenInFull
<1>4. ASSUME NEW h \in Handlers, FindToken(h) PROVE TypeOK'
  <2> DEFINE c == op[h]
             o == [at |-> "insert", g |-> c.g, s |-> c.s, checked |-> c.checked, issued |-> now]
  <2>1. /\ UNCHANGED <<primary, stream, now, cache, nonces, checked, told, excused, spent>>
        /\ answered' \subseteq Jtis
        /\ Goto(h, Idle) \/ Goto(h, o)
        BY <1>4, <1>a DEF FindToken, dbVars, redis, Recent
  <2>2. c \in Operation /\ c.at = "find"
        BY <1>4, <1>a DEF FindToken
  <2>3. c.g \in Grants /\ c.s \in SPs /\ c.checked \in BOOLEAN
        BY <2>2, OperationShape
  <2>4. o \in Operation
        BY <2>3, <1>a, OperationMade
  <2> HIDE DEF o, c
  <2>5. op' \in [Handlers -> Operation]
        BY <2>1, <2>4, <1>b, GotoType
  <2> QED BY <2>1, <2>5, <1>a DEF TypeOK
<1>5. ASSUME NEW h \in Handlers, InsertToken(h) PROVE TypeOK'
  <2> DEFINE row == [grant |-> op[h].g, sp |-> op[h].s, issued |-> op[h].issued, revoked |-> FALSE]
  <2>1. PICK j \in Jtis :
          /\ Commit([primary EXCEPT !.token[j] = row])
          /\ checked' = IF op[h].checked THEN checked \cup {j} ELSE checked
          /\ Goto(h, [at |-> "cache", j |-> j])
        BY <1>5 DEF InsertToken, SetToken
  <2>2. op[h] \in Operation /\ op[h].at = "insert"
        BY <1>5, <1>a DEF InsertToken
  <2>3. row \in Row
        BY <2>2, OperationShape DEF Row
  <2>4. [primary EXCEPT !.token[j] = row] \in State
    <3> HIDE DEF row
    <3> QED BY <2>3, <1>a, StateShape, Zenon
  <2>5. /\ primary' \in State /\ stream' \in [Replicas -> Seq(State)]
        /\ \A r \in Replicas : stream'[r] # <<>>
        BY <2>1, <2>4, CommitType, Zenon
  <2>6. op' \in [Handlers -> Operation]
        BY <2>1, OperationMade, GotoType
  <2>7. checked' \subseteq Jtis
        BY <2>1, <1>a
  <2>8. UNCHANGED <<now, cache, nonces, answered, told, excused, spent>>
        BY <1>5 DEF InsertToken, redis
  <2> QED BY <2>5, <2>6, <2>7, <2>8, <1>a DEF TypeOK
<1>6. ASSUME NEW h \in Handlers, CacheIssued(h) PROVE TypeOK'
  <2>1. op[h] \in Operation /\ op[h].at = "cache"
        BY <1>6, <1>a DEF CacheIssued
  <2>2. op[h].j \in Jtis
        BY <2>1, OperationShape
  <2>3. Cached(primary.token[op[h].j]) \in Entry
    <3>1. primary.token[op[h].j] \in Row
          BY <2>1, <2>2, <1>a, StateShape DEF InsertedFirst, There
    <3> QED BY <3>1, <1>a, CachedShape
  <2>4. cache' \in [Jtis -> Entry] /\ answered' \subseteq Jtis
        BY <1>6, <2>2, <2>3, <1>a DEF CacheIssued
  <2>5. op' \in [Handlers -> Operation]
        BY <1>6, <1>b, GotoType DEF CacheIssued
  <2>6. UNCHANGED <<primary, stream, now, nonces, checked, told, excused, spent>>
        BY <1>6 DEF CacheIssued, dbVars
  <2> QED BY <2>4, <2>5, <2>6, <1>a DEF TypeOK
<1>7. ASSUME NEW h \in Handlers, NEW j \in Jtis, ReadForRevocation(h, j) PROVE TypeOK'
  <2>1. [at |-> "revoke", j |-> j] \in Operation
        BY OperationMade
  <2> QED BY <1>7, <2>1, <1>c DEF ReadForRevocation
<1>8. ASSUME NEW h \in Handlers, RevokeToken(h) PROVE TypeOK'
  <2> DEFINE j == op[h].j
             row == [primary.token[j] EXCEPT !.revoked = TRUE]
  <2>1. op[h] \in Operation /\ op[h].at = "revoke" /\ primary.token[j] # Absent
        BY <1>8, <1>a DEF RevokeToken
  <2>2. j \in Jtis
        BY <2>1, OperationShape
  <2>3. row \in Row
    <3>1. primary.token[j] \in Row
          BY <2>1, <2>2, <1>a, StateShape
    <3> QED BY <3>1, RowShape, Zenon
  <2>4. op' \in [Handlers -> Operation]
    <3>1. PICK at \in {"mark", "recheck"} : Goto(h, [op[h] EXCEPT !.at = at])
          BY <1>8 DEF RevokeToken
    <3>2. [op[h] EXCEPT !.at = at] \in Operation
          BY <2>1, OperationTurns
    <3> QED BY <3>1, <3>2, GotoType
  <2>5. UNCHANGED <<now, cache, nonces, answered, checked, told, spent>>
        BY <1>8 DEF RevokeToken, redis
  <2>6. CASE primary.token[j].revoked
    <3>1. UNCHANGED <<primary, stream, excused>>
          BY <1>8, <2>6 DEF RevokeToken, dbVars
    <3> QED BY <2>4, <2>5, <3>1, <1>a DEF TypeOK
  <2>7. CASE ~primary.token[j].revoked
    <3>1. Commit([primary EXCEPT !.token[j] = row])
          BY <1>8, <2>7 DEF RevokeToken, SetToken
    <3>2. excused' \subseteq Jtis
          BY <1>8, <2>2, <2>7, <1>a DEF RevokeToken, Excuse
    <3> HIDE DEF row, j
    <3>3. [primary EXCEPT !.token[j] = row] \in State
          BY <2>2, <2>3, <1>a, StateShape, Zenon
    <3>4. /\ primary' \in State /\ stream' \in [Replicas -> Seq(State)]
          /\ \A r \in Replicas : stream'[r] # <<>>
          BY <3>1, <3>3, CommitType, Zenon
    <3> QED BY <2>4, <2>5, <3>2, <3>4, <1>a DEF TypeOK
  <2> QED BY <2>6, <2>7
<1>9. ASSUME NEW h \in Handlers, AnswerAlreadyRevoked(h) \/ MarkRevoked(h) PROVE TypeOK'
  <2>1. op[h] \in Operation /\ op[h].at \in {"recheck", "mark"}
        BY <1>9, <1>a DEF AnswerAlreadyRevoked, MarkRevoked
  <2>2. op[h].j \in Jtis
        BY <2>1, OperationShape
  <2>3. op' \in [Handlers -> Operation]
        BY <1>9, <1>b, GotoType DEF AnswerAlreadyRevoked, MarkRevoked
  <2>a. told' \in [Jtis -> SUBSET {"done", "already"}]
    <3>1. PICK what \in {"done", "already"} : Tell(op[h].j, what) \/ UNCHANGED told
          BY <1>9 DEF AnswerAlreadyRevoked, MarkRevoked
    <3>2. told[op[h].j] \cup {what} \in SUBSET {"done", "already"}
          BY <2>2, <1>a
    <3> QED BY <3>1, <3>2, <1>a DEF Tell
  <2>b. excused' \subseteq Jtis
        BY <1>9, <2>2, <1>a DEF AnswerAlreadyRevoked, MarkRevoked, Excuse
  <2>5. cache' \in [Jtis -> Entry]
    <3>1. Marked(op[h].j) \in Entry
          BY <2>2, <1>a, MarkedShape
    <3> QED BY <1>9, <3>1, <1>a DEF AnswerAlreadyRevoked, MarkRevoked, redis
  <2>6. UNCHANGED <<primary, stream, now, nonces, answered, checked, spent>>
        BY <1>9 DEF AnswerAlreadyRevoked, MarkRevoked, dbVars, redis
  <2> QED BY <2>3, <2>a, <2>b, <2>5, <2>6, <1>a DEF TypeOK
<1>10. ASSUME NEW h \in Handlers, NEW j \in Jtis, NEW s \in SPs, NEW n \in Nonces,
              CheckNonce(h, j, s, n)
       PROVE  TypeOK'
  <2> DEFINE o == [at |-> "expire", j |-> j, s |-> s, n |-> n, late |-> told[j]]
  <2>1. o \in Operation
        BY <1>a, OperationMade
  <2>2. Goto(h, o)
        BY <1>10 DEF CheckNonce
  <2> HIDE DEF o
  <2>3. op' \in [Handlers -> Operation]
        BY <2>1, <2>2, GotoType
  <2>4. nonces' \in [Nonces -> Nat]
        BY <1>10, <1>a DEF CheckNonce
  <2> QED BY <1>10, <2>3, <2>4, <1>a DEF CheckNonce, TypeOK, dbVars, history
<1>11. ASSUME NEW h \in Handlers, ExpireNonce(h) PROVE TypeOK'
  <2>1. op[h] \in Verification
        BY <1>11, <1>a, OperationShape DEF ExpireNonce
  <2>2. [op[h] EXCEPT !.at = "lookup"] \in Operation
        BY <2>1, VerificationShape, OperationMade, Zenon
  <2>3. op' \in [Handlers -> Operation]
        BY <1>11, <2>2, GotoType DEF ExpireNonce
  <2>4. nonces' \in [Nonces -> Nat]
    <3>1. now + NonceTTL \in Nat
          BY <1>a
    <3> QED BY <1>11, <3>1, <1>a DEF ExpireNonce
  <2> QED BY <1>11, <2>3, <2>4, <1>a DEF ExpireNonce, TypeOK, dbVars, history
<1>12. ASSUME NEW h \in Handlers, LookUpCached(h) PROVE TypeOK'
  <2>1. op[h] \in Verification
        BY <1>12, <1>a, OperationShape DEF LookUpCached
  <2>2. PICK hit \in BOOLEAN : Goto(h, [at |-> "row", hit |-> hit, req |-> op[h]])
        BY <1>12 DEF LookUpCached
  <2>3. [at |-> "row", hit |-> hit, req |-> op[h]] \in Operation
        BY <2>1, OperationMade
  <2> QED BY <1>12, <2>2, <2>3, <1>c DEF LookUpCached
<1>13. ASSUME NEW h \in Handlers, ReadRow(h) PROVE TypeOK'
  <2>1. op[h] \in Operation /\ op[h].at = "row"
        BY <1>13, <1>a DEF ReadRow
  <2>2. op[h].req \in Verification
        BY <2>1, OperationShape
  <2>3. op[h].req.j \in Jtis
        BY <2>2, VerificationShape
  <2>4. PICK t \in Views :
          /\ t.token[op[h].req.j] # Absent
          /\ Goto(h, [at |-> IF op[h].hit THEN "decide" ELSE "fill",
                      row |-> t.token[op[h].req.j], req |-> op[h].req])
          /\ Excuse(op[h].req.j, ~op[h].hit /\ primary.token[op[h].req.j].revoked)
        BY <1>13 DEF ReadRow
  <2>5. t.token[op[h].req.j] \in Row
        BY <2>3, <2>4, ViewType, StateShape
  <2>6. [at |-> IF op[h].hit THEN "decide" ELSE "fill",
         row |-> t.token[op[h].req.j], req |-> op[h].req] \in Operation
        BY <2>2, <2>5, OperationMade
  <2>7. op' \in [Handlers -> Operation]
        BY <2>4, <2>6, GotoType
  <2>8. excused' \subseteq Jtis
        BY <2>3, <2>4, <1>a DEF Excuse
  <2>9. UNCHANGED <<primary, stream, now, cache, nonces, answered, checked, told, spent>>
        BY <1>13 DEF ReadRow, dbVars, redis
  <2> QED BY <2>7, <2>8, <2>9, <1>a DEF TypeOK
<1>14. ASSUME NEW h \in Handlers, FillCache(h) PROVE TypeOK'
  <2>1. op[h] \in Operation /\ op[h].at = "fill"
        BY <1>14, <1>a DEF FillCache
  <2>2. op[h].req \in Verification /\ op[h].row \in Row
        BY <2>1, OperationShape
  <2>3. op[h].req.j \in Jtis /\ Cached(op[h].row) \in Entry
        BY <2>2, <1>a, VerificationShape, CachedShape
  <2>4. cache' \in [Jtis -> Entry]
        BY <1>14, <2>3, <1>a DEF FillCache
  <2>5. [op[h] EXCEPT !.at = "decide"] \in Operation
        BY <2>1, OperationTurns
  <2>6. op' \in [Handlers -> Operation]
        BY <1>14, <2>5, GotoType DEF FillCache
  <2>7. UNCHANGED <<primary, stream, now, nonces, answered, checked, told, excused, spent>>
        BY <1>14 DEF FillCache, dbVars, history
  <2> QED BY <2>4, <2>6, <2>7, <1>a DEF TypeOK
<1>15. ASSUME NEW h \in Handlers, Decide(h) PROVE TypeOK'
  <2> DEFINE pair == <<op[h].req.n, op[h].req.j>>
             o == [at |-> "allowed", time |-> now, again |-> pair \in spent, row |-> op[h].row,
                   req |-> op[h].req]
  <2>1. op[h] \in Operation /\ op[h].at = "decide"
        BY <1>15, <1>a DEF Decide
  <2>2. op[h].req \in Verification /\ op[h].row \in Row
        BY <2>1, OperationShape
  <2>3. pair \in Nonces \X Jtis
        BY <2>2, VerificationShape
  <2>4. (pair \in spent) \in BOOLEAN
        OBVIOUS
  <2>5. Goto(h, o) /\ spent' = spent \cup {pair}
        BY <1>15 DEF Decide
  <2> HIDE DEF pair
  <2>6. o \in Operation
        BY <2>2, <2>4, <1>a, OperationMade
  <2> HIDE DEF o
  <2>7. op' \in [Handlers -> Operation]
        BY <2>5, <2>6, GotoType
  <2>8. spent' \subseteq Nonces \X Jtis
        BY <2>3, <2>5, <1>a
  <2>9. UNCHANGED <<primary, stream, now, cache, nonces, answered, checked, told, excused>>
        BY <1>15 DEF Decide, dbVars, redis
  <2> QED BY <2>7, <2>8, <2>9, <1>a DEF TypeOK
<1>16. ASSUME NEW h \in Handlers, AnswerAllowed(h) PROVE TypeOK'
       BY <1>16, <1>b, <1>c DEF AnswerAllowed
<1>17. ASSUME NEW h \in Handlers, Abandon(h) PROVE TypeOK'
  <2>1. op[h] \in Operation
        BY <1>a
  <2>2. op' \in [Handlers -> Operation]
        BY <1>17, <1>b, GotoType DEF Abandon
  <2>3. excused' \subseteq Jtis
    <3>1. CASE op[h].at = "mark"
      <4>1. op[h].j \in Jtis
            BY <2>1, <3>1, OperationShape
      <4> QED BY <1>17, <3>1, <4>1, <1>a DEF Abandon, Excuse
    <3>2. CASE op[h].at # "mark"
          BY <1>17, <3>2, <1>a DEF Abandon
    <3> QED BY <3>1, <3>2
  <2> QED BY <1>17, <2>2, <2>3, <1>a DEF Abandon, TypeOK, dbVars, redis
<1>18. ASSUME NEW g \in Grants, ApproveGrant(g) \/ RevokeGrant(g) PROVE TypeOK'
  <2>1. PICK st \in {"approved", "revoked"} : Commit([primary EXCEPT !.grant[g] = st])
        BY <1>18 DEF ApproveGrant, RevokeGrant, SetGrant
  <2>2. [primary EXCEPT !.grant[g] = st] \in State
        BY <1>a, StateShape, Zenon
  <2>3. /\ primary' \in State /\ stream' \in [Replicas -> Seq(State)]
        /\ \A r \in Replicas : stream'[r] # <<>>
        BY <2>1, <2>2, CommitType, Zenon
  <2> QED BY <1>18, <2>3, <1>a DEF ApproveGrant, RevokeGrant, TypeOK, redis, history
<1>19. CASE Tick
       BY <1>19, <1>a DEF Tick, TypeOK, dbVars, redis, history
<1>20. ASSUME NEW r \in Replicas, CatchUp(r) PROVE TypeOK'
  <2>1. stream' \in [Replicas -> Seq(State)] /\ \A q \in Replicas : stream'[q] # <<>>
        BY <1>20, <1>a, ReplicateStreams DEF CatchUp
  <2> QED BY <1>20, <2>1, <1>a DEF CatchUp, Replicate, TypeOK, redis, history
<1>21. ASSUME NEW h \in Handlers, Issue(h) PROVE TypeOK'
       BY <1>21, <1>2, <1>3, <1>4, <1>5, <1>6, Zenon DEF Issue
<1>22. ASSUME NEW h \in Handlers, Revoke(h) PROVE TypeOK'
       BY <1>22, <1>7, <1>8, <1>9, Zenon DEF Revoke
<1>23. ASSUME NEW h \in Handlers, Verify(h) PROVE TypeOK'
       BY <1>23, <1>10, <1>11, <1>12, <1>13, <1>14, <1>15, <1>16, Zenon DEF Verify
<1> QED BY <1>1, <1>17, <1>18, <1>19, <1>20, <1>21, <1>22, <1>23, Zenon DEF Next

-----------------------------------------------------------------------------
(* Nothing the database shows is ever taken back: a token's row keeps all but *)
(* its flag, a revoked token stays revoked, a decided grant stays decided,    *)
(* and a revoked one revoked.                                                 *)

Before(t, u) ==
  /\ \A j \in Jtis : t.token[j] # Absent =>
       /\ u.token[j] # Absent
       /\ u.token[j].grant = t.token[j].grant
       /\ u.token[j].sp = t.token[j].sp
       /\ u.token[j].issued = t.token[j].issued
       /\ t.token[j].revoked => u.token[j].revoked
  /\ \A g \in Grants :
       /\ t.grant[g] # "pending" => u.grant[g] # "pending"
       /\ t.grant[g] = "revoked" => u.grant[g] = "revoked"

\* A state lies before itself.
LEMMA BeforeSame == \A t : Before(t, t)
BY DEF Before

\* States are ordered.
LEMMA BeforeLater == \A t, u, v : Before(t, u) /\ Before(u, v) => Before(t, v)
BY DEF Before

\* How a step changes the database.
LEMMA DbStep ==
  ASSUME TypeOK, [Next]_vars
  PROVE  /\ Before(primary, primary')
         /\ \/ Commit(primary')
            \/ UNCHANGED dbVars
            \/ \E r \in Replicas : Replicate(r)
<1>a. primary \in State /\ op \in [Handlers -> Operation]
      BY DEF TypeOK
<1>1. CASE UNCHANGED dbVars
      BY <1>1, BeforeSame DEF dbVars
<1>2. CASE UNCHANGED vars
      BY <1>2, <1>1 DEF vars, dbVars
<1>3. ASSUME NEW h \in Handlers, InsertToken(h)
      PROVE  Before(primary, primary') /\ Commit(primary')
  <2> DEFINE row == [grant |-> op[h].g, sp |-> op[h].s, issued |-> op[h].issued, revoked |-> FALSE]
  <2>1. PICK j \in Jtis : primary.token[j] = Absent /\ Commit([primary EXCEPT !.token[j] = row])
        BY <1>3 DEF InsertToken, SetToken
  <2>2. op[h] \in Operation /\ op[h].at = "insert"
        BY <1>3, <1>a DEF InsertToken
  <2>3. row \in Row
        BY <2>2, OperationShape DEF Row
  <2> HIDE DEF row
  <2> DEFINE u == [primary EXCEPT !.token[j] = row]
  <2>4. primary' = u /\ Commit(primary')
        BY <2>1 DEF Commit
  <2>b. u = [primary EXCEPT !.token[j] = row]
        OBVIOUS
  <2> HIDE DEF u
  <2>a. /\ u.grant = primary.grant
        /\ \A k \in Jtis : u.token[k] = IF k = j THEN row ELSE primary.token[k]
        BY <1>a, <2>b DEF State
  <2>5. /\ primary'.grant = primary.grant
        /\ \A k \in Jtis : primary'.token[k] = IF k = j THEN row ELSE primary.token[k]
        BY <2>4, <2>a
  <2>6. Before(primary, primary')
        BY <2>1, <2>5 DEF Before
  <2> QED BY <2>4, <2>6
<1>4. ASSUME NEW h \in Handlers, RevokeToken(h)
      PROVE  Before(primary, primary') /\ (Commit(primary') \/ UNCHANGED dbVars)
  <2> DEFINE j == op[h].j
             row == [primary.token[j] EXCEPT !.revoked = TRUE]
  <2>1. op[h] \in Operation /\ op[h].at = "revoke" /\ primary.token[j] # Absent
        BY <1>4, <1>a DEF RevokeToken
  <2>2. j \in Jtis
        BY <2>1, OperationShape
  <2>3. primary.token[j] \in Row
        BY <2>1, <2>2, <1>a, StateShape
  <2>4. /\ row \in Row /\ row # Absent /\ row.revoked /\ row.grant = primary.token[j].grant
        /\ row.sp = primary.token[j].sp /\ row.issued = primary.token[j].issued
        BY <2>3, RowShape, Zenon
  <2>5. CASE primary.token[j].revoked
        BY <1>1, <1>4, <2>5 DEF RevokeToken
  <2>6. CASE ~primary.token[j].revoked
    <3>1. Commit([primary EXCEPT !.token[j] = row])
          BY <1>4, <2>6 DEF RevokeToken, SetToken
    <3> HIDE DEF j, row
    <3> DEFINE u == [primary EXCEPT !.token[j] = row]
    <3>2. primary' = u /\ Commit(primary')
          BY <3>1 DEF Commit
    <3>b. u = [primary EXCEPT !.token[j] = row]
          OBVIOUS
    <3> HIDE DEF u
    <3>a. /\ u.grant = primary.grant
          /\ \A k \in Jtis : u.token[k] = IF k = j THEN row ELSE primary.token[k]
          BY <2>2, <1>a, <3>b DEF State
    <3>3. /\ primary'.grant = primary.grant
          /\ \A k \in Jtis : primary'.token[k] = IF k = j THEN row ELSE primary.token[k]
          BY <3>2, <3>a
    <3>4. Before(primary, primary')
          BY <2>4, <3>3 DEF Before
    <3> QED BY <3>2, <3>4
  <2> QED BY <2>5, <2>6
<1>5. ASSUME NEW g \in Grants, ApproveGrant(g) \/ RevokeGrant(g)
      PROVE  Before(primary, primary') /\ Commit(primary')
  <2>1. PICK st \in {"approved", "revoked"} :
          /\ Commit([primary EXCEPT !.grant[g] = st])
          /\ primary.grant[g] # "revoked"
        BY <1>5 DEF ApproveGrant, RevokeGrant, SetGrant
  <2> DEFINE u == [primary EXCEPT !.grant[g] = st]
  <2>2. primary' = u /\ Commit(primary')
        BY <2>1 DEF Commit
  <2>b. u = [primary EXCEPT !.grant[g] = st]
        OBVIOUS
  <2> HIDE DEF u
  <2>a. /\ u.token = primary.token
        /\ \A k \in Grants : u.grant[k] = IF k = g THEN st ELSE primary.grant[k]
        BY <1>a, <2>b DEF State
  <2>3. /\ primary'.token = primary.token
        /\ \A k \in Grants : primary'.grant[k] = IF k = g THEN st ELSE primary.grant[k]
        BY <2>2, <2>a
  <2>4. Before(primary, primary')
        BY <2>1, <2>3 DEF Before
  <2> QED BY <2>2, <2>4
<1>6. CASE \E r \in Replicas : CatchUp(r)
      BY <1>6, BeforeSame DEF CatchUp, Replicate
<1>7. ASSUME NEW h \in Handlers, Issue(h), ~InsertToken(h) PROVE UNCHANGED dbVars
      BY <1>7 DEF Issue, RequestToken, RequestTokenInFull, FindToken, CacheIssued
<1>8. ASSUME NEW h \in Handlers, Revoke(h), ~RevokeToken(h) PROVE UNCHANGED dbVars
      BY <1>8 DEF Revoke, ReadForRevocation, AnswerAlreadyRevoked, MarkRevoked
<1>9. ASSUME NEW h \in Handlers, Verify(h) \/ Abandon(h) PROVE UNCHANGED dbVars
      BY <1>9 DEF Verify, CheckNonce, ExpireNonce, LookUpCached, ReadRow, FillCache, Decide,
                  AnswerAllowed, Abandon
<1>10. CASE Tick
       BY <1>10, <1>1 DEF Tick
<1>11. CASE \E r \in Replicas : CatchUp(r)
       BY <1>6, <1>11 DEF CatchUp
<1> HIDE DEF Next
<1>12. ASSUME NEW h \in Handlers, Issue(h) \/ Revoke(h) \/ Verify(h) \/ Abandon(h)
       PROVE  Before(primary, primary') /\ (Commit(primary') \/ UNCHANGED dbVars)
       BY <1>12, <1>1, <1>3, <1>4, <1>7, <1>8, <1>9, Zenon
<1> QED BY <1>2, <1>5, <1>10, <1>11, <1>12, Zenon DEF Next

\* What a replica shows, or will show, the primary has shown.
Pasts == \A r \in Replicas : \A i \in 1..Len(stream[r]) : Before(stream[r][i], primary)

\* What the replicas hold lies before the primary, whatever is committed.
LEMMA PastsNext == TypeOK /\ Pasts /\ [Next]_vars => Pasts'
<1> SUFFICES ASSUME TypeOK, Pasts, [Next]_vars PROVE Pasts'
    OBVIOUS
<1>1. /\ Before(primary, primary')
      /\ \/ Commit(primary')
         \/ UNCHANGED dbVars
         \/ \E r \in Replicas : Replicate(r)
      BY DbStep
<1>2. /\ stream \in [Replicas -> Seq(State)] /\ \A r \in Replicas : stream[r] # <<>>
      BY DEF TypeOK
<1>3. CASE Commit(primary')
  <2>1. stream \in [Replicas -> Seq(State \cup {primary'})]
        BY <1>2
  <2>2. \A r \in Replicas : \A i \in 1..Len(stream'[r]) :
          \/ i \in 1..Len(stream[r]) /\ stream'[r][i] = stream[r][i]
          \/ stream'[r][i] = primary'
    <3>1. ASSUME NEW r \in Replicas, NEW i \in 1..Len(stream'[r])
          PROVE  \/ i \in 1..Len(stream[r]) /\ stream'[r][i] = stream[r][i]
                 \/ stream'[r][i] = primary'
          BY <3>1, <1>2, <1>3 DEF Commit
    <3> QED BY <3>1
  <2> QED BY <1>1, <2>2, BeforeSame, BeforeLater, Zenon DEF Pasts
<1>4. CASE UNCHANGED dbVars
      BY <1>4 DEF Pasts, dbVars
<1>5. ASSUME NEW r \in Replicas, Replicate(r) PROVE Pasts'
  <2>1. \A q \in Replicas : \A i \in 1..Len(stream'[q]) :
          \E j \in 1..Len(stream[q]) : stream'[q][i] = stream[q][j]
        BY <1>2, <1>5, ReplicateStreams, Zenon
  <2>2. primary' = primary
        BY <1>5 DEF Replicate
  <2> QED BY <2>1, <2>2 DEF Pasts
<1> QED BY <1>1, <1>3, <1>4, <1>5

\* So does whatever a read returns.
LEMMA ViewPast == ASSUME TypeOK, Pasts, NEW t \in Views PROVE Before(t, primary)
<1>1. \/ t = primary
      \/ \E r \in Replicas : \E i \in 1..Len(stream[r]) : t = stream[r][i]
      BY ViewIsPast DEF TypeOK
<1> QED BY <1>1, BeforeSame DEF Pasts

-----------------------------------------------------------------------------
(* What a request in flight may rely on, in the primary's state u. *)

\* The token its request is about.
Asked(o) == IF o.at \in {"row", "fill", "decide", "allowed"} THEN o.req.j ELSE o.j

OpSound(u, o) ==
  /\ o.at \in {"find", "insert"} /\ o.checked => u.grant[o.g] # "pending" /\ o.s = GrantSP[o.g]
  /\ o.at \in {"cache", "revoke", "recheck", "mark", "expire", "lookup"} => u.token[o.j] # Absent
  /\ o.at = "mark" => u.token[o.j].revoked
  /\ o.at \in {"row", "fill", "decide", "allowed"} => u.token[o.req.j] # Absent
  /\ o.at = "row" /\ o.hit => u.token[o.req.j].sp = o.req.s
  /\ o.at \in {"fill", "decide", "allowed"} =>
       /\ u.token[o.req.j].sp = o.req.s /\ o.row.sp = o.req.s
       /\ u.token[o.req.j].issued = o.row.issued

\* What a request read stays true as the primary goes on.
LEMMA OpSoundStays ==
  ASSUME NEW t, NEW u, Before(t, u), NEW o \in Operation, OpSound(t, o)
  PROVE  OpSound(u, o)
<1>1. /\ o.at \in {"find", "insert"} => o.g \in Grants
      /\ o.at \in {"cache", "revoke", "mark", "recheck"} => o.j \in Jtis
      /\ o.at \in {"expire", "lookup"} => o \in Verification
      /\ o.at \in {"row", "fill", "decide", "allowed"} => o.req \in Verification
      BY OperationShape
<1>2. /\ o.at \in {"expire", "lookup"} => o.j \in Jtis
      /\ o.at \in {"row", "fill", "decide", "allowed"} => o.req.j \in Jtis
      BY <1>1, VerificationShape
<1> QED BY <1>1, <1>2 DEF OpSound, Before

OpsSound == \A h \in Handlers : OpSound(primary, op[h])

CacheSound ==
  \A j \in Jtis : cache[j].kind = "full" => There(j) /\ cache[j].sp = primary.token[j].sp

AnsweredThere == \A j \in answered : There(j)

CheckedSound ==
  \A j \in checked :
    /\ There(j)
    /\ primary.grant[primary.token[j].grant] # "pending"
    /\ primary.token[j].sp = GrantSP[primary.token[j].grant]

Sound == TypeOK /\ Pasts /\ OpsSound /\ CacheSound /\ AnsweredThere /\ CheckedSound

\* At first nobody holds anything.
LEMMA SoundInit == Init => Sound
<1> SUFFICES ASSUME Init PROVE Sound
    OBVIOUS
<1>1. TypeOK
      BY TypeInit
<1>2. Pasts
  <2>1. ASSUME NEW r \in Replicas, NEW i \in 1..Len(stream[r]) PROVE stream[r][i] = primary
    <3>1. stream[r] = <<primary>>
          BY DEF Init, DbInit
    <3> QED BY <3>1
  <2> QED BY <2>1, BeforeSame DEF Pasts
<1>3. OpsSound
      BY DEF Init, OpsSound, OpSound, Idle
<1>4. CacheSound /\ AnsweredThere /\ CheckedSound
      BY DEF Init, CacheSound, AnsweredThere, CheckedSound, Missing
<1> QED BY <1>1, <1>2, <1>3, <1>4 DEF Sound

\* One request moves on, the others may rely on what they did.
LEMMA OneMoves ==
  ASSUME TypeOK, OpsSound, Before(primary, primary'),
         NEW h \in Handlers, NEW o \in Operation, Goto(h, o), OpSound(primary', o)
  PROVE  OpsSound'
<1>1. op'[h] = o /\ \A k \in Handlers : k # h => op'[k] = op[k]
      BY GotoType
<1>2. ASSUME NEW k \in Handlers PROVE OpSound(primary', op'[k])
  <2>1. CASE k = h
        BY <1>1, <2>1
  <2>2. CASE k # h
    <3>1. op[k] \in Operation /\ OpSound(primary, op[k])
          BY DEF TypeOK, OpsSound
    <3>2. OpSound(primary', op[k])
          BY <3>1, OpSoundStays
    <3> QED BY <1>1, <2>2, <3>2
  <2> QED BY <2>1, <2>2
<1> QED BY <1>2 DEF OpsSound

\* What the requests hold stays true of the rows.
LEMMA OpsSoundNext == Sound /\ [Next]_vars => OpsSound'
<1> SUFFICES ASSUME Sound, [Next]_vars PROVE OpsSound'
    OBVIOUS
<1>a. TypeOK /\ Pasts /\ OpsSound /\ CacheSound /\ AnsweredThere
      BY DEF Sound
<1>b. Before(primary, primary')
      BY <1>a, DbStep
<1>c. Idle \in Operation /\ \A u : OpSound(u, Idle)
      BY OperationMade DEF OpSound
<1>d. /\ primary \in State /\ op \in [Handlers -> Operation] /\ now \in Nat
      /\ answered \subseteq Jtis /\ told \in [Jtis -> SUBSET {"done", "already"}]
      BY <1>a DEF TypeOK
<1>e. \A t \in Views : t \in State /\ Before(t, primary)
      BY <1>a, ViewType, ViewPast
<1>1. CASE UNCHANGED <<primary, op>>
      BY <1>1, <1>a DEF OpsSound
<1>2. ASSUME NEW h \in Handlers, Goto(h, Idle) PROVE OpsSound'
      BY <1>2, <1>a, <1>b, <1>c, OneMoves
\* The primary is the same, what is true of it still is.
<1>3. ASSUME NEW h \in Handlers, NEW o \in Operation, Goto(h, o), OpSound(primary, o)
      PROVE  OpsSound'
      BY <1>3, <1>a, <1>b, OneMoves, OpSoundStays
<1>4. ASSUME NEW h \in Handlers, NEW g \in Grants, RequestToken(h, g) PROVE OpsSound'
  <2> DEFINE o == [at |-> "find", g |-> g, s |-> GrantSP[g], checked |-> TRUE]
  <2>1. PICK t \in Views : t.grant[g] = "approved"
        BY <1>4 DEF RequestToken
  <2>2. primary.grant[g] # "pending"
        BY <2>1, <1>e DEF Before
  <2>3. o \in Operation /\ OpSound(primary, o)
        BY <2>2, OperationMade, Constants DEF OpSound
  <2> QED BY <2>3, <1>3, <1>4 DEF RequestToken
<1>5. ASSUME NEW h \in Handlers, NEW g \in Grants, NEW s \in SPs, RequestTokenInFull(h, g, s)
      PROVE  OpsSound'
  <2> DEFINE o == [at |-> "find", g |-> g, s |-> s, checked |-> FALSE]
  <2>1. o \in Operation /\ OpSound(primary, o)
        BY OperationMade DEF OpSound
  <2> QED BY <2>1, <1>3, <1>5 DEF RequestTokenInFull
<1>6. ASSUME NEW h \in Handlers, FindToken(h) PROVE OpsSound'
  <2> DEFINE c == op[h]
             o == [at |-> "insert", g |-> c.g, s |-> c.s, checked |-> c.checked, issued |-> now]
  <2>1. Goto(h, Idle) \/ Goto(h, o)
        BY <1>6 DEF FindToken
  <2>2. c \in Operation /\ c.at = "find" /\ OpSound(primary, c)
        BY <1>6, <1>a, <1>d DEF FindToken, OpsSound
  <2>3. c.g \in Grants /\ c.s \in SPs /\ c.checked \in BOOLEAN
        BY <2>2, OperationShape
  <2>4. o \in Operation
        BY <2>3, <1>d, OperationMade
  <2>5. OpSound(primary, o)
        BY <2>2 DEF OpSound
  <2> HIDE DEF o
  <2> QED BY <2>1, <2>4, <2>5, <1>2, <1>3
<1>7. ASSUME NEW h \in Handlers, InsertToken(h) PROVE OpsSound'
  <2> DEFINE row == [grant |-> op[h].g, sp |-> op[h].s, issued |-> op[h].issued, revoked |-> FALSE]
  <2>1. PICK j \in Jtis :
          /\ Commit([primary EXCEPT !.token[j] = row])
          /\ Goto(h, [at |-> "cache", j |-> j])
        BY <1>7 DEF InsertToken, SetToken
  <2>2. op[h] \in Operation /\ op[h].at = "insert"
        BY <1>7, <1>d DEF InsertToken
  <2>3. row \in Row /\ row # Absent
    <3>1. op[h].g \in Grants /\ op[h].s \in SPs /\ op[h].issued \in Nat
          BY <2>2, OperationShape
    <3>2. row \in Row
          BY <3>1 DEF Row
    <3> QED BY <3>2, RowShape
  <2> HIDE DEF row
  <2>4. primary'.token[j] # Absent
        BY <2>1, <2>3, <1>d DEF Commit, State
  <2> DEFINE o == [at |-> "cache", j |-> j]
  <2>5. o \in Operation /\ OpSound(primary', o)
        BY <2>4, OperationMade DEF OpSound
  <2>6. Goto(h, o)
        BY <2>1
  <2> HIDE DEF o
  <2> QED BY <2>5, <2>6, <1>a, <1>b, OneMoves
<1>8. ASSUME NEW h \in Handlers, NEW j \in Jtis, ReadForRevocation(h, j) PROVE OpsSound'
  <2> DEFINE o == [at |-> "revoke", j |-> j]
  <2>1. There(j)
        BY <1>8, <1>e DEF ReadForRevocation, Before, There
  <2>2. o \in Operation /\ OpSound(primary, o)
        BY <2>1, OperationMade DEF OpSound, There
  <2> QED BY <2>2, <1>3, <1>8 DEF ReadForRevocation
<1>9. ASSUME NEW h \in Handlers, RevokeToken(h) PROVE OpsSound'
  <2> DEFINE c == op[h]
             j == c.j
  <2>1. c \in Operation /\ c.at = "revoke" /\ OpSound(primary, c)
        BY <1>9, <1>a, <1>d DEF RevokeToken, OpsSound
  <2>2. j \in Jtis /\ primary.token[j] # Absent
        BY <2>1, OperationShape DEF OpSound
  <2>3. primary'.token[j] # Absent
        BY <2>2, <1>b DEF Before
  <2>4. CASE primary.token[j].revoked
    <3> DEFINE o == [c EXCEPT !.at = "recheck"]
    <3>1. o \in Operation /\ o.at = "recheck" /\ o.j = j
          BY <2>1, OperationTurns, Zenon
    <3>2. Goto(h, o)
          BY <1>9, <2>4 DEF RevokeToken
    <3> HIDE DEF o
    <3>3. OpSound(primary, o)
          BY <2>2, <3>1 DEF OpSound
    <3> QED BY <3>1, <3>2, <3>3, <1>3
  <2>5. CASE ~primary.token[j].revoked
    <3> DEFINE o == [c EXCEPT !.at = "mark"]
               row == [primary.token[j] EXCEPT !.revoked = TRUE]
    <3>1. o \in Operation /\ o.at = "mark" /\ o.j = j
          BY <2>1, OperationTurns, Zenon
    <3>2. Goto(h, o) /\ Commit([primary EXCEPT !.token[j] = row])
          BY <1>9, <2>5 DEF RevokeToken, SetToken
    <3>3. primary.token[j] \in Row
          BY <2>2, <1>d, StateShape
    <3>4. row.revoked
          BY <3>3, RowShape, Zenon
    <3> HIDE DEF row
    <3>5. primary' = [primary EXCEPT !.token[j] = row]
          BY <3>2 DEF Commit
    <3> HIDE DEF o, j, c
    <3>6. primary'.token[j] = row
          BY <2>2, <3>5, <1>d DEF State
    <3>7. OpSound(primary', o)
          BY <2>3, <3>1, <3>4, <3>6 DEF OpSound
    <3> QED BY <3>1, <3>2, <3>7, <1>a, <1>b, OneMoves
  <2> QED BY <2>4, <2>5
<1>10. ASSUME NEW h \in Handlers, NEW j \in Jtis, NEW s \in SPs, NEW n \in Nonces,
              CheckNonce(h, j, s, n)
       PROVE  OpsSound'
  <2> DEFINE o == [at |-> "expire", j |-> j, s |-> s, n |-> n, late |-> told[j]]
  <2>1. o \in Operation
        BY <1>d, OperationMade
  <2>2. OpSound(primary, o) /\ Goto(h, o)
        BY <1>10, <1>a DEF CheckNonce, OpSound, AnsweredThere, There
  <2> HIDE DEF o
  <2> QED BY <2>1, <2>2, <1>3
<1>11. ASSUME NEW h \in Handlers, ExpireNonce(h) PROVE OpsSound'
  <2> DEFINE c == op[h]
             o == [c EXCEPT !.at = "lookup"]
  <2>1. c \in Operation /\ c.at = "expire" /\ OpSound(primary, c)
        BY <1>11, <1>a, <1>d DEF ExpireNonce, OpsSound
  <2>2. c \in Verification
        BY <2>1, OperationShape
  <2>3. o \in Verification /\ o.at = "lookup" /\ o.j = c.j
        BY <2>2, VerificationShape, Zenon
  <2>4. Goto(h, o)
        BY <1>11 DEF ExpireNonce
  <2> HIDE DEF o
  <2>5. o \in Operation /\ OpSound(primary, o)
        BY <2>1, <2>3, OperationMade DEF OpSound
  <2> QED BY <2>4, <2>5, <1>3
<1>12. ASSUME NEW h \in Handlers, LookUpCached(h) PROVE OpsSound'
  <2> DEFINE c == op[h]
  <2>1. c \in Operation /\ c.at = "lookup" /\ OpSound(primary, c)
        BY <1>12, <1>a, <1>d DEF LookUpCached, OpsSound
  <2>2. c \in Verification
        BY <2>1, OperationShape
  <2>3. c.j \in Jtis
        BY <2>2, VerificationShape
  <2>4. PICK hit \in BOOLEAN :
          /\ hit => cache[c.j].kind = "full" /\ cache[c.j].sp = c.s
          /\ Goto(h, [at |-> "row", hit |-> hit, req |-> c])
        BY <1>12 DEF LookUpCached, Hit
  <2> DEFINE o == [at |-> "row", hit |-> hit, req |-> c]
  <2>5. o \in Operation
        BY <2>2, OperationMade
  <2>6. OpSound(primary, o)
        BY <2>1, <2>3, <2>4, <1>a DEF OpSound, CacheSound
  <2>7. Goto(h, o)
        BY <2>4
  <2> HIDE DEF o
  <2> QED BY <2>5, <2>6, <2>7, <1>3
<1>13. ASSUME NEW h \in Handlers, ReadRow(h) PROVE OpsSound'
  <2> DEFINE c == op[h]
             j == c.req.j
  <2>1. c \in Operation /\ c.at = "row" /\ OpSound(primary, c)
        BY <1>13, <1>a, <1>d DEF ReadRow, OpsSound
  <2>2. c.req \in Verification
        BY <2>1, OperationShape
  <2>3. j \in Jtis
        BY <2>2, VerificationShape
  <2>4. PICK t \in Views :
          /\ t.token[j] # Absent
          /\ c.hit \/ t.token[j].sp = c.req.s
          /\ Goto(h, [at |-> IF c.hit THEN "decide" ELSE "fill", row |-> t.token[j], req |-> c.req])
        BY <1>13 DEF ReadRow
  <2> DEFINE o == [at |-> IF c.hit THEN "decide" ELSE "fill", row |-> t.token[j], req |-> c.req]
  <2>5. /\ t \in State /\ There(j) /\ primary.token[j].sp = t.token[j].sp
        /\ primary.token[j].issued = t.token[j].issued
        BY <2>3, <2>4, <1>e DEF Before, There
  <2>6. t.token[j] \in Row
        BY <2>3, <2>4, <2>5, StateShape
  <2>7. o \in Operation
        BY <2>2, <2>6, OperationMade
  <2>8. primary.token[j].sp = c.req.s
        BY <2>1, <2>4, <2>5 DEF OpSound
  <2>9. OpSound(primary, o)
        BY <2>5, <2>8 DEF OpSound, There
  <2>10. Goto(h, o)
        BY <2>4
  <2> HIDE DEF o
  <2> QED BY <2>7, <2>9, <2>10, <1>3
<1>14. ASSUME NEW h \in Handlers, FillCache(h) PROVE OpsSound'
  <2> DEFINE c == op[h]
             o == [c EXCEPT !.at = "decide"]
  <2>1. c \in Operation /\ c.at = "fill" /\ OpSound(primary, c)
        BY <1>14, <1>a, <1>d DEF FillCache, OpsSound
  <2>2. o \in Operation /\ o.at = "decide" /\ o.row = c.row /\ o.req = c.req
        BY <2>1, OperationTurns, Zenon
  <2>3. Goto(h, o)
        BY <1>14 DEF FillCache
  <2> HIDE DEF o
  <2>4. OpSound(primary, o)
        BY <2>1, <2>2 DEF OpSound
  <2> QED BY <2>2, <2>3, <2>4, <1>3
<1>15. ASSUME NEW h \in Handlers, Decide(h) PROVE OpsSound'
  <2> DEFINE c == op[h]
             pair == <<c.req.n, c.req.j>>
             o == [at |-> "allowed", time |-> now, again |-> pair \in spent, row |-> c.row,
                   req |-> c.req]
  <2>1. c \in Operation /\ c.at = "decide" /\ OpSound(primary, c)
        BY <1>15, <1>a, <1>d DEF Decide, OpsSound
  <2>2. c.req \in Verification /\ c.row \in Row
        BY <2>1, OperationShape
  <2>3. (pair \in spent) \in BOOLEAN
        OBVIOUS
  <2>4. Goto(h, o)
        BY <1>15 DEF Decide
  <2> HIDE DEF pair
  <2>5. o \in Operation
        BY <2>2, <2>3, <1>d, OperationMade
  <2>6. OpSound(primary, o)
        BY <2>1 DEF OpSound
  <2> HIDE DEF o
  <2> QED BY <2>4, <2>5, <2>6, <1>3
<1>16. ASSUME NEW h \in Handlers,
              \/ CacheIssued(h) \/ AnswerAlreadyRevoked(h) \/ MarkRevoked(h)
              \/ AnswerAllowed(h) \/ Abandon(h)
       PROVE  OpsSound'
       BY <1>16, <1>2 DEF CacheIssued, AnswerAlreadyRevoked, MarkRevoked, AnswerAllowed, Abandon
<1>17. CASE op' = op
  <2>1. \A k \in Handlers : op[k] \in Operation /\ OpSound(primary, op[k])
        BY <1>a, <1>d DEF OpsSound
  <2>2. \A k \in Handlers : OpSound(primary', op[k])
        BY <2>1, <1>b, OpSoundStays
  <2> QED BY <1>17, <2>2 DEF OpsSound
<1>18. CASE UNCHANGED vars
       BY <1>18, <1>17 DEF vars
<1>19. CASE Tick \/ (\E g \in Grants : ApproveGrant(g) \/ RevokeGrant(g)) \/ \E r \in Replicas : CatchUp(r)
       BY <1>19, <1>17 DEF Tick, ApproveGrant, RevokeGrant, CatchUp
<1>20. ASSUME NEW h \in Handlers, Issue(h) \/ Revoke(h) \/ Verify(h) \/ Abandon(h) PROVE OpsSound'
       BY <1>20, <1>4, <1>5, <1>6, <1>7, <1>8, <1>9, <1>10, <1>11, <1>12, <1>13, <1>14, <1>15,
          <1>16, Zenon DEF Issue, Revoke, Verify
<1> QED BY <1>18, <1>19, <1>20, Zenon DEF Next

\* The last to write a token's hash wrote it from its row.
LEMMA CacheSoundNext == Sound /\ [Next]_vars => CacheSound'
<1> SUFFICES ASSUME Sound, [Next]_vars, NEW j \in Jtis, cache'[j].kind = "full"
             PROVE  There(j)' /\ cache'[j].sp = primary'.token[j].sp
    BY DEF CacheSound
<1>a. TypeOK /\ OpsSound /\ CacheSound
      BY DEF Sound
<1>b. Before(primary, primary')
      BY <1>a, DbStep
<1>d. /\ primary \in State /\ op \in [Handlers -> Operation] /\ now \in Nat
      /\ cache \in [Jtis -> Entry]
      BY <1>a DEF TypeOK
<1>e. SUFFICES There(j) /\ cache'[j].sp = primary.token[j].sp
      BY <1>b DEF Before, There
<1>1. CASE cache'[j] = cache[j]
      BY <1>1, <1>a DEF CacheSound
<1>2. CASE UNCHANGED cache
      BY <1>2, <1>1
<1>3. ASSUME NEW h \in Handlers, CacheIssued(h)
      PROVE  There(j) /\ cache'[j].sp = primary.token[j].sp
  <2>1. /\ op[h].at = "cache" /\ op[h] \in Operation /\ OpSound(primary, op[h])
        /\ cache' = [cache EXCEPT ![op[h].j] = Cached(primary.token[op[h].j])]
        BY <1>3, <1>a, <1>d DEF CacheIssued, OpsSound
  <2>2. op[h].j \in Jtis /\ primary.token[op[h].j] # Absent
        BY <2>1, OperationShape DEF OpSound
  <2>3. primary.token[op[h].j] \in Row
        BY <2>2, <1>d, StateShape
  <2>4. Cached(primary.token[op[h].j]).sp = primary.token[op[h].j].sp
        BY <2>3, <1>d, CachedShape
  <2>5. CASE j = op[h].j
        BY <2>1, <2>2, <2>4, <2>5, <1>d DEF There
  <2>6. CASE j # op[h].j
        BY <2>1, <2>6, <1>1, <1>d
  <2> QED BY <2>5, <2>6
<1>4. ASSUME NEW h \in Handlers, MarkRevoked(h)
      PROVE  There(j) /\ cache'[j].sp = primary.token[j].sp
  <2>1. cache' = [cache EXCEPT ![op[h].j] = Marked(op[h].j)]
        BY <1>4 DEF MarkRevoked
  <2>2. CASE j = op[h].j
    <3>1. cache'[j] = Marked(j) /\ cache[j] \in Entry
          BY <2>1, <2>2, <1>d
    <3>2. cache[j].kind = "full" /\ cache'[j].sp = cache[j].sp
          BY <3>1, MarkedShape
    <3> QED BY <3>2, <1>a DEF CacheSound
  <2>3. CASE j # op[h].j
        BY <2>1, <2>3, <1>1, <1>d
  <2> QED BY <2>2, <2>3
<1>5. ASSUME NEW h \in Handlers, FillCache(h)
      PROVE  There(j) /\ cache'[j].sp = primary.token[j].sp
  <2>1. /\ op[h].at = "fill" /\ op[h] \in Operation /\ OpSound(primary, op[h])
        /\ cache' \in {cache, [cache EXCEPT ![op[h].req.j] = Cached(op[h].row)]}
        BY <1>5, <1>a, <1>d DEF FillCache, OpsSound
  <2>2. /\ op[h].row \in Row /\ primary.token[op[h].req.j] # Absent
        /\ op[h].row.sp = primary.token[op[h].req.j].sp
        BY <2>1, OperationShape DEF OpSound
  <2>3. Cached(op[h].row).sp = primary.token[op[h].req.j].sp
        BY <2>2, <1>d, CachedShape
  <2>4. CASE j = op[h].req.j /\ cache' # cache
        BY <2>1, <2>2, <2>3, <2>4, <1>d DEF There
  <2>5. CASE j # op[h].req.j \/ cache' = cache
        BY <2>1, <2>5, <1>1, <1>d
  <2> QED BY <2>4, <2>5
<1>6. ASSUME NEW h \in Handlers, Issue(h), ~CacheIssued(h) PROVE UNCHANGED cache
      BY <1>6 DEF Issue, RequestToken, RequestTokenInFull, FindToken, InsertToken, redis
<1>7. ASSUME NEW h \in Handlers, Revoke(h), ~MarkRevoked(h) PROVE UNCHANGED cache
      BY <1>7 DEF Revoke, ReadForRevocation, RevokeToken, AnswerAlreadyRevoked, redis
<1>8. ASSUME NEW h \in Handlers, Verify(h) \/ Abandon(h), ~FillCache(h) PROVE UNCHANGED cache
      BY <1>8 DEF Verify, CheckNonce, ExpireNonce, LookUpCached, ReadRow, Decide, AnswerAllowed,
                  Abandon, redis
<1>9. CASE UNCHANGED vars
      BY <1>9, <1>2 DEF vars
<1>10. CASE Tick \/ (\E g \in Grants : ApproveGrant(g) \/ RevokeGrant(g)) \/ \E r \in Replicas : CatchUp(r)
       BY <1>10, <1>2 DEF Tick, ApproveGrant, RevokeGrant, CatchUp, redis
<1>11. ASSUME NEW h \in Handlers, Issue(h) \/ Revoke(h) \/ Verify(h) \/ Abandon(h)
       PROVE  There(j) /\ cache'[j].sp = primary.token[j].sp
       BY <1>11, <1>2, <1>3, <1>4, <1>5, <1>6, <1>7, <1>8, Zenon
<1> QED BY <1>9, <1>10, <1>11, Zenon DEF Next

\* A token that was answered has a row.
LEMMA AnsweredThereNext == Sound /\ [Next]_vars => AnsweredThere'
<1> SUFFICES ASSUME Sound, [Next]_vars, NEW j \in answered' PROVE There(j)'
    BY DEF AnsweredThere
<1>a. TypeOK /\ OpsSound /\ AnsweredThere
      BY DEF Sound
<1>b. Before(primary, primary')
      BY <1>a, DbStep
<1>d. answered \subseteq Jtis /\ op \in [Handlers -> Operation]
      BY <1>a DEF TypeOK
<1>1. SUFFICES There(j) /\ j \in Jtis
      BY <1>1, <1>b DEF Before, There
<1>2. CASE j \in answered
      BY <1>2, <1>a, <1>d DEF AnsweredThere
<1>3. CASE UNCHANGED answered
      BY <1>3, <1>2
<1>4. ASSUME NEW h \in Handlers, FindToken(h) PROVE There(j) /\ j \in Jtis
  <2>1. answered' \subseteq answered \cup Recent(op[h].g) /\ op[h].at = "find"
        BY <1>4 DEF FindToken
  <2>2. op[h].g \in Grants
        BY <2>1, <1>d, OperationShape
  <2>3. CASE j \in Recent(op[h].g)
    <3>1. j \in Jtis /\ primary.token[j].grant = op[h].g
          BY <2>3 DEF Recent
    <3>2. primary.token[j] # Absent
          BY <3>1, <2>2, TokensAssumption DEF Absent
    <3> QED BY <3>1, <3>2 DEF There
  <2> QED BY <2>1, <2>3, <1>2
<1>5. ASSUME NEW h \in Handlers, CacheIssued(h) PROVE There(j) /\ j \in Jtis
  <2>1. answered' \subseteq answered \cup {op[h].j} /\ op[h].at = "cache"
        BY <1>5 DEF CacheIssued
  <2>2. op[h].j \in Jtis /\ OpSound(primary, op[h])
        BY <2>1, <1>a, <1>d, OperationShape DEF OpsSound
  <2>3. There(op[h].j)
        BY <2>1, <2>2 DEF OpSound, There
  <2> QED BY <2>1, <2>2, <2>3, <1>2
<1>6. ASSUME NEW h \in Handlers, Issue(h), ~FindToken(h), ~CacheIssued(h) PROVE UNCHANGED answered
      BY <1>6 DEF Issue, RequestToken, RequestTokenInFull, InsertToken, history
<1>7. ASSUME NEW h \in Handlers, Revoke(h) PROVE UNCHANGED answered
      BY <1>7 DEF Revoke, ReadForRevocation, RevokeToken, AnswerAlreadyRevoked, MarkRevoked, history
<1>8. ASSUME NEW h \in Handlers, Verify(h) \/ Abandon(h) PROVE UNCHANGED answered
      BY <1>8 DEF Verify, CheckNonce, ExpireNonce, LookUpCached, ReadRow, FillCache, Decide,
                  AnswerAllowed, Abandon, history
<1>9. CASE UNCHANGED vars
      BY <1>9, <1>3 DEF vars
<1>10. CASE Tick \/ (\E g \in Grants : ApproveGrant(g) \/ RevokeGrant(g)) \/ \E r \in Replicas : CatchUp(r)
       BY <1>10, <1>3 DEF Tick, ApproveGrant, RevokeGrant, CatchUp, history
<1>11. ASSUME NEW h \in Handlers, Issue(h) \/ Revoke(h) \/ Verify(h) \/ Abandon(h)
       PROVE  There(j) /\ j \in Jtis
       BY <1>11, <1>3, <1>4, <1>5, <1>6, <1>7, <1>8, Zenon
<1> QED BY <1>9, <1>10, <1>11, Zenon DEF Next

\* A token logged as checked has a row, of a grant that was approved.
LEMMA CheckedSoundNext == Sound /\ [Next]_vars => CheckedSound'
<1> SUFFICES ASSUME Sound, [Next]_vars, NEW j \in checked'
             PROVE  /\ There(j)'
                    /\ primary'.grant[primary'.token[j].grant] # "pending"
                    /\ primary'.token[j].sp = GrantSP[primary'.token[j].grant]
    BY DEF CheckedSound
<1>a. TypeOK /\ OpsSound /\ CheckedSound
      BY DEF Sound
<1>b. Before(primary, primary')
      BY <1>a, DbStep
<1>d. checked \subseteq Jtis /\ op \in [Handlers -> Operation] /\ primary \in State
      BY <1>a DEF TypeOK
<1>1. CASE j \in checked
  <2>1. /\ j \in Jtis /\ There(j)
        /\ primary.grant[primary.token[j].grant] # "pending"
        /\ primary.token[j].sp = GrantSP[primary.token[j].grant]
        BY <1>1, <1>a, <1>d DEF CheckedSound
  <2>2. primary.token[j].grant \in Grants
        BY <2>1, <1>d, StateShape, RowShape DEF There
  <2> QED BY <2>1, <2>2, <1>b DEF Before, There
<1>2. CASE UNCHANGED checked
      BY <1>1, <1>2
<1>3. ASSUME NEW h \in Handlers, InsertToken(h)
      PROVE  /\ There(j)'
             /\ primary'.grant[primary'.token[j].grant] # "pending"
             /\ primary'.token[j].sp = GrantSP[primary'.token[j].grant]
  <2> DEFINE c == op[h]
             row == [grant |-> c.g, sp |-> c.s, issued |-> c.issued, revoked |-> FALSE]
  <2>1. PICK k \in Jtis :
          /\ Commit([primary EXCEPT !.token[k] = row])
          /\ checked' = IF c.checked THEN checked \cup {k} ELSE checked
        BY <1>3 DEF InsertToken, SetToken
  <2>2. CASE j \notin checked
    <3>1. j = k /\ c.checked
          BY <2>1, <2>2
    <3>2. c \in Operation /\ c.at = "insert" /\ OpSound(primary, c)
          BY <1>3, <1>a, <1>d DEF InsertToken, OpsSound
    <3>3. c.g \in Grants /\ primary.grant[c.g] # "pending" /\ c.s = GrantSP[c.g]
          BY <3>1, <3>2, OperationShape DEF OpSound
    <3>4. row \in Row
          BY <3>2, OperationShape DEF Row
    <3>5. row # Absent /\ row.grant = c.g /\ row.sp = c.s
          BY <3>4, RowShape
    <3> HIDE DEF row
    <3>6. primary'.token[j] = row
          BY <2>1, <3>1, <1>d DEF Commit, State
    <3> HIDE DEF c
    <3> QED BY <3>3, <3>5, <3>6, <1>b DEF Before, There
  <2> QED BY <2>2, <1>1
<1>4. ASSUME NEW h \in Handlers, Issue(h), ~InsertToken(h) PROVE UNCHANGED checked
      BY <1>4 DEF Issue, RequestToken, RequestTokenInFull, FindToken, CacheIssued, history
<1>5. ASSUME NEW h \in Handlers, Revoke(h) PROVE UNCHANGED checked
      BY <1>5 DEF Revoke, ReadForRevocation, RevokeToken, AnswerAlreadyRevoked, MarkRevoked, history
<1>6. ASSUME NEW h \in Handlers, Verify(h) \/ Abandon(h) PROVE UNCHANGED checked
      BY <1>6 DEF Verify, CheckNonce, ExpireNonce, LookUpCached, ReadRow, FillCache, Decide,
                  AnswerAllowed, Abandon, history
<1>7. CASE UNCHANGED vars
      BY <1>7, <1>2 DEF vars
<1>8. CASE Tick \/ (\E g \in Grants : ApproveGrant(g) \/ RevokeGrant(g)) \/ \E r \in Replicas : CatchUp(r)
      BY <1>8, <1>2 DEF Tick, ApproveGrant, RevokeGrant, CatchUp, history
<1>9. ASSUME NEW h \in Handlers, Issue(h) \/ Revoke(h) \/ Verify(h) \/ Abandon(h)
      PROVE  /\ There(j)'
             /\ primary'.grant[primary'.token[j].grant] # "pending"
             /\ primary'.token[j].sp = GrantSP[primary'.token[j].grant]
      BY <1>9, <1>2, <1>3, <1>4, <1>5, <1>6, Zenon
<1> QED BY <1>7, <1>8, <1>9, Zenon DEF Next

\* Every step keeps the base of the three arguments.
LEMMA SoundNext == Sound /\ [Next]_vars => Sound'
<1> SUFFICES ASSUME Sound, [Next]_vars PROVE Sound'
    OBVIOUS
<1>1. InsertedFirst
      BY DEF Sound, OpsSound, OpSound, InsertedFirst, There
<1>2. TypeOK'
      BY <1>1, TypeNext DEF Sound
<1>3. Pasts'
      BY PastsNext DEF Sound
<1>4. OpsSound' /\ CacheSound' /\ AnsweredThere' /\ CheckedSound'
      BY OpsSoundNext, CacheSoundNext, AnsweredThereNext, CheckedSoundNext
<1> QED BY <1>2, <1>3, <1>4 DEF Sound

\* So it holds of every reachable state.
LEMMA SoundAlways == Spec => []Sound
BY SoundInit, SoundNext, PTL DEF Spec

\* Every variable keeps its type, whatever is in flight.
THEOREM TypeCorrect == Spec => []TypeOK
<1>1. Sound => TypeOK
      BY DEF Sound
<1> QED BY <1>1, SoundAlways, PTL

\* A verification is only allowed for the provider of the token's row, although
\* the hit path compares the cached copy and never the row: every copy was
\* written from the row, and the provider of a row never changes.
THEOREM AllowedForProvider == Spec => []AllowedForItsProvider
<1>1. Sound => AllowedForItsProvider
      BY DEF Sound, OpsSound, OpSound, AllowedForItsProvider, Allowed
<1> QED BY <1>1, SoundAlways, PTL

-----------------------------------------------------------------------------
(* The burst of tokens one grant gets within the idempotency window. *)

Burst(g) == Cardinality(Recent(g)) + Cardinality(Inserting(g)) <= Cardinality(Handlers)

\* A part of a finite set counts no more than the whole.
LEMMA Counts ==
  ASSUME NEW A, NEW B, IsFiniteSet(B), A \subseteq B
  PROVE  /\ IsFiniteSet(A) /\ Cardinality(A) \in Nat /\ Cardinality(B) \in Nat
         /\ Cardinality(A) <= Cardinality(B)
BY FS_Subset, FS_CardinalityType

\* There are finitely many tokens.
LEMMA JtisFinite == IsFiniteSet(Jtis)
BY FS_Interval, Constants DEF Jtis

\* Fewer tokens of the window and fewer requests past the look-up.
LEMMA BurstShrinks ==
  ASSUME NEW g \in Grants, Burst(g), Recent(g)' \subseteq Recent(g),
         Inserting(g)' \subseteq Inserting(g)
  PROVE  Burst(g)'
<1>1. IsFiniteSet(Recent(g)) /\ IsFiniteSet(Inserting(g))
      BY JtisFinite, Constants, Counts DEF Recent, Inserting
<1>2. /\ Cardinality(Recent(g)') <= Cardinality(Recent(g))
      /\ Cardinality(Recent(g)') \in Nat /\ Cardinality(Recent(g)) \in Nat
      BY <1>1, Counts
<1>3. /\ Cardinality(Inserting(g)') <= Cardinality(Inserting(g))
      /\ Cardinality(Inserting(g)') \in Nat /\ Cardinality(Inserting(g)) \in Nat
      BY <1>1, Counts
<1>4. Cardinality(Handlers) \in Nat
      BY Constants, Counts
<1> QED BY <1>2, <1>3, <1>4 DEF Burst

\* The inserted token counts once where the request about to insert it did.
LEMMA BurstMoves ==
  ASSUME NEW g \in Grants, Burst(g), NEW j \in Jtis, NEW h \in Handlers, h \in Inserting(g),
         Recent(g)' \subseteq Recent(g) \cup {j}, Inserting(g)' \subseteq Inserting(g) \ {h}
  PROVE  Burst(g)'
<1>1. /\ IsFiniteSet(Recent(g)) /\ IsFiniteSet(Inserting(g))
      /\ Cardinality(Recent(g)) \in Nat /\ Cardinality(Inserting(g)) \in Nat
      BY JtisFinite, Constants, Counts DEF Recent, Inserting
<1>2. /\ IsFiniteSet(Recent(g) \cup {j}) /\ Cardinality(Recent(g) \cup {j}) \in Nat
      /\ Cardinality(Recent(g) \cup {j}) <= Cardinality(Recent(g)) + 1
  <2>1. /\ IsFiniteSet(Recent(g) \cup {j})
        /\ \/ Cardinality(Recent(g) \cup {j}) = Cardinality(Recent(g))
           \/ Cardinality(Recent(g) \cup {j}) = Cardinality(Recent(g)) + 1
        BY <1>1, FS_AddElement
  <2> QED BY <1>1, <2>1
<1>3. /\ IsFiniteSet(Inserting(g) \ {h}) /\ Cardinality(Inserting(g) \ {h}) \in Nat
      /\ Cardinality(Inserting(g) \ {h}) = Cardinality(Inserting(g)) - 1
      BY <1>1, FS_RemoveElement, FS_CardinalityType
<1>4. /\ Cardinality(Recent(g)') <= Cardinality(Recent(g) \cup {j})
      /\ Cardinality(Recent(g)') \in Nat
      BY <1>2, Counts
<1>5. /\ Cardinality(Inserting(g)') <= Cardinality(Inserting(g) \ {h})
      /\ Cardinality(Inserting(g)') \in Nat
      BY <1>3, Counts
<1>6. Cardinality(Handlers) \in Nat
      BY Constants, Counts
<1> QED BY <1>1, <1>2, <1>3, <1>4, <1>5, <1>6 DEF Burst

\* A request past the look-up and the token it inserts are counted once.
LEMMA BurstNext == TypeOK /\ IssueBurstBounded /\ [Next]_vars => IssueBurstBounded'
<1> SUFFICES ASSUME TypeOK, IssueBurstBounded, [Next]_vars, NEW g \in Grants PROVE Burst(g)'
    BY DEF IssueBurstBounded, Burst
<1> USE Constants
<1>a. Burst(g)
      BY DEF IssueBurstBounded, Burst
<1>d. op \in [Handlers -> Operation] /\ primary \in State /\ now \in Nat
      BY DEF TypeOK
\* Nobody is about to insert who was not before.
<1>1. ASSUME NEW h \in Handlers, NEW o, Goto(h, o), o.at # "insert", UNCHANGED now
      PROVE  Inserting(g)' \subseteq Inserting(g)
      BY <1>1, <1>d DEF Goto, Inserting
<1>2. ASSUME UNCHANGED <<primary, now>> PROVE Recent(g)' \subseteq Recent(g)
      BY <1>2 DEF Recent
<1>3. CASE UNCHANGED <<primary, op, now>>
  <2>1. Inserting(g)' \subseteq Inserting(g)
        BY <1>3 DEF Inserting
  <2> QED BY <2>1, <1>2, <1>3, <1>a, BurstShrinks
<1>4. ASSUME NEW h \in Handlers, NEW o, Goto(h, o), o.at # "insert", UNCHANGED <<primary, now>>
      PROVE  Burst(g)'
  <2>1. Inserting(g)' \subseteq Inserting(g)
        BY <1>1, <1>4
  <2>2. Recent(g)' \subseteq Recent(g)
        BY <1>2, <1>4
  <2> QED BY <2>1, <2>2, <1>a, BurstShrinks
<1>5. ASSUME NEW h \in Handlers, FindToken(h) PROVE Burst(g)'
  <2> DEFINE c == op[h]
             o == [at |-> "insert", g |-> c.g, s |-> c.s, checked |-> c.checked, issued |-> now]
  <2>1. UNCHANGED <<primary, now>> /\ c.at = "find"
        BY <1>5 DEF FindToken, dbVars
  <2>2. CASE Goto(h, Idle)
        BY <2>1, <2>2, <1>4 DEF Idle
  <2>3. CASE Goto(h, o) /\ c.g # g
    <3>1. o.at = "insert" /\ o.g = c.g
          OBVIOUS
    <3> HIDE DEF o
    <3>2. Inserting(g)' \subseteq Inserting(g)
          BY <2>1, <2>3, <3>1, <1>d DEF Inserting, Goto
    <3>3. Recent(g)' \subseteq Recent(g)
          BY <2>1, <1>2
    <3> QED BY <3>2, <3>3, <1>a, BurstShrinks
  <2>4. CASE Recent(g) = {}
    <3>1. Recent(g)' = {}
          BY <2>1, <2>4, <1>2
    <3>2. Inserting(g)' \subseteq Handlers
          BY DEF Inserting
    <3>3. Cardinality(Recent(g)') = 0
          BY <3>1, FS_EmptySet
    <3>4. /\ Cardinality(Inserting(g)') <= Cardinality(Handlers)
          /\ Cardinality(Inserting(g)') \in Nat /\ Cardinality(Handlers) \in Nat
          BY <3>2, Counts
    <3> QED BY <3>3, <3>4 DEF Burst
  <2>5. Goto(h, Idle) \/ (Goto(h, o) /\ Recent(c.g) = {})
        BY <1>5 DEF FindToken
  <2> HIDE DEF o
  <2> QED BY <2>2, <2>3, <2>4, <2>5
<1>6. ASSUME NEW h \in Handlers, InsertToken(h) PROVE Burst(g)'
  <2> DEFINE c == op[h]
             row == [grant |-> c.g, sp |-> c.s, issued |-> c.issued, revoked |-> FALSE]
             o(j) == [at |-> "cache", j |-> j]
  <2>1. PICK j \in Jtis : Commit([primary EXCEPT !.token[j] = row]) /\ Goto(h, o(j))
        BY <1>6 DEF InsertToken, SetToken
  <2>2. o(j).at = "cache" /\ c.at = "insert" /\ UNCHANGED now
        BY <1>6 DEF InsertToken
  <2>3. row.grant = c.g /\ row.issued = c.issued
        OBVIOUS
  <2> HIDE DEF row, o
  <2>4. \A k \in Jtis : primary'.token[k] = IF k = j THEN row ELSE primary.token[k]
        BY <2>1, <1>d DEF Commit, State
  <2>5. op' = [op EXCEPT ![h] = o(j)]
        BY <2>1 DEF Goto
  <2>6. CASE h \in Inserting(g)
    <3>1. Recent(g)' \subseteq Recent(g) \cup {j}
          BY <2>2, <2>4 DEF Recent
    <3>2. Inserting(g)' \subseteq Inserting(g) \ {h}
          BY <2>2, <2>5, <1>d DEF Inserting
    <3> QED BY <2>6, <3>1, <3>2, <1>a, BurstMoves
  <2>7. CASE h \notin Inserting(g)
    <3>1. c.g # g \/ ~(c.issued >= now - Window)
          BY <2>2, <2>7 DEF Inserting
    <3>2. Recent(g)' \subseteq Recent(g)
          BY <2>2, <2>3, <2>4, <3>1 DEF Recent
    <3>3. Inserting(g)' \subseteq Inserting(g)
          BY <2>1, <2>2, <1>1
    <3> QED BY <3>2, <3>3, <1>a, BurstShrinks
  <2> QED BY <2>6, <2>7
<1>7. ASSUME NEW h \in Handlers, RevokeToken(h) PROVE Burst(g)'
  <2> DEFINE j == op[h].j
             row == [primary.token[j] EXCEPT !.revoked = TRUE]
  <2>1. op[h] \in Operation /\ op[h].at = "revoke" /\ primary.token[j] # Absent
        BY <1>7, <1>d DEF RevokeToken
  <2>2. j \in Jtis
        BY <2>1, OperationShape
  <2>3. primary.token[j] \in Row
        BY <2>1, <2>2, <1>d, StateShape
  <2>4. row.revoked
        BY <2>3, RowShape, Zenon
  <2>a. PICK at \in {"mark", "recheck"} : Goto(h, [op[h] EXCEPT !.at = at])
        BY <1>7 DEF RevokeToken
  <2>b. [op[h] EXCEPT !.at = at].at = at
        BY <2>1, OperationTurns
  <2>c. UNCHANGED now
        BY <1>7 DEF RevokeToken
  <2>5. Inserting(g)' \subseteq Inserting(g)
        BY <2>a, <2>b, <2>c, <1>1
  <2>6. CASE UNCHANGED primary
        BY <2>5, <2>6, <2>c, <1>2, <1>a, BurstShrinks
  <2>7. CASE ~primary.token[j].revoked
    <3>1. Commit([primary EXCEPT !.token[j] = row])
          BY <1>7, <2>7 DEF RevokeToken, SetToken
    <3> HIDE DEF j, row
    <3>2. \A k \in Jtis : primary'.token[k] = IF k = j THEN row ELSE primary.token[k]
          BY <3>1, <1>d DEF Commit, State
    <3>3. Recent(g)' \subseteq Recent(g)
          BY <2>4, <2>c, <3>2 DEF Recent
    <3> QED BY <2>5, <3>3, <1>a, BurstShrinks
  <2>8. UNCHANGED primary \/ ~primary.token[j].revoked
        BY <1>7 DEF RevokeToken, dbVars
  <2> QED BY <2>6, <2>7, <2>8
<1>8. ASSUME NEW k \in Grants, ApproveGrant(k) \/ RevokeGrant(k) PROVE Burst(g)'
  <2>1. PICK st \in {"approved", "revoked"} : Commit([primary EXCEPT !.grant[k] = st])
        BY <1>8 DEF ApproveGrant, RevokeGrant, SetGrant
  <2>2. primary'.token = primary.token
        BY <2>1, <1>d DEF Commit, State
  <2>3. UNCHANGED <<now, op>>
        BY <1>8 DEF ApproveGrant, RevokeGrant
  <2>4. Recent(g)' \subseteq Recent(g) /\ Inserting(g)' \subseteq Inserting(g)
        BY <2>2, <2>3 DEF Recent, Inserting
  <2> QED BY <2>4, <1>a, BurstShrinks
<1>9. CASE Tick
  <2>1. now' = now + 1 /\ UNCHANGED <<primary, op>>
        BY <1>9 DEF Tick, dbVars
  <2>2. Recent(g)' \subseteq Recent(g)
    <3>1. ASSUME NEW j \in Jtis, primary.token[j].grant = g,
                 primary.token[j].issued >= now' - Window
          PROVE  primary.token[j].issued >= now - Window
      <4>1. primary.token[j] \in Row
        <5>1. Absent.grant \notin Grants
              BY TokensAssumption DEF Absent
        <5> QED BY <3>1, <5>1, <1>d, StateShape
      <4>2. primary.token[j].issued \in Nat
            BY <4>1, RowShape
      <4> QED BY <2>1, <3>1, <4>2, <1>d
    <3> QED BY <2>1, <3>1 DEF Recent
  <2>3. Inserting(g)' \subseteq Inserting(g)
    <3>1. ASSUME NEW h \in Handlers, op[h].at = "insert", op[h].issued >= now' - Window
          PROVE  op[h].issued >= now - Window
      <4>1. op[h].issued \in Nat
            BY <3>1, <1>d, OperationShape
      <4> QED BY <2>1, <3>1, <4>1, <1>d
    <3> QED BY <2>1, <3>1 DEF Inserting
  <2> QED BY <2>2, <2>3, <1>a, BurstShrinks
<1>10. ASSUME NEW h \in Handlers, Abandon(h) PROVE Burst(g)'
       BY <1>10, <1>4 DEF Abandon, Idle, dbVars
<1>11. ASSUME NEW h \in Handlers, Issue(h), ~FindToken(h), ~InsertToken(h) PROVE Burst(g)'
  <2>1. UNCHANGED <<primary, now>>
        BY <1>11 DEF Issue, RequestToken, RequestTokenInFull, CacheIssued, dbVars
  <2>2. ASSUME NEW k \in Grants, NEW s \in SPs, NEW c,
               Goto(h, [at |-> "find", g |-> k, s |-> s, checked |-> c])
        PROVE  Burst(g)'
        BY <2>1, <2>2, <1>4
  <2>3. ASSUME NEW k \in Grants, RequestToken(h, k) PROVE Burst(g)'
    <3>1. GrantSP[k] \in SPs
          OBVIOUS
    <3> QED BY <2>2, <2>3, <3>1 DEF RequestToken
  <2>4. ASSUME NEW k \in Grants, NEW s \in SPs, RequestTokenInFull(h, k, s) PROVE Burst(g)'
        BY <2>2, <2>4 DEF RequestTokenInFull
  <2>5. CASE CacheIssued(h)
        BY <2>1, <2>5, <1>4 DEF CacheIssued, Idle
  <2> QED BY <1>11, <2>3, <2>4, <2>5 DEF Issue
<1>12. ASSUME NEW h \in Handlers, Revoke(h), ~RevokeToken(h) PROVE Burst(g)'
  <2>1. UNCHANGED <<primary, now>>
        BY <1>12 DEF Revoke, ReadForRevocation, AnswerAlreadyRevoked, MarkRevoked, dbVars
  <2>2. CASE AnswerAlreadyRevoked(h) \/ MarkRevoked(h)
        BY <2>1, <2>2, <1>4 DEF AnswerAlreadyRevoked, MarkRevoked, Idle
  <2>3. ASSUME NEW j \in Jtis, ReadForRevocation(h, j) PROVE Burst(g)'
    <3>1. Goto(h, [at |-> "revoke", j |-> j])
          BY <2>3 DEF ReadForRevocation
    <3> QED BY <2>1, <3>1, <1>4
  <2> QED BY <1>12, <2>2, <2>3 DEF Revoke
<1>13. ASSUME NEW h \in Handlers, Verify(h) PROVE Burst(g)'
  <2>1. UNCHANGED <<primary, now>>
        BY <1>13 DEF Verify, CheckNonce, ExpireNonce, LookUpCached, ReadRow, FillCache, Decide,
                     AnswerAllowed, dbVars
  <2>2. CASE ExpireNonce(h)
    <3>1. op[h] \in Verification /\ Goto(h, [op[h] EXCEPT !.at = "lookup"])
          BY <2>2, <1>d, OperationShape DEF ExpireNonce
    <3>2. [op[h] EXCEPT !.at = "lookup"].at = "lookup"
          BY <3>1, VerificationShape, Zenon
    <3> QED BY <2>1, <3>1, <3>2, <1>4
  <2>3. CASE FillCache(h)
    <3>1. op[h] \in Operation /\ op[h].at = "fill" /\ Goto(h, [op[h] EXCEPT !.at = "decide"])
          BY <2>3, <1>d DEF FillCache
    <3>2. [op[h] EXCEPT !.at = "decide"].at = "decide"
          BY <3>1, OperationTurns, Zenon
    <3> QED BY <2>1, <3>1, <3>2, <1>4
  <2>4. ASSUME NEW j \in Jtis, NEW s \in SPs, NEW n \in Nonces, CheckNonce(h, j, s, n)
        PROVE  Burst(g)'
    <3>1. Goto(h, [at |-> "expire", j |-> j, s |-> s, n |-> n, late |-> told[j]])
          BY <2>4 DEF CheckNonce
    <3> QED BY <2>1, <3>1, <1>4
  <2>5. CASE LookUpCached(h)
    <3>1. PICK hit \in BOOLEAN : Goto(h, [at |-> "row", hit |-> hit, req |-> op[h]])
          BY <2>5 DEF LookUpCached
    <3> QED BY <2>1, <3>1, <1>4
  <2>6. CASE ReadRow(h)
    <3>1. PICK t \in Views : Goto(h, [at |-> IF op[h].hit THEN "decide" ELSE "fill",
                                      row |-> t.token[op[h].req.j], req |-> op[h].req])
          BY <2>6 DEF ReadRow
    <3> QED BY <2>1, <3>1, <1>4
  <2>7. CASE Decide(h)
    <3>1. Goto(h, [at |-> "allowed", time |-> now, again |-> <<op[h].req.n, op[h].req.j>> \in spent,
                   row |-> op[h].row, req |-> op[h].req])
          BY <2>7 DEF Decide
    <3> QED BY <2>1, <3>1, <1>4
  <2>8. CASE AnswerAllowed(h)
        BY <2>1, <2>8, <1>4 DEF AnswerAllowed, Idle
  <2> QED BY <1>13, <2>2, <2>3, <2>4, <2>5, <2>6, <2>7, <2>8, Zenon DEF Verify
<1>14. CASE UNCHANGED vars
       BY <1>14, <1>3 DEF vars
<1>15. ASSUME NEW r \in Replicas, CatchUp(r) PROVE Burst(g)'
       BY <1>15, <1>3 DEF CatchUp, Replicate
<1>16. ASSUME NEW h \in Handlers, Issue(h) \/ Revoke(h) \/ Verify(h) \/ Abandon(h) PROVE Burst(g)'
       BY <1>16, <1>5, <1>6, <1>7, <1>10, <1>11, <1>12, <1>13, Zenon
<1> QED BY <1>8, <1>9, <1>14, <1>15, <1>16, Zenon DEF Next

\* One grant never has more live tokens within the idempotency window than
\* there are requests in flight: each new one was looked for when there was none.
THEOREM BurstBounded == Spec => []IssueBurstBounded
<1>1. Init => IssueBurstBounded
  <2> SUFFICES ASSUME Init, NEW g \in Grants PROVE Burst(g)
      BY DEF IssueBurstBounded, Burst
  <2>1. Recent(g) = {}
        BY TokensAssumption DEF Init, DbInit, Recent, Absent
  <2>2. Inserting(g) = {}
        BY DEF Init, Inserting, Idle
  <2>3. Cardinality(Handlers) \in Nat
        BY Constants, Counts
  <2> QED BY <2>1, <2>2, <2>3, FS_EmptySet DEF Burst
<1> QED BY <1>1, TypeCorrect, BurstNext, PTL DEF Spec

-----------------------------------------------------------------------------
(* What a step leaves of the history, and who takes it. *)

\* What was told, excused or spent stays so.
LEMMA HistoryGrows ==
  ASSUME TypeOK, [Next]_vars
  PROVE  /\ \A j \in Jtis : told[j] \subseteq told'[j]
         /\ excused \subseteq excused' /\ spent \subseteq spent'
<1>a. told \in [Jtis -> SUBSET {"done", "already"}] /\ op \in [Handlers -> Operation]
      BY DEF TypeOK
<1>1. CASE UNCHANGED vars \/ Tick \/ (\E g \in Grants : ApproveGrant(g) \/ RevokeGrant(g))
             \/ \E r \in Replicas : CatchUp(r)
      BY <1>1 DEF vars, Tick, ApproveGrant, RevokeGrant, CatchUp, history
<1>2. ASSUME NEW h \in Handlers, Issue(h) PROVE UNCHANGED <<told, excused, spent>>
      BY <1>2 DEF Issue, RequestToken, RequestTokenInFull, FindToken, InsertToken, CacheIssued, history
<1>3. ASSUME NEW h \in Handlers, Revoke(h)
      PROVE  (\A j \in Jtis : told[j] \subseteq told'[j]) /\ excused \subseteq excused' /\ UNCHANGED spent
      BY <1>3, <1>a DEF Revoke, ReadForRevocation, RevokeToken, AnswerAlreadyRevoked, MarkRevoked,
                        Tell, Excuse, history
<1>4. ASSUME NEW h \in Handlers, Verify(h) \/ Abandon(h)
      PROVE  UNCHANGED told /\ excused \subseteq excused' /\ spent \subseteq spent'
      BY <1>4 DEF Verify, CheckNonce, ExpireNonce, LookUpCached, ReadRow, FillCache, Decide,
                  AnswerAllowed, Abandon, Excuse, history
<1> QED BY <1>1, <1>2, <1>3, <1>4 DEF Next

\* A request only moves by one of its own steps.
LEMMA HandlerStep ==
  ASSUME TypeOK, [Next]_vars, NEW k \in Handlers, op'[k] # op[k]
  PROVE  Issue(k) \/ Revoke(k) \/ Verify(k) \/ Abandon(k)
<1>a. op \in [Handlers -> Operation]
      BY DEF TypeOK
<1>1. CASE UNCHANGED op
      BY <1>1
<1>2. CASE UNCHANGED vars \/ Tick \/ (\E g \in Grants : ApproveGrant(g) \/ RevokeGrant(g))
             \/ \E r \in Replicas : CatchUp(r)
      BY <1>1, <1>2 DEF vars, Tick, ApproveGrant, RevokeGrant, CatchUp
<1>3. ASSUME NEW h \in Handlers, NEW o, Goto(h, o) PROVE h = k
      BY <1>3, <1>a DEF Goto
<1>4. ASSUME NEW h \in Handlers, Issue(h) PROVE h = k
  <2>1. CASE ~FindToken(h)
        BY <1>4, <2>1, <1>3 DEF Issue, RequestToken, RequestTokenInFull, InsertToken, CacheIssued
  <2>2. CASE FindToken(h)
        BY <2>2, <1>3 DEF FindToken
  <2> QED BY <2>1, <2>2
<1>5. ASSUME NEW h \in Handlers, Revoke(h) PROVE h = k
      BY <1>5, <1>3 DEF Revoke, ReadForRevocation, RevokeToken, AnswerAlreadyRevoked, MarkRevoked
<1>6. ASSUME NEW h \in Handlers, Verify(h) PROVE h = k
      BY <1>6, <1>3 DEF Verify, CheckNonce, ExpireNonce, LookUpCached, ReadRow, FillCache, Decide,
                        AnswerAllowed
<1>7. ASSUME NEW h \in Handlers, Abandon(h) PROVE h = k
      BY <1>7, <1>3 DEF Abandon
<1> QED BY <1>2, <1>4, <1>5, <1>6, <1>7 DEF Next

-----------------------------------------------------------------------------
(* What a request that named only its grant may rely on. *)

\* The states on their way to a replica are in commit order.
InOrder ==
  \A r \in Replicas : \A i, j \in 1..Len(stream[r]) :
    i <= j => Before(stream[r][i], stream[r][j])

\* A commit comes last, a replay takes the first.
LEMMA InOrderNext == Sound /\ InOrder /\ [Next]_vars => InOrder'
<1> SUFFICES ASSUME Sound, InOrder, [Next]_vars,
                    NEW r \in Replicas, NEW i \in 1..Len(stream'[r]), NEW j \in 1..Len(stream'[r]),
                    i <= j
             PROVE  Before(stream'[r][i], stream'[r][j])
    BY DEF InOrder
<1>a. TypeOK /\ Pasts
      BY DEF Sound
<1>b. stream \in [Replicas -> Seq(State)] /\ stream[r] \in Seq(State)
      BY <1>a DEF TypeOK
<1>1. /\ Before(primary, primary')
      /\ \/ Commit(primary')
         \/ UNCHANGED dbVars
         \/ \E q \in Replicas : Replicate(q)
      BY <1>a, DbStep
<1>2. CASE stream'[r] = stream[r]
      BY <1>2 DEF InOrder
<1>3. CASE Commit(primary')
  <2>1. stream'[r] = Append(stream[r], primary')
        BY <1>3 DEF Commit
  <2>2. /\ j \in 1..Len(stream[r]) => stream'[r][j] = stream[r][j]
        /\ i \in 1..Len(stream[r]) => stream'[r][i] = stream[r][i]
        /\ i \notin 1..Len(stream[r]) => stream'[r][i] = primary' /\ stream'[r][j] = primary'
        /\ j \notin 1..Len(stream[r]) => stream'[r][j] = primary'
        /\ j \in 1..Len(stream[r]) => i \in 1..Len(stream[r])
        BY <2>1, <1>b
  <2>3. CASE j \in 1..Len(stream[r])
        BY <2>2, <2>3 DEF InOrder
  <2>4. CASE i \in 1..Len(stream[r]) /\ j \notin 1..Len(stream[r])
    <3>1. Before(stream[r][i], primary)
          BY <2>4, <1>a DEF Pasts
    <3> QED BY <2>2, <2>4, <3>1, <1>1, BeforeLater
  <2>5. CASE i \notin 1..Len(stream[r])
        BY <2>2, <2>5, BeforeSame
  <2> QED BY <2>3, <2>4, <2>5
<1>4. ASSUME NEW q \in Replicas, Replicate(q) PROVE Before(stream'[r][i], stream'[r][j])
  <2>1. CASE q = r
    <3>1. stream'[r] = Tail(stream[r]) /\ Len(stream[r]) > 1
          BY <1>4, <2>1, <1>b DEF Replicate
    <3>2. /\ i + 1 \in 1..Len(stream[r]) /\ j + 1 \in 1..Len(stream[r]) /\ i + 1 <= j + 1
          /\ stream'[r][i] = stream[r][i + 1] /\ stream'[r][j] = stream[r][j + 1]
          BY <3>1, <1>b
    <3> QED BY <3>2 DEF InOrder
  <2>2. CASE q # r
        BY <1>2, <1>4, <2>2, <1>b DEF Replicate
  <2> QED BY <2>1, <2>2
<1> QED BY <1>1, <1>2, <1>3, <1>4 DEF dbVars

\* A replica query sees what one could see before the step, or later.
LEMMA ViewsLater ==
  ASSUME Sound, InOrder, [Next]_vars, NEW t \in Views'
  PROVE  \E v \in Views : Before(v, t)
<1>a. TypeOK
      BY DEF Sound
<1>b. stream \in [Replicas -> Seq(State)] /\ \A r \in Replicas : stream[r] # <<>>
      BY <1>a DEF TypeOK
<1>1. /\ Before(primary, primary')
      /\ \/ Commit(primary')
         \/ UNCHANGED dbVars
         \/ \E q \in Replicas : Replicate(q)
      BY <1>a, DbStep
<1>2. CASE Replicas = {}
      BY <1>1, <1>2 DEF Views
<1>3. CASE Replicas # {}
  <2>1. PICK r \in Replicas : t = Head(stream'[r])
        BY <1>3 DEF Views
  <2>2. Head(stream[r]) \in Views
        BY <1>3 DEF Views
  <2>3. stream[r] \in Seq(State) /\ stream[r] # <<>>
        BY <1>b
  <2>4. CASE stream'[r] = stream[r]
        BY <2>1, <2>2, <2>4, BeforeSame
  <2>5. CASE Commit(primary')
    <3>1. stream'[r] = Append(stream[r], primary')
          BY <2>5 DEF Commit
    <3>2. Head(stream'[r]) = Head(stream[r])
          BY <2>3, <3>1
    <3> QED BY <2>1, <2>2, <3>2, BeforeSame
  <2>6. ASSUME NEW q \in Replicas, Replicate(q) PROVE \E v \in Views : Before(v, t)
    <3>1. CASE q = r
      <4>1. stream'[r] = Tail(stream[r]) /\ Len(stream[r]) > 1
            BY <2>6, <3>1, <1>b DEF Replicate
      <4>2. Head(stream'[r]) = stream[r][2] /\ Head(stream[r]) = stream[r][1]
            BY <4>1, <2>3
      <4>3. 1 \in 1..Len(stream[r]) /\ 2 \in 1..Len(stream[r]) /\ 1 <= 2
            BY <4>1, <2>3
      <4>4. Before(stream[r][1], stream[r][2])
            BY <4>3 DEF InOrder
      <4> QED BY <2>1, <2>2, <4>2, <4>4
    <3>2. CASE q # r
          BY <2>4, <2>6, <3>2, <1>b DEF Replicate
    <3> QED BY <3>1, <3>2
  <2> QED BY <1>1, <2>4, <2>5, <2>6 DEF dbVars
<1> QED BY <1>2, <1>3

\* A request comes to ask for a grant by its look, when a replica shows the
\* grant as approved.
LEMMA AskingBegins ==
  ASSUME Sound, [Next]_vars, NEW g \in Grants, NEW h \in Asking(g)', h \notin Asking(g)
  PROVE  \E t \in Views : t.grant[g] = "approved"
<1>a. TypeOK /\ op \in [Handlers -> Operation]
      BY DEF Sound, TypeOK
<1>b. /\ h \in Handlers /\ op'[h].at \in {"find", "insert"} /\ op'[h].checked /\ op'[h].g = g
      /\ ~(op[h].at \in {"find", "insert"} /\ op[h].checked /\ op[h].g = g)
      BY DEF Asking
<1>1. Issue(h) \/ Revoke(h) \/ Verify(h) \/ Abandon(h)
      BY <1>a, <1>b, HandlerStep
<1>2. ASSUME NEW o, Goto(h, o) PROVE op'[h] = o
      BY <1>2, <1>a, <1>b DEF Goto
<1>3. ASSUME NEW o, o.at \notin {"find", "insert"}, Goto(h, o) PROVE FALSE
      BY <1>2, <1>3, <1>b
<1>4. CASE Revoke(h)
  <2>1. CASE RevokeToken(h)
    <3>1. op[h] \in Operation /\ op[h].at = "revoke"
          BY <2>1, <1>a, <1>b DEF RevokeToken
    <3>2. PICK at \in {"mark", "recheck"} : Goto(h, [op[h] EXCEPT !.at = at])
          BY <2>1 DEF RevokeToken
    <3>3. [op[h] EXCEPT !.at = at].at = at
          BY <3>1, OperationTurns
    <3> QED BY <3>2, <3>3, <1>3
  <2>2. CASE AnswerAlreadyRevoked(h) \/ MarkRevoked(h)
        BY <2>2, <1>3 DEF AnswerAlreadyRevoked, MarkRevoked, Idle
  <2>3. ASSUME NEW j \in Jtis, ReadForRevocation(h, j) PROVE FALSE
    <3>1. Goto(h, [at |-> "revoke", j |-> j])
          BY <2>3 DEF ReadForRevocation
    <3> QED BY <3>1, <1>3
  <2> QED BY <1>4, <2>1, <2>2, <2>3 DEF Revoke
<1>5. CASE Verify(h)
  <2>1. CASE ExpireNonce(h)
    <3>1. op[h] \in Verification /\ Goto(h, [op[h] EXCEPT !.at = "lookup"])
          BY <2>1, <1>a, <1>b, OperationShape DEF ExpireNonce
    <3>2. [op[h] EXCEPT !.at = "lookup"].at = "lookup"
          BY <3>1, VerificationShape, Zenon
    <3> QED BY <3>1, <3>2, <1>3
  <2>2. CASE FillCache(h)
    <3>1. op[h] \in Operation /\ op[h].at = "fill" /\ Goto(h, [op[h] EXCEPT !.at = "decide"])
          BY <2>2, <1>a, <1>b DEF FillCache
    <3>2. [op[h] EXCEPT !.at = "decide"].at = "decide"
          BY <3>1, OperationTurns, Zenon
    <3> QED BY <3>1, <3>2, <1>3
  <2>3. ASSUME NEW j \in Jtis, NEW s \in SPs, NEW n \in Nonces, CheckNonce(h, j, s, n)
        PROVE  FALSE
    <3>1. Goto(h, [at |-> "expire", j |-> j, s |-> s, n |-> n, late |-> told[j]])
          BY <2>3 DEF CheckNonce
    <3> QED BY <3>1, <1>3
  <2>4. CASE LookUpCached(h)
    <3>1. PICK hit \in BOOLEAN : Goto(h, [at |-> "row", hit |-> hit, req |-> op[h]])
          BY <2>4 DEF LookUpCached
    <3> QED BY <3>1, <1>3
  <2>5. CASE ReadRow(h)
    <3>1. PICK t \in Views : Goto(h, [at |-> IF op[h].hit THEN "decide" ELSE "fill",
                                      row |-> t.token[op[h].req.j], req |-> op[h].req])
          BY <2>5 DEF ReadRow
    <3> QED BY <3>1, <1>3
  <2>6. CASE Decide(h)
    <3>1. Goto(h, [at |-> "allowed", time |-> now, again |-> <<op[h].req.n, op[h].req.j>> \in spent,
                   row |-> op[h].row, req |-> op[h].req])
          BY <2>6 DEF Decide
    <3> QED BY <3>1, <1>3
  <2>7. CASE AnswerAllowed(h)
        BY <2>7, <1>3 DEF AnswerAllowed, Idle
  <2> QED BY <1>5, <2>1, <2>2, <2>3, <2>4, <2>5, <2>6, <2>7, Zenon DEF Verify
<1>6. CASE Abandon(h)
      BY <1>6, <1>3 DEF Abandon, Idle
<1>7. CASE Issue(h)
  <2>1. ASSUME NEW k \in Grants, RequestToken(h, k) PROVE \E t \in Views : t.grant[g] = "approved"
    <3> DEFINE o == [at |-> "find", g |-> k, s |-> GrantSP[k], checked |-> TRUE]
    <3>1. op'[h] = o
          BY <2>1, <1>2 DEF RequestToken
    <3>2. k = g
          BY <3>1, <1>b
    <3> QED BY <2>1, <3>2 DEF RequestToken
  <2>2. ASSUME NEW k \in Grants, NEW s \in SPs, RequestTokenInFull(h, k, s) PROVE FALSE
    <3> DEFINE o == [at |-> "find", g |-> k, s |-> s, checked |-> FALSE]
    <3>1. op'[h] = o
          BY <2>2, <1>2 DEF RequestTokenInFull
    <3> QED BY <3>1, <1>b
  <2>3. CASE FindToken(h)
    <3> DEFINE o == [at |-> "insert", g |-> op[h].g, s |-> op[h].s,
                     checked |-> op[h].checked, issued |-> now]
    <3>1. op[h].at = "find" /\ (Goto(h, o) \/ Goto(h, Idle))
          BY <2>3 DEF FindToken
    <3>2. ~Goto(h, Idle)
          BY <1>3 DEF Idle
    <3>3. op'[h] = o
          BY <3>1, <3>2, <1>2
    <3>4. op[h].g = g /\ op[h].checked
          BY <3>3, <1>b
    <3> QED BY <3>1, <3>4, <1>b
  <2>4. CASE InsertToken(h)
    <3>1. PICK j \in Jtis : Goto(h, [at |-> "cache", j |-> j])
          BY <2>4 DEF InsertToken
    <3> QED BY <3>1, <1>3
  <2>5. CASE CacheIssued(h)
        BY <2>5, <1>3 DEF CacheIssued, Idle
  <2> QED BY <1>7, <2>1, <2>2, <2>3, <2>4, <2>5 DEF Issue
<1> QED BY <1>1, <1>4, <1>5, <1>6, <1>7

\* A grant that has ended stays so: no replica goes back behind the revocation,
\* so no request gets past its look again.
LEMMA EndedStays ==
  ASSUME Sound, InOrder, [Next]_vars, NEW g \in Grants, Ended(g)
  PROVE  Ended(g)'
<1>1. \A t \in Views' : t.grant[g] = "revoked"
      BY ViewsLater DEF Ended, Before
<1>2. ASSUME NEW h \in Asking(g)' PROVE FALSE
  <2>1. h \notin Asking(g)
        BY DEF Ended
  <2>2. \E t \in Views : t.grant[g] = "approved"
        BY <1>2, <2>1, AskingBegins
  <2> QED BY <2>2 DEF Ended
<1>3. Asking(g)' = {}
      BY <1>2
<1> QED BY <1>1, <1>3 DEF Ended

\* A token is logged as checked by a request that asked for its grant.
LEMMA MadeForAsking ==
  ASSUME Sound, [Next]_vars, NEW j \in checked' \ checked
  PROVE  Asking(primary'.token[j].grant) # {}
<1>a. TypeOK /\ op \in [Handlers -> Operation] /\ primary \in State
      BY DEF Sound, TypeOK
<1>1. ASSUME NEW h \in Handlers, InsertToken(h) PROVE Asking(primary'.token[j].grant) # {}
  <2> DEFINE c == op[h]
             row == [grant |-> c.g, sp |-> c.s, issued |-> c.issued, revoked |-> FALSE]
  <2>1. PICK k \in Jtis :
          /\ Commit([primary EXCEPT !.token[k] = row])
          /\ checked' = IF c.checked THEN checked \cup {k} ELSE checked
        BY <1>1 DEF InsertToken, SetToken
  <2>2. j = k /\ c.checked /\ c.at = "insert"
        BY <1>1, <2>1 DEF InsertToken
  <2>3. row.grant = c.g
        OBVIOUS
  <2> HIDE DEF row
  <2>4. primary'.token[j] = row
        BY <2>1, <2>2, <1>a DEF Commit, State
  <2>5. h \in Asking(c.g)
        BY <2>2 DEF Asking
  <2> QED BY <2>3, <2>4, <2>5
<1>2. ASSUME NEW h \in Handlers, Issue(h), ~InsertToken(h) PROVE UNCHANGED checked
      BY <1>2 DEF Issue, RequestToken, RequestTokenInFull, FindToken, CacheIssued, history
<1>3. ASSUME NEW h \in Handlers, Revoke(h) PROVE UNCHANGED checked
      BY <1>3 DEF Revoke, ReadForRevocation, RevokeToken, AnswerAlreadyRevoked, MarkRevoked, history
<1>4. ASSUME NEW h \in Handlers, Verify(h) \/ Abandon(h) PROVE UNCHANGED checked
      BY <1>4 DEF Verify, CheckNonce, ExpireNonce, LookUpCached, ReadRow, FillCache, Decide,
                  AnswerAllowed, Abandon, history
<1>5. UNCHANGED vars \/ Tick \/ (\E g \in Grants : ApproveGrant(g) \/ RevokeGrant(g))
        \/ (\E r \in Replicas : CatchUp(r)) => UNCHANGED checked
      BY DEF vars, Tick, ApproveGrant, RevokeGrant, CatchUp, history
<1> QED BY <1>1, <1>2, <1>3, <1>4, <1>5, Zenon DEF Next

\* What a request that named only its grant is answered with was granted: it gets
\* past its look only for a grant somebody approved, and never again once the
\* revocation has reached every replica and earlier requests are done, whatever
\* the number of replicas and requests; what it makes is for the grant's provider.
THEOREM GrantsAlwaysHonoured == Spec => GrantsHonoured
<1> DEFINE Made == \A j \in checked' \ checked :
             LET row == primary'.token[j]
             IN  row.sp = GrantSP[row.grant] /\ Asking(row.grant) # {}
           Looked == \A g \in Grants : Asking(g) # {} => primary.grant[g] # "pending"
           Stays == \A g \in Grants : Ended(g) => Ended(g)'
<1>1. Init => InOrder
  <2> SUFFICES ASSUME Init, NEW r \in Replicas, NEW i \in 1..Len(stream[r]),
                      NEW j \in 1..Len(stream[r])
               PROVE  Before(stream[r][i], stream[r][j])
      BY DEF InOrder
  <2>1. stream[r] = <<primary>>
        BY DEF Init, DbInit
  <2>2. i = 1 /\ j = 1
        BY <2>1
  <2> QED BY <2>2, BeforeSame
<1>2. Sound => Looked
      BY DEF Sound, OpsSound, OpSound, Asking
<1>3. Sound /\ InOrder /\ [Next]_vars => Stays
      BY EndedStays
<1>4. Sound /\ Sound' /\ [Next]_vars => Made
      BY MadeForAsking DEF Sound, CheckedSound
<1>5. Sound /\ Sound' /\ InOrder /\ [Next]_vars =>
        [/\ \A g \in Grants :
              /\ Asking(g) # {} => primary.grant[g] # "pending"
              /\ Ended(g) => Ended(g)'
         /\ \A j \in checked' \ checked :
              LET row == primary'.token[j]
              IN  row.sp = GrantSP[row.grant] /\ Asking(row.grant) # {}
        ]_vars
      BY <1>2, <1>3, <1>4
<1> QED BY <1>1, <1>5, SoundAlways, InOrderNext, PTL DEF Spec, GrantsHonoured

-----------------------------------------------------------------------------
(* A token a client was told is revoked. *)

Revoked(j) == There(j) /\ primary.token[j].revoked

\* The copy in Redis does not make the token look live.
FlagOk(j) == cache[j].kind = "full" => cache[j].revoked

\* A token is revoked by a request that has its marks still to make; copies on
\* their way excuse it.
LEMMA NewlyRevoked ==
  ASSUME Sound, [Next]_vars, NEW j \in Jtis, ~Revoked(j), Revoked(j)'
  PROVE  /\ (\E k \in Handlers : Copying(k, j)) => j \in excused'
         /\ \E h \in Handlers : Marking(h, j)'
         /\ UNCHANGED told
<1>a. /\ TypeOK /\ primary \in State /\ op \in [Handlers -> Operation]
      BY DEF Sound, TypeOK
<1>1. ASSUME NEW h \in Handlers, InsertToken(h) PROVE FALSE
  <2> DEFINE row == [grant |-> op[h].g, sp |-> op[h].s, issued |-> op[h].issued, revoked |-> FALSE]
  <2>1. PICK k \in Jtis : primary.token[k] = Absent /\ Commit([primary EXCEPT !.token[k] = row])
        BY <1>1 DEF InsertToken, SetToken
  <2>2. ~row.revoked
        OBVIOUS
  <2> HIDE DEF row
  <2>3. primary'.token[j] = IF j = k THEN row ELSE primary.token[j]
        BY <2>1, <1>a DEF Commit, State
  <2> QED BY <2>1, <2>2, <2>3 DEF Revoked, There
<1>2. ASSUME NEW h \in Handlers, RevokeToken(h)
      PROVE  /\ (\E k \in Handlers : Copying(k, j)) => j \in excused'
             /\ Marking(h, j)'
             /\ UNCHANGED told
  <2> DEFINE c == op[h]
             i == c.j
             row == [primary.token[i] EXCEPT !.revoked = TRUE]
  <2>1. c \in Operation /\ c.at = "revoke"
        BY <1>2, <1>a DEF RevokeToken
  <2>2. i \in Jtis
        BY <2>1, OperationShape
  <2>3. ~primary.token[i].revoked
    <3>1. CASE UNCHANGED primary
          BY <3>1 DEF Revoked, There
    <3> QED BY <1>2, <3>1 DEF RevokeToken, dbVars
  <2>4. /\ Commit([primary EXCEPT !.token[i] = row])
        /\ Excuse(i, \E k \in Handlers : Copying(k, i))
        /\ Goto(h, [c EXCEPT !.at = "mark"])
        BY <1>2, <2>3 DEF RevokeToken, SetToken
  <2>5. i = j
    <3> HIDE DEF i, row
    <3>1. primary'.token[j] = IF j = i THEN row ELSE primary.token[j]
          BY <2>2, <2>4, <1>a DEF Commit, State
    <3> QED BY <3>1 DEF Revoked, There
  <2>6. op'[h].at = "mark" /\ op'[h].j = j
    <3>1. [c EXCEPT !.at = "mark"].at = "mark" /\ [c EXCEPT !.at = "mark"].j = i
          BY <2>1, OperationTurns
    <3>2. op'[h] = [c EXCEPT !.at = "mark"]
          BY <2>4, <1>a DEF Goto
    <3> QED BY <2>5, <3>1, <3>2
  <2>7. UNCHANGED told
        BY <1>2 DEF RevokeToken
  <2> QED BY <2>4, <2>5, <2>6, <2>7 DEF Excuse, Marking
<1>3. CASE UNCHANGED primary
      BY <1>3 DEF Revoked, There
<1>4. ASSUME NEW g \in Grants, ApproveGrant(g) \/ RevokeGrant(g) PROVE FALSE
  <2>1. PICK st \in {"approved", "revoked"} : Commit([primary EXCEPT !.grant[g] = st])
        BY <1>4 DEF ApproveGrant, RevokeGrant, SetGrant
  <2>2. primary'.token = primary.token
        BY <2>1, <1>a DEF Commit, State
  <2> QED BY <2>2 DEF Revoked, There
<1>5. ASSUME NEW h \in Handlers, Issue(h), ~InsertToken(h) PROVE UNCHANGED primary
      BY <1>5 DEF Issue, RequestToken, RequestTokenInFull, FindToken, CacheIssued, dbVars
<1>6. ASSUME NEW h \in Handlers, Revoke(h), ~RevokeToken(h) PROVE UNCHANGED primary
      BY <1>6 DEF Revoke, ReadForRevocation, AnswerAlreadyRevoked, MarkRevoked, dbVars
<1>7. ASSUME NEW h \in Handlers, Verify(h) \/ Abandon(h) PROVE UNCHANGED primary
      BY <1>7 DEF Verify, CheckNonce, ExpireNonce, LookUpCached, ReadRow, FillCache, Decide,
                  AnswerAllowed, Abandon, dbVars
<1>8. CASE UNCHANGED vars \/ Tick \/ \E r \in Replicas : CatchUp(r)
      BY <1>8, <1>3 DEF vars, Tick, CatchUp, Replicate, dbVars
<1> QED BY <1>1, <1>2, <1>3, <1>4, <1>5, <1>6, <1>7, <1>8 DEF Next

\* A copy sets out before the revocation, or is excused.
LEMMA NewlyCopying ==
  ASSUME Sound, [Next]_vars, NEW k \in Handlers, NEW j \in Jtis, ~Copying(k, j), Copying(k, j)',
         Revoked(j)'
  PROVE  j \in excused'
<1>a. /\ TypeOK /\ primary \in State /\ op \in [Handlers -> Operation]
      BY DEF Sound, TypeOK
<1>1. Issue(k) \/ Revoke(k) \/ Verify(k) \/ Abandon(k)
  <2>1. op'[k] # op[k]
        BY DEF Copying
  <2> QED BY <2>1, <1>a, HandlerStep
<1>b. op'[k].at \in {"cache", "fill"}
      BY DEF Copying
<1>2. ASSUME NEW o, Goto(k, o) PROVE o.at \in {"cache", "fill"}
      BY <1>2, <1>a, <1>b DEF Goto
<1>3. CASE InsertToken(k)
  <2> DEFINE row == [grant |-> op[k].g, sp |-> op[k].s, issued |-> op[k].issued, revoked |-> FALSE]
             o(i) == [at |-> "cache", j |-> i]
  <2>1. PICK i \in Jtis : Commit([primary EXCEPT !.token[i] = row]) /\ Goto(k, o(i))
        BY <1>3 DEF InsertToken, SetToken
  <2>2. ~row.revoked /\ o(i).at = "cache" /\ o(i).j = i
        OBVIOUS
  <2> HIDE DEF row, o
  <2>3. i = j
        BY <2>1, <2>2, <1>a DEF Goto, Copying
  <2>4. primary'.token[j] = row
        BY <2>1, <2>3, <1>a DEF Commit, State
  <2> QED BY <2>2, <2>4 DEF Revoked
<1>4. CASE ReadRow(k)
  <2> DEFINE c == op[k]
             o(t) == [at |-> IF c.hit THEN "decide" ELSE "fill", row |-> t.token[c.req.j], req |-> c.req]
  <2>1. PICK t \in Views :
          /\ Goto(k, o(t))
          /\ Excuse(c.req.j, ~c.hit /\ primary.token[c.req.j].revoked)
        BY <1>4 DEF ReadRow
  <2>2. o(t).at = "fill" /\ o(t).req = c.req
    <3>1. o(t).at \in {"cache", "fill"}
          BY <2>1, <1>2
    <3> QED BY <3>1
  <2>3. ~c.hit
        BY <2>2
  <2>4. UNCHANGED primary
        BY <1>4 DEF ReadRow, dbVars
  <2> HIDE DEF o
  <2>5. c.req.j = j
        BY <2>1, <2>2, <1>a DEF Goto, Copying
  <2> QED BY <2>1, <2>3, <2>4, <2>5 DEF Excuse, Revoked
<1>5. ASSUME NEW o, o.at \notin {"cache", "fill"}, Goto(k, o) PROVE FALSE
      BY <1>2, <1>5
<1>6. CASE Abandon(k)
      BY <1>5, <1>6 DEF Abandon, Idle
<1>7. CASE Issue(k) /\ ~InsertToken(k)
  <2>1. ASSUME NEW g \in Grants, RequestToken(k, g) PROVE FALSE
        BY <1>5, <2>1 DEF RequestToken
  <2>2. ASSUME NEW g \in Grants, NEW s \in SPs, RequestTokenInFull(k, g, s) PROVE FALSE
        BY <1>5, <2>2 DEF RequestTokenInFull
  <2>3. CASE FindToken(k)
        BY <1>5, <2>3 DEF FindToken, Idle
  <2>4. CASE CacheIssued(k)
        BY <1>5, <2>4 DEF CacheIssued, Idle
  <2> QED BY <1>7, <2>1, <2>2, <2>3, <2>4 DEF Issue
<1>8. CASE Revoke(k)
  <2>1. ASSUME NEW i \in Jtis, ReadForRevocation(k, i) PROVE FALSE
        BY <1>5, <2>1 DEF ReadForRevocation
  <2>2. CASE RevokeToken(k)
    <3>1. PICK at \in {"mark", "recheck"} : Goto(k, [op[k] EXCEPT !.at = at])
          BY <2>2 DEF RevokeToken
    <3>2. op[k] \in Operation /\ op[k].at = "revoke"
          BY <2>2, <1>a DEF RevokeToken
    <3>3. [op[k] EXCEPT !.at = at].at = at
          BY <3>2, OperationTurns
    <3> QED BY <3>1, <3>3, <1>5
  <2>3. CASE AnswerAlreadyRevoked(k) \/ MarkRevoked(k)
        BY <1>5, <2>3 DEF AnswerAlreadyRevoked, MarkRevoked, Idle
  <2> QED BY <1>8, <2>1, <2>2, <2>3 DEF Revoke
<1>9. CASE Verify(k) /\ ~ReadRow(k)
  <2>1. ASSUME NEW i \in Jtis, NEW s \in SPs, NEW n \in Nonces, CheckNonce(k, i, s, n) PROVE FALSE
        BY <1>5, <2>1 DEF CheckNonce
  <2>2. CASE ExpireNonce(k)
    <3>1. op[k] \in Verification /\ Goto(k, [op[k] EXCEPT !.at = "lookup"])
          BY <2>2, <1>a, OperationShape DEF ExpireNonce
    <3>2. [op[k] EXCEPT !.at = "lookup"].at = "lookup"
          BY <3>1, VerificationShape, Zenon
    <3> QED BY <3>1, <3>2, <1>5
  <2>3. CASE FillCache(k)
    <3>1. op[k] \in Operation /\ op[k].at = "fill" /\ Goto(k, [op[k] EXCEPT !.at = "decide"])
          BY <2>3, <1>a DEF FillCache
    <3>2. [op[k] EXCEPT !.at = "decide"].at = "decide"
          BY <3>1, OperationTurns, Zenon
    <3> QED BY <3>1, <3>2, <1>5
  <2>4. CASE LookUpCached(k)
    <3>1. PICK hit \in BOOLEAN : Goto(k, [at |-> "row", hit |-> hit, req |-> op[k]])
          BY <2>4 DEF LookUpCached
    <3> QED BY <3>1, <1>5
  <2>5. CASE Decide(k)
    <3>1. Goto(k, [at |-> "allowed", time |-> now, again |-> <<op[k].req.n, op[k].req.j>> \in spent,
                   row |-> op[k].row, req |-> op[k].req])
          BY <2>5 DEF Decide
    <3> QED BY <3>1, <1>5
  <2>6. CASE AnswerAllowed(k)
        BY <1>5, <2>6 DEF AnswerAllowed, Idle
  <2> QED BY <1>9, <2>1, <2>2, <2>3, <2>4, <2>5, <2>6, Zenon DEF Verify
<1> QED BY <1>1, <1>3, <1>4, <1>6, <1>7, <1>8, <1>9

\* Only a copy on its way makes the hash look live again.
LEMMA FlagStays ==
  ASSUME Sound, [Next]_vars, NEW j \in Jtis, FlagOk(j), \A k \in Handlers : ~Copying(k, j)
  PROVE  FlagOk(j)'
<1>a. TypeOK /\ cache \in [Jtis -> Entry]
      BY DEF Sound, TypeOK
<1>1. CASE cache'[j] = cache[j]
      BY <1>1 DEF FlagOk
<1>2. CASE UNCHANGED cache
      BY <1>2, <1>1
<1>3. ASSUME NEW h \in Handlers, CacheIssued(h) PROVE FlagOk(j)'
  <2>1. op[h].j # j
        BY <1>3 DEF CacheIssued, Copying
  <2> QED BY <2>1, <1>1, <1>3, <1>a DEF CacheIssued
<1>4. ASSUME NEW h \in Handlers, FillCache(h) PROVE FlagOk(j)'
  <2>1. op[h].req.j # j
        BY <1>4 DEF FillCache, Copying
  <2> QED BY <2>1, <1>1, <1>4, <1>a DEF FillCache
<1>5. ASSUME NEW h \in Handlers, MarkRevoked(h) PROVE FlagOk(j)'
  <2>1. cache' = [cache EXCEPT ![op[h].j] = Marked(op[h].j)]
        BY <1>5 DEF MarkRevoked
  <2>2. CASE op[h].j = j
    <3>1. cache'[j] = Marked(j) /\ cache[j] \in Entry
          BY <2>1, <2>2, <1>a
    <3> QED BY <3>1, MarkedShape DEF FlagOk
  <2>3. CASE op[h].j # j
        BY <2>1, <2>3, <1>1, <1>a
  <2> QED BY <2>2, <2>3
<1>6. ASSUME NEW h \in Handlers, Issue(h), ~CacheIssued(h) PROVE UNCHANGED cache
      BY <1>6 DEF Issue, RequestToken, RequestTokenInFull, FindToken, InsertToken, redis
<1>7. ASSUME NEW h \in Handlers, Revoke(h), ~MarkRevoked(h) PROVE UNCHANGED cache
      BY <1>7 DEF Revoke, ReadForRevocation, RevokeToken, AnswerAlreadyRevoked, redis
<1>8. ASSUME NEW h \in Handlers, Verify(h) \/ Abandon(h), ~FillCache(h) PROVE UNCHANGED cache
      BY <1>8 DEF Verify, CheckNonce, ExpireNonce, LookUpCached, ReadRow, Decide, AnswerAllowed,
                  Abandon, redis
<1>9. CASE UNCHANGED vars \/ Tick \/ (\E g \in Grants : ApproveGrant(g) \/ RevokeGrant(g))
             \/ \E r \in Replicas : CatchUp(r)
      BY <1>9, <1>2 DEF vars, Tick, ApproveGrant, RevokeGrant, CatchUp, redis
<1>10. ASSUME NEW h \in Handlers, Issue(h) \/ Revoke(h) \/ Verify(h) \/ Abandon(h) PROVE FlagOk(j)'
       BY <1>10, <1>2, <1>3, <1>4, <1>5, <1>6, <1>7, <1>8, Zenon
<1> QED BY <1>9, <1>10, Zenon DEF Next

\* After the mark no entry in Redis says the token is good.
LEMMA MarkFlags ==
  ASSUME Sound, NEW j \in Jtis, NEW h \in Handlers, MarkRevoked(h), op[h].j = j
  PROVE  FlagOk(j)'
<1>1. cache \in [Jtis -> Entry]
      BY DEF Sound, TypeOK
<1>2. cache'[j] = Marked(j) /\ cache[j] \in Entry
      BY <1>1 DEF MarkRevoked
<1> QED BY <1>2, MarkedShape DEF FlagOk

\* A mark is made, or the token is excused.
LEMMA MarkingEnds ==
  ASSUME Sound, [Next]_vars, NEW j \in Jtis, NEW k \in Handlers, Marking(k, j), ~Marking(k, j)'
  PROVE  FlagOk(j)' \/ j \in excused'
<1>a. TypeOK
      BY DEF Sound
<1>1. Issue(k) \/ Revoke(k) \/ Verify(k) \/ Abandon(k)
  <2>1. op'[k] # op[k]
        BY DEF Marking
  <2> QED BY <2>1, <1>a, HandlerStep
<1>b. op[k].at = "mark" /\ op[k].j = j /\ op[k] # Idle
      BY DEF Marking, Idle
<1>2. ~Issue(k) /\ ~Verify(k)
  <2>1. ~Issue(k)
        BY <1>b DEF Issue, RequestToken, RequestTokenInFull, FindToken, InsertToken, CacheIssued
  <2>2. ~Verify(k)
        BY <1>b DEF Verify, CheckNonce, ExpireNonce, LookUpCached, ReadRow, FillCache, Decide,
                    AnswerAllowed
  <2> QED BY <2>1, <2>2
<1>3. CASE Revoke(k)
  <2>1. MarkRevoked(k)
        BY <1>b, <1>3 DEF Revoke, ReadForRevocation, RevokeToken, AnswerAlreadyRevoked
  <2> QED BY <2>1, <1>b, MarkFlags
<1>4. CASE Abandon(k)
      BY <1>b, <1>4 DEF Abandon, Excuse
<1> QED BY <1>1, <1>2, <1>3, <1>4

\* Once a token is revoked no copy of it is on its way; once its marks are made
\* the copy in Redis says so; once a client was told both hold.
NoCopies ==
  \A j \in Jtis \ excused : Revoked(j) => \A k \in Handlers : ~Copying(k, j)

MarksMade ==
  \A j \in Jtis \ excused :
    Revoked(j) /\ (\A k \in Handlers : ~Marking(k, j)) => FlagOk(j)

TellsTruth ==
  \A j \in Jtis \ excused : told[j] # {} => Revoked(j) /\ FlagOk(j)

\* No unexcused copy of a revoked token gets on its way.
LEMMA NoCopiesNext == Sound /\ NoCopies /\ [Next]_vars => NoCopies'
<1> SUFFICES ASSUME Sound, NoCopies, [Next]_vars, NEW j \in Jtis, j \notin excused', Revoked(j)',
                    NEW k \in Handlers, Copying(k, j)'
             PROVE  FALSE
    BY DEF NoCopies
<1>1. j \notin excused
      BY HistoryGrows DEF Sound
<1>2. CASE ~Copying(k, j)
      BY <1>2, NewlyCopying
<1>3. CASE Copying(k, j) /\ ~Revoked(j)
      BY <1>3, NewlyRevoked
<1>4. CASE Copying(k, j) /\ Revoked(j)
      BY <1>1, <1>4 DEF NoCopies
<1> QED BY <1>2, <1>3, <1>4

\* Once a token's marks are made its entry stays revoked, unless excused.
LEMMA MarksMadeNext == Sound /\ NoCopies /\ MarksMade /\ [Next]_vars => MarksMade'
<1> SUFFICES ASSUME Sound, NoCopies, MarksMade, [Next]_vars, NEW j \in Jtis, j \notin excused',
                    Revoked(j)', \A k \in Handlers : ~Marking(k, j)'
             PROVE  FlagOk(j)'
    BY DEF MarksMade
<1>1. j \notin excused
      BY HistoryGrows DEF Sound
<1>2. CASE ~Revoked(j)
      BY <1>2, NewlyRevoked
<1>3. ASSUME NEW k \in Handlers, Marking(k, j) PROVE FlagOk(j)'
      BY <1>3, MarkingEnds
<1>4. CASE Revoked(j) /\ \A k \in Handlers : ~Marking(k, j)
  <2>1. FlagOk(j) /\ \A k \in Handlers : ~Copying(k, j)
        BY <1>1, <1>4 DEF NoCopies, MarksMade
  <2> QED BY <2>1, FlagStays
<1> QED BY <1>2, <1>3, <1>4

\* A client is told of a revocation when its marks are made, unless excused.
LEMMA TellsTruthNext == Sound /\ NoCopies /\ MarksMade /\ TellsTruth /\ [Next]_vars => TellsTruth'
<1> SUFFICES ASSUME Sound, NoCopies, MarksMade, TellsTruth, [Next]_vars, NEW j \in Jtis,
                    j \notin excused', told'[j] # {}
             PROVE  Revoked(j)' /\ FlagOk(j)'
    BY DEF TellsTruth
<1>a. /\ TypeOK /\ Pasts /\ OpsSound /\ op \in [Handlers -> Operation]
      /\ told \in [Jtis -> SUBSET {"done", "already"}]
      BY DEF Sound, TypeOK
<1>b. j \notin excused
      BY <1>a, HistoryGrows
<1>c. Revoked(j) => Revoked(j)'
  <2>1. Before(primary, primary')
        BY <1>a, DbStep
  <2> QED BY <2>1 DEF Before, Revoked, There
<1>1. CASE Revoked(j) /\ FlagOk(j)
  <2>1. \A k \in Handlers : ~Copying(k, j)
        BY <1>1, <1>b DEF NoCopies
  <2>2. FlagOk(j)'
        BY <1>1, <2>1, FlagStays
  <2> QED BY <1>1, <2>2, <1>c
<1>2. CASE told[j] # {}
      BY <1>1, <1>2, <1>b DEF TellsTruth
<1>3. CASE UNCHANGED told
      BY <1>2, <1>3
<1>4. ASSUME NEW h \in Handlers, AnswerAlreadyRevoked(h), told[j] = {}
      PROVE  Revoked(j)' /\ FlagOk(j)'
  <2> DEFINE i == op[h].j
  <2>1. /\ op[h].at = "recheck" /\ Tell(i, "already")
        /\ Excuse(i, \E k \in Handlers : Marking(k, i))
        BY <1>4 DEF AnswerAlreadyRevoked
  <2>2. i \in Jtis
        BY <2>1, <1>a, OperationShape
  <2>3. i = j
        BY <1>4, <2>1, <2>2, <1>a DEF Tell
  <2>4. PICK t \in Views : t.token[j] # Absent /\ t.token[j].revoked
        BY <1>4, <2>3 DEF AnswerAlreadyRevoked
  <2>5. Revoked(j)
        BY <2>4, <1>a, ViewPast DEF Before, Revoked, There
  <2>6. \A k \in Handlers : ~Marking(k, j)
        BY <2>1, <2>3 DEF Excuse
  <2> QED BY <2>5, <2>6, <1>1, <1>b DEF MarksMade
<1>5. ASSUME NEW h \in Handlers, MarkRevoked(h), told[j] = {}, told' # told
      PROVE  Revoked(j)' /\ FlagOk(j)'
  <2> DEFINE i == op[h].j
  <2>1. /\ op[h].at = "mark" /\ Tell(i, "done") /\ OpSound(primary, op[h])
        BY <1>5, <1>a DEF MarkRevoked, OpsSound
  <2>2. i \in Jtis
        BY <2>1, <1>a, OperationShape
  <2>3. i = j
        BY <1>5, <2>1, <2>2, <1>a DEF Tell
  <2>4. Revoked(j)
        BY <2>1, <2>3 DEF OpSound, Revoked, There
  <2>5. FlagOk(j)'
        BY <1>5, <2>3, MarkFlags
  <2> QED BY <2>4, <2>5, <1>c
<1>6. ASSUME NEW h \in Handlers, Issue(h) PROVE UNCHANGED told
      BY <1>6 DEF Issue, RequestToken, RequestTokenInFull, FindToken, InsertToken, CacheIssued, history
<1>7. ASSUME NEW h \in Handlers, Revoke(h), ~AnswerAlreadyRevoked(h), ~MarkRevoked(h)
      PROVE  UNCHANGED told
      BY <1>7 DEF Revoke, ReadForRevocation, RevokeToken, history
<1>8. ASSUME NEW h \in Handlers, Verify(h) \/ Abandon(h) PROVE UNCHANGED told
      BY <1>8 DEF Verify, CheckNonce, ExpireNonce, LookUpCached, ReadRow, FillCache, Decide,
                  AnswerAllowed, Abandon, history
<1>9. CASE UNCHANGED vars \/ Tick \/ (\E g \in Grants : ApproveGrant(g) \/ RevokeGrant(g))
             \/ \E r \in Replicas : CatchUp(r)
      BY <1>9, <1>3 DEF vars, Tick, ApproveGrant, RevokeGrant, CatchUp, history
<1>10. ASSUME NEW h \in Handlers, Issue(h) \/ Revoke(h) \/ Verify(h) \/ Abandon(h)
       PROVE  Revoked(j)' /\ FlagOk(j)'
       BY <1>10, <1>2, <1>3, <1>4, <1>5, <1>6, <1>7, <1>8, Zenon
<1> QED BY <1>9, <1>10, Zenon DEF Next

\* What was said of a token before its verification started (told is tl, excused
\* is ex): past the look-ups a verification told of it goes on only if excused.
LateSound(tl, ex, o) ==
  /\ o.at \in {"expire", "lookup"} => o.late \subseteq tl[o.j]
  /\ o.at \in {"row", "fill", "decide", "allowed"} => o.req.late \subseteq tl[o.req.j]
  /\ o.at = "row" /\ o.hit /\ o.req.late # {} => o.req.j \in ex
  /\ o.at \in {"fill", "decide", "allowed"} /\ o.req.late # {} => o.req.j \in ex

LateSounds == \A h \in Handlers : LateSound(told, excused, op[h])

\* A verification that began after that finds nothing to pass on.
LEMMA LateSoundsNext == Sound /\ MarksMade /\ TellsTruth /\ LateSounds /\ [Next]_vars => LateSounds'
<1> SUFFICES ASSUME Sound, TellsTruth, LateSounds, [Next]_vars, NEW k \in Handlers
             PROVE  LateSound(told', excused', op'[k])
    BY DEF LateSounds
<1>a. /\ TypeOK /\ Pasts /\ OpsSound /\ op \in [Handlers -> Operation]
      /\ told \in [Jtis -> SUBSET {"done", "already"}]
      BY DEF Sound, TypeOK
<1>b. (\A j \in Jtis : told[j] \subseteq told'[j]) /\ excused \subseteq excused'
      BY <1>a, HistoryGrows
<1>c. op[k] \in Operation /\ LateSound(told, excused, op[k])
      BY <1>a DEF LateSounds
<1>d. /\ op[k].at \in {"expire", "lookup"} => op[k].j \in Jtis
      /\ op[k].at \in {"row", "fill", "decide", "allowed"} => op[k].req.j \in Jtis
      BY <1>c, OperationShape, VerificationShape
<1>e. LateSound(told', excused', op[k])
      BY <1>b, <1>c, <1>d DEF LateSound
<1>1. CASE op'[k] = op[k]
      BY <1>1, <1>e
<1>2. ASSUME NEW o, Goto(k, o), LateSound(told', excused', o)
      PROVE  LateSound(told', excused', op'[k])
      BY <1>2, <1>a DEF Goto
\* The stages that are no verification.
<1>3. ASSUME NEW o, Goto(k, o),
             o.at \notin {"expire", "lookup", "row", "fill", "decide", "allowed"}
      PROVE  LateSound(told', excused', op'[k])
      BY <1>2, <1>3 DEF LateSound
<1>4. CASE Abandon(k)
      BY <1>3, <1>4 DEF Abandon, Idle
<1>5. CASE Issue(k)
  <2>1. ASSUME NEW g \in Grants, RequestToken(k, g) PROVE LateSound(told', excused', op'[k])
        BY <1>3, <2>1 DEF RequestToken
  <2>2. ASSUME NEW g \in Grants, NEW s \in SPs, RequestTokenInFull(k, g, s)
        PROVE  LateSound(told', excused', op'[k])
        BY <1>3, <2>2 DEF RequestTokenInFull
  <2>3. CASE FindToken(k)
        BY <1>3, <2>3 DEF FindToken, Idle
  <2>4. CASE InsertToken(k)
        BY <1>3, <2>4 DEF InsertToken
  <2>5. CASE CacheIssued(k)
        BY <1>3, <2>5 DEF CacheIssued, Idle
  <2> QED BY <1>5, <2>1, <2>2, <2>3, <2>4, <2>5 DEF Issue
<1>6. CASE Revoke(k)
  <2>1. ASSUME NEW i \in Jtis, ReadForRevocation(k, i) PROVE LateSound(told', excused', op'[k])
        BY <1>3, <2>1 DEF ReadForRevocation
  <2>2. CASE RevokeToken(k)
    <3>1. PICK at \in {"mark", "recheck"} : Goto(k, [op[k] EXCEPT !.at = at])
          BY <2>2 DEF RevokeToken
    <3>2. op[k].at = "revoke"
          BY <2>2 DEF RevokeToken
    <3>3. [op[k] EXCEPT !.at = at].at = at
          BY <3>2, <1>c, OperationTurns
    <3> QED BY <3>1, <3>3, <1>3
  <2>3. CASE AnswerAlreadyRevoked(k) \/ MarkRevoked(k)
        BY <1>3, <2>3 DEF AnswerAlreadyRevoked, MarkRevoked, Idle
  <2> QED BY <1>6, <2>1, <2>2, <2>3 DEF Revoke
<1>7. ASSUME NEW i \in Jtis, NEW s \in SPs, NEW n \in Nonces, CheckNonce(k, i, s, n)
      PROVE  LateSound(told', excused', op'[k])
  <2> DEFINE o == [at |-> "expire", j |-> i, s |-> s, n |-> n, late |-> told[i]]
  <2>1. Goto(k, o) /\ LateSound(told', excused', o)
        BY <1>7, <1>b DEF CheckNonce, LateSound
  <2> HIDE DEF o
  <2> QED BY <2>1, <1>2
<1>8. CASE ExpireNonce(k)
  <2> DEFINE o == [op[k] EXCEPT !.at = "lookup"]
  <2>1. op[k] \in Verification /\ op[k].at = "expire" /\ Goto(k, o)
        BY <1>8, <1>c, OperationShape DEF ExpireNonce
  <2>2. o.at = "lookup" /\ o.j = op[k].j /\ o.late = op[k].late
        BY <2>1, VerificationShape, Zenon
  <2> HIDE DEF o
  <2>3. LateSound(told', excused', o)
        BY <2>1, <2>2, <1>e DEF LateSound
  <2> QED BY <2>1, <2>3, <1>2
<1>9. CASE LookUpCached(k)
  <2> DEFINE c == op[k]
  <2>1. PICK hit \in BOOLEAN :
          /\ hit => cache[c.j].kind = "full" /\ ~cache[c.j].revoked
          /\ Goto(k, [at |-> "row", hit |-> hit, req |-> c])
        BY <1>9 DEF LookUpCached, Hit
  <2>2. c.at = "lookup" /\ c.j \in Jtis
        BY <1>9, <1>d DEF LookUpCached
  <2>3. c.late \subseteq told[c.j] /\ c.late \subseteq told'[c.j]
        BY <2>2, <1>c, <1>e DEF LateSound
  <2>4. hit /\ c.late # {} => c.j \in excused
        BY <2>1, <2>2, <2>3 DEF TellsTruth, FlagOk
  <2> DEFINE o == [at |-> "row", hit |-> hit, req |-> c]
  <2>5. LateSound(told', excused', o)
        BY <2>3, <2>4, <1>b DEF LateSound
  <2>6. Goto(k, o)
        BY <2>1
  <2> HIDE DEF o
  <2> QED BY <2>5, <2>6, <1>2
<1>10. CASE ReadRow(k)
  <2> DEFINE c == op[k]
             o(t) == [at |-> IF c.hit THEN "decide" ELSE "fill", row |-> t.token[c.req.j], req |-> c.req]
  <2>1. PICK t \in Views :
          /\ Goto(k, o(t))
          /\ Excuse(c.req.j, ~c.hit /\ primary.token[c.req.j].revoked)
        BY <1>10 DEF ReadRow
  <2>2. c.at = "row" /\ c.req.j \in Jtis
        BY <1>10, <1>d DEF ReadRow
  <2>3. c.req.late \subseteq told[c.req.j] /\ c.req.late \subseteq told'[c.req.j]
        BY <2>2, <1>c, <1>e DEF LateSound
  <2>4. c.req.late # {} => c.req.j \in excused'
    <3>1. CASE c.hit
          BY <2>2, <3>1, <1>e DEF LateSound
    <3>2. CASE ~c.hit /\ c.req.late # {} /\ c.req.j \notin excused
      <4>1. primary.token[c.req.j].revoked
            BY <2>2, <2>3, <3>2 DEF TellsTruth, Revoked
      <4> QED BY <2>1, <3>2, <4>1 DEF Excuse
    <3> QED BY <3>1, <3>2, <1>b
  <2>5. LateSound(told', excused', o(t))
        BY <2>3, <2>4 DEF LateSound
  <2> HIDE DEF o
  <2> QED BY <2>1, <2>5, <1>2
<1>11. CASE FillCache(k)
  <2> DEFINE o == [op[k] EXCEPT !.at = "decide"]
  <2>1. op[k].at = "fill" /\ Goto(k, o)
        BY <1>11 DEF FillCache
  <2>2. o.at = "decide" /\ o.req = op[k].req
        BY <2>1, <1>c, OperationTurns, Zenon
  <2> HIDE DEF o
  <2>3. LateSound(told', excused', o)
        BY <2>1, <2>2, <1>e DEF LateSound
  <2> QED BY <2>1, <2>3, <1>2
<1>12. CASE Decide(k)
  <2> DEFINE o == [at |-> "allowed", time |-> now, again |-> <<op[k].req.n, op[k].req.j>> \in spent,
                   row |-> op[k].row, req |-> op[k].req]
  <2>1. op[k].at = "decide" /\ Goto(k, o)
        BY <1>12 DEF Decide
  <2>2. LateSound(told', excused', o)
        BY <2>1, <1>e DEF LateSound
  <2> HIDE DEF o
  <2> QED BY <2>1, <2>2, <1>2
<1>13. CASE AnswerAllowed(k)
       BY <1>3, <1>13 DEF AnswerAllowed, Idle
<1>14. CASE Verify(k)
       BY <1>14, <1>7, <1>8, <1>9, <1>10, <1>11, <1>12, <1>13, Zenon DEF Verify
<1> QED BY <1>1, <1>4, <1>5, <1>6, <1>14, <1>a, HandlerStep

\* A verification that starts after a client was told of the revocation is
\* refused, however requests and replicas interleave, but for the tokens of
\* Excuse: with no copy on its way when the row is updated, every later copy
\* carries the mark.
THEOREM RevocationObeyed == Spec => []RevocationHolds
<1>1. Init => NoCopies /\ MarksMade /\ TellsTruth /\ LateSounds
  <2>1. Init => NoCopies /\ MarksMade
        BY DEF Init, DbInit, NoCopies, MarksMade, Revoked, There
  <2>2. Init => TellsTruth /\ LateSounds
        BY DEF Init, TellsTruth, LateSounds, LateSound, Idle
  <2> QED BY <2>1, <2>2
<1>2. Sound /\ NoCopies /\ MarksMade /\ TellsTruth /\ LateSounds /\ [Next]_vars
        => (NoCopies /\ MarksMade /\ TellsTruth /\ LateSounds)'
      BY NoCopiesNext, MarksMadeNext, TellsTruthNext, LateSoundsNext
<1>3. LateSounds => RevocationHolds
      BY DEF LateSounds, LateSound, RevocationHolds, Allowed
<1> QED BY <1>1, <1>2, <1>3, SoundAlways, PTL DEF Spec

-----------------------------------------------------------------------------
(* A nonce accepted for a token is not accepted again before it expires. *)

Later == {"lookup", "row", "fill", "decide"}

\* The verification a stage belongs to.
Ver(o) == IF o.at \in {"expire", "lookup"} THEN o ELSE o.req

\* The verification in a request, wherever it is.
LEMMA VerShape ==
  ASSUME NEW o \in Operation, o.at \in Later \cup {"expire", "allowed"}
  PROVE  Ver(o) \in Verification /\ Ver(o).n \in Nonces /\ Ver(o).j \in Jtis
<1>1. Ver(o) \in Verification
      BY OperationShape DEF Ver, Later
<1> QED BY <1>1, VerificationShape

\* How one request's part in a verification moves.
LEMMA FlightStep ==
  ASSUME Sound, [Next]_vars, NEW k \in Handlers
  PROVE  \/ op'[k] = op[k]
         \/ op'[k].at \notin Later \cup {"expire", "allowed"}
         \/ \E j \in Jtis, s \in SPs, n \in Nonces :
              /\ CheckNonce(k, j, s, n)
              /\ op'[k].at = "expire" /\ Ver(op'[k]).n = n /\ Ver(op'[k]).j = j
         \/ /\ op[k].at \in Later \cup {"expire"}
            /\ op'[k].at \in Later
            /\ op[k].at = "expire" => ExpireNonce(k)
            /\ Ver(op'[k]).n = Ver(op[k]).n /\ Ver(op'[k]).j = Ver(op[k]).j
         \/ Decide(k)
<1>a. /\ TypeOK /\ op \in [Handlers -> Operation] /\ op[k] \in Operation
      BY DEF Sound, TypeOK
<1>1. CASE op'[k] = op[k]
      BY <1>1
<1>2. ASSUME NEW o, Goto(k, o), o.at \notin Later \cup {"expire", "allowed"}
      PROVE  op'[k].at \notin Later \cup {"expire", "allowed"}
      BY <1>2, <1>a DEF Goto
<1>3. CASE Abandon(k)
      BY <1>2, <1>3 DEF Abandon, Idle, Later
<1>4. CASE Issue(k)
  <2>1. ASSUME NEW g \in Grants, RequestToken(k, g)
        PROVE  op'[k].at \notin Later \cup {"expire", "allowed"}
        BY <1>2, <2>1 DEF RequestToken, Later
  <2>2. ASSUME NEW g \in Grants, NEW s \in SPs, RequestTokenInFull(k, g, s)
        PROVE  op'[k].at \notin Later \cup {"expire", "allowed"}
        BY <1>2, <2>2 DEF RequestTokenInFull, Later
  <2>3. CASE FindToken(k)
        BY <1>2, <2>3 DEF FindToken, Idle, Later
  <2>4. CASE InsertToken(k)
        BY <1>2, <2>4 DEF InsertToken, Later
  <2>5. CASE CacheIssued(k)
        BY <1>2, <2>5 DEF CacheIssued, Idle, Later
  <2> QED BY <1>4, <2>1, <2>2, <2>3, <2>4, <2>5 DEF Issue
<1>5. CASE Revoke(k)
  <2>1. ASSUME NEW i \in Jtis, ReadForRevocation(k, i)
        PROVE  op'[k].at \notin Later \cup {"expire", "allowed"}
        BY <1>2, <2>1 DEF ReadForRevocation, Later
  <2>2. CASE RevokeToken(k)
    <3>1. PICK at \in {"mark", "recheck"} : Goto(k, [op[k] EXCEPT !.at = at])
          BY <2>2 DEF RevokeToken
    <3>2. op[k].at = "revoke"
          BY <2>2 DEF RevokeToken
    <3>3. [op[k] EXCEPT !.at = at].at = at
          BY <3>2, <1>a, OperationTurns
    <3> QED BY <3>1, <3>3, <1>2 DEF Later
  <2>3. CASE AnswerAlreadyRevoked(k) \/ MarkRevoked(k)
        BY <1>2, <2>3 DEF AnswerAlreadyRevoked, MarkRevoked, Idle, Later
  <2> QED BY <1>5, <2>1, <2>2, <2>3 DEF Revoke
<1>6. ASSUME NEW j \in Jtis, NEW s \in SPs, NEW n \in Nonces, CheckNonce(k, j, s, n)
      PROVE  op'[k].at = "expire" /\ Ver(op'[k]).n = n /\ Ver(op'[k]).j = j
  <2> DEFINE o == [at |-> "expire", j |-> j, s |-> s, n |-> n, late |-> told[j]]
  <2>1. op'[k] = o
        BY <1>6, <1>a DEF CheckNonce, Goto
  <2>2. o.at = "expire" /\ o.j = j /\ o.n = n
        OBVIOUS
  <2> HIDE DEF o
  <2> QED BY <2>1, <2>2 DEF Ver
<1>7. CASE ExpireNonce(k)
  <2> DEFINE o == [op[k] EXCEPT !.at = "lookup"]
  <2>1. op[k] \in Verification /\ op[k].at = "expire" /\ op'[k] = o
        BY <1>7, <1>a, OperationShape DEF ExpireNonce, Goto
  <2>2. o.at = "lookup" /\ o.j = op[k].j /\ o.n = op[k].n
        BY <2>1, VerificationShape, Zenon
  <2> HIDE DEF o
  <2> QED BY <2>1, <2>2, <1>7 DEF Ver, Later
<1>8. CASE LookUpCached(k)
  <2>1. PICK hit \in BOOLEAN : Goto(k, [at |-> "row", hit |-> hit, req |-> op[k]])
        BY <1>8 DEF LookUpCached
  <2>2. op[k].at = "lookup" /\ op'[k].at = "row" /\ op'[k].req = op[k]
        BY <1>8, <2>1, <1>a DEF LookUpCached, Goto
  <2> QED BY <2>2 DEF Ver, Later
<1>9. CASE ReadRow(k)
  <2>1. PICK t \in Views : Goto(k, [at |-> IF op[k].hit THEN "decide" ELSE "fill",
                                   row |-> t.token[op[k].req.j], req |-> op[k].req])
        BY <1>9 DEF ReadRow
  <2>2. op[k].at = "row" /\ op'[k].at \in {"fill", "decide"} /\ op'[k].req = op[k].req
        BY <1>9, <2>1, <1>a DEF ReadRow, Goto
  <2> QED BY <2>2 DEF Ver, Later
<1>10. CASE FillCache(k)
  <2> DEFINE o == [op[k] EXCEPT !.at = "decide"]
  <2>1. op[k].at = "fill" /\ op'[k] = o
        BY <1>10, <1>a DEF FillCache, Goto
  <2>2. o.at = "decide" /\ o.req = op[k].req
        BY <2>1, <1>a, OperationTurns, Zenon
  <2> HIDE DEF o
  <2> QED BY <2>1, <2>2 DEF Ver, Later
<1>11. CASE AnswerAllowed(k)
       BY <1>2, <1>11 DEF AnswerAllowed, Idle, Later
<1>12. CASE Verify(k)
  <2>1. CASE \E j \in Jtis, s \in SPs, n \in Nonces : CheckNonce(k, j, s, n)
        BY <2>1, <1>6
  <2> QED BY <1>12, <2>1, <1>7, <1>8, <1>9, <1>10, <1>11, Zenon DEF Verify
<1> QED BY <1>1, <1>3, <1>4, <1>5, <1>12, <1>a, HandlerStep, Zenon

\* No token is dated in the future.
Dated ==
  /\ now <= MaxTime
  /\ \A j \in Jtis : There(j) => primary.token[j].issued <= now
  /\ \A h \in Handlers : op[h].at = "insert" => op[h].issued <= now

\* No token is issued in the future, and time goes on.
LEMMA DatedNext == Sound /\ Dated /\ [Next]_vars => Dated' /\ now <= now' /\ now' \in Nat
<1> USE Constants
<1> SUFFICES ASSUME Sound, Dated, [Next]_vars PROVE Dated' /\ now <= now' /\ now' \in Nat
    OBVIOUS
<1>a. /\ TypeOK /\ op \in [Handlers -> Operation] /\ primary \in State /\ now \in Nat
      BY DEF Sound, TypeOK
<1>b. Before(primary, primary')
      BY <1>a, DbStep
<1>1. /\ now \in Nat /\ now' \in Nat /\ now <= now' /\ now' <= MaxTime
      /\ now' = now \/ UNCHANGED <<primary, op>>
  <2>1. CASE Tick
        BY <2>1, <1>a DEF Tick, dbVars
  <2>2. CASE UNCHANGED now
        BY <2>2, <1>a DEF Dated
  <2>3. CASE UNCHANGED vars \/ (\E g \in Grants : ApproveGrant(g) \/ RevokeGrant(g))
               \/ \E r \in Replicas : CatchUp(r)
        BY <2>2, <2>3 DEF vars, ApproveGrant, RevokeGrant, CatchUp
  <2>4. ASSUME NEW h \in Handlers, Issue(h) \/ Revoke(h) PROVE UNCHANGED now
        BY <2>4 DEF Issue, RequestToken, RequestTokenInFull, FindToken, InsertToken, CacheIssued,
                    Revoke, ReadForRevocation, RevokeToken, AnswerAlreadyRevoked, MarkRevoked
  <2>5. ASSUME NEW h \in Handlers, Verify(h) \/ Abandon(h) PROVE UNCHANGED now
        BY <2>5 DEF Verify, CheckNonce, ExpireNonce, LookUpCached, ReadRow, FillCache, Decide,
                    AnswerAllowed, Abandon
  <2> QED BY <2>1, <2>2, <2>3, <2>4, <2>5, Zenon DEF Next
\* The rows there were keep their date; a new one has that of its request.
<1>2. ASSUME NEW j \in Jtis, There(j)' PROVE primary'.token[j].issued <= now'
  <2>1. CASE There(j)
    <3>1. primary.token[j] \in Row
          BY <2>1, <1>a, StateShape DEF There
    <3>2. primary.token[j].issued \in Nat
          BY <3>1, RowShape
    <3>3. primary'.token[j].issued = primary.token[j].issued
          BY <2>1, <1>b DEF Before, There
    <3> QED BY <2>1, <3>2, <3>3, <1>1 DEF Dated
  <2>2. ASSUME NEW h \in Handlers, InsertToken(h), ~There(j)
        PROVE  primary'.token[j].issued <= now'
    <3> DEFINE row == [grant |-> op[h].g, sp |-> op[h].s, issued |-> op[h].issued, revoked |-> FALSE]
    <3>1. PICK k \in Jtis : Commit([primary EXCEPT !.token[k] = row])
          BY <2>2 DEF InsertToken, SetToken
    <3>2. row.issued = op[h].issued /\ op[h].at = "insert" /\ op[h].issued \in Nat
          BY <2>2, <1>a, OperationShape DEF InsertToken
    <3> HIDE DEF row
    <3>3. primary'.token[j] = IF j = k THEN row ELSE primary.token[j]
          BY <3>1, <1>a DEF Commit, State
    <3>4. primary'.token[j] = row
          BY <2>2, <3>3, <1>2 DEF There
    <3> QED BY <3>2, <3>4, <1>1 DEF Dated
  <2>3. CASE UNCHANGED primary
        BY <2>1, <2>3, <1>2 DEF There
  <2>4. ASSUME NEW h \in Handlers, RevokeToken(h) PROVE There(j)
    <3>1. CASE UNCHANGED primary
          BY <3>1, <1>2 DEF There
    <3>2. CASE SetToken(op[h].j, [primary.token[op[h].j] EXCEPT !.revoked = TRUE])
      <4> DEFINE i == op[h].j
                 row == [primary.token[i] EXCEPT !.revoked = TRUE]
      <4>1. primary.token[i] # Absent /\ Commit([primary EXCEPT !.token[i] = row])
            BY <2>4, <3>2 DEF RevokeToken, SetToken
      <4> HIDE DEF i, row
      <4>2. j # i => primary'.token[j] = primary.token[j]
            BY <4>1, <1>a DEF Commit, State
      <4> QED BY <4>1, <4>2, <1>2 DEF There
    <3> QED BY <2>4, <3>1, <3>2 DEF RevokeToken, dbVars
  <2>5. ASSUME NEW g \in Grants, ApproveGrant(g) \/ RevokeGrant(g) PROVE There(j)
    <3>1. PICK st \in {"approved", "revoked"} : Commit([primary EXCEPT !.grant[g] = st])
          BY <2>5 DEF ApproveGrant, RevokeGrant, SetGrant
    <3>2. primary'.token = primary.token
          BY <3>1, <1>a DEF Commit, State
    <3> QED BY <3>2, <1>2 DEF There
  <2>6. ASSUME NEW h \in Handlers, Issue(h), ~InsertToken(h) PROVE UNCHANGED primary
        BY <2>6 DEF Issue, RequestToken, RequestTokenInFull, FindToken, CacheIssued, dbVars
  <2>7. ASSUME NEW h \in Handlers, Revoke(h), ~RevokeToken(h) PROVE UNCHANGED primary
        BY <2>7 DEF Revoke, ReadForRevocation, AnswerAlreadyRevoked, MarkRevoked, dbVars
  <2>8. ASSUME NEW h \in Handlers, Verify(h) \/ Abandon(h) PROVE UNCHANGED primary
        BY <2>8 DEF Verify, CheckNonce, ExpireNonce, LookUpCached, ReadRow, FillCache, Decide,
                    AnswerAllowed, Abandon, dbVars
  <2>9. CASE UNCHANGED vars \/ Tick \/ \E r \in Replicas : CatchUp(r)
        BY <2>3, <2>9 DEF vars, Tick, CatchUp, Replicate, dbVars
  <2> QED BY <2>1, <2>2, <2>3, <2>4, <2>5, <2>6, <2>7, <2>8, <2>9, Zenon DEF Next
<1>3. ASSUME NEW k \in Handlers, op'[k].at = "insert" PROVE op'[k].issued <= now'
  <2>1. CASE op'[k] = op[k]
    <3>1. op[k].issued \in Nat /\ op[k].issued <= now
          BY <2>1, <1>3, <1>a, OperationShape DEF Dated
    <3> QED BY <2>1, <3>1, <1>1
  <2>2. CASE FindToken(k)
    <3> DEFINE o == [at |-> "insert", g |-> op[k].g, s |-> op[k].s, checked |-> op[k].checked,
                     issued |-> now]
    <3>1. Goto(k, Idle) \/ Goto(k, o)
          BY <2>2 DEF FindToken
    <3>2. op'[k] = o
          BY <3>1, <1>3, <1>a DEF Goto, Idle
    <3> QED BY <3>2, <1>1
  <2>3. ASSUME NEW o, Goto(k, o), o.at # "insert" PROVE FALSE
        BY <2>3, <1>3, <1>a DEF Goto
  <2>4. CASE Issue(k) /\ ~FindToken(k)
    <3>1. ASSUME NEW g \in Grants, RequestToken(k, g) PROVE FALSE
          BY <2>3, <3>1 DEF RequestToken
    <3>2. ASSUME NEW g \in Grants, NEW s \in SPs, RequestTokenInFull(k, g, s) PROVE FALSE
          BY <2>3, <3>2 DEF RequestTokenInFull
    <3>3. CASE InsertToken(k)
          BY <2>3, <3>3 DEF InsertToken
    <3>4. CASE CacheIssued(k)
          BY <2>3, <3>4 DEF CacheIssued, Idle
    <3> QED BY <2>4, <3>1, <3>2, <3>3, <3>4 DEF Issue
  <2>5. CASE Revoke(k)
    <3>1. ASSUME NEW i \in Jtis, ReadForRevocation(k, i) PROVE FALSE
          BY <2>3, <3>1 DEF ReadForRevocation
    <3>2. CASE RevokeToken(k)
      <4>1. PICK at \in {"mark", "recheck"} : Goto(k, [op[k] EXCEPT !.at = at])
            BY <3>2 DEF RevokeToken
      <4>2. op[k].at = "revoke" /\ op[k] \in Operation
            BY <3>2, <1>a DEF RevokeToken
      <4>3. [op[k] EXCEPT !.at = at].at = at
            BY <4>2, OperationTurns
      <4> QED BY <4>1, <4>3, <2>3
    <3>3. CASE AnswerAlreadyRevoked(k) \/ MarkRevoked(k)
          BY <2>3, <3>3 DEF AnswerAlreadyRevoked, MarkRevoked, Idle
    <3> QED BY <2>5, <3>1, <3>2, <3>3 DEF Revoke
  <2>6. CASE Verify(k)
    <3>1. CASE AnswerAllowed(k)
          BY <2>3, <3>1 DEF AnswerAllowed, Idle
    <3>2. CASE Decide(k)
      <4>1. Goto(k, [at |-> "allowed", time |-> now,
                     again |-> <<op[k].req.n, op[k].req.j>> \in spent,
                     row |-> op[k].row, req |-> op[k].req])
            BY <3>2 DEF Decide
      <4> QED BY <4>1, <2>3
    <3>3. CASE op'[k].at \in Later \cup {"expire"}
          BY <3>3, <1>3 DEF Later
    <3>4. CASE op'[k].at \notin Later \cup {"expire", "allowed"} /\ op'[k] # op[k]
      <4>1. ASSUME NEW j \in Jtis, NEW s \in SPs, NEW n \in Nonces, CheckNonce(k, j, s, n) PROVE FALSE
        <5>1. Goto(k, [at |-> "expire", j |-> j, s |-> s, n |-> n, late |-> told[j]])
              BY <4>1 DEF CheckNonce
        <5> QED BY <5>1, <2>3
      <4>2. CASE ExpireNonce(k)
        <5>1. op[k] \in Verification /\ Goto(k, [op[k] EXCEPT !.at = "lookup"])
              BY <4>2, <1>a, OperationShape DEF ExpireNonce
        <5>2. [op[k] EXCEPT !.at = "lookup"].at = "lookup"
              BY <5>1, VerificationShape, Zenon
        <5> QED BY <5>1, <5>2, <2>3
      <4>3. CASE FillCache(k)
        <5>1. op[k] \in Operation /\ op[k].at = "fill" /\ Goto(k, [op[k] EXCEPT !.at = "decide"])
              BY <4>3, <1>a DEF FillCache
        <5>2. [op[k] EXCEPT !.at = "decide"].at = "decide"
              BY <5>1, OperationTurns, Zenon
        <5> QED BY <5>1, <5>2, <2>3
      <4>4. CASE LookUpCached(k)
        <5>1. PICK hit \in BOOLEAN : Goto(k, [at |-> "row", hit |-> hit, req |-> op[k]])
              BY <4>4 DEF LookUpCached
        <5> QED BY <5>1, <2>3
      <4>5. CASE ReadRow(k)
        <5>1. PICK t \in Views : Goto(k, [at |-> IF op[k].hit THEN "decide" ELSE "fill",
                                         row |-> t.token[op[k].req.j], req |-> op[k].req])
              BY <4>5 DEF ReadRow
        <5> QED BY <5>1, <2>3
      <4> QED BY <2>6, <3>1, <3>2, <4>1, <4>2, <4>3, <4>4, <4>5, Zenon DEF Verify
    <3> QED BY <2>1, <3>3, <3>4, <1>3 DEF Later
  <2>7. CASE Abandon(k)
        BY <2>3, <2>7 DEF Abandon, Idle
  <2> QED BY <2>1, <2>2, <2>4, <2>5, <2>6, <2>7, <1>a, HandlerStep
<1> QED BY <1>1, <1>2, <1>3 DEF Dated

\* Who changes the key of a nonce.
LEMMA NoncesStep ==
  ASSUME Sound, [Next]_vars, NEW n \in Nonces
  PROVE  \/ nonces'[n] = nonces[n]
         \/ nonces[n] <= now /\ nonces'[n] = Never
         \/ /\ nonces'[n] = now + NonceTTL
            /\ \E k \in Handlers : op[k].at = "expire" /\ op[k].n = n /\ ExpireNonce(k)
<1>a. nonces \in [Nonces -> Nat]
      BY DEF Sound, TypeOK
<1>1. CASE UNCHANGED nonces
      BY <1>1
<1>2. ASSUME NEW h \in Handlers, NEW j \in Jtis, NEW s \in SPs, NEW m \in Nonces,
             CheckNonce(h, j, s, m)
      PROVE  nonces'[n] = nonces[n] \/ (nonces[n] <= now /\ nonces'[n] = Never)
      BY <1>2, <1>a DEF CheckNonce
<1>3. ASSUME NEW h \in Handlers, ExpireNonce(h)
      PROVE  \/ nonces'[n] = nonces[n]
             \/ nonces'[n] = now + NonceTTL /\ op[h].at = "expire" /\ op[h].n = n
      BY <1>3, <1>a DEF ExpireNonce
<1>4. ASSUME NEW h \in Handlers, Issue(h) \/ Revoke(h) PROVE UNCHANGED nonces
      BY <1>4 DEF Issue, RequestToken, RequestTokenInFull, FindToken, InsertToken, CacheIssued,
                  Revoke, ReadForRevocation, RevokeToken, AnswerAlreadyRevoked, MarkRevoked, redis
<1>5. ASSUME NEW h \in Handlers,
             \/ LookUpCached(h) \/ ReadRow(h) \/ FillCache(h) \/ Decide(h) \/ AnswerAllowed(h)
             \/ Abandon(h)
      PROVE  UNCHANGED nonces
      BY <1>5 DEF LookUpCached, ReadRow, FillCache, Decide, AnswerAllowed, Abandon, redis
<1>6. CASE UNCHANGED vars \/ Tick \/ (\E g \in Grants : ApproveGrant(g) \/ RevokeGrant(g))
             \/ \E r \in Replicas : CatchUp(r)
      BY <1>6 DEF vars, Tick, ApproveGrant, RevokeGrant, CatchUp, redis
<1>7. ASSUME NEW h \in Handlers, Verify(h)
      PROVE  \/ nonces'[n] = nonces[n]
             \/ nonces[n] <= now /\ nonces'[n] = Never
             \/ /\ nonces'[n] = now + NonceTTL
                /\ \E k \in Handlers : op[k].at = "expire" /\ op[k].n = n /\ ExpireNonce(k)
  <2>1. CASE \E j \in Jtis, s \in SPs, m \in Nonces : CheckNonce(h, j, s, m)
        BY <2>1, <1>2
  <2>2. CASE ExpireNonce(h)
        BY <2>2, <1>3
  <2> QED BY <2>1, <2>2, <1>1, <1>5, <1>7, Zenon DEF Verify
<1> QED BY <1>1, <1>4, <1>5, <1>6, <1>7, Zenon DEF Next

Ends(j) == primary.token[j].issued + Lifetime

InFlight(h, n, j) ==
  op[h].at \in Later \cup {"expire"} /\ Ver(op[h]).n = n /\ Ver(op[h]).j = j

PastExpire(h, n, j) == InFlight(h, n, j) /\ op[h].at \in Later

\* Between SETNX and EXPIRE the key has no TTL, and one request only is there.
ExpireOwns ==
  \A h \in Handlers : op[h].at = "expire" =>
    /\ nonces[op[h].n] = Never
    /\ \A k \in Handlers \ {h} : op[k].at = "expire" => op[k].n # op[h].n

\* After EXPIRE the key outlives the token.
KeyLives ==
  \A n \in Nonces, j \in Jtis :
    <<n, j>> \in spent \/ (\E h \in Handlers : PastExpire(h, n, j))
      => There(j) /\ nonces[n] >= Ends(j)

\* A second verification with the pair only gets past SETNX once the token is over.
TwiceLate ==
  \A n \in Nonces, j \in Jtis, h \in Handlers :
    InFlight(h, n, j) /\ (<<n, j>> \in spent \/ \E k \in Handlers \ {h} : InFlight(k, n, j))
      => now >= Ends(j)

\* A token that has a row ends at some time.
LEMMA EndsNat ==
  ASSUME Sound, NEW j \in Jtis, There(j)
  PROVE  Ends(j) \in Nat /\ primary.token[j].issued \in Nat
<1>1. primary.token[j] \in Row
      BY StateShape DEF Sound, TypeOK, There
<1>2. primary.token[j].issued \in Nat
      BY <1>1, RowShape
<1> QED BY <1>2, Constants DEF Ends

\* A row keeps its end.
LEMMA EndsSame ==
  ASSUME Sound, [Next]_vars, NEW j \in Jtis, There(j)
  PROVE  There(j)' /\ Ends(j)' = Ends(j)
<1>1. Before(primary, primary')
      BY DbStep DEF Sound
<1> QED BY <1>1 DEF Before, There, Ends

\* The token of a verification in flight is in the database.
LEMMA FlightThere ==
  ASSUME Sound, NEW h \in Handlers, NEW n, NEW j \in Jtis, InFlight(h, n, j)
  PROVE  There(j)
BY DEF Sound, OpsSound, OpSound, InFlight, Ver, Later, There

\* A key without an end belongs to the one request between SETNX and EXPIRE.
LEMMA ExpireOwnsNext == Sound /\ Dated /\ ExpireOwns /\ [Next]_vars => ExpireOwns'
<1> USE Constants
<1> SUFFICES ASSUME Sound, Dated, ExpireOwns, [Next]_vars PROVE ExpireOwns'
    OBVIOUS
<1>a. /\ op \in [Handlers -> Operation] /\ nonces \in [Nonces -> Nat] /\ now \in Nat
      /\ now < Never
      BY DEF Sound, TypeOK, Dated
\* Who is at "expire" was there before, or has just passed SETNX.
<1>1. ASSUME NEW h \in Handlers, op'[h].at = "expire"
      PROVE  \/ op'[h] = op[h]
             \/ \E j \in Jtis, s \in SPs : CheckNonce(h, j, s, op'[h].n) /\ op'[h].n \in Nonces
  <2>1. ASSUME Decide(h) PROVE FALSE
        BY <2>1, <1>1, <1>a DEF Decide, Goto
  <2>2. ASSUME NEW j \in Jtis, NEW s \in SPs, NEW n \in Nonces, CheckNonce(h, j, s, n),
               Ver(op'[h]).n = n
        PROVE  \E i \in Jtis, t \in SPs : CheckNonce(h, i, t, op'[h].n) /\ op'[h].n \in Nonces
    <3>1. op'[h].n = n
          BY <2>2, <1>1 DEF Ver
    <3> QED BY <2>2, <3>1
  <2>3. op'[h].at \in Later \cup {"expire", "allowed"} /\ op'[h].at \notin Later
        BY <1>1 DEF Later
  <2> QED BY <2>1, <2>2, <2>3, FlightStep, Zenon
<1>2. ASSUME NEW h \in Handlers, op[h].at = "expire" PROVE op[h].n \in Nonces
  <2>1. op[h] \in Verification
        BY <1>2, <1>a, OperationShape
  <2> QED BY <2>1, VerificationShape
\* A request that has just passed SETNX is alone.
<1>3. ASSUME NEW h \in Handlers, NEW n \in Nonces, NEW j \in Jtis, NEW s \in SPs,
             CheckNonce(h, j, s, n), NEW k \in Handlers, k # h, op'[k].at = "expire"
      PROVE  op'[k].n # n
  <2>1. op'[k] = op[k] /\ nonces[n] <= now
        BY <1>3, <1>a DEF CheckNonce, Goto
  <2>2. nonces[op[k].n] = Never
        BY <2>1, <1>3 DEF ExpireOwns
  <2> QED BY <2>1, <2>2, <1>a
<1>4. ASSUME NEW h \in Handlers, op'[h].at = "expire" PROVE nonces'[op'[h].n] = Never
  <2>1. CASE op'[h] = op[h]
    <3> DEFINE n == op[h].n
    <3>1. n \in Nonces /\ nonces[n] = Never /\ op[h].at = "expire"
          BY <2>1, <1>2, <1>4 DEF ExpireOwns
    <3>2. ASSUME NEW k \in Handlers, op[k].at = "expire", op[k].n = n, ExpireNonce(k) PROVE FALSE
      <4>1. k = h
            BY <3>1, <3>2 DEF ExpireOwns
      <4>2. op'[k].at = "lookup"
        <5>1. op[k] \in Verification /\ Goto(k, [op[k] EXCEPT !.at = "lookup"])
              BY <3>2, <1>a, OperationShape DEF ExpireNonce
        <5>2. [op[k] EXCEPT !.at = "lookup"].at = "lookup"
              BY <5>1, VerificationShape, Zenon
        <5> QED BY <5>1, <5>2, <1>a DEF Goto
      <4> QED BY <4>1, <4>2, <1>4
    <3>3. nonces'[n] = Never
      <4> HIDE DEF n
      <4> QED BY <3>1, <3>2, NoncesStep
    <3> QED BY <2>1, <3>3
  <2>2. ASSUME NEW j \in Jtis, NEW s \in SPs, CheckNonce(h, j, s, op'[h].n), op'[h].n \in Nonces
        PROVE  nonces'[op'[h].n] = Never
        BY <2>2, <1>a DEF CheckNonce
  <2> QED BY <2>1, <2>2, <1>1, <1>4
<1>5. ASSUME NEW h \in Handlers, NEW k \in Handlers, k # h, op'[h].at = "expire",
             op'[k].at = "expire"
      PROVE  op'[k].n # op'[h].n
  <2>1. CASE op'[h] = op[h] /\ op'[k] = op[k]
        BY <2>1, <1>5 DEF ExpireOwns
  <2>2. CASE op'[h] # op[h]
        BY <2>2, <1>1, <1>3, <1>5
  <2>3. CASE op'[k] # op[k]
        BY <2>3, <1>1, <1>3, <1>5
  <2> QED BY <2>1, <2>2, <2>3
<1> QED BY <1>4, <1>5 DEF ExpireOwns

\* The pairs spent are those of verifications decided.
LEMMA SpentStep ==
  ASSUME Sound, [Next]_vars, NEW n, NEW j, <<n, j>> \in spent', <<n, j>> \notin spent
  PROVE  \E h \in Handlers : Decide(h) /\ PastExpire(h, n, j)
<1>1. ASSUME NEW h \in Handlers, Decide(h)
      PROVE  PastExpire(h, n, j)
  <2>1. op[h].at = "decide" /\ <<n, j>> = <<op[h].req.n, op[h].req.j>>
        BY <1>1 DEF Decide
  <2> QED BY <2>1 DEF PastExpire, InFlight, Ver, Later
<1>2. CASE UNCHANGED vars \/ Tick \/ (\E g \in Grants : ApproveGrant(g) \/ RevokeGrant(g))
             \/ \E r \in Replicas : CatchUp(r)
      BY <1>2 DEF vars, Tick, ApproveGrant, RevokeGrant, CatchUp, history
<1>3. ASSUME NEW h \in Handlers, Issue(h) \/ Revoke(h) PROVE UNCHANGED spent
      BY <1>3 DEF Issue, RequestToken, RequestTokenInFull, FindToken, InsertToken, CacheIssued,
                  Revoke, ReadForRevocation, RevokeToken, AnswerAlreadyRevoked, MarkRevoked, history
<1>4. ASSUME NEW h \in Handlers, Verify(h) \/ Abandon(h), ~Decide(h) PROVE UNCHANGED spent
      BY <1>4 DEF Verify, CheckNonce, ExpireNonce, LookUpCached, ReadRow, FillCache, AnswerAllowed,
                  Abandon, history
<1> QED BY <1>1, <1>2, <1>3, <1>4 DEF Next

\* Who is in flight was before, or has just passed SETNX.
LEMMA FlightBegins ==
  ASSUME Sound, [Next]_vars, NEW h \in Handlers, NEW n, NEW j, InFlight(h, n, j)'
  PROVE  \/ InFlight(h, n, j) /\ ~Decide(h)
         \/ /\ n \in Nonces /\ j \in Jtis /\ op'[h].at = "expire"
            /\ \E s \in SPs : CheckNonce(h, j, s, n)
<1>a. op \in [Handlers -> Operation]
      BY DEF Sound, TypeOK
<1>1. ~Decide(h)
  <2>1. ASSUME Decide(h) PROVE op'[h].at = "allowed"
        BY <2>1, <1>a DEF Decide, Goto
  <2> QED BY <2>1 DEF InFlight, Later
<1>2. op'[h].at \in Later \cup {"expire"} /\ Ver(op'[h]).n = n /\ Ver(op'[h]).j = j
      BY DEF InFlight
<1>3. CASE op'[h] = op[h]
      BY <1>1, <1>2, <1>3 DEF InFlight
<1>4. ASSUME NEW i \in Jtis, NEW s \in SPs, NEW m \in Nonces, CheckNonce(h, i, s, m),
             op'[h].at = "expire", Ver(op'[h]).n = m, Ver(op'[h]).j = i
      PROVE  n \in Nonces /\ j \in Jtis /\ op'[h].at = "expire" /\ \E t \in SPs : CheckNonce(h, j, t, n)
      BY <1>2, <1>4
<1>5. CASE /\ op[h].at \in Later \cup {"expire"}
           /\ Ver(op'[h]).n = Ver(op[h]).n /\ Ver(op'[h]).j = Ver(op[h]).j
      BY <1>1, <1>2, <1>5 DEF InFlight
<1> QED BY <1>1, <1>2, <1>3, <1>4, <1>5, FlightStep, Zenon

\* A verification gets past EXPIRE by taking that step.
LEMMA PastExpireBegins ==
  ASSUME Sound, [Next]_vars, NEW h \in Handlers, NEW n, NEW j, PastExpire(h, n, j)'
  PROVE  PastExpire(h, n, j) \/ (InFlight(h, n, j) /\ op[h].at = "expire" /\ ExpireNonce(h))
<1>a. op \in [Handlers -> Operation]
      BY DEF Sound, TypeOK
<1>1. InFlight(h, n, j)
  <2>1. InFlight(h, n, j)' /\ op'[h].at # "expire"
        BY DEF PastExpire, Later
  <2> QED BY <2>1, FlightBegins
<1>2. ASSUME Decide(h) PROVE FALSE
  <2>1. op'[h].at = "allowed"
        BY <1>2, <1>a DEF Decide, Goto
  <2> QED BY <2>1 DEF PastExpire, Later
<1>3. op'[h].at \in Later /\ op'[h].at # "expire"
      BY DEF PastExpire, Later
<1>4. CASE op'[h] = op[h]
      BY <1>1, <1>3, <1>4 DEF PastExpire
<1>5. CASE op[h].at \in Later \cup {"expire"} /\ (op[h].at = "expire" => ExpireNonce(h))
      BY <1>1, <1>5 DEF PastExpire
<1> QED BY <1>2, <1>3, <1>4, <1>5, FlightStep, Zenon

\* After EXPIRE the key outlives the token.
LEMMA KeyLivesNext == Sound /\ Dated /\ KeyLives /\ [Next]_vars => KeyLives'
<1> USE Constants
<1> SUFFICES ASSUME Sound, Dated, KeyLives, [Next]_vars, NEW n \in Nonces, NEW j \in Jtis,
                    (<<n, j>> \in spent \/ \E h \in Handlers : PastExpire(h, n, j))'
             PROVE  There(j)' /\ nonces'[n] >= Ends(j)'
    BY DEF KeyLives
<1>a. /\ nonces \in [Nonces -> Nat] /\ now \in Nat /\ now <= MaxTime
      BY DEF Sound, TypeOK, Dated
\* A key written or rewritten outlives the token.
<1>1. ASSUME There(j), nonces[n] >= Ends(j) \/ nonces'[n] = now + NonceTTL
      PROVE  There(j)' /\ nonces'[n] >= Ends(j)'
  <2>1. /\ Ends(j) \in Nat /\ primary.token[j].issued \in Nat
        /\ There(j)' /\ Ends(j)' = Ends(j)
        BY <1>1, EndsNat, EndsSame
  <2>2. primary.token[j].issued <= now
        BY <1>1 DEF Dated
  <2>3. Ends(j) = primary.token[j].issued + Lifetime
        BY DEF Ends
  <2>4. now + NonceTTL >= Ends(j) /\ Never >= Ends(j)
        BY <2>1, <2>2, <2>3, <1>a
  <2>5. nonces'[n] \in {nonces[n], Never, now + NonceTTL}
        BY NoncesStep
  <2>6. nonces'[n] >= Ends(j)
    <3>1. CASE nonces'[n] = now + NonceTTL
          BY <2>4, <3>1
    <3>2. CASE nonces'[n] = Never
          BY <2>4, <3>2
    <3>3. CASE nonces'[n] = nonces[n] /\ nonces[n] >= Ends(j)
          BY <3>3
    <3> QED BY <2>5, <3>1, <3>2, <3>3, <1>1
  <2> QED BY <2>1, <2>6
<1>2. CASE <<n, j>> \in spent \/ \E h \in Handlers : PastExpire(h, n, j)
      BY <1>1, <1>2 DEF KeyLives
<1>3. CASE <<n, j>> \in spent' /\ <<n, j>> \notin spent
      BY <1>2, <1>3, SpentStep
<1>4. ASSUME NEW h \in Handlers, PastExpire(h, n, j)', ~PastExpire(h, n, j)
      PROVE  There(j)' /\ nonces'[n] >= Ends(j)'
  <2>1. InFlight(h, n, j) /\ op[h].at = "expire" /\ ExpireNonce(h)
        BY <1>4, PastExpireBegins
  <2>2. There(j)
        BY <2>1, FlightThere
  <2>3. nonces'[n] = now + NonceTTL
    <3>1. op[h].n = n
          BY <2>1 DEF InFlight, Ver
    <3> QED BY <2>1, <3>1, <1>a DEF ExpireNonce
  <2> QED BY <2>2, <2>3, <1>1
<1> QED BY <1>2, <1>3, <1>4

\* A second verification past SETNX comes after the token's end.
LEMMA TwiceLateNext ==
  Sound /\ Dated /\ ExpireOwns /\ KeyLives /\ TwiceLate /\ [Next]_vars => TwiceLate'
<1> USE Constants
<1> SUFFICES ASSUME Sound, Dated, ExpireOwns, KeyLives, TwiceLate, [Next]_vars,
                    NEW n \in Nonces, NEW j \in Jtis, NEW h \in Handlers, InFlight(h, n, j)',
                    \/ <<n, j>> \in spent'
                    \/ \E k \in Handlers \ {h} : InFlight(k, n, j)'
             PROVE  now' >= Ends(j)'
    BY DEF TwiceLate
<1>a. /\ op \in [Handlers -> Operation] /\ nonces \in [Nonces -> Nat] /\ now \in Nat
      /\ now < Never /\ now' \in Nat /\ now <= now'
      BY DatedNext, SMTT(30) DEF Sound, TypeOK, Dated
<1>1. ASSUME There(j), now >= Ends(j) PROVE now' >= Ends(j)'
  <2>1. Ends(j) \in Nat /\ Ends(j)' = Ends(j)
        BY <1>1, EndsNat, EndsSame
  <2> QED BY <2>1, <1>1, <1>a
\* The pair of another verification, past or in flight, keeps SETNX shut.
<1>2. ASSUME NEW k \in Handlers, NEW s \in SPs, CheckNonce(k, j, s, n),
             \/ <<n, j>> \in spent
             \/ \E i \in Handlers \ {k} : InFlight(i, n, j)
      PROVE  now' >= Ends(j)'
  <2>1. nonces[n] <= now
        BY <1>2 DEF CheckNonce
  <2>2. CASE <<n, j>> \in spent \/ \E i \in Handlers : PastExpire(i, n, j)
    <3>1. There(j) /\ nonces[n] >= Ends(j)
          BY <2>2 DEF KeyLives
    <3>2. Ends(j) \in Nat
          BY <3>1, EndsNat
    <3> QED BY <2>1, <3>1, <3>2, <1>1, <1>a
  <2>3. ASSUME NEW i \in Handlers, InFlight(i, n, j), ~PastExpire(i, n, j) PROVE FALSE
    <3>1. op[i].at = "expire" /\ op[i].n = n
          BY <2>3 DEF InFlight, PastExpire, Ver
    <3>2. nonces[n] = Never
          BY <3>1 DEF ExpireOwns
    <3> QED BY <2>1, <3>2, <1>a
  <2> QED BY <2>2, <2>3, <1>2
\* While one request moves the others stay, and nothing is spent by SETNX.
<1>3. ASSUME NEW k \in Handlers, NEW s \in SPs, CheckNonce(k, j, s, n)
      PROVE  spent' = spent /\ \A i \in Handlers \ {k} : op'[i] = op[i]
      BY <1>3, <1>a DEF CheckNonce, Goto, history
<1>4. ASSUME NEW k \in Handlers, NEW s \in SPs, CheckNonce(k, j, s, n),
             \/ <<n, j>> \in spent'
             \/ \E i \in Handlers \ {k} : InFlight(i, n, j)'
      PROVE  now' >= Ends(j)'
  <2>1. spent' = spent /\ \A i \in Handlers \ {k} : op'[i] = op[i]
        BY <1>3, <1>4
  <2>2. \A i \in Handlers \ {k} : InFlight(i, n, j)' => InFlight(i, n, j)
        BY <2>1 DEF InFlight
  <2> QED BY <2>1, <2>2, <1>2, <1>4
<1>5. CASE \E s \in SPs : CheckNonce(h, j, s, n)
      BY <1>4, <1>5
<1>6. CASE InFlight(h, n, j) /\ ~Decide(h)
  <2>1. There(j)
        BY <1>6, FlightThere
  <2>2. ASSUME <<n, j>> \in spent \/ \E k \in Handlers \ {h} : InFlight(k, n, j)
        PROVE  now' >= Ends(j)'
    <3>1. now >= Ends(j)
          BY <1>6, <2>2 DEF TwiceLate
    <3> QED BY <2>1, <3>1, <1>1
  <2>3. CASE <<n, j>> \in spent' /\ <<n, j>> \notin spent
    <3>1. PICK k \in Handlers : Decide(k) /\ PastExpire(k, n, j)
          BY <2>3, SpentStep
    <3>2. k # h /\ InFlight(k, n, j)
          BY <3>1, <1>6 DEF PastExpire
    <3> QED BY <2>2, <3>2
  <2>4. ASSUME NEW k \in Handlers \ {h}, InFlight(k, n, j)' PROVE now' >= Ends(j)'
    <3>1. CASE InFlight(k, n, j)
          BY <2>2, <3>1
    <3>2. CASE \E s \in SPs : CheckNonce(k, j, s, n)
          BY <1>4, <3>2
    <3> QED BY <2>4, <3>1, <3>2, FlightBegins
  <2> QED BY <2>2, <2>3, <2>4
<1> QED BY <1>5, <1>6, FlightBegins

AgainLate ==
  \A h \in Handlers : op[h].at = "allowed" /\ op[h].again => op[h].time >= Exp(op[h].row)

\* So does a second one that was allowed.
LEMMA AgainLateNext == Sound /\ TwiceLate /\ AgainLate /\ [Next]_vars => AgainLate'
<1> SUFFICES ASSUME Sound, TwiceLate, AgainLate, [Next]_vars, NEW h \in Handlers,
                    op'[h].at = "allowed", op'[h].again
             PROVE  op'[h].time >= Exp(op'[h].row)
    BY DEF AgainLate, Exp
<1>a. op \in [Handlers -> Operation] /\ op[h] \in Operation /\ OpSound(primary, op[h])
      BY DEF Sound, TypeOK, OpsSound
<1>1. CASE op'[h] = op[h]
      BY <1>1 DEF AgainLate
<1>2. CASE Decide(h)
  <2> DEFINE n == op[h].req.n
             j == op[h].req.j
  <2>1. op[h].at = "decide"
        BY <1>2 DEF Decide
  <2>2. /\ op'[h].time = now /\ op'[h].row = op[h].row /\ op'[h].again = (<<n, j>> \in spent)
        BY <1>2, <1>a DEF Decide, Goto
  <2>3. n \in Nonces /\ j \in Jtis
        BY <2>1, <1>a, OperationShape, VerificationShape
  <2>4. InFlight(h, n, j)
        BY <2>1 DEF InFlight, Ver, Later
  <2>5. op[h].row.issued = primary.token[j].issued
        BY <2>1, <1>a DEF OpSound
  <2>6. now >= Ends(j)
    <3> HIDE DEF n, j
    <3> QED BY <2>2, <2>3, <2>4 DEF TwiceLate
  <2> QED BY <2>2, <2>5, <2>6 DEF Ends, Exp
<1>3. op'[h].at \notin Later
      BY DEF Later
<1> QED BY <1>1, <1>2, <1>3, FlightStep

\* A nonce is not accepted twice for a token before the token expires, whatever
\* order SETNX, EXPIRE and the rest of two verifications take: before EXPIRE the
\* key has no TTL, after it the key outlives the token.
THEOREM ReplaysRejected == Spec => []ReplayRejected
<1> USE Constants
<1>1. Init => Dated /\ ExpireOwns /\ KeyLives /\ TwiceLate /\ AgainLate
  <2> SUFFICES ASSUME Init PROVE Dated /\ ExpireOwns /\ KeyLives /\ TwiceLate /\ AgainLate
      OBVIOUS
  <2>1. /\ \A h \in Handlers : op[h].at = "idle"
        /\ \A j \in Jtis : ~There(j)
        /\ now = 0 /\ spent = {}
        BY DEF Init, DbInit, There, Idle
  <2> QED BY <2>1 DEF Dated, ExpireOwns, KeyLives, TwiceLate, AgainLate, InFlight, PastExpire, Later
<1>2. Sound /\ Dated /\ ExpireOwns /\ KeyLives /\ TwiceLate /\ AgainLate /\ [Next]_vars
        => (Dated /\ ExpireOwns /\ KeyLives /\ TwiceLate /\ AgainLate)'
      BY DatedNext, ExpireOwnsNext, KeyLivesNext, TwiceLateNext, AgainLateNext
<1>3. AgainLate => ReplayRejected
      BY DEF AgainLate, ReplayRejected, Allowed
<1> QED BY <1>1, <1>2, <1>3, SoundAlways, PTL DEF Spec
-----------------------------------------------------------------------------
(* The grants behind the tokens *)

\* The life cycle that Grants implements, of the grants known here: they are
\* requested before the first state, and their capabilities do not matter.
Lifecycle ==
  INSTANCE GrantLifecycle WITH Keys <- {}, status <- primary.grant, scope <- [g \in Grants |-> {}]

\* A step of Tokens decides or revokes one grant, as the life cycle lets it, or
\* leaves them all alone.
LEMMA LifecycleStep == TypeOK /\ [Next]_vars => [Lifecycle!LNext]_(Lifecycle!lifecycleVars)
<1> SUFFICES ASSUME TypeOK, [Next]_vars PROVE [Lifecycle!LNext]_(Lifecycle!lifecycleVars)
    OBVIOUS
<1>a. primary \in State
      BY DEF TypeOK
<1>1. ASSUME primary'.grant = primary.grant PROVE UNCHANGED Lifecycle!lifecycleVars
      BY <1>1 DEF Lifecycle!lifecycleVars
<1>2. ASSUME NEW g \in Grants, NEW st \in {"approved", "revoked"},
             Commit([primary EXCEPT !.grant[g] = st])
      PROVE  primary'.grant = [primary.grant EXCEPT ![g] = st]
      BY <1>2, <1>a DEF Commit, State
<1>3. ASSUME NEW g \in Grants, ApproveGrant(g) PROVE Lifecycle!LNext
  <2>1. primary.grant[g] = "pending" /\ primary'.grant = [primary.grant EXCEPT ![g] = "approved"]
        BY <1>2, <1>3 DEF ApproveGrant, SetGrant
  <2>2. [k \in Grants |-> {}] = [[k \in Grants |-> {}] EXCEPT ![g] = {}]
        OBVIOUS
  <2>3. Lifecycle!LApprove(g, {})
        BY <2>1, <2>2 DEF Lifecycle!LApprove, Lifecycle!Become
  <2> QED BY <2>3 DEF Lifecycle!LNext
<1>4. ASSUME NEW g \in Grants, RevokeGrant(g) PROVE Lifecycle!LNext
  <2>1. primary.grant[g] = "approved" /\ primary'.grant = [primary.grant EXCEPT ![g] = "revoked"]
        BY <1>2, <1>4 DEF RevokeGrant, SetGrant
  <2>2. Lifecycle!LRevoke(g)
        BY <2>1 DEF Lifecycle!LRevoke, Lifecycle!Become
  <2> QED BY <2>2 DEF Lifecycle!LNext
<1>5. ASSUME NEW h \in Handlers, Issue(h) \/ Revoke(h) \/ Verify(h) \/ Abandon(h)
      PROVE  primary'.grant = primary.grant
  <2>1. CASE UNCHANGED dbVars
        BY <2>1 DEF dbVars
  <2>2. ASSUME NEW j, NEW row, SetToken(j, row) PROVE primary'.grant = primary.grant
        BY <2>2, <1>a DEF SetToken, Commit, State
  <2>3. \/ UNCHANGED dbVars
        \/ \E j \in Jtis : SetToken(j, [grant |-> op[h].g, sp |-> op[h].s,
                                       issued |-> op[h].issued, revoked |-> FALSE])
        \/ SetToken(op[h].j, [primary.token[op[h].j] EXCEPT !.revoked = TRUE])
        BY <1>5 DEF Issue, Revoke, Verify, Abandon, RequestToken, RequestTokenInFull, FindToken,
             InsertToken, CacheIssued, ReadForRevocation, RevokeToken, AnswerAlreadyRevoked,
             MarkRevoked, CheckNonce, ExpireNonce, LookUpCached, ReadRow, FillCache, Decide,
             AnswerAllowed
  <2> QED BY <2>1, <2>2, <2>3
<1>6. CASE Tick \/ (\E r \in Replicas : CatchUp(r)) \/ UNCHANGED vars
      BY <1>1, <1>6 DEF Tick, CatchUp, Replicate, dbVars, vars
<1> QED BY <1>1, <1>3, <1>4, <1>5, <1>6, Zenon DEF Next

\* What Tokens lets the grants behind its tokens do is what the grant protocol of
\* grant.rs does (GrantsImplementLifecycle): approved once, out of pending, revoked
\* only out of approved, and nothing else.
THEOREM GrantsFollowLifecycle == Spec => [][Lifecycle!LNext]_(Lifecycle!lifecycleVars)
BY LifecycleStep, TypeCorrect, PTL DEF Spec
=============================================================================
