------------------------------- MODULE Tokens -------------------------------
(***************************************************************************)
(* Access tokens: issuing and revoking them in the registry                *)
(* (crates/registry/src/services/token.rs, handlers/tokens.rs), verifying  *)
(* them in the verifier (services/verifier/src/handlers.rs), and the Redis *)
(* keys the two share (crates/registry/src/services/cache.rs).             *)
(*                                                                         *)
(* A handler is one request in flight in either service.  Each Postgres or *)
(* Redis round trip is an await point, hence an action of its own; a Redis *)
(* pipeline is one round trip.  Redis keys live until the clock reaches    *)
(* the time they carry.  The grants behind the tokens only show the        *)
(* statuses that matter here; their own protocol is in Grants.             *)
(***************************************************************************)
EXTENDS Database, Integers, FiniteSets

CONSTANTS
  Handlers,     \* requests in flight at a time, registry and verifier together
  Grants,       \* capability grants
  SPs,          \* service providers
  GrantSP,      \* [Grants -> SPs]: the provider each grant is for
  Nonces,       \* nonces of verification requests
  Lifetime,     \* TokenConfig.lifetime_secs
  Window,       \* TokenConfig.idempotency_window_secs
  Skew,         \* VerificationConfig.max_clock_skew_secs
  NonceTTL,     \* VerificationConfig.nonce_ttl_secs
  MaxTokens,    \* bound: tokens ever inserted
  MaxTime       \* bound: the last instant

\* "15 minutes - same as token lifetime": a nonce is kept for a token's life.
ASSUME TokensAssumption ==
  /\ IsFiniteSet(Handlers) /\ Handlers # {}
  /\ GrantSP \in [Grants -> SPs] /\ "none" \notin Grants
  /\ {Lifetime, Window, Skew, NonceTTL, MaxTokens, MaxTime} \subseteq Nat
  /\ Lifetime <= NonceTTL

Jtis == 1..MaxTokens

VARIABLES
  now,          \* the clock of every process and of Redis
  op,           \* [Handlers -> what the request in flight knows and does next]
  cache,        \* [Jtis -> the token's hash in Redis]
  nonces,       \* [Nonces -> when the key is gone; in the past if there is none]
  answered,     \* history: tokens a client has been given
  checked,      \* history: tokens inserted after a look at the grant's status
  told,         \* history: what clients were told of each token's revocation
  excused,      \* history: revoked tokens that may still pass, see Excuse
  spent         \* history: <<nonce, token>> pairs accepted

vars == <<primary, stream, now, op, cache, nonces,
          answered, checked, told, excused, spent>>

-----------------------------------------------------------------------------
Absent == [grant |-> "none"]

Row == [grant : Grants, sp : SPs, issued : Nat, revoked : BOOLEAN]

Exp(row) == row.issued + Lifetime

\* What the database holds: the grant's status (a denied grant is to tokens what
\* a pending one is) and the issued_tokens rows.
State == [grant : [Grants -> {"pending", "approved", "revoked"}],
          token : [Jtis -> Row \cup {Absent}]]

SetToken(j, row) == Commit([primary EXCEPT !.token[j] = row])

SetGrant(g, st) == Commit([primary EXCEPT !.grant[g] = st])

\* Later than any instant the model reaches: a key without TTL.
Never == MaxTime + Lifetime + NonceTTL + 2

Missing == [kind |-> "none", until |-> 0]

\* mark_token_revoked on a missing key leaves a hash of one field without TTL.
Partial == [kind |-> "partial", until |-> Never]

Entry == {Missing, Partial} \cup [kind : {"full"}, sp : SPs, revoked : BOOLEAN, until : Nat]

\* get_cached_token: anything but a complete hash is a miss.
Hit(j) == cache[j].kind = "full" /\ cache[j].until > now

\* cache_token with revoked = false, the only way it is called.
Cached(row) ==
  [kind |-> "full", sp |-> row.sp, revoked |-> FALSE,
   until |-> IF Exp(row) > now THEN Exp(row) ELSE now + 1]

\* mark_token_revoked on what is there: a live hash keeps its TTL.
Marked(j) ==
  IF Hit(j) THEN [cache[j] EXCEPT !.revoked = TRUE] ELSE Partial

Idle == [at |-> "idle"]

Verification == [at : {"expire", "lookup"}, j : Jtis, s : SPs, n : Nonces,
                 late : SUBSET {"done", "already"}]

Operation ==
  {Idle}
    \cup [at : {"find"}, g : Grants, s : SPs, checked : BOOLEAN]
    \cup [at : {"insert"}, g : Grants, s : SPs, checked : BOOLEAN, issued : Nat]
    \cup [at : {"cache", "revoke", "mark", "recheck"}, j : Jtis]
    \cup Verification
    \cup [at : {"row"}, hit : BOOLEAN, req : Verification]
    \cup [at : {"fill", "decide"}, row : Row, req : Verification]
    \cup [at : {"allowed"}, time : Nat, again : BOOLEAN, row : Row, req : Verification]

Goto(h, o) == op' = [op EXCEPT ![h] = o]

redis == <<cache, nonces>>
history == <<answered, checked, told, excused, spent>>

Init ==
  /\ DbInit([grant |-> [g \in Grants |-> "pending"], token |-> [j \in Jtis |-> Absent]])
  /\ now = 0
  /\ op = [h \in Handlers |-> Idle]
  /\ cache = [j \in Jtis |-> Missing]
  /\ nonces = [n \in Nonces |-> 0]
  /\ told = [j \in Jtis |-> {}]
  /\ answered = {} /\ checked = {} /\ excused = {} /\ spent = {}

-----------------------------------------------------------------------------
(* POST /v1/tokens/issue *)

\* A slip: whatever is not pending any more counts as approved.
RequestTokenAnyDecision(h, g) ==
  /\ op[h] = Idle
  /\ \E t \in Views : t.grant[g] # "pending"
  /\ Goto(h, [at |-> "find", g |-> g, s |-> GrantSP[g], checked |-> TRUE])
  /\ UNCHANGED <<dbVars, now, redis, history>>

\* Without the five optional fields the request is completed from the grant's
\* row, which a replica must show as approved.
RequestToken(h, g) ==
  /\ op[h] = Idle
  /\ \E t \in Views : t.grant[g] = "approved"
  /\ Goto(h, [at |-> "find", g |-> g, s |-> GrantSP[g], checked |-> TRUE])
  /\ UNCHANGED <<dbVars, now, redis, history>>

\* With all of them the grant's row is not looked at.
RequestTokenInFull(h, g, s) ==
  /\ op[h] = Idle
  /\ Goto(h, [at |-> "find", g |-> g, s |-> s, checked |-> FALSE])
  /\ UNCHANGED <<dbVars, now, redis, history>>

\* find_existing_token: the live tokens of g issued within the window.
Recent(g) ==
  {j \in Jtis : /\ primary.token[j].grant = g
                /\ ~primary.token[j].revoked
                /\ primary.token[j].issued >= now - Window}

\* A slip: the look-up trusts Redis to know every recent token.
FindTokenInCache(h) ==
  /\ op[h].at = "find"
  /\ LET known == {j \in Recent(op[h].g) : Hit(j)}
     IN  \/ /\ known = {}
            /\ Goto(h, [at |-> "insert", g |-> op[h].g, s |-> op[h].s,
                        checked |-> op[h].checked, issued |-> now])
            /\ UNCHANGED answered
         \/ /\ known # {}
            /\ answered' = answered \cup known
            /\ Goto(h, Idle)
  /\ UNCHANGED <<dbVars, now, redis, checked, told, excused, spent>>

\* The newest one is the answer; otherwise a token dated now is made.
FindToken(h) ==
  /\ op[h].at = "find"
  /\ \/ /\ Recent(op[h].g) = {}
        /\ Goto(h, [at |-> "insert", g |-> op[h].g, s |-> op[h].s,
                    checked |-> op[h].checked, issued |-> now])
        /\ UNCHANGED answered
     \/ \E j \in Recent(op[h].g) :
          /\ \A k \in Recent(op[h].g) : primary.token[k].issued <= primary.token[j].issued
          /\ answered' = answered \cup {j}
          /\ Goto(h, Idle)
  /\ UNCHANGED <<dbVars, now, redis, checked, told, excused, spent>>

InsertToken(h) ==
  /\ op[h].at = "insert"
  /\ \E j \in Jtis :
       /\ primary.token[j] = Absent
       /\ \A k \in Jtis : k < j => primary.token[k] # Absent
       /\ SetToken(j, [grant |-> op[h].g, sp |-> op[h].s, issued |-> op[h].issued,
                       revoked |-> FALSE])
       /\ checked' = IF op[h].checked THEN checked \cup {j} ELSE checked
       /\ Goto(h, [at |-> "cache", j |-> j])
  /\ UNCHANGED <<now, redis, answered, told, excused, spent>>

\* The reply of Redis may be lost, and the answer with it.
CacheIssued(h) ==
  /\ op[h].at = "cache"
  /\ cache' = [cache EXCEPT ![op[h].j] = Cached(primary.token[op[h].j])]
  /\ answered' \in {answered, answered \cup {op[h].j}}
  /\ Goto(h, Idle)
  /\ UNCHANGED <<dbVars, now, nonces, checked, told, excused, spent>>

-----------------------------------------------------------------------------
(* POST /v1/tokens/revoke *)

ReadForRevocation(h, j) ==
  /\ op[h] = Idle
  /\ j \in answered
  /\ \E t \in Views : t.token[j] # Absent
  /\ Goto(h, [at |-> "revoke", j |-> j])
  /\ UNCHANGED <<dbVars, now, redis, history>>

\* The ways a token known to be revoked may go on looking live: a copy of it on
\* its way to Redis when its row is updated, a copy from a replica that is behind,
\* a mark that is lost, and the answer "already revoked" given before the mark.
Excuse(j, because) == excused' = IF because THEN excused \cup {j} ELSE excused

Copying(h, j) ==
  \/ op[h].at = "cache" /\ op[h].j = j
  \/ op[h].at = "fill" /\ op[h].req.j = j

Marking(h, j) == op[h].at = "mark" /\ op[h].j = j

Tell(j, what) == told' = [told EXCEPT ![j] = @ \cup {what}]

\* UPDATE ... WHERE jti AND is_revoked = FALSE; no row sends the request to a
\* second look-up.
RevokeToken(h) ==
  /\ op[h].at = "revoke"
  /\ primary.token[op[h].j] # Absent
  /\ IF primary.token[op[h].j].revoked
     THEN /\ Goto(h, [op[h] EXCEPT !.at = "recheck"])
          /\ UNCHANGED <<dbVars, excused>>
     ELSE /\ SetToken(op[h].j, [primary.token[op[h].j] EXCEPT !.revoked = TRUE])
          /\ Excuse(op[h].j, \E k \in Handlers : Copying(k, op[h].j))
          /\ Goto(h, [op[h] EXCEPT !.at = "mark"])
  /\ UNCHANGED <<now, redis, answered, checked, told, spent>>

\* TokenAlreadyRevoked: the row is revoked, nothing is done about Redis.
AnswerAlreadyRevoked(h) ==
  /\ op[h].at = "recheck"
  /\ \E t \in Views : t.token[op[h].j] # Absent /\ t.token[op[h].j].revoked
  /\ Tell(op[h].j, "already")
  /\ Excuse(op[h].j, \E k \in Handlers : Marking(k, op[h].j))
  /\ Goto(h, Idle)
  /\ UNCHANGED <<dbVars, now, redis, answered, checked, spent>>

MarkRevoked(h) ==
  /\ op[h].at = "mark"
  /\ cache' = [cache EXCEPT ![op[h].j] = Marked(op[h].j)]
  /\ Tell(op[h].j, "done") \/ UNCHANGED told
  /\ Goto(h, Idle)
  /\ UNCHANGED <<dbVars, now, nonces, answered, checked, excused, spent>>

-----------------------------------------------------------------------------
(* POST /v1/tokens/verify *)

\* A slip: SET where SETNX is due.
CheckNonceSet(h, j, s, n) ==
  /\ op[h] = Idle
  /\ j \in answered
  /\ nonces' = [nonces EXCEPT ![n] = Never]
  /\ Goto(h, [at |-> "expire", j |-> j, s |-> s, n |-> n, late |-> told[j]])
  /\ UNCHANGED <<dbVars, now, cache, history>>

\* SETNX: a nonce whose key is there is a replay.
CheckNonce(h, j, s, n) ==
  /\ op[h] = Idle
  /\ j \in answered
  /\ nonces[n] <= now
  /\ nonces' = [nonces EXCEPT ![n] = Never]
  /\ Goto(h, [at |-> "expire", j |-> j, s |-> s, n |-> n, late |-> told[j]])
  /\ UNCHANGED <<dbVars, now, cache, history>>

\* A slip: the TTL is taken off the clock.
ExpireNonceBackwards(h) ==
  /\ op[h].at = "expire"
  /\ nonces' = [nonces EXCEPT ![op[h].n] = now - NonceTTL]
  /\ Goto(h, [op[h] EXCEPT !.at = "lookup"])
  /\ UNCHANGED <<dbVars, now, cache, history>>

\* The key's TTL is a second call; without it the request fails and the key stays.
ExpireNonce(h) ==
  /\ op[h].at = "expire"
  /\ nonces' = [nonces EXCEPT ![op[h].n] = now + NonceTTL]
  /\ Goto(h, [op[h] EXCEPT !.at = "lookup"])
  /\ UNCHANGED <<dbVars, now, cache, history>>

\* A slip: the flag of a hit is not looked at.
LookUpCachedAnyFlag(h) ==
  /\ op[h].at = "lookup"
  /\ \E hit \in BOOLEAN :
       /\ hit => Hit(op[h].j) /\ cache[op[h].j].sp = op[h].s
       /\ Goto(h, [at |-> "row", hit |-> hit, req |-> op[h]])
  /\ UNCHANGED <<dbVars, now, redis, history>>

\* A slip: the provider of a hit is not compared.
LookUpCachedAnyProvider(h) ==
  /\ op[h].at = "lookup"
  /\ \E hit \in BOOLEAN :
       /\ hit => Hit(op[h].j) /\ ~cache[op[h].j].revoked
       /\ Goto(h, [at |-> "row", hit |-> hit, req |-> op[h]])
  /\ UNCHANGED <<dbVars, now, redis, history>>

\* A hit must be live and for this provider; a Redis error counts as a miss.
LookUpCached(h) ==
  /\ op[h].at = "lookup"
  /\ \E hit \in BOOLEAN :
       /\ hit => /\ Hit(op[h].j)
                 /\ ~cache[op[h].j].revoked
                 /\ cache[op[h].j].sp = op[h].s
       /\ Goto(h, [at |-> "row", hit |-> hit, req |-> op[h]])
  /\ UNCHANGED <<dbVars, now, redis, history>>

\* After a hit the row's own flag is not looked at.
ReadRow(h) ==
  /\ op[h].at = "row"
  /\ \E t \in Views :
       LET row == t.token[op[h].req.j]
       IN  /\ row # Absent
           /\ op[h].hit \/ (~row.revoked /\ row.sp = op[h].req.s)
           /\ Goto(h, [at |-> IF op[h].hit THEN "decide" ELSE "fill",
                       row |-> row, req |-> op[h].req])
           /\ Excuse(op[h].req.j, ~op[h].hit /\ primary.token[op[h].req.j].revoked)
  /\ UNCHANGED <<dbVars, now, redis, answered, checked, told, spent>>

\* The outcome of the write is discarded (`let _ = ..cache_token(..)').
FillCache(h) ==
  /\ op[h].at = "fill"
  /\ cache' \in {cache, [cache EXCEPT ![op[h].req.j] = Cached(op[h].row)]}
  /\ Goto(h, [op[h] EXCEPT !.at = "decide"])
  /\ UNCHANGED <<dbVars, now, nonces, history>>

\* Expiry comes last; the checks of binding and proof can only refuse.
Decide(h) ==
  /\ op[h].at = "decide"
  /\ now <= Exp(op[h].row) + Skew
  /\ LET pair == <<op[h].req.n, op[h].req.j>>
     IN  /\ spent' = spent \cup {pair}
         /\ Goto(h, [at |-> "allowed", time |-> now, again |-> pair \in spent,
                     row |-> op[h].row, req |-> op[h].req])
  /\ UNCHANGED <<dbVars, now, redis, answered, checked, told, excused>>

AnswerAllowed(h) ==
  /\ op[h].at = "allowed"
  /\ Goto(h, Idle)
  /\ UNCHANGED <<dbVars, now, redis, history>>

-----------------------------------------------------------------------------
\* Every refusal, `?' and connection error, and a request dropped by a timeout,
\* a disconnect or a crash.
Abandon(h) ==
  /\ op[h] # Idle
  /\ Goto(h, Idle)
  /\ IF op[h].at = "mark" THEN Excuse(op[h].j, TRUE) ELSE UNCHANGED excused
  /\ UNCHANGED <<dbVars, now, redis, answered, checked, told, spent>>

\* The two grant updates that matter here, see Grants.
ApproveGrant(g) ==
  /\ primary.grant[g] = "pending"
  /\ SetGrant(g, "approved")
  /\ UNCHANGED <<now, op, redis, history>>

RevokeGrant(g) ==
  /\ primary.grant[g] = "approved"
  /\ SetGrant(g, "revoked")
  /\ UNCHANGED <<now, op, redis, history>>

Tick ==
  /\ now < MaxTime
  /\ now' = now + 1
  /\ UNCHANGED <<dbVars, op, redis, history>>

CatchUp(r) == Replicate(r) /\ UNCHANGED <<now, op, redis, history>>

Issue(h) ==
  \/ \E g \in Grants : RequestToken(h, g) \/ \E s \in SPs : RequestTokenInFull(h, g, s)
  \/ FindToken(h)
  \/ InsertToken(h)
  \/ CacheIssued(h)

Revoke(h) ==
  \/ \E j \in Jtis : ReadForRevocation(h, j)
  \/ RevokeToken(h)
  \/ AnswerAlreadyRevoked(h)
  \/ MarkRevoked(h)

Verify(h) ==
  \/ \E j \in Jtis, s \in SPs, n \in Nonces : CheckNonce(h, j, s, n)
  \/ ExpireNonce(h)
  \/ LookUpCached(h)
  \/ ReadRow(h)
  \/ FillCache(h)
  \/ Decide(h)
  \/ AnswerAllowed(h)

Next ==
  \/ \E h \in Handlers : Issue(h) \/ Revoke(h) \/ Verify(h) \/ Abandon(h)
  \/ \E g \in Grants : ApproveGrant(g) \/ RevokeGrant(g)
  \/ Tick
  \/ \E r \in Replicas : CatchUp(r)

Spec == Init /\ [][Next]_vars

-----------------------------------------------------------------------------
\* The type of every variable.
TypeOK ==
  /\ primary \in State
  /\ stream \in [Replicas -> Seq(State)]
  /\ \A r \in Replicas : stream[r] # <<>>
  /\ now \in Nat
  /\ op \in [Handlers -> Operation]
  /\ cache \in [Jtis -> Entry]
  /\ nonces \in [Nonces -> Nat]
  /\ answered \subseteq Jtis /\ checked \subseteq Jtis
  /\ told \in [Jtis -> SUBSET {"done", "already"}]
  /\ excused \subseteq Jtis
  /\ spent \subseteq Nonces \X Jtis

\* Requests that found no token for g within the window and will insert one.
Inserting(g) ==
  {h \in Handlers : op[h].at = "insert" /\ op[h].g = g /\ op[h].issued >= now - Window}

\* find_existing_token and insert_token are two statements, so one grant can get
\* several live tokens within the idempotency window; counted with those about
\* to be inserted, there are never more than requests in flight.
IssueBurstBounded ==
  \A g \in Grants :
    Cardinality(Recent(g)) + Cardinality(Inserting(g)) <= Cardinality(Handlers)

\* Requests that named only g, past their look at it: they will find or make a
\* token of g.
Asking(g) ==
  {h \in Handlers : op[h].at \in {"find", "insert"} /\ op[h].checked /\ op[h].g = g}

\* Every replica shows the revocation of g, and no such request is under way.
Ended(g) == Asking(g) = {} /\ \A t \in Views : t.grant[g] = "revoked"

\* A request that names only its grant gets past its look only if somebody
\* approved the grant, however old the replica was, and never again once every
\* replica has shown the revocation and the requests that looked before are
\* done.  A token it makes is for the grant's provider.  One it finds need not
\* be: the look-up of existing tokens goes by the grant alone, and a request
\* that named all the fields may have made it for another.
GrantsHonoured ==
  [][/\ \A g \in Grants :
          /\ Asking(g) # {} => primary.grant[g] # "pending"
          /\ Ended(g) => Ended(g)'
     /\ \A j \in checked' \ checked :
          LET row == primary'.token[j]
          IN  row.sp = GrantSP[row.grant] /\ Asking(row.grant) # {}
    ]_vars

Allowed == {h \in Handlers : op[h].at = "allowed"}

\* A verification that starts after a client was told of the revocation refuses
\* the token, on the hit and on the miss path, but for the ways of Excuse.
RevocationHolds ==
  \A h \in Allowed : op[h].req.late # {} => op[h].req.j \in excused

\* A verification is only allowed for the provider the token was issued for, on
\* the hit path too, where the row's provider is not looked at, and with a row
\* that is the primary's but for the flag.
AllowedForItsProvider ==
  \A h \in Allowed :
    LET row == primary.token[op[h].req.j]
    IN  row # Absent /\ row.sp = op[h].req.s /\ row.issued = op[h].row.issued

\* A nonce is not accepted twice for a token before the token expires, whatever
\* order SETNX, EXPIRE and the rest of two verifications take.
ReplayRejected ==
  \A h \in Allowed : op[h].again => op[h].time >= Exp(op[h].row)

-----------------------------------------------------------------------------
(* What the tests say and the code does not do. *)

\* "Revocation propagates": no verification that starts after a revocation was
\* answered with success is allowed.
RevocationPropagates == \A h \in Allowed : "done" \notin op[h].req.late
=============================================================================
