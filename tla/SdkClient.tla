----------------------------- MODULE SdkClient -----------------------------
(***************************************************************************)
(* The Rust SDK an agent embeds (crates/sdk/src/client.rs, cache.rs,       *)
(* retry.rs, dpop.rs): registering, asking for a grant, keeping its token, *)
(* renewing it, and putting it on outgoing requests with a proof of the    *)
(* agent's key.                                                            *)
(*                                                                         *)
(* All maps of the client are keyed by the service provider and no call    *)
(* touches two, so one provider is modelled.  Several tasks share the      *)
(* client; each await point ends an action.  Time is relative: a token     *)
(* carries the life it has left, a grant how long ago it was revoked.      *)
(* The registry, the verifier and the network are the environment: tokens  *)
(* are issued, revoked and verified as Tokens says, each in one step.  The *)
(* one thing assumed of the registry that the one beside it does not do is *)
(* to answer a request for a grant with "approved", the only answer from   *)
(* which the client ever gets a grant.  The rate limiter consulted before  *)
(* a token is looked up is in SdkLimiter.                                  *)
(***************************************************************************)
EXTENDS Integers, FiniteSets

CONSTANTS
  SdkTasks,      \* tasks that use the client
  SdkGrantIds,   \* grants the registry may approve for this agent and provider
  SdkLifetime,   \* life of a token: TokenConfig.lifetime_secs of the registry
  SdkRefresh,    \* refresh_before_expiry
  SdkRetries,    \* RetryConfig.max_attempts
  SdkLag,        \* how long a replica of the registry shows a revoked grant as approved,
                 \* and an issue takes from its look at one to the date on its token
  SdkPatience    \* bound: ticks one call takes, all its attempts together

ASSUME SdkAssumption ==
  /\ {SdkLifetime, SdkRefresh, SdkRetries, SdkLag, SdkPatience} \subseteq Nat
  /\ SdkLifetime > 0
  /\ SdkRefresh <= SdkLifetime

VARIABLES
  sdkTask,       \* [SdkTasks -> the call a task has in progress]
  sdkGrant,      \* the client's grant, or NoGrant
  sdkCache,      \* the client's cached token, or NoToken
  sdkKnown,      \* registry: the agent is registered
  sdkStatus,     \* registry: [SdkGrantIds -> status]
  sdkNewest,     \* registry: [SdkGrantIds -> newest live token, or NoToken]
  sdkSince,      \* history: [SdkGrantIds -> ticks since the grant was revoked]
  sdkServed      \* history: in this tick a request left with a live, unrevoked token

sdkRegistry == <<sdkKnown, sdkStatus, sdkNewest, sdkSince>>

sdkVars == <<sdkTask, sdkGrant, sdkCache, sdkRegistry, sdkServed>>

-----------------------------------------------------------------------------
NoGrant == "none"
\* To the client no token is the same as an expired one.
NoToken == [grant |-> NoGrant, left |-> 0, good |-> FALSE]

\* The key a token is bound to: the client's, or one an earlier client of the
\* agent had.
SdkKeys == {"own", "earlier"}

\* `bound' is the key whose thumbprint the token was issued for, `good' what the
\* client cannot see: the token has not been revoked.
SdkToken == [grant : SdkGrantIds, left : 0..SdkLifetime, bound : SdkKeys, good : BOOLEAN]

\* From here on the age of a revocation no longer matters.
SdkHorizon == SdkLifetime + SdkLag + SdkPatience

SdkIdle == [at |-> "idle"]

SdkCall ==
  {SdkIdle}
    \cup [at : {"register", "askGrant"}, try : 0..SdkRetries, waited : 0..SdkPatience]
    \cup [at : {"storeGrant"}, grant : SdkGrantIds, waited : 0..SdkPatience]
    \cup [at : {"look"}, waited : 0..SdkPatience]
    \cup [at : {"askToken"}, grant : SdkGrantIds, try : 0..SdkRetries, waited : 0..SdkPatience]
    \cup [at : {"put", "sign"}, token : SdkToken, waited : 0..SdkPatience]

SdkTypeOK ==
  /\ sdkTask \in [SdkTasks -> SdkCall]
  /\ sdkKnown \in BOOLEAN
  /\ sdkGrant \in SdkGrantIds \cup {NoGrant}
  /\ sdkCache \in SdkToken \cup {NoToken}
  /\ sdkStatus \in [SdkGrantIds -> {"none", "approved", "revoked"}]
  /\ sdkNewest \in [SdkGrantIds -> SdkToken \cup {NoToken}]
  /\ sdkSince \in [SdkGrantIds -> 0..SdkHorizon]
  /\ sdkServed \in BOOLEAN

SdkInit ==
  /\ sdkTask = [t \in SdkTasks |-> SdkIdle]
  /\ sdkGrant = NoGrant
  /\ sdkCache = NoToken
  /\ sdkKnown = FALSE
  /\ sdkStatus = [g \in SdkGrantIds |-> "none"]
  /\ sdkNewest = [g \in SdkGrantIds |-> NoToken]
  /\ sdkSince = [g \in SdkGrantIds |-> 0]
  /\ sdkServed = FALSE

sdkClient == <<sdkGrant, sdkCache>>

SdkGoto(t, call) == sdkTask' = [sdkTask EXCEPT ![t] = call]

\* is_expired, should_refresh
Expired(token) == token.left = 0
NearExpiry(token) == token.left <= SdkRefresh

\* TokenCache::get: an expired entry is as good as none, and stays.
SdkCached == IF Expired(sdkCache) THEN NoToken ELSE sdkCache

-----------------------------------------------------------------------------
(* with_retry: every call to the registry goes through it *)

\* A transient error (connect, timeout, reset) is retried after a delay until
\* the attempts are used up, then returned.
SdkAfterFailure(call) ==
  IF call.try < SdkRetries THEN [call EXCEPT !.try = @ + 1] ELSE SdkIdle

\* The request does not arrive, or changes nothing there.
SdkTransportFails(t) ==
  /\ sdkTask[t].at \in {"register", "askGrant", "askToken"}
  /\ SdkGoto(t, SdkAfterFailure(sdkTask[t]))
  /\ UNCHANGED <<sdkClient, sdkRegistry, sdkServed>>

\* Any answer with an error status, 502 to 504 included, reaches the client as
\* an answer: with_retry is over and handle_error_response makes it an error.
SdkAnsweredError(t) ==
  /\ sdkTask[t].at \in {"register", "askGrant", "askToken"}
  /\ SdkGoto(t, SdkIdle)
  /\ UNCHANGED <<sdkClient, sdkRegistry, sdkServed>>

-----------------------------------------------------------------------------
(* register, request_grant *)

\* Called until it is known to have worked; more of it would change nothing.
SdkRegister(t) ==
  /\ sdkTask[t] = SdkIdle
  /\ ~sdkKnown
  /\ SdkGoto(t, [at |-> "register", try |-> 0, waited |-> 0])
  /\ UNCHANGED <<sdkClient, sdkRegistry, sdkServed>>

\* "registered", or "already_registered" whatever key the first one came with;
\* the answer arrives or is lost, and then the request is sent again.
SdkRegistered(t) ==
  /\ sdkTask[t].at = "register"
  /\ sdkKnown' = TRUE
  /\ \/ SdkGoto(t, SdkIdle)
     \/ SdkGoto(t, SdkAfterFailure(sdkTask[t]))
  /\ UNCHANGED <<sdkClient, sdkStatus, sdkNewest, sdkSince, sdkServed>>

SdkRequestGrant(t) ==
  /\ sdkTask[t] = SdkIdle
  /\ SdkGoto(t, [at |-> "askGrant", try |-> 0, waited |-> 0])
  /\ UNCHANGED <<sdkClient, sdkRegistry, sdkServed>>

\* The registry answers "approved" to an agent it knows.  (Assumed: this one
\* finds pending grants only, and what it inserts is pending.)  Every other
\* status ("pending", "denied", "expired", unknown) is returned as an error and
\* changes nothing: SdkAnsweredError.
SdkGrantApproved(t, g) ==
  /\ sdkTask[t].at = "askGrant"
  /\ sdkKnown
  /\ sdkStatus[g] \in {"none", "approved"}
  /\ sdkStatus' = [sdkStatus EXCEPT ![g] = "approved"]
  /\ SdkGoto(t, [at |-> "storeGrant", grant |-> g, waited |-> sdkTask[t].waited])
  /\ UNCHANGED <<sdkClient, sdkKnown, sdkNewest, sdkSince, sdkServed>>

\* grants.insert; the token cached for an earlier grant stays.
SdkStoreGrant(t) ==
  /\ sdkTask[t].at = "storeGrant"
  /\ sdkGrant' = sdkTask[t].grant
  /\ SdkGoto(t, SdkIdle)
  /\ UNCHANGED <<sdkCache, sdkRegistry, sdkServed>>

-----------------------------------------------------------------------------
(* authenticate_request, get_token, issue_token *)

SdkAuthenticate(t) ==
  /\ sdkTask[t] = SdkIdle
  /\ SdkGoto(t, [at |-> "look", waited |-> 0])
  /\ UNCHANGED <<sdkClient, sdkRegistry, sdkServed>>

\* A slip: the cache answers with whatever it holds.
SdkUseAnyCached(t) ==
  /\ sdkTask[t].at = "look"
  /\ sdkCache # NoToken
  /\ SdkGoto(t, [at |-> "sign", token |-> sdkCache, waited |-> sdkTask[t].waited])
  /\ UNCHANGED <<sdkClient, sdkRegistry, sdkServed>>

\* RefreshClient::refresh_token, in the background: it does nothing.
SdkRefreshInBackground == UNCHANGED <<sdkClient, sdkRegistry, sdkServed>>

\* A cached token is used, also near its expiry, when a refresh is spawned for
\* it besides.
SdkUseCached(t) ==
  /\ sdkTask[t].at = "look"
  /\ SdkCached # NoToken
  /\ SdkGoto(t, [at |-> "sign", token |-> SdkCached, waited |-> sdkTask[t].waited])
  /\ IF NearExpiry(SdkCached)
       THEN SdkRefreshInBackground
       ELSE UNCHANGED <<sdkClient, sdkRegistry, sdkServed>>

\* No token, or an expired one, and a grant to ask with.
SdkIssueToken(t) ==
  /\ sdkTask[t].at = "look"
  /\ SdkCached = NoToken
  /\ sdkGrant # NoGrant
  /\ SdkGoto(t, [at |-> "askToken", grant |-> sdkGrant, try |-> 0, waited |-> sdkTask[t].waited])
  /\ UNCHANGED <<sdkClient, sdkRegistry, sdkServed>>

\* CapabilityNotGranted
SdkNotGranted(t) ==
  /\ sdkTask[t].at = "look"
  /\ SdkCached = NoToken
  /\ sdkGrant = NoGrant
  /\ SdkGoto(t, SdkIdle)
  /\ UNCHANGED <<sdkClient, sdkRegistry, sdkServed>>

\* What POST /v1/tokens/issue looks at: the grant's row on a replica.
SdkSeenApproved(g) ==
  \/ sdkStatus[g] = "approved"
  \/ sdkStatus[g] = "revoked" /\ sdkSince[g] <= SdkLag

\* find_existing_token answers a live token issued within the window, which is
\* as long as a life, so on its last tick an expired one, and whatever key it is
\* bound to; else one is made, bound to the thumbprint in the request.
SdkIssuedFor(g) ==
  IF sdkNewest[g] # NoToken
    THEN sdkNewest[g]
    ELSE [grant |-> g, left |-> SdkLifetime, bound |-> "own", good |-> TRUE]

SdkRegistryIssues(g) ==
  /\ SdkSeenApproved(g)
  /\ sdkNewest' = [sdkNewest EXCEPT ![g] = SdkIssuedFor(g)]
  /\ UNCHANGED <<sdkKnown, sdkStatus, sdkSince>>

SdkTokenIssued(t) ==
  LET call == sdkTask[t] IN
  /\ call.at = "askToken"
  /\ SdkRegistryIssues(call.grant)
  /\ SdkGoto(t, [at |-> "put", token |-> SdkIssuedFor(call.grant), waited |-> call.waited])
  /\ UNCHANGED <<sdkClient, sdkServed>>

\* The registry has issued and the answer is lost: to the client, a transport
\* error like any other.
SdkAnswerLost(t) ==
  LET call == sdkTask[t] IN
  /\ call.at = "askToken"
  /\ SdkRegistryIssues(call.grant)
  /\ SdkGoto(t, SdkAfterFailure(call))
  /\ UNCHANGED <<sdkClient, sdkServed>>

\* token_cache.put: whatever another task put there meanwhile is replaced.
SdkPut(t) ==
  /\ sdkTask[t].at = "put"
  /\ sdkCache' = sdkTask[t].token
  /\ SdkGoto(t, [sdkTask[t] EXCEPT !.at = "sign"])
  /\ UNCHANGED <<sdkGrant, sdkRegistry, sdkServed>>

\* DpopGenerator::generate: a proof names the token by its hash and carries the
\* public key; every one has an id of its own and is for one request.
SdkProof(token) == [key |-> "own", ath |-> token]

\* What a provider that asks the verifier lets through.
SdkAccepted(token, proof) ==
  /\ token.good /\ ~Expired(token)
  /\ proof.ath = token /\ proof.key = token.bound

\* The proof is made; the request leaves.  No answer of the provider comes back
\* to the client, so a refused token stays.
SdkSend(t) ==
  LET token == sdkTask[t].token IN
  /\ sdkTask[t].at = "sign"
  /\ SdkGoto(t, SdkIdle)
  /\ sdkServed' = (sdkServed \/ SdkAccepted(token, SdkProof(token)))
  /\ UNCHANGED <<sdkClient, sdkRegistry>>

\* The agent starts again, with the same key or another: AgentAuthClient::new.
\* All the client knew is gone.
SdkRestart ==
  /\ sdkTask' = [t \in SdkTasks |-> SdkIdle]
  /\ sdkGrant' = NoGrant
  /\ sdkCache' = NoToken
  /\ \/ UNCHANGED sdkNewest
     \/ sdkNewest' = [g \in SdkGrantIds |->
          IF sdkNewest[g] = NoToken THEN NoToken ELSE [sdkNewest[g] EXCEPT !.bound = "earlier"]]
  /\ UNCHANGED <<sdkKnown, sdkStatus, sdkSince, sdkServed>>

-----------------------------------------------------------------------------
(* The environment *)

\* The human revokes the grant.
SdkGrantRevoked(g) ==
  /\ sdkStatus[g] = "approved"
  /\ sdkStatus' = [sdkStatus EXCEPT ![g] = "revoked"]
  /\ UNCHANGED <<sdkTask, sdkClient, sdkKnown, sdkNewest, sdkSince, sdkServed>>

\* Every good token of a grant that has life left is a copy of its newest one.
SdkSpoil(token, g) ==
  IF token.grant = g THEN [token EXCEPT !.good = FALSE] ELSE token

\* POST /v1/tokens/revoke of the newest token of g.
SdkTokenRevoked(g) ==
  /\ sdkNewest[g] # NoToken
  /\ sdkNewest' = [sdkNewest EXCEPT ![g] = NoToken]
  /\ sdkCache' = SdkSpoil(sdkCache, g)
  /\ sdkTask' = [t \in SdkTasks |->
       IF sdkTask[t].at \in {"put", "sign"}
         THEN [sdkTask[t] EXCEPT !.token = SdkSpoil(@, g)]
         ELSE sdkTask[t]]
  /\ UNCHANGED <<sdkGrant, sdkKnown, sdkStatus, sdkSince, sdkServed>>

SdkAge(token) ==
  IF token.left = 0 THEN token ELSE [token EXCEPT !.left = @ - 1]

\* A tick.  Calls are bounded by request_timeout and the attempts, far less
\* than a token's life: no call in progress is older than SdkPatience.  The
\* registry forgets a token a tick after its expiry: the window is over.
SdkTick ==
  /\ \A t \in SdkTasks : sdkTask[t] # SdkIdle => sdkTask[t].waited < SdkPatience
  /\ sdkTask' = [t \in SdkTasks |->
       IF sdkTask[t] = SdkIdle THEN SdkIdle
       ELSE IF sdkTask[t].at \in {"put", "sign"}
         THEN [sdkTask[t] EXCEPT !.waited = @ + 1, !.token = SdkAge(@)]
         ELSE [sdkTask[t] EXCEPT !.waited = @ + 1]]
  /\ sdkCache' = SdkAge(sdkCache)
  /\ sdkNewest' = [g \in SdkGrantIds |->
       IF sdkNewest[g].left = 0 THEN NoToken ELSE SdkAge(sdkNewest[g])]
  /\ sdkSince' = [g \in SdkGrantIds |->
       IF sdkStatus[g] = "revoked" /\ sdkSince[g] < SdkHorizon
         THEN sdkSince[g] + 1 ELSE sdkSince[g]]
  /\ sdkServed' = FALSE
  /\ UNCHANGED <<sdkGrant, sdkKnown, sdkStatus>>

-----------------------------------------------------------------------------
\* What a call in progress does next.
SdkStep(t) ==
  \/ SdkTransportFails(t)
  \/ SdkAnsweredError(t)
  \/ SdkRegistered(t)
  \/ \E g \in SdkGrantIds : SdkGrantApproved(t, g)
  \/ SdkStoreGrant(t)
  \/ SdkUseCached(t)
  \/ SdkIssueToken(t)
  \/ SdkNotGranted(t)
  \/ SdkTokenIssued(t)
  \/ SdkAnswerLost(t)
  \/ SdkPut(t)
  \/ SdkSend(t)

SdkNext ==
  \/ \E t \in SdkTasks :
       SdkRegister(t) \/ SdkRequestGrant(t) \/ SdkAuthenticate(t) \/ SdkStep(t)
  \/ SdkRestart
  \/ \E g \in SdkGrantIds : SdkGrantRevoked(g) \/ SdkTokenRevoked(g)
  \/ SdkTick

\* A call that has started goes on: request_timeout bounds every attempt.  And
\* time passes.
SdkFairness == WF_sdkVars(SdkTick) /\ \A t \in SdkTasks : WF_sdkVars(SdkStep(t))

SdkSpec == SdkInit /\ [][SdkNext]_sdkVars /\ SdkFairness

-----------------------------------------------------------------------------
\* A grant's tokens fade with it: a request leaves with a token of a revoked
\* grant only in less than one life, the replica's lag and the call's own time
\* after the revocation.  (grant.rs:201 leaves the tokens live; cache.rs `get'
\* is all that ever stops the client from sending one.)
SdkEndedGrantFades ==
  \A t \in SdkTasks : sdkTask[t].at = "sign" =>
    sdkSince[sdkTask[t].token.grant] < SdkHorizon

\* Nothing fails, nothing is revoked and nobody starts again.
SdkCalm ==
  \/ SdkTick
  \/ \E t \in SdkTasks :
       \/ SdkRegister(t) \/ SdkRegistered(t) \/ SdkRequestGrant(t) \/ SdkAuthenticate(t)
       \/ \E g \in SdkGrantIds : SdkGrantApproved(t, g)
       \/ SdkStoreGrant(t) \/ SdkUseCached(t) \/ SdkIssueToken(t)
       \/ SdkNotGranted(t) \/ SdkTokenIssued(t) \/ SdkPut(t) \/ SdkSend(t)

\* The client recovers: once its grant stays approved and calls stop failing,
\* an agent that keeps making requests is served again and again, though no
\* token is renewed before it has expired (client.rs:585), a revoked token is
\* kept until then, and an agent that came back with another key is handed the
\* token bound to the old one for as long as that lives (queries.rs:513).
SdkServedAgain ==
  /\ <>[][SdkCalm]_sdkVars
  /\ <>[](\E g \in SdkGrantIds : sdkGrant = g /\ sdkStatus[g] = "approved")
  /\ \A t \in SdkTasks : SF_sdkVars(SdkAuthenticate(t))
  => []<>sdkServed
=============================================================================
