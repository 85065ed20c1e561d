# AgentAuth in TLA+

AgentAuth lets people give software agents narrow, revocable access to services.
A **registry** keeps agents, capability grants and access tokens in PostgreSQL; a
**verifier** decides, for a service provider, whether a token may be used; both share
a **Redis** cache. This directory models the parts of it whose correctness depends on
what happens *between* two database or cache calls, checks them with TLC on small
instances and proves the most important results with TLAPS for every instance.

| Module | What it is |
|---|---|
| `Database` | the primary and lagging read replicas behind `DbPool` |
| `Grants` | the grant protocol: request, approve, deny, revoke |
| `GrantLifecycle` | what a grant promises, implemented by `Grants` |
| `Tokens` | issue and revoke in the registry, verify in the verifier, Redis between them |
| `AuditChain` | the hash chain of the audit log and its verification |
| `Archiver` | the life of the audit log's partitions, from creation to cold storage |
| `Registration` | agents: registration, bootstrap with a one-time password, deletion |
| `Breaker`, `InFlight` | the circuit breaker and the in-flight limiter |
| `Health` | start-up and readiness of both services and the routing that follows |
| `SigningKey` | the registry's signing key over its rotation, and the key it publishes |
| `Envelope` | the arithmetic of the behavioral envelope |
| `SdkClient`, `SdkLimiter` | the SDK an agent embeds and the rate limit it keeps on itself |
| `McpAgent`, `DemoAgent`, `ApprovalPage` | the MCP server, the demo, the human's approval page |
| `Parts` | the last eleven in one specification |
| `MCGrants`, `MCTokens`, `MCAuditChain`, `MCArchiver`, `MCParts` | small instances for TLC |
| `DatabaseProof`, `GrantsProof`, `TokensProof`, `AuditChainProof`, `ArchiverProof`, `RegistryPartsProof`, `ClientsProof`, `PartsProof` | theorems and proofs |

Run `tlc -config MCGrants.cfg MCGrants` (and so on, one `.cfg` per run) or
`tlapm GrantsProof.tla`.

## 1. Inventory of the system

**Grant service** (`crates/registry/src/services/grant.rs`, `handlers/grants.rs`).
State: `capability_grants` rows (status pending, approved, denied, revoked; the status
`expired` exists in the schema and nothing sets it). Operations: request (limit check on
the primary, look-up of a pending grant on a replica, insert), approve and deny (read on
a replica, conditional `UPDATE` on the primary), revoke (read, conditional `UPDATE`,
second look-up when it matched nothing). Every success then attempts an audit event and
discards the outcome. Hard: stale replica reads used after an await; competing
decisions; a check that is not atomic with its insert. Correct when: a grant is decided
at most once, an answer of success tells the truth, an approved grant covers only kinds
that were requested, the limit is not exceeded by more than the overlap.

**Token service** (`services/token.rs`, `handlers/tokens.rs`). State: `issued_tokens`
rows, the Redis hash of each token. Operations: issue (complete the request from the
grant's row or take it as sent; look for a token of the idempotency window; insert;
write Redis), revoke (read; conditional `UPDATE`; mark in Redis, or a second look-up and
"already revoked"). Hard: the row and the cache are two stores; replies are lost; a late
cache write undoes a revocation.

**Verifier** (`services/verifier/src/handlers.rs`). Keeps nothing of its own:
`verify_token` consumes the nonce in Redis (SETNX, then EXPIRE), looks the token up in
Redis, reads its row from a replica, fills Redis after a miss, checks binding, proof and
expiry. Hard: fills race with revocations; replicas lag; keys expire while a
verification is under way. Correct when: no nonce is accepted twice for a live token, a
token only passes for its provider, a revoked token stops passing.

**Redis cache** (`services/cache.rs`). Token hashes, nonce keys, a sliding-window rate
limit in one Lua script, one-time passwords consumed with GETDEL.

**Database access** (`db/pool.rs`, `db/queries.rs`). `primary()` and a rotating
`read_replica()`; every statement is its own transaction.

**Audit log** (`services/audit.rs`, `handlers/audit.rs`). State: append-only
`audit_events`, and per process the hash of the last event. `record()` reads that hash,
signs, inserts, writes it back; `initialize()` starts from genesis. The verification
walks one agent's rows. Hard: overlapping records, dropped requests, restarts, several
processes.

**Registration and bootstrap** (`handlers/agents.rs`). State: `agent_manifests` rows with
two uniqueness constraints, one-time passwords in Redis. Registration is idempotent by
agent id; bootstrap consumes a password first; deletion clears `is_active`. Hard: the
check for an existing row reads a replica; the password is gone whatever follows; a
deletion whose `UPDATE` matched nothing looks again. Correct when: the first manifest of
an id stays, a password brings in one agent, a confirmed deletion holds.

**Audit archiver** (`services/audit-archiver`). A scheduled job: an advisory lock, then
create the coming partitions, and for each expired one export, upload, check, detach,
drop. The registry creates the current month's partition when it starts. Hard: a crash
between any two steps, a lock that belongs to a pooled connection, two creators with
different ideas of a partition's range. Correct when: no event is lost on its way, the
partition in use is left alone, nothing goes before its retention is over.

**Circuit breaker** (`services/circuit_breaker.rs`) and **in-flight limiter**
(`middleware.rs`). Written and tested; nothing calls them at this commit. Hard: results
of calls admitted in an earlier state; a counter that overshoots. Correct when: a circuit
opens when it should and recovers; no more requests than the limit are processed, and no
slot is lost.

**Health and readiness** (`services/verifier/src/state.rs`, `handlers/health.rs`, the two
`main.rs`). Flags set once at start and cleared by a failed check. Hard: probes that
overlap, stores that come and go. Correct when: traffic goes to processes that work.

**SDK client** (`crates/sdk`). State: the grant, the cached token and the rate limiter of
each provider. Operations: register, request a grant, get a token (cache or issue),
authenticate a request with a DPoP proof; retries around each call. Hard: a lost answer
to an issue, a token that ends without the client being told, an agent that restarts
with another key. Correct when: a client that may be served is served again, and a
revoked grant stops being used within a bounded time.

**Core types** (`crates/core/src/types`). Pure validation; the behavioral envelope's time
windows and rates. **Cryptography** (`crates/core/src/crypto`, the registry's
`signing.rs`). Ed25519 with a local key or Vault, SHA-256. State: the public key, read
once at the start, and Vault's versions.

**Demo agent** (`services/demo-agent`). One run from registration to four requests at a
mock provider. **MCP server** (`services/agentauth-mcp`). A state file that carries agent
id, key and grant from run to run, rewritten in place; a token cached in memory. Hard: a
crash in the middle of a save. **Approval UI** (`services/approval-ui`). The page on which
the human decides; async calls whose answers set its state in whatever order they come.

**Schema, Python bindings, deployment, chaos and load tests**: data definitions, a thin
wrapper and configuration.

Interaction: the registry's handlers call the services, which share the pool, the cache
and the audit service; the verifier shares PostgreSQL and Redis with the registry and
nothing else; clients retry over HTTP. There are no callbacks and no messages other than
requests; all the concurrency is between requests in flight, replication and the clock.

## 2. How the code is modelled

A *handler* is one HTTP request in flight. A handler's local variables are the record
`op[h]`; every `await` on PostgreSQL or Redis is a separate action, and what was read
before it is only in `op[h]`. A Redis pipeline is one action. An action `Abandon` stands
for every early return with an error, for a lost connection and for a request dropped by
a disconnect or a crash: it is possible at every await, after the effect of the last call
and before the next. (`timeout_layer` in `middleware.rs` would drop requests too; no
router mounts it at this commit.)

**`Database`**. `Commit` is one statement on the primary; each replica shows an earlier
state and moves forward commit by commit (`Replicate`); a read through `read_replica()`
sees any element of `Views`. Two consecutive reads of one request may go back in time,
as the rotation allows.

**`Grants`**. `primary` is the `capability_grants` table. `CountPending`, `FindPending`,
`InsertGrant` are `request_grant`; `ReadForApproval`, `ApproveGrant` are
`approve_grant`; `ReadForDenial`, `DenyGrant`; `ReadForRevocation`, `RevokeGrant`,
`RecheckRevoked`; `RecordAudit` the discarded audit attempt; `Lapse` the passing of
`expires_at`. Capabilities are abstract values with a `TypeKey`, because
`capability_type_key` drops filters and limits. History variables: `asked` (what each
grant was requested with).

**`Tokens`**. `primary` holds the grants' status and the `issued_tokens` rows; `cache`
the token hashes, `nonces` the nonce keys, each with the time it is gone. `RequestToken`
and `RequestTokenInFull` are the two forms of an issue request, then `FindToken`,
`InsertToken`, `CacheIssued`; `ReadForRevocation`, `RevokeToken`, `MarkRevoked` or
`AnswerAlreadyRevoked`; `CheckNonce`, `ExpireNonce`, `LookUpCached`, `ReadRow`,
`FillCache`, `Decide`, `AnswerAllowed`. Token binding and proof checks can only refuse
and are part of `Abandon`. History variables: `answered`, `checked`, `told`, `spent`, and
`excused`, the tokens for which one of four named races has happened (see below).

**`AuditChain`**. `log` the rows in `created_at` order, `previous` the hash each process
keeps. Hashes are collision free, so a hash is a row's position and genesis is 0.
`Begin`, `Insert`, `Advance` are `record()`; `Restart` is a crash and `initialize()`;
`Verifies` is the walk of `verify_agent_audit_chain`. History variable: `quiet`.

**`Archiver`**. `part` holds the table named after each month, with the first month it is
not for; `rows` its events, `archive` the object under its storage key, `lock` the
advisory lock, `job[j]` what a run of the archiver knows and does next, `backend` the
storage it is configured with. `EnsureAuditPartition` is the registry's start,
`RecordEvent` an insert routed by the parent table. `Start`, `CreatePartition` (one
month), `ListExpired`, `TakePartition`, then `CheckArchived`, `Export`, `UploadObject` or
`BeginFile` and `FinishFile`, `VerifyUpload`, `BeginDetach` and `FinishDetach` (the two
transactions of `DETACH ... CONCURRENTLY`), `DropPartition`. `GiveUp` stands for every
early return of `archive_single_partition` and `End` for the end of a run, by completion,
signal or crash; `LoseLock` for the pool closing the connection that holds it. Months
have equal length; the date passes by `NextDay`. History variable: `born`.

**`Registration`**. `primary` holds the rows of `agent_manifests`, over `Database` as in
`Grants`; `regOtp` the passwords. `RegStart` or `RegBootstrap` is what a request does up
to the first look-up (the signature, or GETDEL), then `RegExists`, `RegInsert`;
`RegDelete` and `RegRecheck` are the deletion; `RegBreakOff` every error and hang-up.
History variables: `regTold`, `regRaced`.

**`Breaker`**. One action per method, as each holds the lock throughout: `BrAsk` is
`is_call_permitted`, `BrRecordSuccess` and `BrRecordFailure` end a call as the dependency
is then. All the presets of `CircuitBreakers::new` are in `BrPresets`.
History variable: `brRow`, for each age up to a window's length the failures recorded by a
closed circuit in that many last ticks. **`InFlight`**:
`IfArrive`, `IfGiveBack` of a refused request, `IfDone` when the guard is dropped.

**`Health`**. `HlStart`, `HlConnect` in each service's order, `HlWarmUp`, `HlServe`; a probe
checks the flags and then each store (`HlProbeStarts`, `HlCheckPostgres`,
`HlCheckRedis`); `HlCrash`; stores come and go. The balancer (external) routes by the
last answer.

**`SigningKey`**. `KeyStart` picks the backend and reads the key, `KeySign` uses Vault's
newest version, `KeyRotate` makes one. **`Envelope`**: one step takes an envelope that
validates; the operators are `TimeWindow::contains`, `validate` and the limiter's period.

**`SdkClient`**. A task is one call of the client; `SdkStep` lists what a call does between
two awaits. `SdkTransportFails` and `SdkAnsweredError` are the two kinds of error of
`with_retry`, `SdkAnswerLost` an issue that was done and not heard of. The registry is
composed in: `SdkIssueToken` does the idempotent look-up and the insert, so that a client
that lost its key gets the token bound to the old one, as the registry does.
**`SdkLimiter`** is the bucket and the two maps a grant is stored in. History
variables: for each age up to the interval, what was admitted (`limAdmitted`) and how many
limiters were loaded (`limLoaded`) in that many last ticks, and for how long the map has
had one (`limFor`).

**`McpAgent`**. `McpStart`, `McpLoad`, `McpFirstRun`, `McpRegister`, request, poll, serve,
with `McpSaved` after each change and `McpCrash` anywhere, in a save too. `loadState` makes
"no file" of any error while reading it; only that of a torn save is in the model. Tool
calls overlap: `mcpCall[c]` follows one through `McpAsk`, then in the registry
`McpLookAtGrant` (on a replica, which shows a revoked grant as approved for up to
`McpLag`), `McpFindToken` and `McpInsertToken` (on the primary, awaits later), and back
through `McpGotToken`, which replaces the shared cache; `McpCallFails` is a refusal or a
loss on either way. `McpPatience` bounds the ticks between the look and the date on the
token. The request for a grant looks at a replica too (`McpGrantFor`), and its answer may be
lost.
**`DemoAgent`**: one action per call of `main`, `DemoHandle` for the provider's handlers.
**`ApprovalPage`**: one action per click and per answer (`PageHealth`, `PageGet`,
`PageDecided`, `PageAnswer`), the tasks being the page's async functions in flight. In
these three the registry does what `Grants` and `Tokens` say, one request a step but for
the issue of `McpAgent`. In `SdkClient` too an issue is one step, so `SdkLag` stands for the
replica's lag and the time from the look to the date on the token together. In `DemoAgent`
a failed request for a grant may have made its row; the row that the call loading the grant
may leave behind so is looked at by nobody and left out.

**`Parts`**. Each of these eleven shares no variable with the others and meets the registry
only as its environment. `part` says which one moves; the rest keep their first state.

## 3. What the runs show

| Run | Checks | Bounds |
|---|---|---|
| `grants` | `TypeOK`, `ReplicaBehind`, `AnswersTruthful`, `GrantedKindsRequested`, `LifecycleRefined`, `ClosedStaysClosed` | 2 requests in flight, 1 grant, 1 replica, 3 capabilities of 2 kinds, 4 lists |
| `grants_flood` | `PendingOvershootBounded` | 2 requests, limit 1, 2 grants, 2 providers |
| `tokens` | `TypeOK`, `GrantsHonoured`, `RevocationHolds`, `AllowedForItsProvider`, `ReplayRejected` | 2 requests, 1 token, 2 providers, 1 nonce, 1 replica, 2 instants, life and window 1 |
| `tokens_burst` | `IssueBurstBounded` | 2 requests, 2 tokens, 2 instants, window 0, no verifications |
| `audit` | `TypeOK`, `ChainsGrounded`, `QuietChainLinear` | 3 requests in 2 processes, 2 agents, 4 events |
| `archiver` | `TypeOK`, `NothingLost`, `CurrentStays`, `KeptUntilNamedAge` | 2 runs, 1 event, months of 2 days, 5 days, retention and advance of 2 and 1 days |
| `parts` | the properties of the eleven parts, below | below |

The bounds are enough for the interesting cases: two requests in flight already give
every competing pair (two approvals, approval and denial, issue and revoke, revoke and
verify), an early reader and a late writer; a replica adds a third, independent clock.
Each property is broken by a small plausible change of the code (PROJECT.json lists
it), so the bounds reach the states the property is about. Where two requests and one
row suffice for the protocol, the flood and burst runs raise the number of rows, because
there the number is what counts. What holds for these instances is proved for all of
them where section 4 says so.

For the archiver one event is enough, since no step relates two, and five days take a
partition from its creation on the last day of a month through expiry to its drop.

| In `parts` | Properties | Bounds |
|---|---|---|
| `SdkClient` | `SdkEndedGrantFades`, `SdkServedAgain` | 2 tasks, 1 grant, life 2, refresh 1, lag 1, a call takes 1 tick and 1 retry |
| `SdkLimiter` | `LimRateHeld` | 2 tasks, burst 2, a cell each 2 ticks, intervals of 3 ticks, 2 grants in each |
| `Breaker` | `BrMissesBounded`, `BrRecovers` | 3 calls, the preset of Redis, and one that needs two successes |
| `InFlight` | `IfHeld` | 4 requests, limit 2 |
| `Health` | `HlRouting` | both services, 2 probes |
| `McpAgent` | `McpServesApproved`, `McpIdentityKept`, `McpRevokedFades` | 2 identities, 2 grants, 1 tool call at a time, life 2, margin 1, lag 1, 1 tick from look to date |
| `DemoAgent` | `DemoServedOnlyGranted`, `DemoNeedsFailure` | 2 tries, 3 polls, 2 grants |
| `Registration` | `RegFirstStays`, `RegOtpOnce`, `RegDeletionHolds` | 2 requests, 2 ids, 3 manifests (two keys for one id, one name twice), 1 password, 1 replica |
| `ApprovalPage` | `PageHighRiskConfirmed`, `PageTellsTruth` | 2 calls in flight, 2 capabilities, one of high risk |
| `Envelope` | `EnvAsSaid` | hours at every edge, lists of days with one that is invalid, rates up to 90000 |
| `SigningKey` | `KeyPublishedVerifies` | 3 versions |

One run is enough for all of them, as only one part moves in a behaviour: the states of
the run are those of the parts side by side, and what holds here of a part holds of its
own specification. `PartsTypeOK` is the type invariant of all. The bounds give each part
two actors that overlap, each time limit a state before, at and after it, and each counter
one step more than its limit; where the number itself matters (limits, lives, lags) the
theorem of section 4 is for all of them.

Three properties need a word. `RevocationHolds` says that a verification that starts after
a client was told of the revocation is refused *unless* the token is in `excused`, which
only happens when (1) a copy of the unrevoked row was on its way to Redis when the row
was updated, (2) the row was read from a replica that did not have the update, (3) a
mark in Redis was lost, or (4) "already revoked" was answered while the first revocation
had not marked Redis yet. The run shows there is no fifth way.
`IssueBurstBounded` bounds how far the idempotency of issuing may fail: at most one live
token per request in flight. `GrantsHonoured` is about requests that name only their grant.
What such a request is answered with may be a token that another request, in full form,
had made for another provider, since `find_existing_token` goes by the grant alone; the
property therefore speaks of getting past the look at the grant, and of the tokens made.
A revoked grant still gives tokens to requests that looked before or at a replica that was
behind, and to nobody once both are over.

`McpRevokedFades` counts from the revocation: a replica may show the grant as approved for
`McpLag` ticks, a request that saw it so dates its token within `McpPatience`, and from then
on the token has a life. Both bounds are about the environment (PostgreSQL's replication
and one query on the primary); without them the code has no bound at all.

### Disagreements between code and documentation

Five runs end in a violation; each checks one sentence of the repository.

* `grants_revocation_answer`: "Revoke a grant." A revocation whose `UPDATE` matched
  nothing is answered 204, and audited, when its second look-up sees the grant approved.
* `tokens_propagate`: "Revocation propagates: verify succeeds, revoke, verify fails"
  (`tests/integration/revocation.rs`). The cache write at the end of an issue may come
  after a revocation and undo its mark.
* `audit_agent_chains`: "Verify audit chain integrity for an agent." The service chains
  the events of all agents; the verification expects a chain per agent.
* `archiver_retention`: "How many days to keep partitions in PostgreSQL." A registry
  started on a month's last day makes a partition for two months (`now + 32 days`); the
  archiver knows it by its name and drops it when the first month's time has come.
* `health_recovery`: "verifier should recover within 30 seconds after Redis restart", and
  "registry should recover within 60 seconds after PostgreSQL restart"
  (`tests/stability/recovery.rs`), both of `/health/ready` and without a restart of the
  service. A probe that fails clears the process's flag, which only `main` sets, and
  with the flag cleared no probe looks at a store again: one probe during the outage, and
  the process answers 503 until it is restarted. The tests do not probe during the outage;
  a balancer does. `HlRouting` (run `parts`) says what the code does instead: a failed check
  is final, and only a restart brings the process back.

Two more are stated by properties that hold.

* `DemoNeedsFailure` (run `parts`): "Still pending? Shouldn't happen after we waited"
  (`demo-agent/src/main.rs`). The call that should load the approved grant always makes a
  new pending one, so a run without failures never gets to its requests.
* `RegDeletionHolds` (run `parts`): "Agent exists but wasn't deactivated - already inactive"
  (`handlers/agents.rs`). The second look-up may see an agent registered after the
  `UPDATE`; it is active, and the answer is 204. `regRaced` names this exception.

Noticed while modelling, without a run of their own: `GrantConfig` calls
`max_pending_per_agent` the maximum (it is exceeded by overlapping requests, how far is
`PendingOvershootBounded`); `tests/integration/idempotency.rs` says one token per grant
and window (how far this fails is `IssueBurstBounded`); `token.rs` says tokens are issued
for an approved grant (a request with all five optional fields is not checked;
`GrantsHonoured` is about the others); migration 004 calls the granted capabilities
a subset of the requested ones (only kinds are compared, `GrantedKindsRequested`);
migration 004 has a status `expired` that nothing sets, and lapsed pending grants count
against the limit; `audit.rs` asks callers to record in the same transaction, and they
record after it; revoking a grant leaves its tokens live; a nonce key lives as long as a
token while tokens are accepted for the clock skew longer (`ReplayRejected` therefore
speaks of tokens that have not expired).

Of the clients: the SDK never gets a grant from this registry, which answers every
request for one with "pending", also after the approval (`SdkClient` takes the answer the
SDK waits for as given); the SDK reads `{code, error}` from a refusal and the registry
sends `{error, message}`, so every refusal is unknown to it; its retry documentation names
status codes and a header that the code does not look at; its background refresh is
empty; a new grant refills the limiter's burst, and a request between the two maps of
`request_grant` is not limited; one proof serves all retries of a request. The idempotent
issue ignores the key a token is bound to. Registering a taken id is answered
"already registered" before the signature is looked at, whatever the manifest. Grants and
tokens do not look at whether their agent was deactivated. A password is lost with a
bootstrap that fails later, and nothing in the code stores one. The MCP server's comment
on its poll says it asks for the status and the code posts the request again; a lapsed
pending grant is polled for ever; the branches for "expired" cannot be reached; and its
file is rewritten at every start without a rename. On the approval page "expired" cannot
be reached, the last answer to arrive decides what is shown, the nonce and signature it
sends are random, and a second load that answers late restores the rows the human took
out.

Of the rest: `chaos/redis-partition.yaml` counts on circuit breakers that no
service uses, and, like the tests of `health_recovery`, on a service that recovers by itself. The
envelope calls its rate the maximum of requests per minute (`core/src/types/envelope.rs`),
while the limiter's period, truncated to whole milliseconds, lets through up to twice as
many (`EnvAsSaid` says how far). The
public key is read once and the key id never changes, so that a rotation in Vault breaks
verification until a restart. A time window with equal hours is never open, a whole day
cannot be written, and the part of a night after midnight is judged by that day, not by
the one the window began on.

### Fairness

`Grants`, `Tokens`, `AuditChain`, `Archiver` and `Registration` assume none: a request may
stop at any await, as a disconnect or a crash has it, and their properties are about states and steps. Three parts state fairness, and three properties
are about what must come about:

* `SdkFairness`: time passes, and a call that has started goes on, since every attempt is
  under `request_timeout`. `SdkServedAgain` says in addition what it is about: from some
  time on the grant stays approved, calls stop failing, and the agent keeps asking. Then
  it is served again and again, although nothing renews a token early, an unnoticed
  revocation leaves it a dead token, and a changed key a token it cannot use.
* `BrFairness`: time passes, and a permitted call ends (it has a timeout). `BrRecovers`
  assumes a dependency that works from some time on, and callers that keep asking.
* `HlFairness`: the balancer keeps probing each instance (strong, as a prober is busy in
  between) and a probe under way goes on. That a process is started again is *not*
  assumed: `HlRouting` says that after a failed check nothing but a restart makes a
  process ready, and that the routing follows the stores and the flags.

`PartsFairness` is the three, each where its part moves.

## 4. What is proved

All proofs are for arbitrary constants under the assumptions named in the modules.

* `DatabaseProof`: a commit or a replay changes the streams as expected
  (`CommitStreams`, `ReplicateStreams`), and whatever a replica shows is a state the
  streams hold (`ViewIsPast`). Proved once, used by every module over `Database`.
* `GrantsProof` (assuming finitely many, at least one, handlers; `TypeKey` a function;
  `MaxPending`, `MaxGrants` naturals): `TypeCorrect`, `ReplicasShowThePast`,
  `KindsRequested`, `AnswersStayTrue`, `OvershootBounded`, `GrantsImplementLifecycle`,
  `WindowsStayClosed`. The central invariant is `ReplicaBehind`: whatever a request read,
  the primary has the same grant at the same or a later stage. It makes each stale read
  harmless: the `UPDATE`'s own guard then fixes what may have happened in between. The
  kinds of an approval on its way stay within what was asked, and an answer given for a
  decided grant can only be outdone by a revocation. The overshoot is a counting
  argument: `CountPending` adds a request to those admitted only below the limit, and
  each later step trades one admitted request for one pending grant.
* `AuditChainProof` (assuming `Home` maps handlers to processes): `TypeCorrect`,
  `HashesLeadBack`, `QuietLogIsOneChain`. The strengthening `HashesKnown` says that a
  hash held anywhere is that of an existing row; `QuietHandOver` says that in a quiet log
  one request at most is recording and it, or some process, holds the last row's hash.
* `ArchiverProof` (assuming the retention is at least a month): `TypeCorrect`,
  `EventsSurvive`, `TodayStaysAttached`, `KeptLongEnough`. A partition that a run has on
  its list has expired by its name, which with that assumption means that no month of its
  range is still running (`ExpiredTakesNone`), so it takes no more events and every export
  of it reads the same rows. `Kept` then follows one event: it is in an attached table
  that no run is taking off, or an object is there; a complete object holds it, and so
  does every run that has read the table. The proof never uses the lock: the runs are
  safe without it.

* `TokensProof` (assuming finitely many, at least one, requests; each grant a provider; a
  nonce kept at least as long as a token lives, as both default to the same; and that the
  value that stands for "no grant" is none): every property of the passing
  token runs. `Sound`
  is the base: what a replica shows lies before the primary (rows only ever appear, become
  approved, then revoked), and what a request, the cache or the log of checks holds about
  a token agrees with its row except for the flag. `GrantsAlwaysHonoured` rests on it: a grant
  that a replica shows as approved is so, or revoked, on the primary, and one that every
  replica shows as revoked is never shown otherwise again. Then three more arguments.
  `BurstBounded` counts, for each grant, live tokens of the window plus requests past the
  look-up: `FindToken` only moves on when there is none. `RevocationObeyed` is a chain: a
  token that is revoked and not excused has no copy on its way (`NoCopies`), once its marks
  are made the entry in Redis says revoked (`MarksMade`), a client was only told when both
  hold (`TellsTruth`), and a verification that began later cannot pass (`LateSounds`).
  `ReplaysRejected` follows a nonce's key: between SETNX and EXPIRE it has no end and one
  owner (`ExpireOwns`), after EXPIRE it outlives the token (`KeyLives`), so a second
  verification past SETNX comes after the token's end (`TwiceLate`, `AgainLate`).
* `RegistryPartsProof`, the parts of the two services, each by its own specification:
  * registration (assuming passwords are not keys): `FirstManifestStays`, `OtpBringsOne`,
    `DeletionHolds`. A password is with one request, on one row, or in Redis
    (`RegOtpHeld`); no replica has a row that the primary lacks (`RegStreamsPast`), so a
    deletion that finds the agent on a replica tells of one that exists;
  * the breaker (assuming only that thresholds are positive): `ClosedCircuitMisses`.
    `BrWindowCounted` splits the last window's length where the current tumbling window
    began: the failures since then are those the circuit has counted, fewer than the
    threshold, or it would have opened; those before were counted in the window that ended
    there. Past a window's end the next failure starts a new one before it is counted;
  * readiness: `FailedStaysOut`, the safety part of `HlRouting`. Its strengthening `HlInv`
    says that only a process that serves is probed, so a failed check never belongs to one
    whose flags are still to be set;
  * `InFlightHeld` by counting, `PublishedKeyVerifies`, and `EnvelopeAsSaid`, which is
    integer arithmetic over all hours and rates.
* `ClientsProof`: `McpServesOnlyApproved`, `McpKeepsIdentity`, `McpRevocationFades`,
  `DemoServesOnlyGranted`, `DemoMeetsFailure`, `PageConfirmsHighRisk`,
  `PageShowsDecision`, `SdkRevocationFades`, `SdkHoldsRate`. Identities are counted against
  torn saves (`McpOneIdentity`). A token's remaining life plus the time since its grant was
  revoked never exceeds a life, the replica's lag and the time between look and date,
  wherever the token is: on its way, in the registry, in an answer, in the cache. Both
  fading theorems are that sum (`McpFading` carries it through a tool call: a request that
  has looked did so at most the lag plus the time it has waited after the revocation); for
  the SDK the time a call has waited is added. The rate is an
  account in ticks (`LimAccounted`): of every interval, what was admitted and what is left
  in the bucket, phase included, came from one burst, the bursts of the limiters loaded in
  it and its length. A request spends a cell, a load adds a burst, a tick adds at most one
  to both sides; the bucket's content is never negative, and dividing by the period gives
  the rate.
* `PartsProof`: `PartsRunAlone`, a behaviour of `Parts` is one of each part's own
  specification (for the three with fairness, the same invariants are proved from the
  steps); hence `PartsTyped` and `PartsSafe`, every safety property that the run of
  `Parts` checks, for every value of the constants. That is also why one run may stand for
  eleven.

**The grants the clients meet.** `McpAgent`, `DemoAgent` and `ApprovalPage` are checked
against a registry that does in one step what `Grants` does in several, and `Tokens` takes
its grants from a table that `Grants` is about. `McpMeetsLifecycle`, `DemoMeetsLifecycle`,
`PageMeetsLifecycle` and `GrantsFollowLifecycle` show that each of them lets a grant do
only what `GrantLifecycle` allows, the abstract specification that `Grants` implements
(`GrantsImplementLifecycle`): the registry they meet keeps the promise that the real one is
proved to keep. (`Tokens` has no capabilities, so there only the status counts.) The page
begins with a grant on file and `Tokens` with its grants pending, so these two are stated
for the steps. `SdkClient` is left out: it takes the answer "approved" as given (section
3), which the life cycle has not.
`DecisionsStand` in `GrantsProof` draws the consequence for whoever relies on a grant,
through the refinement: a denial or revocation is final, an approval ends only by a
revocation, and what a grant covers never grows.

**Only model-checked:** `SdkServedAgain`, `BrRecovers` and the three liveness conjuncts of
`HlRouting`. They hold under fairness, which is out of the prover's reach; every other
property of a passing run is a theorem.

## 5. What is not modelled

* HTTP, serialisation, logging, metrics, tracing, error types, configuration loading; rate
  limiting at the edge; clock differences between processes (`Skew` is only the allowance
  the verifier makes); `ON DELETE CASCADE` (no code deletes); partial failure inside
  PostgreSQL or Redis beyond lost replies.
* Cryptography: hashes are injective and signatures verify. `KmsSigningBackend` is not
  implemented in the code, and the core's `sign_token` and `verify_token` are not called
  by a service; with them, the validation of capabilities, tokens and manifests in
  `crates/core/src/types` is reached by no request.
* Code without a caller: the sliding-window rate limit and idempotency keys of
  `services/cache.rs`, `store_otp` (passwords appear, as its caller will have it), the
  SDK's refresh guard and the removal and clean-up methods of its token cache.
* `verify_token_batch`, which runs `verify_token` for each item; `get_*` and list queries,
  the paging of the audit log, the endpoint for recording an event
  (`handlers/audit.rs`, which answers with an error whatever it is sent), liveness and
  startup probes: they change nothing, or do what is modelled already.
* The archiver's conversion to Parquet, total on the rows the table admits; the seeding of
  the demo's rows.
* `crates/schema` and `crates/py` (data definitions and a thin wrapper over the SDK), the
  approval UI's pages that list agents and activity, deployment files, chaos and load
  tests: no state of their own.
* A pending grant that has lapsed counts against its agent's limit for ever
  (`queries.rs:324`): `Grants` has it so, and no promise in the repository speaks of it.

## 6. Plan

Done, in this order: `Database`, `Grants` with `GrantLifecycle`, `GrantsProof`, `Tokens`,
`AuditChain` and `AuditChainProof`, `Archiver` and `ArchiverProof`, then `SdkClient`,
`SdkLimiter`, `Breaker`, `InFlight`, `Health`, `McpAgent`, `DemoAgent`, `Registration`,
`ApprovalPage`, `Envelope`, `SigningKey` with `Parts`, then `RegistryPartsProof`,
`ClientsProof`, `TokensProof`, and `PartsProof` with the life cycle behind every client.
What would come next:

1. An abstract specification of a token's life (issued, told, revoked, over), implemented
   by `Tokens`: the excuses of `RevocationHolds` would become the abstract
   specification's only way from revoked back to allowed.
2. The token and the registry of `McpAgent`, `DemoAgent` and `SdkClient` as refinements of
   it, as their grants are of `GrantLifecycle`.
3. A composition of `Grants`, `Tokens` and `SdkClient` in one state, instead of the
   one-step registry in the clients; it needs smaller instances than each has alone.
