------------------------------ MODULE McpAgent ------------------------------
(***************************************************************************)
(* The MCP server agent (services/agentauth-mcp): its start-up, the state  *)
(* file that carries its identity and grant from one run to the next,      *)
(* waiting for the human, and its tool calls.  One process at a time; it   *)
(* may crash anywhere, also in the middle of writing the file.  Tool calls *)
(* overlap and share one cached token.                                     *)
(* The registry is the environment and does what Grants and Tokens say:    *)
(* one request a step, but for the issue of a token, where the look at the *)
(* grant, the look for a token and the insert are three.  A replica shows  *)
(* a grant as approved for a while after its revocation.                   *)
(***************************************************************************)
EXTENDS Integers

CONSTANTS
  McpIds,        \* bound: identities ever generated, 1..McpIds
  McpGrants,     \* bound: grants ever inserted, 1..McpGrants
  McpCalls,      \* tool calls in flight
  McpLifetime,   \* life of a token
  McpMargin,     \* TWO_MINUTES: a token with no more life than this is renewed
  McpLag,        \* how long a replica of the registry shows a revoked grant as approved
  McpPatience    \* bound: ticks from an issue's look at the grant to the date on its token

ASSUME McpAssumption ==
  /\ {McpIds, McpGrants} \subseteq Nat \ {0}
  /\ {McpLifetime, McpMargin, McpLag, McpPatience} \subseteq Nat
  /\ McpMargin <= McpLifetime
  /\ McpLifetime > 0

VARIABLES
  mcp,         \* the process: where it is and the state it has in memory
  mcpFile,     \* the state file
  mcpToken,    \* life left of the module-level token cache, 0 if none
  mcpCall,     \* [McpCalls -> where a call's request for a token is]
  mcpRow,      \* registry: [1..McpGrants -> the grant's row]
  mcpNewest,   \* registry: [1..McpGrants -> life left of its newest token, 0 if none]
  mcpSince,    \* history: [1..McpGrants -> ticks since it was revoked]
  mcpMade,     \* history: identities generated
  mcpTorn      \* history: crashes in the middle of a save

mcpVars ==
  <<mcp, mcpFile, mcpToken, mcpCall, mcpRow, mcpNewest, mcpSince, mcpMade, mcpTorn>>

mcpRegistry == <<mcpRow, mcpNewest, mcpSince>>

-----------------------------------------------------------------------------
McpGrantIds == 1..McpGrants

\* AgentState; agent and grant 0 are "none".
McpState == [agent : 0..McpIds, grant : 0..McpGrants, status : {"new", "pending", "approved"}]

McpBlank == [agent |-> 0, grant |-> 0, status |-> "new"]

\* What loadState makes of a missing or unreadable file: no state.
McpNoFile == McpBlank

McpPlaces == {"down", "load", "discover", "register", "request", "poll", "ready", "serve"}

\* `save' goes on to `then'.
McpProcess == [at : McpPlaces \cup {"save"}, then : McpPlaces, st : McpState]

McpDown == [at |-> "down", then |-> "down", st |-> McpBlank]

McpRow == [agent : 0..McpIds, lapsed : BOOLEAN,
           status : {"none", "pending", "approved", "denied", "revoked"}]

McpNoRow == [agent |-> 0, lapsed |-> FALSE, status |-> "none"]

\* A request for a token: on its way, in the registry - the grant looked at
\* `waited' ticks ago, or a token dated, with `left' of its life - or answered.
McpRequest ==
  [at : {"idle", "ask", "find", "insert", "reply"},
   waited : 0..McpPatience, left : 0..McpLifetime]

McpNoCall == [at |-> "idle", waited |-> 0, left |-> 0]

McpNoCalls == [c \in McpCalls |-> McpNoCall]

\* From here on the age of a revocation no longer matters.
McpHorizon == McpLifetime + McpLag + McpPatience

McpTypeOK ==
  /\ mcp \in McpProcess
  /\ mcpFile \in McpState
  /\ mcpToken \in 0..McpLifetime
  /\ mcpCall \in [McpCalls -> McpRequest]
  /\ mcpRow \in [McpGrantIds -> McpRow]
  /\ mcpNewest \in [McpGrantIds -> 0..McpLifetime]
  /\ mcpSince \in [McpGrantIds -> 0..McpHorizon]
  /\ mcpMade \in 0..McpIds
  /\ mcpTorn \in 0..McpIds

McpInit ==
  /\ mcp = McpDown
  /\ mcpFile = McpNoFile
  /\ mcpToken = 0
  /\ mcpCall = McpNoCalls
  /\ mcpRow = [g \in McpGrantIds |-> McpNoRow]
  /\ mcpNewest = [g \in McpGrantIds |-> 0]
  /\ mcpSince = [g \in McpGrantIds |-> 0]
  /\ mcpMade = 0 /\ mcpTorn = 0

McpGoto(place) == mcp' = [mcp EXCEPT !.at = place]

\* saveState(st), to go on at `place'.
McpSaving(st, place) == mcp' = [at |-> "save", then |-> place, st |-> st]

-----------------------------------------------------------------------------
(* main (index.ts), loadState, initState, saveState (state.ts) *)

McpStart ==
  /\ mcp.at = "down"
  /\ mcp' = [McpDown EXCEPT !.at = "load"]
  /\ UNCHANGED <<mcpFile, mcpToken, mcpCall, mcpRegistry, mcpMade, mcpTorn>>

\* A slip: a file from an unfinished run is taken for a first run.
McpLoadApproved ==
  /\ mcp.at = "load"
  /\ IF mcpFile.status # "approved"
       THEN McpGoto("discover")
       ELSE mcp' = [mcp EXCEPT !.at = "register", !.st = mcpFile]
  /\ UNCHANGED <<mcpFile, mcpToken, mcpCall, mcpRegistry, mcpMade, mcpTorn>>

McpLoad ==
  /\ mcp.at = "load"
  /\ IF mcpFile = McpNoFile
       THEN McpGoto("discover")
       ELSE mcp' = [mcp EXCEPT !.at = "register", !.st = mcpFile]
  /\ UNCHANGED <<mcpFile, mcpToken, mcpCall, mcpRegistry, mcpMade, mcpTorn>>

\* fetchDiscoveryIds, then initState: a fresh key and agent id.
McpFirstRun ==
  /\ mcp.at = "discover"
  /\ mcpMade < McpIds
  /\ mcpMade' = mcpMade + 1
  /\ McpSaving([McpBlank EXCEPT !.agent = mcpMade'], "register")
  /\ UNCHANGED <<mcpFile, mcpToken, mcpCall, mcpRegistry, mcpTorn>>

McpSaved ==
  /\ mcp.at = "save"
  /\ mcpFile' = mcp.st
  /\ McpGoto(mcp.then)
  /\ UNCHANGED <<mcpToken, mcpCall, mcpRegistry, mcpMade, mcpTorn>>

\* register: 201, 200 and 409 are all fine.
McpRegister ==
  /\ mcp.at = "register"
  /\ McpGoto("request")
  /\ UNCHANGED <<mcpFile, mcpToken, mcpCall, mcpRegistry, mcpMade, mcpTorn>>

\* An error answer or a failed fetch in the middle of start-up ends the process.
McpFatal ==
  /\ mcp.at \in {"discover", "register", "request", "poll"}
  /\ mcp' = McpDown
  /\ UNCHANGED <<mcpFile, mcpToken, mcpCall, mcpRegistry, mcpMade, mcpTorn>>

\* The process dies; a file being written is left as it was, unreadable, or new,
\* and the registry drops the requests of a client that is gone.
McpCrash ==
  /\ mcp.at # "down"
  /\ mcp' = McpDown
  /\ mcpToken' = 0
  /\ mcpCall' = McpNoCalls
  /\ IF mcp.at = "save"
       THEN /\ mcpTorn < McpIds
            /\ mcpTorn' = mcpTorn + 1
            /\ mcpFile' \in {mcpFile, McpNoFile, mcp.st}
       ELSE UNCHANGED <<mcpFile, mcpTorn>>
  /\ UNCHANGED <<mcpRegistry, mcpMade>>

-----------------------------------------------------------------------------
(* requestOrLoadGrant (agentauth.ts) *)

\* The file's word is enough; main saves the state once more.
McpGrantOnFile ==
  /\ mcp.at = "request"
  /\ mcp.st.status = "approved" /\ mcp.st.grant # 0
  /\ McpSaving(mcp.st, "serve")
  /\ UNCHANGED <<mcpFile, mcpToken, mcpCall, mcpRegistry, mcpMade, mcpTorn>>

McpPending(agent) ==
  {g \in McpGrantIds : mcpRow[g].agent = agent /\ mcpRow[g].status = "pending"}

\* POST /v1/grants/request: the pending grant of this agent, lapsed or not, or one
\* decided since that a replica behind still shows as pending; or, whatever
\* became of earlier ones, a new one, which the unique index allows while none is
\* pending.
McpGrantFor(g) ==
  \/ /\ mcpRow[g].agent = mcp.st.agent
     /\ UNCHANGED mcpRow
  \/ /\ McpPending(mcp.st.agent) = {}
     /\ mcpRow[g] = McpNoRow
     /\ \A k \in McpGrantIds : k < g => mcpRow[k] # McpNoRow
     /\ mcpRow' = [mcpRow EXCEPT ![g] =
          [agent |-> mcp.st.agent, lapsed |-> FALSE, status |-> "pending"]]

\* The answer is always "pending", and its "approved" branch is never taken; or
\* it is lost, and the process ends.
McpRequestGrant ==
  /\ mcp.at = "request"
  /\ ~(mcp.st.status = "approved" /\ mcp.st.grant # 0)
  /\ \E g \in McpGrantIds :
       /\ McpGrantFor(g)
       /\ \/ McpSaving([mcp.st EXCEPT !.grant = g, !.status = "pending"], "poll")
          \/ mcp' = McpDown
  /\ UNCHANGED <<mcpFile, mcpToken, mcpCall, mcpNewest, mcpSince, mcpMade, mcpTorn>>

\* A grant as a replica shows it.
McpSeenApproved(g) ==
  \/ mcpRow[g].status = "approved"
  \/ mcpRow[g].status = "revoked" /\ mcpSince[g] <= McpLag

\* A slip: whatever is not pending any more has been approved.
McpPollAnyDecision ==
  /\ mcp.at = "poll"
  /\ mcpRow[mcp.st.grant].status \in {"approved", "denied", "revoked"}
  /\ McpSaving([mcp.st EXCEPT !.status = "approved"], "ready")
  /\ UNCHANGED <<mcpFile, mcpToken, mcpCall, mcpRegistry, mcpMade, mcpTorn>>

\* Every two seconds.  "approved" is saved; "denied" ends the process; any other
\* status, and an error answer, waits on - "expired" never comes, as a grant
\* that lapses stays pending.
McpPoll ==
  /\ mcp.at = "poll"
  /\ \/ /\ McpSeenApproved(mcp.st.grant)
        /\ McpSaving([mcp.st EXCEPT !.status = "approved"], "ready")
     \/ /\ mcpRow[mcp.st.grant].status = "denied"
        /\ mcp' = McpDown
  /\ UNCHANGED <<mcpFile, mcpToken, mcpCall, mcpRegistry, mcpMade, mcpTorn>>

\* main saves it again and starts the server.
McpReady ==
  /\ mcp.at = "ready"
  /\ McpSaving(mcp.st, "serve")
  /\ UNCHANGED <<mcpFile, mcpToken, mcpCall, mcpRegistry, mcpMade, mcpTorn>>

-----------------------------------------------------------------------------
(* tools.ts, getToken (agentauth.ts) *)

McpCallGoes(c, at) == mcpCall' = [mcpCall EXCEPT ![c].at = at]

\* A tool call with too little life left in the cached token asks the registry for
\* one; with enough it sends the cached token, and nothing changes.
McpAsk(c) ==
  /\ mcp.at = "serve"
  /\ mcpCall[c].at = "idle"
  /\ mcpToken <= McpMargin
  /\ McpCallGoes(c, "ask")
  /\ UNCHANGED <<mcp, mcpFile, mcpToken, mcpRegistry, mcpMade, mcpTorn>>

\* A slip: any grant the registry knows is good enough.
McpLookAtAnyGrant(c) ==
  /\ mcpCall[c].at = "ask"
  /\ McpCallGoes(c, "find")
  /\ UNCHANGED <<mcp, mcpFile, mcpToken, mcpRegistry, mcpMade, mcpTorn>>

\* POST /v1/tokens/issue: the grant is approved, on a replica.
McpLookAtGrant(c) ==
  /\ mcpCall[c].at = "ask"
  /\ McpSeenApproved(mcp.st.grant)
  /\ McpCallGoes(c, "find")
  /\ UNCHANGED <<mcp, mcpFile, mcpToken, mcpRegistry, mcpMade, mcpTorn>>

\* find_existing_token, on the primary: the newest token of the grant if it has
\* life left; else a new one is made, dated now.
McpFindToken(c) ==
  LET newest == mcpNewest[mcp.st.grant] IN
  /\ mcpCall[c].at = "find"
  /\ mcpCall' = [mcpCall EXCEPT ![c] =
       IF newest > 0 THEN [at |-> "reply", waited |-> 0, left |-> newest]
       ELSE [at |-> "insert", waited |-> 0, left |-> McpLifetime]]
  /\ UNCHANGED <<mcp, mcpFile, mcpToken, mcpRegistry, mcpMade, mcpTorn>>

McpInsertToken(c) ==
  /\ mcpCall[c].at = "insert"
  /\ mcpNewest' = [mcpNewest EXCEPT ![mcp.st.grant] =
       IF @ < mcpCall[c].left THEN mcpCall[c].left ELSE @]
  /\ McpCallGoes(c, "reply")
  /\ UNCHANGED <<mcp, mcpFile, mcpToken, mcpRow, mcpSince, mcpMade, mcpTorn>>

\* The answer arrives: whatever token another call cached meanwhile is replaced,
\* and the request to the service leaves with this one.
McpGotToken(c) ==
  /\ mcpCall[c].at = "reply"
  /\ mcpToken' = mcpCall[c].left
  /\ mcpCall' = [mcpCall EXCEPT ![c] = McpNoCall]
  /\ UNCHANGED <<mcp, mcpFile, mcpRegistry, mcpMade, mcpTorn>>

\* The request or the answer is lost, or the registry refuses or fails: the call is
\* an error; the cache, and the "approved" on file, stay.
McpCallFails(c) ==
  /\ mcpCall[c].at # "idle"
  /\ mcpCall' = [mcpCall EXCEPT ![c] = McpNoCall]
  /\ UNCHANGED <<mcp, mcpFile, mcpToken, mcpRegistry, mcpMade, mcpTorn>>

-----------------------------------------------------------------------------
(* The human and the clock *)

\* POST .../approve, refused for a lapsed grant, and .../deny.
McpApprove(g) ==
  /\ mcpRow[g].status = "pending" /\ ~mcpRow[g].lapsed
  /\ mcpRow' = [mcpRow EXCEPT ![g].status = "approved"]
  /\ UNCHANGED <<mcp, mcpFile, mcpToken, mcpCall, mcpNewest, mcpSince, mcpMade, mcpTorn>>

McpDeny(g) ==
  /\ mcpRow[g].status = "pending"
  /\ mcpRow' = [mcpRow EXCEPT ![g].status = "denied"]
  /\ UNCHANGED <<mcp, mcpFile, mcpToken, mcpCall, mcpNewest, mcpSince, mcpMade, mcpTorn>>

McpRevoke(g) ==
  /\ mcpRow[g].status = "approved"
  /\ mcpRow' = [mcpRow EXCEPT ![g].status = "revoked"]
  /\ UNCHANGED <<mcp, mcpFile, mcpToken, mcpCall, mcpNewest, mcpSince, mcpMade, mcpTorn>>

McpLapse(g) ==
  /\ mcpRow[g].status = "pending" /\ ~mcpRow[g].lapsed
  /\ mcpRow' = [mcpRow EXCEPT ![g].lapsed = TRUE]
  /\ UNCHANGED <<mcp, mcpFile, mcpToken, mcpCall, mcpNewest, mcpSince, mcpMade, mcpTorn>>

McpOlder(left) == IF left = 0 THEN 0 ELSE left - 1

\* The age of a request: of its look at the grant, then of its token.
McpAged(call) ==
  IF call.at = "find" THEN [call EXCEPT !.waited = @ + 1]
  ELSE [call EXCEPT !.left = McpOlder(@)]

\* From its look at the grant a request is one query on the primary away from
\* dating its token: no look in progress is older than McpPatience.
McpTick ==
  /\ \A c \in McpCalls : mcpCall[c].at = "find" => mcpCall[c].waited < McpPatience
  /\ mcpCall' = [c \in McpCalls |-> McpAged(mcpCall[c])]
  /\ mcpToken' = McpOlder(mcpToken)
  /\ mcpNewest' = [g \in McpGrantIds |-> McpOlder(mcpNewest[g])]
  /\ mcpSince' = [g \in McpGrantIds |->
       IF mcpRow[g].status = "revoked" /\ mcpSince[g] < McpHorizon
         THEN mcpSince[g] + 1 ELSE mcpSince[g]]
  /\ UNCHANGED <<mcp, mcpFile, mcpRow, mcpMade, mcpTorn>>

-----------------------------------------------------------------------------
McpStep ==
  \/ McpStart \/ McpLoad \/ McpFirstRun \/ McpSaved \/ McpRegister
  \/ McpGrantOnFile \/ McpRequestGrant \/ McpPoll \/ McpReady

\* What a tool call does next.
McpCallStep(c) ==
  \/ McpAsk(c) \/ McpLookAtGrant(c) \/ McpFindToken(c) \/ McpInsertToken(c)
  \/ McpGotToken(c) \/ McpCallFails(c)

McpNext ==
  \/ McpStep \/ McpFatal \/ McpCrash
  \/ \E c \in McpCalls : McpCallStep(c)
  \/ \E g \in McpGrantIds : McpApprove(g) \/ McpDeny(g) \/ McpRevoke(g) \/ McpLapse(g)
  \/ McpTick

McpSpec == McpInit /\ [][McpNext]_mcpVars

-----------------------------------------------------------------------------
McpGranted(st) ==
  st.status = "approved" =>
    /\ st.grant # 0
    /\ mcpRow[st.grant].agent = st.agent
    /\ mcpRow[st.grant].status \in {"approved", "revoked"}

\* Tools are served only under a grant the human approved for this very agent,
\* and the file says so only then: through any crashes and restarts, and though
\* a run that finds "approved" on file never asks the registry.
McpServesApproved ==
  /\ mcp.at = "serve" => mcp.st.status = "approved"
  /\ McpGranted(mcp.st)
  /\ McpGranted(mcpFile)

\* The agent is the same agent in every run, unless a crash hit a save: nothing
\* else makes it generate a new identity, which no human has approved.
McpIdentityKept == mcpMade <= 1 + mcpTorn

\* A revoked grant fades.  No request leaves the agent with a live token of it, a
\* cached one or one just answered, later than a life after the last token could be
\* dated: the replica's lag, and the time an issue takes from its look at the grant,
\* after the revocation.  (agentauth.ts:113 reuses a token unasked; tokens.rs:111
\* looks at a replica, and token.rs:60 and :68 come awaits later.)
McpRevokedFades ==
  LET g == mcp.st.grant
      Fading(left) == mcpSince[g] + left <= McpHorizon
  IN  mcp.at = "serve" /\ mcpRow[g].status = "revoked" =>
        /\ mcpToken > McpMargin => Fading(mcpToken)
        /\ \A c \in McpCalls :
             mcpCall[c].at = "reply" /\ mcpCall[c].left > 0 => Fading(mcpCall[c].left)
=============================================================================
