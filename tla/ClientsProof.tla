---------------------------- MODULE ClientsProof ----------------------------
(***************************************************************************)
(* Proofs about the registry's clients: the MCP server agent, the demo,    *)
(* the approval page and the SDK with the limit it keeps on itself, for    *)
(* any number of tasks, grants and ticks.                                  *)
(***************************************************************************)
EXTENDS McpAgent, DemoAgent, ApprovalPage, SdkClient, SdkLimiter, TLAPS

-----------------------------------------------------------------------------
(* The MCP server agent *)

\* At places where the agent waits for, or has, an answer about its own grant.
McpOwnGrant ==
  /\ mcp.at = "poll" \/ (mcp.at = "save" /\ mcp.then = "poll") =>
       mcp.st.grant # 0 /\ mcpRow[mcp.st.grant].agent = mcp.st.agent
  /\ mcp.at \in {"ready", "serve"} \/ (mcp.at = "save" /\ mcp.then \in {"ready", "serve"}) =>
       mcp.st.status = "approved"

\* What is in memory or on file has an identity, and a first run is one that
\* finds no file and has lost, in the middle of saving it, every identity made.
McpOneIdentity ==
  /\ mcp.at \notin {"down", "load", "discover"} => mcp.st.agent # 0
  /\ mcp.at = "save" => mcp.then \notin {"down", "load", "discover"}
  /\ mcpFile # McpNoFile => mcpFile.agent # 0
  /\ mcp.at = "discover" => mcpFile = McpNoFile
  /\ mcpMade <= 1 + mcpTorn
  /\ mcpMade = 1 + mcpTorn => mcpFile # McpNoFile \/ mcp.at = "save"

\* A request that has looked at the grant did so no later than the replicas' lag
\* after the revocation; so, for any token of the grant, the time since and the life
\* left add up to no more than the lag, the time an issue takes and a life.
McpFadingFor(g, left) == left > 0 => mcpSince[g] + left <= McpHorizon

McpCallFading(c) ==
  LET g == mcp.st.grant IN
  /\ mcpCall[c].at = "find" => mcpSince[g] <= McpLag + mcpCall[c].waited
  /\ mcpCall[c].at \in {"insert", "reply"} => McpFadingFor(g, mcpCall[c].left)

McpFading ==
  /\ mcp.at # "serve" => mcpToken = 0 /\ mcpCall = McpNoCalls
  /\ \A g \in McpGrantIds :
       /\ mcpRow[g].status # "revoked" => mcpSince[g] = 0
       /\ McpFadingFor(g, mcpNewest[g])
  /\ mcp.at = "serve" =>
       /\ McpFadingFor(mcp.st.grant, mcpToken)
       /\ \A c \in McpCalls : McpCallFading(c)

McpInv == McpTypeOK /\ McpServesApproved /\ McpOwnGrant /\ McpOneIdentity /\ McpFading

\* The MCP server has not run yet.
LEMMA McpInvInit == McpInit => McpInv
<1> USE McpAssumption DEF McpInit, McpBlank, McpNoFile, McpDown, McpNoRow, McpGrantIds
<1> SUFFICES ASSUME McpInit PROVE McpInv
    OBVIOUS
<1>1. McpTypeOK
      BY DEF McpTypeOK, McpProcess, McpPlaces, McpState, McpRow, McpRequest, McpNoCalls, McpNoCall,
         McpHorizon
<1>2. McpServesApproved /\ McpOwnGrant /\ McpOneIdentity /\ McpFading
      BY DEF McpServesApproved, McpGranted, McpOwnGrant, McpOneIdentity, McpFading, McpFadingFor
<1> QED BY <1>1, <1>2 DEF McpInv

\* What the agent remembers of the grant it has asked for.
LEMMA McpAsked ==
  ASSUME NEW st \in McpState, NEW g \in McpGrantIds
  PROVE  /\ [st EXCEPT !.grant = g, !.status = "pending"] \in McpState
         /\ [st EXCEPT !.grant = g, !.status = "pending"] =
              [agent |-> st.agent, grant |-> g, status |-> "pending"]
<1>1. [st EXCEPT !.grant = g, !.status = "pending"] =
        [agent |-> st.agent, grant |-> g, status |-> "pending"]
  <2>1. [st EXCEPT !.grant = g] = [agent |-> st.agent, grant |-> g, status |-> st.status]
        BY DEF McpState
  <2>2. [st EXCEPT !.grant = g, !.status = "pending"] =
          [[st EXCEPT !.grant = g] EXCEPT !.status = "pending"]
        OBVIOUS
  <2>3. [[agent |-> st.agent, grant |-> g, status |-> st.status] EXCEPT !.status = "pending"] =
          [agent |-> st.agent, grant |-> g, status |-> "pending"]
        OBVIOUS
  <2> QED BY <2>1, <2>2, <2>3
<1> QED BY <1>1 DEF McpState, McpGrantIds

\* What asking for a grant changes.
LEMMA McpGrantAsked ==
  ASSUME McpRequestGrant, mcp.st \in McpState
  PROVE  /\ mcp.at = "request"
         /\ UNCHANGED <<mcpFile, mcpToken, mcpCall, mcpNewest, mcpSince, mcpMade, mcpTorn>>
         /\ \E g \in McpGrantIds :
              /\ \/ mcpRow[g].agent = mcp.st.agent /\ UNCHANGED mcpRow
                 \/ /\ mcpRow[g] = McpNoRow
                    /\ mcpRow' = [mcpRow EXCEPT ![g] =
                         [agent |-> mcp.st.agent, lapsed |-> FALSE, status |-> "pending"]]
              /\ \/ mcp' = [at |-> "save", then |-> "poll",
                            st |-> [agent |-> mcp.st.agent, grant |-> g, status |-> "pending"]]
                 \/ mcp' = McpDown
<1>1. PICK g \in McpGrantIds :
        /\ McpGrantFor(g)
        /\ \/ McpSaving([mcp.st EXCEPT !.grant = g, !.status = "pending"], "poll")
           \/ mcp' = McpDown
      BY Zenon DEF McpRequestGrant
<1>2. [mcp.st EXCEPT !.grant = g, !.status = "pending"] =
        [agent |-> mcp.st.agent, grant |-> g, status |-> "pending"]
      BY McpAsked, Zenon
<1>3. \/ mcp' = [at |-> "save", then |-> "poll",
                st |-> [agent |-> mcp.st.agent, grant |-> g, status |-> "pending"]]
      \/ mcp' = McpDown
      BY <1>1, <1>2, Zenon DEF McpSaving
<1>4. \/ mcpRow[g].agent = mcp.st.agent /\ UNCHANGED mcpRow
      \/ /\ mcpRow[g] = McpNoRow
         /\ mcpRow' = [mcpRow EXCEPT ![g] =
              [agent |-> mcp.st.agent, lapsed |-> FALSE, status |-> "pending"]]
      BY <1>1, Zenon DEF McpGrantFor
<1>5. /\ mcp.at = "request"
      /\ UNCHANGED <<mcpFile, mcpToken, mcpCall, mcpNewest, mcpSince, mcpMade, mcpTorn>>
      BY DEF McpRequestGrant
<1> QED BY <1>3, <1>4, <1>5, Zenon

\* One field of a row changes.
LEMMA McpRowUpdate ==
  ASSUME mcpRow \in [McpGrantIds -> McpRow], NEW g \in McpGrantIds,
         \/ \E s \in {"approved", "denied", "revoked"} :
              mcpRow' = [mcpRow EXCEPT ![g].status = s]
         \/ mcpRow' = [mcpRow EXCEPT ![g].lapsed = TRUE]
  PROVE  mcpRow' \in [McpGrantIds -> McpRow]
<1>1. CASE mcpRow' = [mcpRow EXCEPT ![g].lapsed = TRUE]
  <2>1. [mcpRow[g] EXCEPT !.lapsed = TRUE] \in McpRow
        BY DEF McpRow
  <2> QED BY <1>1, <2>1
<1>2. ASSUME NEW s \in {"approved", "denied", "revoked"},
             mcpRow' = [mcpRow EXCEPT ![g].status = s]
      PROVE  mcpRow' \in [McpGrantIds -> McpRow]
  <2>1. [mcpRow[g] EXCEPT !.status = s] \in McpRow
        BY DEF McpRow
  <2> QED BY <1>2, <2>1
<1> QED BY <1>1, <1>2

\* Tool calls are made while tools are served, under the grant in memory.
LEMMA McpCallGrant ==
  ASSUME McpInv, NEW c \in McpCalls, McpCallStep(c)
  PROVE  mcp.at = "serve" /\ mcp.st.grant \in McpGrantIds
<1>1. mcp.at = "serve"
  <2>1. McpAsk(c) \/ mcpCall[c].at # "idle"
        BY DEF McpCallStep, McpLookAtGrant, McpFindToken, McpInsertToken, McpGotToken, McpCallFails
  <2> QED BY <2>1 DEF McpAsk, McpInv, McpFading, McpNoCalls, McpNoCall
<1>2. mcp.st.grant \in 0..McpGrants /\ mcp.st.grant # 0
      BY <1>1 DEF McpInv, McpTypeOK, McpProcess, McpState, McpServesApproved, McpGranted
<1> QED BY <1>1, <1>2, McpAssumption DEF McpGrantIds

\* A step of a tool call keeps the calls' type.
LEMMA McpCallType ==
  ASSUME McpInv, NEW c \in McpCalls, McpCallStep(c)
  PROVE  mcpCall' \in [McpCalls -> McpRequest]
<1> USE McpAssumption DEF McpRequest
<1>0. mcpCall \in [McpCalls -> McpRequest] /\ mcpCall[c] \in McpRequest
      BY DEF McpInv, McpTypeOK
<1>1. ASSUME NEW at \in {"idle", "ask", "find", "insert", "reply"}, McpCallGoes(c, at)
      PROVE  mcpCall' \in [McpCalls -> McpRequest]
  <2>1. [mcpCall[c] EXCEPT !.at = at] \in McpRequest
        BY <1>0
  <2> HIDE DEF McpRequest
  <2> QED BY <1>0, <1>1, <2>1 DEF McpCallGoes
<1>2. CASE McpAsk(c) \/ McpLookAtGrant(c) \/ McpInsertToken(c)
      BY <1>1, <1>2 DEF McpAsk, McpLookAtGrant, McpInsertToken
<1>3. CASE McpFindToken(c)
  <2> DEFINE newest == mcpNewest[mcp.st.grant]
             made == IF newest > 0 THEN [at |-> "reply", waited |-> 0, left |-> newest]
                     ELSE [at |-> "insert", waited |-> 0, left |-> McpLifetime]
  <2>1. newest \in 0..McpLifetime
        BY McpCallGrant DEF McpInv, McpTypeOK
  <2>2. made \in McpRequest
        BY <2>1
  <2> QED BY <1>0, <1>3, <2>2 DEF McpFindToken
<1>4. CASE McpGotToken(c) \/ McpCallFails(c)
  <2>1. McpNoCall \in McpRequest
        BY DEF McpNoCall
  <2> HIDE DEF McpRequest
  <2> QED BY <1>0, <1>4, <2>1 DEF McpGotToken, McpCallFails
<1> QED BY <1>2, <1>3, <1>4 DEF McpCallStep

\* So does a tick: no look is held up for longer than McpPatience.
LEMMA McpAgedType ==
  ASSUME McpTypeOK, McpTick
  PROVE  mcpCall' \in [McpCalls -> McpRequest]
<1>1. ASSUME NEW c \in McpCalls PROVE McpAged(mcpCall[c]) \in McpRequest
  <2>1. mcpCall[c] \in McpRequest
        BY DEF McpTypeOK
  <2>2. CASE mcpCall[c].at = "find"
    <3>1. mcpCall[c].waited + 1 \in 0..McpPatience
          BY McpAssumption, <2>1, <2>2 DEF McpTick, McpRequest
    <3>2. [mcpCall[c] EXCEPT !.waited = @ + 1] \in McpRequest
          BY <2>1, <3>1 DEF McpRequest
    <3> QED BY <2>2, <3>2 DEF McpAged
  <2>3. CASE mcpCall[c].at # "find"
    <3>1. McpOlder(mcpCall[c].left) \in 0..McpLifetime
          BY McpAssumption, <2>1 DEF McpOlder, McpRequest
    <3>2. [mcpCall[c] EXCEPT !.left = McpOlder(@)] \in McpRequest
          BY <2>1, <3>1 DEF McpRequest
    <3> QED BY <2>3, <3>2 DEF McpAged
  <2> QED BY <2>2, <2>3
<1> QED BY <1>1 DEF McpTick

\* Every step keeps the types.
LEMMA McpTypeStep == McpInv /\ [McpNext]_mcpVars => McpTypeOK'
<1> USE McpAssumption DEF McpTypeOK, McpGrantIds, McpProcess, McpPlaces, McpState, McpRow,
        McpBlank, McpNoFile, McpDown, McpGoto, McpSaving, mcpRegistry
<1> SUFFICES ASSUME McpInv, McpTypeOK, [McpNext]_mcpVars PROVE McpTypeOK'
    BY DEF McpInv
<1>1. CASE UNCHANGED mcpVars
      BY <1>1 DEF mcpVars
<1>2. CASE McpStart
  <2>1. /\ mcp' = [McpDown EXCEPT !.at = "load"]
        /\ UNCHANGED <<mcpFile, mcpToken, mcpCall, mcpRow, mcpNewest, mcpSince, mcpMade, mcpTorn>>
    <3> HIDE DEF McpTypeOK, McpDown
    <3> QED BY <1>2, Zenon DEF McpStart
  <2>2. mcp' = [at |-> "load", then |-> "down", st |-> McpBlank]
    <3> HIDE DEF McpTypeOK, McpBlank
    <3> QED BY <2>1
  <2>3. mcp' \in McpProcess
        BY <2>2
  <2> HIDE DEF McpProcess, McpState, McpRow
  <2> QED BY <2>1, <2>3
<1>3. CASE McpLoad
  <2>1. mcp' = [mcp EXCEPT !.at = "discover"] \/ mcp' = [mcp EXCEPT !.at = "register", !.st = mcpFile]
        BY <1>3 DEF McpLoad
  <2>2. mcp' \in McpProcess
    <3>1. CASE mcp' = [mcp EXCEPT !.at = "discover"]
          BY <3>1
    <3>2. CASE mcp' = [mcp EXCEPT !.at = "register", !.st = mcpFile]
      <4>1. mcp' = [at |-> "register", then |-> mcp.then, st |-> mcpFile]
            BY <3>2
      <4> QED BY <4>1
    <3> QED BY <2>1, <3>1, <3>2
  <2> QED BY <1>3, <2>2 DEF McpLoad
<1>4. CASE McpFirstRun
  <2>1. /\ mcpMade' \in 0..McpIds /\ [McpBlank EXCEPT !.agent = mcpMade'] \in McpState
        BY <1>4 DEF McpFirstRun
  <2>2. mcp' \in McpProcess
        BY <1>4, <2>1 DEF McpFirstRun
  <2> QED BY <1>4, <2>1, <2>2 DEF McpFirstRun
<1>5. CASE McpSaved
      BY <1>5 DEF McpSaved
<1>6. CASE McpRegister
      BY <1>6 DEF McpRegister
<1>7. CASE McpGrantOnFile
      BY <1>7 DEF McpGrantOnFile
<1>8. CASE McpRequestGrant
  <2>1. PICK g \in McpGrantIds :
          /\ \/ UNCHANGED mcpRow
             \/ mcpRow' = [mcpRow EXCEPT ![g] =
                  [agent |-> mcp.st.agent, lapsed |-> FALSE, status |-> "pending"]]
          /\ \/ mcp' = [at |-> "save", then |-> "poll",
                        st |-> [agent |-> mcp.st.agent, grant |-> g, status |-> "pending"]]
             \/ mcp' = McpDown
          /\ UNCHANGED <<mcpFile, mcpToken, mcpCall, mcpNewest, mcpSince, mcpMade, mcpTorn>>
    <3>1. mcp.st \in McpState
          OBVIOUS
    <3> HIDE DEF McpTypeOK, McpDown, McpRow, McpState, McpProcess
    <3> QED BY <1>8, <3>1, McpGrantAsked, Zenon
  <2>2. mcp' \in McpProcess
        BY <2>1
  <2>3. mcpRow' \in [McpGrantIds -> McpRow]
    <3>1. [agent |-> mcp.st.agent, lapsed |-> FALSE, status |-> "pending"] \in McpRow
          OBVIOUS
    <3> HIDE DEF McpRow
    <3> QED BY <2>1, <3>1
  <2> QED BY <2>1, <2>2, <2>3
<1>9. CASE McpPoll
  <2>1. \/ mcp' = [at |-> "save", then |-> "ready", st |-> [mcp.st EXCEPT !.status = "approved"]]
        \/ mcp' = McpDown
        BY <1>9 DEF McpPoll
  <2> DEFINE st == [mcp.st EXCEPT !.status = "approved"]
  <2>2. st \in McpState
        OBVIOUS
  <2>3. mcp' \in McpProcess
    <3>1. mcp' = [at |-> "save", then |-> "ready", st |-> st] \/ mcp' = McpDown
          BY <2>1
    <3>2. McpDown \in McpProcess
          OBVIOUS
    <3> HIDE DEF st, McpDown
    <3> QED BY <2>2, <3>1, <3>2
  <2> QED BY <1>9, <2>3 DEF McpPoll
<1>10. CASE McpReady
       BY <1>10 DEF McpReady
<1>11. CASE McpFatal
       BY <1>11 DEF McpFatal
<1>12. CASE McpCrash
  <2>1. mcp' \in McpProcess /\ mcpFile' \in McpState /\ mcpToken' \in 0..McpLifetime
        BY <1>12 DEF McpCrash
  <2>2. mcpTorn' \in 0..McpIds
        BY <1>12 DEF McpCrash
  <2>3. mcpCall' \in [McpCalls -> McpRequest]
        BY <1>12 DEF McpCrash, McpNoCalls, McpNoCall, McpRequest
  <2> QED BY <1>12, <2>1, <2>2, <2>3 DEF McpCrash
<1>13. ASSUME NEW c \in McpCalls, McpCallStep(c)
       PROVE  McpTypeOK'
  <2>a. mcpCall[c] \in McpRequest /\ mcp.st.grant \in McpGrantIds
        BY <1>13, McpCallGrant
  <2>1. mcpCall' \in [McpCalls -> McpRequest]
        BY <1>13, McpCallType
  <2>2. mcpToken' \in 0..McpLifetime
        BY <1>13, <2>a DEF McpCallStep, McpAsk, McpLookAtGrant, McpFindToken,
           McpInsertToken, McpGotToken, McpCallFails, McpRequest
  <2>3. mcpNewest' \in [McpGrantIds -> 0..McpLifetime]
    <3>1. CASE McpInsertToken(c)
      <4>1. mcpCall[c].left \in 0..McpLifetime
            BY <2>a DEF McpRequest
      <4> QED BY <2>a, <3>1, <4>1 DEF McpInsertToken
    <3>2. CASE ~McpInsertToken(c)
          BY <1>13, <3>2 DEF McpCallStep, McpAsk, McpLookAtGrant, McpFindToken, McpGotToken,
             McpCallFails
    <3> QED BY <3>1, <3>2
  <2>4. UNCHANGED <<mcp, mcpFile, mcpRow, mcpSince, mcpMade, mcpTorn>>
        BY <1>13 DEF McpCallStep, McpAsk, McpLookAtGrant, McpFindToken, McpInsertToken, McpGotToken,
           McpCallFails
  <2> QED BY <2>1, <2>2, <2>3, <2>4
<1>14. ASSUME NEW g \in McpGrantIds,
              McpApprove(g) \/ McpDeny(g) \/ McpRevoke(g) \/ McpLapse(g)
       PROVE  McpTypeOK'
  <2>1. mcpRow' \in [McpGrantIds -> McpRow]
        BY <1>14, McpRowUpdate DEF McpApprove, McpDeny, McpRevoke, McpLapse
  <2> QED BY <1>14, <2>1 DEF McpApprove, McpDeny, McpRevoke, McpLapse
<1>15. CASE McpTick
  <2>1. mcpToken' \in 0..McpLifetime
        BY <1>15 DEF McpTick, McpOlder
  <2>2. mcpNewest' \in [McpGrantIds -> 0..McpLifetime]
        BY <1>15, SMTT(30) DEF McpTick, McpOlder
  <2>3. mcpSince' \in [McpGrantIds -> 0..McpHorizon]
        BY <1>15, SMTT(30) DEF McpTick, McpHorizon
  <2>4. mcpCall' \in [McpCalls -> McpRequest]
        BY <1>15, McpAgedType DEF McpTick
  <2> QED BY <1>15, <2>1, <2>2, <2>3, <2>4 DEF McpTick
<1> QED BY <1>1, <1>2, <1>3, <1>4, <1>5, <1>6, <1>7, <1>8, <1>9, <1>10, <1>11, <1>12,
           <1>13, <1>14, <1>15 DEF McpNext, McpStep

\* A later run goes on with what is on file.
LEMMA McpLoadsFile ==
  ASSUME mcp \in McpProcess, McpLoad, mcpFile # McpNoFile
  PROVE  /\ mcp'.at = "register" /\ mcp'.st = mcpFile
         /\ mcpFile' = mcpFile /\ mcpMade' = mcpMade /\ mcpTorn' = mcpTorn
<1>1. mcp' = [mcp EXCEPT !.at = "register", !.st = mcpFile] /\ UNCHANGED <<mcpFile, mcpMade, mcpTorn>>
      BY DEF McpLoad
<1> QED BY <1>1 DEF McpProcess

\* What a tool call does to the tokens of its grant: it looks at the grant no later
\* than the replicas' lag after a revocation, and a new token has one life.
LEMMA McpCallFades ==
  ASSUME McpInv, NEW c \in McpCalls, McpCallStep(c)
  PROVE  McpFading'
<1> DEFINE g == mcp.st.grant
<1>1. /\ mcp.at = "serve" /\ g \in McpGrantIds
      /\ McpTypeOK /\ mcpCall[c] \in McpRequest
      /\ McpFadingFor(g, mcpToken) /\ McpFadingFor(g, mcpNewest[g])
      /\ \A d \in McpCalls : McpCallFading(d)
      BY McpCallGrant DEF McpInv, McpTypeOK, McpFading
<1>2. UNCHANGED <<mcp, mcpFile, mcpRow, mcpSince, mcpMade, mcpTorn>>
      BY DEF McpCallStep, McpAsk, McpLookAtGrant, McpFindToken, McpInsertToken, McpGotToken,
         McpCallFails, mcpRegistry
<1>3. mcpSince[g] \in Nat /\ mcpToken \in Nat /\ mcpNewest \in [McpGrantIds -> 0..McpLifetime]
      BY <1>1, McpAssumption DEF McpTypeOK, McpHorizon
<1>4. /\ McpFadingFor(g, mcpToken')
      /\ McpFadingFor(g, mcpNewest'[g])
      /\ \A k \in McpGrantIds \ {g} : mcpNewest'[k] = mcpNewest[k]
      /\ \A d \in McpCalls \ {c} : mcpCall'[d] = mcpCall[d]
      /\ mcpCall'[c].at = "find" => mcpSince[g] <= McpLag + mcpCall'[c].waited
      /\ mcpCall'[c].at \in {"insert", "reply"} => McpFadingFor(g, mcpCall'[c].left)
  <2> USE DEF McpFadingFor
  <2>1. CASE McpAsk(c)
        BY <1>1, <2>1 DEF McpAsk, McpCallGoes, McpTypeOK, McpRequest, mcpRegistry
  <2>2. CASE McpLookAtGrant(c)
    <3>1. mcpSince[g] <= McpLag
      <4>1. mcpRow[g].status # "revoked" => mcpSince[g] = 0
            BY <1>1 DEF McpInv, McpFading
      <4> QED BY <1>3, <2>2, <4>1, McpAssumption DEF McpLookAtGrant, McpSeenApproved
    <3>2. /\ mcpCall'[c] = [mcpCall[c] EXCEPT !.at = "find"]
          /\ \A d \in McpCalls \ {c} : mcpCall'[d] = mcpCall[d]
          /\ UNCHANGED <<mcpToken, mcpNewest>>
          BY <1>1, <2>2 DEF McpLookAtGrant, McpCallGoes, McpTypeOK, mcpRegistry
    <3>3. mcpCall'[c].at = "find" /\ mcpCall'[c].waited \in Nat
          BY <1>1, <3>2, McpAssumption DEF McpRequest
    <3> QED BY <1>1, <1>3, <3>1, <3>2, <3>3, McpAssumption
  <2>3. CASE McpFindToken(c)
    <3>1. /\ \/ /\ mcpNewest[g] > 0
                /\ mcpCall'[c] = [at |-> "reply", waited |-> 0, left |-> mcpNewest[g]]
             \/ mcpCall'[c] = [at |-> "insert", waited |-> 0, left |-> McpLifetime]
          /\ \A d \in McpCalls \ {c} : mcpCall'[d] = mcpCall[d]
          /\ UNCHANGED <<mcpToken, mcpNewest>>
          BY <1>1, <2>3 DEF McpFindToken, McpTypeOK, mcpRegistry
    <3>2. mcpSince[g] + McpLifetime <= McpHorizon
      <4>1. mcpSince[g] <= McpLag + mcpCall[c].waited /\ mcpCall[c].waited \in 0..McpPatience
            BY <1>1, <2>3 DEF McpFindToken, McpCallFading, McpRequest
      <4> QED BY <1>3, <4>1, McpAssumption DEF McpHorizon
    <3> QED BY <1>1, <3>1, <3>2
  <2>4. CASE McpInsertToken(c)
    <3>1. /\ mcpCall'[c] = [mcpCall[c] EXCEPT !.at = "reply"]
          /\ \A d \in McpCalls \ {c} : mcpCall'[d] = mcpCall[d]
          /\ mcpNewest'[g] \in {mcpNewest[g], mcpCall[c].left}
          /\ \A k \in McpGrantIds \ {g} : mcpNewest'[k] = mcpNewest[k]
          /\ UNCHANGED mcpToken
          BY <1>1, <2>4 DEF McpInsertToken, McpCallGoes, McpTypeOK
    <3>2. McpFadingFor(g, mcpCall[c].left) /\ mcpCall'[c].left = mcpCall[c].left
          /\ mcpCall'[c].at = "reply"
          BY <1>1, <2>4, <3>1 DEF McpInsertToken, McpCallFading, McpRequest
    <3> QED BY <1>1, <3>1, <3>2
  <2>5. CASE McpGotToken(c) \/ McpCallFails(c)
    <3>1. /\ mcpCall'[c].at = "idle"
          /\ \A d \in McpCalls \ {c} : mcpCall'[d] = mcpCall[d]
          /\ mcpNewest' = mcpNewest
          /\ mcpToken' = mcpToken \/ (mcpCall[c].at = "reply" /\ mcpToken' = mcpCall[c].left)
          BY <1>1, <2>5 DEF McpGotToken, McpCallFails, McpTypeOK, McpNoCall, mcpRegistry
    <3> QED BY <1>1, <3>1 DEF McpCallFading
  <2> QED BY <2>1, <2>2, <2>3, <2>4, <2>5 DEF McpCallStep
<1>5. ASSUME NEW d \in McpCalls PROVE McpCallFading(d)'
  <2>1. CASE d = c
        BY <1>2, <1>4, <2>1 DEF McpCallFading, McpFadingFor
  <2>2. CASE d # c
        BY <1>1, <1>2, <1>4, <2>2 DEF McpCallFading, McpFadingFor
  <2> QED BY <2>1, <2>2
<1>6. ASSUME NEW k \in McpGrantIds
      PROVE  /\ mcpRow'[k].status # "revoked" => mcpSince'[k] = 0
             /\ McpFadingFor(k, mcpNewest[k])'
  <2>1. CASE k = g
        BY <1>2, <1>4, <2>1 DEF McpFadingFor, McpInv, McpFading
  <2>2. CASE k # g
        BY <1>2, <1>4, <2>2 DEF McpFadingFor, McpInv, McpFading
  <2> QED BY <2>1, <2>2
<1>7. McpFadingFor(mcp.st.grant, mcpToken)'
      BY <1>2, <1>4 DEF McpFadingFor
<1> QED BY <1>1, <1>2, <1>5, <1>6, <1>7 DEF McpFading

\* While no tool call is in flight there is nothing to fade.
LEMMA McpNotCalling == mcpCall = McpNoCalls => \A c \in McpCalls : McpCallFading(c)
BY DEF McpNoCalls, McpNoCall, McpCallFading

\* Nothing fades faster when a grant that was not revoked is decided, or revoked.
LEMMA McpFadingKept ==
  ASSUME McpFading, UNCHANGED <<mcp, mcpToken, mcpCall, mcpNewest, mcpSince>>,
         \A k \in McpGrantIds : mcpRow'[k].status # "revoked" => mcpRow[k].status # "revoked"
  PROVE  McpFading'
BY DEF McpFading, McpFadingFor, McpCallFading

\* A tick takes from a token's life what it adds to the time since the revocation.
LEMMA McpTickFades ==
  ASSUME McpInv, McpTick
  PROVE  McpFading'
<1> DEFINE g == mcp.st.grant
<1>1. McpTypeOK /\ McpFading
      BY DEF McpInv
<1>2. UNCHANGED <<mcp, mcpFile, mcpRow, mcpMade, mcpTorn>>
      BY DEF McpTick
<1>3. ASSUME NEW k \in McpGrantIds
      PROVE  /\ mcpSince[k] \in Nat /\ mcpSince'[k] \in {mcpSince[k], mcpSince[k] + 1}
             /\ mcpRow[k].status # "revoked" => mcpSince'[k] = mcpSince[k]
      BY <1>1, <1>3, McpAssumption, SMTT(30) DEF McpTick, McpTypeOK, McpHorizon
<1>4. ASSUME NEW k \in McpGrantIds, NEW left \in Nat, McpFadingFor(k, left)
      PROVE  McpOlder(left) > 0 => mcpSince'[k] + McpOlder(left) <= McpHorizon
      BY <1>3, <1>4, McpAssumption DEF McpFadingFor, McpOlder, McpHorizon
<1>5. ASSUME NEW k \in McpGrantIds
      PROVE  /\ mcpRow'[k].status # "revoked" => mcpSince'[k] = 0
             /\ McpFadingFor(k, mcpNewest[k])'
  <2>1. mcpRow[k].status # "revoked" => mcpSince[k] = 0
        BY <1>1 DEF McpFading
  <2>2. mcpNewest[k] \in Nat /\ McpFadingFor(k, mcpNewest[k])
        BY <1>1, McpAssumption DEF McpFading, McpTypeOK
  <2>3. mcpNewest'[k] = McpOlder(mcpNewest[k])
        BY DEF McpTick
  <2> QED BY <1>2, <1>3, <1>4, <2>1, <2>2, <2>3 DEF McpFadingFor
<1>6. ASSUME mcp.at # "serve" PROVE mcpToken' = 0 /\ mcpCall' = McpNoCalls
  <2>1. mcpToken = 0 /\ mcpCall = McpNoCalls
        BY <1>1, <1>6 DEF McpFading
  <2>2. \A c \in McpCalls : McpAged(mcpCall[c]) = McpNoCall
        BY <2>1 DEF McpNoCalls, McpNoCall, McpAged, McpOlder
  <2> QED BY <2>1, <2>2 DEF McpTick, McpOlder, McpNoCalls
<1>7. ASSUME mcp.at = "serve"
      PROVE  McpFadingFor(mcp.st.grant, mcpToken)' /\ \A c \in McpCalls : McpCallFading(c)'
  <2>1. g \in McpGrantIds
        BY <1>1, <1>7, McpAssumption
        DEF McpInv, McpTypeOK, McpProcess, McpState, McpServesApproved, McpGranted, McpGrantIds
  <2>2. McpFadingFor(mcp.st.grant, mcpToken)'
    <3>1. mcpToken \in Nat /\ McpFadingFor(g, mcpToken) /\ mcpToken' = McpOlder(mcpToken)
          BY <1>1, <1>7, McpAssumption DEF McpFading, McpTypeOK, McpTick
    <3> QED BY <1>2, <1>4, <2>1, <3>1 DEF McpFadingFor
  <2>3. ASSUME NEW c \in McpCalls PROVE McpCallFading(c)'
    <3>1. mcpCall[c] \in McpRequest /\ McpCallFading(c) /\ mcpCall'[c] = McpAged(mcpCall[c])
          BY <1>1, <1>7 DEF McpFading, McpTypeOK, McpTick
    <3>2. mcpCall[c].waited \in Nat /\ mcpCall[c].left \in Nat
          BY <3>1, McpAssumption DEF McpRequest
    <3>3. CASE mcpCall[c].at = "find"
      <4>1. mcpCall'[c].at = "find" /\ mcpCall'[c].waited = mcpCall[c].waited + 1
            BY <3>1, <3>3 DEF McpAged, McpRequest
      <4>2. mcpSince[g] <= McpLag + mcpCall[c].waited
            BY <3>1, <3>3 DEF McpCallFading
      <4>3. mcpSince'[g] <= McpLag + mcpCall'[c].waited
            BY <1>3, <2>1, <3>2, <4>1, <4>2, McpAssumption
      <4> QED BY <1>2, <4>1, <4>3 DEF McpCallFading
    <3>4. CASE mcpCall[c].at # "find"
      <4>1. mcpCall'[c].at = mcpCall[c].at /\ mcpCall'[c].left = McpOlder(mcpCall[c].left)
            BY <3>1, <3>4 DEF McpAged, McpRequest
      <4>2. ASSUME mcpCall[c].at \in {"insert", "reply"}
            PROVE  mcpCall'[c].left > 0 => mcpSince'[g] + mcpCall'[c].left <= McpHorizon
            BY <1>4, <2>1, <3>1, <3>2, <4>1, <4>2 DEF McpCallFading
      <4> QED BY <1>2, <3>4, <4>1, <4>2 DEF McpCallFading, McpFadingFor
    <3> QED BY <3>3, <3>4
  <2> QED BY <2>2, <2>3
<1> QED BY <1>2, <1>5, <1>6, <1>7 DEF McpFading

\* Every step keeps what is known of the MCP server, its file and its grants.
LEMMA McpStepInv == McpInv /\ [McpNext]_mcpVars => McpInv'
<1> USE McpAssumption DEF McpGrantIds, McpBlank, McpNoFile, McpDown, McpGoto, McpSaving,
        mcpRegistry, McpInv, McpTypeOK, McpProcess, McpState, McpRow, McpNoRow
<1> SUFFICES ASSUME McpInv, [McpNext]_mcpVars
             PROVE  (McpServesApproved /\ McpOwnGrant /\ McpOneIdentity /\ McpFading)'
    BY McpTypeStep
<1> USE DEF McpServesApproved, McpGranted, McpOwnGrant, McpOneIdentity, McpFading, McpFadingFor,
           McpCallFading, McpSeenApproved
<1>1. CASE UNCHANGED mcpVars
      BY <1>1 DEF mcpVars
<1>2. CASE McpStart
  <2>1. McpServesApproved'
        BY <1>2 DEF McpStart
  <2>2. McpOwnGrant'
        BY <1>2 DEF McpStart
  <2>3. McpOneIdentity'
        BY <1>2 DEF McpStart
  <2>4. McpFading'
        BY <1>2 DEF McpStart
  <2> QED BY <2>1, <2>2, <2>3, <2>4
<1>3. CASE McpLoad
  <2>1. McpServesApproved'
        BY <1>3 DEF McpLoad
  <2>2. McpOwnGrant'
    <3>1. mcp'.at \in {"discover", "register"}
          BY <1>3 DEF McpLoad
    <3> QED BY <3>1
  <2>3. McpOneIdentity'
    <3>1. CASE mcpFile = McpNoFile
      <4>1. mcp'.at = "discover" /\ mcpFile' = mcpFile /\ mcpMade' = mcpMade /\ mcpTorn' = mcpTorn
            BY <1>3, <3>1 DEF McpLoad
      <4> QED BY <1>3, <3>1, <4>1 DEF McpLoad
    <3>2. CASE mcpFile # McpNoFile
      <4>1. /\ mcp'.at = "register" /\ mcp'.st = mcpFile
            /\ mcpFile' = mcpFile /\ mcpMade' = mcpMade /\ mcpTorn' = mcpTorn
        <5> HIDE DEF McpProcess, McpNoFile, McpBlank
        <5>1. mcp \in McpProcess
              BY DEF McpInv, McpTypeOK
        <5> QED BY <5>1, <1>3, <3>2, McpLoadsFile
      <4> QED BY <3>2, <4>1
    <3> QED BY <3>1, <3>2
  <2>4. McpFading'
        BY <1>3 DEF McpLoad
  <2> QED BY <2>1, <2>2, <2>3, <2>4
<1>4. CASE McpFirstRun
  <2>1. McpServesApproved'
        BY <1>4 DEF McpFirstRun
  <2>2. McpOwnGrant'
        BY <1>4 DEF McpFirstRun
  <2>3. McpOneIdentity'
        BY <1>4 DEF McpFirstRun
  <2>4. McpFading'
        BY <1>4 DEF McpFirstRun
  <2> QED BY <2>1, <2>2, <2>3, <2>4
<1>5. CASE McpSaved
  <2>1. McpServesApproved'
        BY <1>5 DEF McpSaved
  <2>2. McpOwnGrant'
        BY <1>5 DEF McpSaved
  <2>3. McpOneIdentity'
        BY <1>5 DEF McpSaved
  <2>4. McpFading'
        BY <1>5, McpNotCalling DEF McpSaved
  <2> QED BY <2>1, <2>2, <2>3, <2>4
<1>6. CASE McpRegister
  <2>1. McpServesApproved'
        BY <1>6 DEF McpRegister
  <2>2. McpOwnGrant'
        BY <1>6 DEF McpRegister
  <2>3. McpOneIdentity'
        BY <1>6 DEF McpRegister
  <2>4. McpFading'
        BY <1>6 DEF McpRegister
  <2> QED BY <2>1, <2>2, <2>3, <2>4
<1>7. CASE McpGrantOnFile
  <2>1. McpServesApproved'
        BY <1>7 DEF McpGrantOnFile
  <2>2. McpOwnGrant'
        BY <1>7 DEF McpGrantOnFile
  <2>3. McpOneIdentity'
        BY <1>7 DEF McpGrantOnFile
  <2>4. McpFading'
        BY <1>7 DEF McpGrantOnFile
  <2> QED BY <2>1, <2>2, <2>3, <2>4
<1>8. CASE McpRequestGrant
  <2>1. PICK g \in McpGrantIds :
          /\ \/ mcpRow[g].agent = mcp.st.agent /\ UNCHANGED mcpRow
             \/ /\ mcpRow[g] = McpNoRow
                /\ mcpRow' = [mcpRow EXCEPT ![g] =
                     [agent |-> mcp.st.agent, lapsed |-> FALSE, status |-> "pending"]]
          /\ \/ mcp' = [at |-> "save", then |-> "poll",
                        st |-> [agent |-> mcp.st.agent, grant |-> g, status |-> "pending"]]
             \/ mcp' = McpDown
          /\ mcp.at = "request"
          /\ UNCHANGED <<mcpFile, mcpToken, mcpCall, mcpNewest, mcpSince, mcpMade, mcpTorn>>
    <3>1. mcp.st \in McpState
          OBVIOUS
    <3> HIDE DEF McpInv, McpTypeOK, McpDown, McpRow, McpNoRow, McpState, McpProcess
    <3> QED BY <1>8, <3>1, McpGrantAsked, Zenon
  <2>2. /\ mcp'.at # "save" => mcp'.at = "down"
        /\ mcp'.at = "save" => /\ mcp'.then = "poll"
                              /\ mcp'.st.grant = g /\ mcp'.st.agent = mcp.st.agent
        /\ mcp'.st.status # "approved"
    <3>1. CASE mcp' = McpDown
          BY <3>1
    <3>2. CASE mcp' = [at |-> "save", then |-> "poll",
                       st |-> [agent |-> mcp.st.agent, grant |-> g, status |-> "pending"]]
          BY <3>2
    <3> QED BY <2>1, <3>1, <3>2
  <2>3. /\ mcpRow'[g].agent = mcp.st.agent
        /\ mcpRow[g].status # "revoked" => mcpRow'[g].status # "revoked"
        /\ \A k \in McpGrantIds : k # g => mcpRow'[k] = mcpRow[k]
        /\ mcpRow'[g] = mcpRow[g] \/ mcpRow[g] = McpNoRow
    <3>1. CASE mcpRow[g].agent = mcp.st.agent /\ UNCHANGED mcpRow
          BY <3>1
    <3>2. CASE /\ mcpRow[g] = McpNoRow
               /\ mcpRow' = [mcpRow EXCEPT ![g] =
                    [agent |-> mcp.st.agent, lapsed |-> FALSE, status |-> "pending"]]
      <4>1. mcpRow'[g] = [agent |-> mcp.st.agent, lapsed |-> FALSE, status |-> "pending"]
            BY <3>2
      <4>2. \A k \in McpGrantIds : k # g => mcpRow'[k] = mcpRow[k]
            BY <3>2
      <4> QED BY <3>2, <4>1, <4>2
    <3> QED BY <2>1, <3>1, <3>2
  <2>4. McpServesApproved'
    <3>1. McpGranted(mcpFile)'
      <4>1. CASE mcpFile.grant = g
        <5>1. mcpFile.status = "approved" => mcpRow'[g] = mcpRow[g]
              BY <2>3, <4>1
        <5> QED BY <2>1, <4>1, <5>1
      <4>2. CASE mcpFile.grant # g
        <5>1. mcpFile.status = "approved" => mcpRow'[mcpFile.grant] = mcpRow[mcpFile.grant]
              BY <2>3, <4>2
        <5> QED BY <2>1, <5>1
      <4> QED BY <4>1, <4>2
    <3>2. McpGranted(mcp.st)' /\ mcp'.at # "serve"
          BY <2>2
    <3> QED BY <3>1, <3>2
  <2>5. McpOwnGrant'
    <3> HIDE DEF McpTypeOK, McpFading, McpServesApproved, McpOneIdentity
    <3> QED BY <2>2, <2>3
  <2>6. McpOneIdentity'
    <3>1. mcp.st.agent # 0 /\ (mcpMade = 1 + mcpTorn => mcpFile # McpNoFile)
          BY <2>1
    <3> HIDE DEF McpTypeOK, McpFading, McpServesApproved, McpOwnGrant, McpNoFile
    <3> QED BY <2>1, <2>2, <3>1
  <2>7. McpFading'
    <3>1. ASSUME NEW k \in McpGrantIds, mcpRow'[k].status # "revoked" PROVE mcpSince'[k] = 0
          BY <2>1, <2>3, <3>1, SMTT(30)
    <3> QED BY <2>1, <2>2, <3>1
  <2> QED BY <2>4, <2>5, <2>6, <2>7
<1>9. CASE McpPoll
  <2>1. /\ mcp.at = "poll"
        /\ UNCHANGED <<mcpFile, mcpToken, mcpCall, mcpRow, mcpNewest, mcpSince, mcpMade, mcpTorn>>
        /\ \/ /\ mcpRow[mcp.st.grant].status \in {"approved", "revoked"}
              /\ mcp' = [at |-> "save", then |-> "ready", st |-> [mcp.st EXCEPT !.status = "approved"]]
           \/ mcp' = McpDown
        BY <1>9 DEF McpPoll
  <2>2. \/ /\ mcpRow[mcp.st.grant].status \in {"approved", "revoked"}
           /\ mcp'.at = "save" /\ mcp'.then = "ready"
           /\ mcp'.st.agent = mcp.st.agent /\ mcp'.st.grant = mcp.st.grant
           /\ mcp'.st.status = "approved"
        \/ mcp'.at = "down" /\ mcp'.st.status = "new"
        BY <2>1
  <2>3. McpServesApproved'
    <3>1. McpGranted(mcp.st)' /\ McpGranted(mcpFile)'
          BY <2>1, <2>2
    <3> QED BY <2>2, <3>1
  <2>4. McpOwnGrant'
    <3> HIDE DEF McpTypeOK, McpFading, McpServesApproved, McpOneIdentity
    <3> QED BY <2>2
  <2>5. McpFading'
    <3>1. mcp'.at # "serve" /\ mcpToken = 0 /\ mcpCall = McpNoCalls
          BY <2>1, <2>2
    <3> QED BY <2>1, <3>1
  <2>6. McpOneIdentity'
    <3>1. mcp.st.agent # 0 /\ (mcpMade = 1 + mcpTorn => mcpFile # McpNoFile)
          BY <2>1
    <3> HIDE DEF McpTypeOK, McpFading, McpServesApproved, McpOwnGrant, McpNoFile
    <3> QED BY <2>1, <2>2, <3>1
  <2> QED BY <2>3, <2>4, <2>5, <2>6
<1>10. CASE McpReady
  <2>1. McpServesApproved'
        BY <1>10 DEF McpReady
  <2>2. McpOwnGrant'
        BY <1>10 DEF McpReady
  <2>3. McpOneIdentity'
        BY <1>10 DEF McpReady
  <2>4. McpFading'
        BY <1>10 DEF McpReady
  <2> QED BY <2>1, <2>2, <2>3, <2>4
<1>11. CASE McpFatal
  <2>1. McpServesApproved'
        BY <1>11 DEF McpFatal
  <2>2. McpOwnGrant'
        BY <1>11 DEF McpFatal
  <2>3. McpOneIdentity'
        BY <1>11 DEF McpFatal
  <2>4. McpFading'
        BY <1>11 DEF McpFatal
  <2> QED BY <2>1, <2>2, <2>3, <2>4
<1>12. CASE McpCrash
  <2>1. McpServesApproved'
        BY <1>12, SMTT(30) DEF McpCrash
  <2>2. McpOwnGrant'
        BY <1>12 DEF McpCrash
  <2>3. McpOneIdentity'
        BY <1>12 DEF McpCrash
  <2>4. McpFading'
        BY <1>12 DEF McpCrash
  <2> QED BY <2>1, <2>2, <2>3, <2>4
<1>13. ASSUME NEW c \in McpCalls, McpCallStep(c)
       PROVE  (McpServesApproved /\ McpOwnGrant /\ McpOneIdentity /\ McpFading)'
  <2>1. UNCHANGED <<mcp, mcpFile, mcpRow, mcpMade, mcpTorn>>
        BY <1>13 DEF McpCallStep, McpAsk, McpLookAtGrant, McpFindToken, McpInsertToken, McpGotToken,
           McpCallFails
  <2>2. (McpServesApproved /\ McpOwnGrant /\ McpOneIdentity)'
        BY <2>1
  <2> HIDE DEF McpInv, McpFading
  <2>3. McpFading'
        BY <1>13, McpCallFades DEF McpInv
  <2> QED BY <2>2, <2>3
<1>14. CASE McpTick
  <2>1. McpServesApproved'
        BY <1>14 DEF McpTick, McpOlder
  <2>2. McpOwnGrant'
        BY <1>14 DEF McpTick, McpOlder
  <2>3. McpOneIdentity'
        BY <1>14 DEF McpTick, McpOlder
  <2> HIDE DEF McpInv, McpFading
  <2>4. McpFading'
        BY <1>14, McpTickFades DEF McpInv
  <2> QED BY <2>1, <2>2, <2>3, <2>4
<1>15. ASSUME NEW g \in McpGrantIds,
              McpApprove(g) \/ McpDeny(g) \/ McpRevoke(g) \/ McpLapse(g)
       PROVE  (McpServesApproved /\ McpOwnGrant /\ McpOneIdentity /\ McpFading)'
  <2>1. /\ UNCHANGED <<mcp, mcpFile, mcpToken, mcpCall, mcpNewest, mcpSince, mcpMade, mcpTorn>>
        /\ \A k \in McpGrantIds :
             /\ mcpRow'[k].agent = mcpRow[k].agent
             /\ mcpRow[k].status \in {"approved", "revoked"} =>
                  mcpRow'[k].status \in {"approved", "revoked"}
             /\ mcpRow'[k].status # "revoked" => mcpRow[k].status # "revoked"
    <3>1. \A k \in McpGrantIds \ {g} : mcpRow'[k] = mcpRow[k]
          BY <1>15 DEF McpApprove, McpDeny, McpRevoke, McpLapse
    <3>2. /\ mcpRow'[g].agent = mcpRow[g].agent
          /\ mcpRow[g].status \in {"approved", "revoked"} =>
               mcpRow'[g].status \in {"approved", "revoked"}
          /\ mcpRow'[g].status # "revoked" => mcpRow[g].status # "revoked"
      <4>1. CASE McpApprove(g)
            BY <4>1 DEF McpApprove
      <4>2. CASE McpDeny(g)
            BY <4>2 DEF McpDeny
      <4>3. CASE McpRevoke(g)
            BY <4>3 DEF McpRevoke
      <4>4. CASE McpLapse(g)
            BY <4>4 DEF McpLapse
      <4> QED BY <1>15, <4>1, <4>2, <4>3, <4>4
    <3> QED BY <1>15, <3>1, <3>2 DEF McpApprove, McpDeny, McpRevoke, McpLapse
  <2>2. McpServesApproved'
    <3>1. ASSUME NEW st \in McpState, McpGranted(st), st.status = "approved"
          PROVE  /\ mcpRow'[st.grant].agent = st.agent
                 /\ mcpRow'[st.grant].status \in {"approved", "revoked"}
      <4>1. st.grant \in McpGrantIds
            BY <3>1
      <4> QED BY <2>1, <3>1, <4>1
    <3>2. mcp.st \in McpState /\ mcpFile \in McpState
          OBVIOUS
    <3> HIDE DEF McpState
    <3>3. McpGranted(mcp.st)'
          BY <2>1, <3>1, <3>2
    <3>4. McpGranted(mcpFile)'
          BY <2>1, <3>1, <3>2
    <3> QED BY <2>1, <3>3, <3>4
  <2>3. McpOwnGrant' /\ McpOneIdentity'
        BY <2>1
  <2>4. McpFading'
    <3>1. McpFading
          OBVIOUS
    <3> HIDE DEF McpInv, McpTypeOK, McpFading
    <3> QED BY <2>1, <3>1, McpFadingKept
  <2> QED BY <2>2, <2>3, <2>4
<1> QED BY <1>1, <1>2, <1>3, <1>4, <1>5, <1>6, <1>7, <1>8, <1>9, <1>10, <1>11, <1>12, <1>13,
       <1>14, <1>15
       DEF McpNext, McpStep

\* So it holds of every reachable state.
LEMMA McpInvariance == McpSpec => []McpInv
BY McpInvInit, McpStepInv, PTL DEF McpSpec

\* Through any crashes and restarts tools are served only under a grant that was
\* approved for this agent.
THEOREM McpServesOnlyApproved == McpSpec => []McpServesApproved
<1>1. McpInv => McpServesApproved
      BY DEF McpInv
<1> QED BY <1>1, McpInvariance, PTL

\* Only a crash in the middle of a save makes the agent take a new identity.
THEOREM McpKeepsIdentity == McpSpec => []McpIdentityKept
<1>1. McpInv => McpIdentityKept
      BY DEF McpInv, McpOneIdentity, McpIdentityKept
<1> QED BY <1>1, McpInvariance, PTL

\* However replicas lag and an issue dawdles, no token of a revoked grant is used
\* later than a life after the last one could be dated.
THEOREM McpRevocationFades == McpSpec => []McpRevokedFades
<1>1. McpInv => McpRevokedFades
      BY McpAssumption
      DEF McpInv, McpTypeOK, McpFading, McpFadingFor, McpCallFading, McpRevokedFades
<1> QED BY <1>1, McpInvariance, PTL

-----------------------------------------------------------------------------
(* The demo *)

\* What the run knows at each place: a result for every action tried, and from
\* the token on a grant that was approved and holds what the token holds.
DemoInv ==
  /\ DemoOK
  /\ demoResults \in Seq(Nat)
  /\ demo.at \notin {"run", "done"} => demoResults = <<>>
  /\ demo.at = "run" => demo.n = Len(demoResults) /\ demo.n < 4
  /\ demo.at = "done" => Len(demoResults) = 4
  /\ demo.at \in {"poll", "load", "get", "run", "done"} => demo.grant # 0
  /\ demo.at \in {"run", "done"} =>
       /\ demoRow[demo.grant].status \in {"approved", "revoked"}
       /\ demoToken.caps \subseteq demoRow[demo.grant].caps
  /\ DemoServedOnlyGranted
  /\ DemoNeedsFailure

\* The demo has not started.
LEMMA DemoInvInit == DemoInit => DemoInv
<1> SUFFICES ASSUME DemoInit PROVE DemoInv
    OBVIOUS
<1>1. DemoOK
      BY DemoAssumption DEF DemoInit, DemoOK, DemoProcess, DemoPlaces, DemoRow, DemoNoToken
<1> QED BY <1>1 DEF DemoInit, DemoInv, DemoServedOnlyGranted, DemoNeedsFailure

\* The moves of the run.
LEMMA DemoMoves ==
  ASSUME demo \in DemoProcess
  PROVE  /\ \A place \in DemoPlaces : DemoGoto(place) =>
              demo' = [at |-> place, n |-> 0, grant |-> demo.grant]
         /\ demo' = [demo EXCEPT !.n = @ + 1] =>
              demo' = [at |-> demo.at, n |-> demo.n + 1, grant |-> demo.grant]
         /\ \A g \in DemoGrantIds : demo' = [demo EXCEPT !.at = "poll", !.grant = g] =>
              demo' = [at |-> "poll", n |-> demo.n, grant |-> g]
<1>1. ASSUME NEW place \in DemoPlaces, DemoGoto(place)
      PROVE  demo' = [at |-> place, n |-> 0, grant |-> demo.grant]
  <2>1. [demo EXCEPT !.at = place] = [at |-> place, n |-> demo.n, grant |-> demo.grant]
        BY DEF DemoProcess
  <2>2. demo' = [[demo EXCEPT !.at = place] EXCEPT !.n = 0]
        BY <1>1 DEF DemoGoto
  <2> QED BY <2>1, <2>2
<1>2. ASSUME NEW g \in DemoGrantIds, demo' = [demo EXCEPT !.at = "poll", !.grant = g]
      PROVE  demo' = [at |-> "poll", n |-> demo.n, grant |-> g]
  <2>1. [demo EXCEPT !.at = "poll"] = [at |-> "poll", n |-> demo.n, grant |-> demo.grant]
        BY DEF DemoProcess
  <2>2. demo' = [[demo EXCEPT !.at = "poll"] EXCEPT !.grant = g]
        BY <1>2
  <2> QED BY <2>1, <2>2
<1>3. demo' = [demo EXCEPT !.n = @ + 1] =>
        demo' = [at |-> demo.at, n |-> demo.n + 1, grant |-> demo.grant]
      BY DEF DemoProcess
<1> QED BY <1>1, <1>2, <1>3

\* Every step keeps the types.
LEMMA DemoTypeStep == DemoInv /\ [DemoNext]_demoVars => DemoOK'
<1> USE DemoAssumption DEF DemoOK, DemoGrantIds, DemoAgain
<1> SUFFICES ASSUME DemoInv, [DemoNext]_demoVars PROVE DemoOK'
    OBVIOUS
<1> USE DEF DemoInv
<1>1. CASE UNCHANGED demoVars
      BY <1>1 DEF demoVars
<1>a. /\ demo \in DemoProcess
      /\ \A place \in DemoPlaces : DemoGoto(place) => demo' \in DemoProcess
      /\ demo' = [demo EXCEPT !.n = @ + 1] => demo' \in DemoProcess
      /\ \A g \in DemoGrantIds :
           demo' = [demo EXCEPT !.at = "poll", !.grant = g] => demo' \in DemoProcess
  <2>1. demo \in DemoProcess
        OBVIOUS
  <2>2. demo.at \in DemoPlaces /\ demo.n \in Nat /\ demo.grant \in 0..DemoGrants
        BY <2>1 DEF DemoProcess
  <2>3. \A at \in DemoPlaces, n \in Nat, g \in 0..DemoGrants :
          [at |-> at, n |-> n, grant |-> g] \in DemoProcess
        BY DEF DemoProcess
  <2>4. ASSUME NEW place \in DemoPlaces, DemoGoto(place) PROVE demo' \in DemoProcess
    <3>1. demo' = [at |-> place, n |-> 0, grant |-> demo.grant]
          BY <2>1, <2>4, DemoMoves
    <3> QED BY <2>2, <2>3, <3>1
  <2>5. ASSUME demo' = [demo EXCEPT !.n = @ + 1] PROVE demo' \in DemoProcess
    <3>1. demo' = [at |-> demo.at, n |-> demo.n + 1, grant |-> demo.grant]
          BY <2>1, <2>5, DemoMoves
    <3>2. demo.n + 1 \in Nat
          BY <2>2
    <3> HIDE DEF DemoOK, DemoInv, DemoAgain, DemoGrantIds
    <3>3. [at |-> demo.at, n |-> demo.n + 1, grant |-> demo.grant] \in DemoProcess
          BY <2>2, <3>2, <2>3
    <3> QED BY <3>1, <3>3
  <2>6. ASSUME NEW g \in DemoGrantIds, demo' = [demo EXCEPT !.at = "poll", !.grant = g]
        PROVE  demo' \in DemoProcess
    <3>1. g \in 0..DemoGrants /\ "poll" \in DemoPlaces
          BY DEF DemoPlaces
    <3>2. demo' = [at |-> "poll", n |-> demo.n, grant |-> g]
          BY <2>1, <2>6, DemoMoves
    <3> QED BY <2>2, <2>3, <3>1, <3>2
  <2> QED BY <2>1, <2>4, <2>5, <2>6
<1>b. {"wait", "register", "request", "poll", "load", "get", "run", "done", "failed"}
        \subseteq DemoPlaces
      BY DEF DemoPlaces
<1>2. CASE DemoWait
      BY <1>2, <1>a, <1>b DEF DemoWait
<1>3. CASE DemoRegister
      BY <1>3, <1>a, <1>b DEF DemoRegister
<1>4. ASSUME NEW g \in DemoGrantIds, DemoGrantFor(g)
      PROVE  demoRow' \in [DemoGrantIds -> DemoRow]
  <2>1. [demoRow[g] EXCEPT !.status = "pending"] \in DemoRow
        BY DEF DemoRow
  <2> QED BY <1>4, <2>1 DEF DemoGrantFor
<1>5. CASE DemoRequest
  <2>1. demoRow' \in [DemoGrantIds -> DemoRow]
        BY <1>4, <1>5 DEF DemoRequest
  <2>2. demo' \in DemoProcess
        BY <1>5, <1>a, <1>b DEF DemoRequest
  <2> QED BY <1>5, <2>1, <2>2 DEF DemoRequest
<1>6. CASE DemoPoll
      BY <1>6, <1>a, <1>b DEF DemoPoll
<1>7. CASE DemoLoadGrant
  <2>1. demoRow' \in [DemoGrantIds -> DemoRow]
        BY <1>4, <1>7 DEF DemoLoadGrant
  <2>2. demo' \in DemoProcess
        BY <1>7, <1>a, <1>b DEF DemoLoadGrant
  <2> QED BY <1>7, <2>1, <2>2 DEF DemoLoadGrant
<1>8. CASE DemoGetToken
  <2>1. demoToken' \in [caps : SUBSET DemoAsked, live : BOOLEAN]
    <3>1. CASE demoToken' = [caps |-> demoRow[demo.grant].caps, live |-> TRUE] /\ demo.at = "get"
      <4>1. demo.grant \in DemoGrantIds
        <5>1. demo.grant \in 0..DemoGrants
              BY <1>a DEF DemoProcess
        <5>2. demo.grant # 0
              BY <3>1
        <5> QED BY <5>1, <5>2
      <4>2. demoRow[demo.grant].caps \in SUBSET DemoAsked
            BY <4>1 DEF DemoRow
      <4> QED BY <3>1, <4>2
    <3>2. CASE UNCHANGED demoToken
          BY <3>2
    <3> QED BY <1>8, <3>1, <3>2 DEF DemoGetToken
  <2>2. demo' \in DemoProcess
        BY <1>8, <1>a, <1>b DEF DemoGetToken
  <2> QED BY <1>8, <2>1, <2>2 DEF DemoGetToken
<1>9. CASE DemoTry
      BY <1>9, <1>a, <1>b DEF DemoTry
<1>10. ASSUME NEW g \in DemoGrantIds, DemoApprove(g) \/ DemoDeny(g) \/ DemoRevoke(g)
       PROVE  DemoOK'
  <2>1. demoRow' \in [DemoGrantIds -> DemoRow]
    <3>1. \A C \in SUBSET DemoAsked : [status |-> "approved", caps |-> C] \in DemoRow
          BY DEF DemoRow
    <3>2. /\ [demoRow[g] EXCEPT !.status = "denied"] \in DemoRow
          /\ [demoRow[g] EXCEPT !.status = "revoked"] \in DemoRow
          BY DEF DemoRow
    <3> QED BY <1>10, <3>1, <3>2 DEF DemoApprove, DemoDeny, DemoRevoke
  <2> QED BY <1>10, <2>1 DEF DemoApprove, DemoDeny, DemoRevoke
<1>11. CASE DemoTokenEnds
       BY <1>11 DEF DemoTokenEnds
<1> QED BY <1>1, <1>2, <1>3, <1>5, <1>6, <1>7, <1>8, <1>9, <1>10, <1>11
        DEF DemoNext, DemoStep

\* Every step keeps what is known of the demo and its grants.
LEMMA DemoStepInv == DemoInv /\ [DemoNext]_demoVars => DemoInv'
<1> SUFFICES ASSUME DemoInv, [DemoNext]_demoVars PROVE DemoInv'
    OBVIOUS
<1> DEFINE Known ==
      /\ demoResults \in Seq(Nat)
      /\ demo.at \notin {"run", "done"} => demoResults = <<>>
      /\ demo.at = "run" => demo.n = Len(demoResults) /\ demo.n < 4
      /\ demo.at = "done" => Len(demoResults) = 4
      /\ demo.at \in {"poll", "load", "get", "run", "done"} => demo.grant # 0
      Granted ==
        demo.at \in {"run", "done"} =>
          /\ demoRow[demo.grant].status \in {"approved", "revoked"}
          /\ demoToken.caps \subseteq demoRow[demo.grant].caps
<1>a. DemoOK' /\ demo \in DemoProcess /\ Known /\ Granted
      BY DemoTypeStep DEF DemoInv, DemoOK
\* What was approved stays so, with the same capabilities.
<1>b. ASSUME NEW g \in DemoGrantIds, demoRow[g].status \in {"approved", "revoked"}
      PROVE  demoRow'[g].status \in {"approved", "revoked"} /\ demoRow'[g].caps = demoRow[g].caps
  <2>1. ASSUME NEW k \in DemoGrantIds, DemoGrantFor(k)
        PROVE  demoRow'[g].status \in {"approved", "revoked"} /\ demoRow'[g].caps = demoRow[g].caps
        BY <1>b, <2>1 DEF DemoGrantFor, DemoInv, DemoOK
  <2>2. ASSUME NEW k \in DemoGrantIds, DemoApprove(k) \/ DemoDeny(k) \/ DemoRevoke(k)
        PROVE  demoRow'[g].status \in {"approved", "revoked"} /\ demoRow'[g].caps = demoRow[g].caps
    <3>1. CASE k # g
          BY <1>b, <2>2, <3>1 DEF DemoApprove, DemoDeny, DemoRevoke, DemoInv, DemoOK
    <3>2. CASE k = g
          BY <1>b, <2>2, <3>2 DEF DemoApprove, DemoDeny, DemoRevoke, DemoInv, DemoOK, DemoRow
    <3> QED BY <3>1, <3>2
  <2> QED BY <1>b, <2>1, <2>2 DEF DemoNext, DemoStep, DemoWait, DemoRegister, DemoRequest, DemoPoll,
             DemoLoadGrant, DemoGetToken, DemoTry, DemoTokenEnds, demoVars
<1>c. CASE DemoTry
  <2>1. PICK status \in {0} \cup DemoHandle(DemoActions[demo.n + 1]) :
          demoResults' = Append(demoResults, status)
        BY <1>c DEF DemoTry
  <2>2. /\ demo.at = "run" /\ demo.n = Len(demoResults) /\ demo.n < 4 /\ demo.n \in Nat
        /\ UNCHANGED <<demoRow, demoToken, demoBroke>>
        BY <1>a, <1>c DEF DemoTry
  <2>3. \/ /\ demo' = [at |-> "run", n |-> demo.n + 1, grant |-> demo.grant]
           /\ demo.n + 1 < 4
        \/ /\ demo' = [at |-> "done", n |-> 0, grant |-> demo.grant]
           /\ ~(demo.n + 1 < 4)
    <3>1. "done" \in DemoPlaces
          BY DEF DemoPlaces
    <3>2. DemoGoto("done") => demo' = [at |-> "done", n |-> 0, grant |-> demo.grant]
          BY <1>a, <3>1, DemoMoves
    <3>3. demo' = [demo EXCEPT !.n = @ + 1] =>
            demo' = [at |-> demo.at, n |-> demo.n + 1, grant |-> demo.grant]
          BY <1>a, DemoMoves
    <3> QED BY <1>c, <2>2, <3>2, <3>3 DEF DemoTry
  <2>4. status \in Nat /\ (status = 200 => DemoHas(DemoActions[demo.n + 1]))
        BY DEF DemoHandle
  <2>5. /\ demoResults' \in Seq(Nat) /\ Len(demoResults') = demo.n + 1
        /\ demoResults'[demo.n + 1] = status
        /\ \A i \in 1..demo.n : demoResults'[i] = demoResults[i]
        BY <1>a, <2>1, <2>2, <2>4
  <2>6. Known' /\ Granted'
        BY <1>a, <2>2, <2>3, <2>5
  <2>7. DemoServedOnlyGranted'
    <3>1. demo'.grant = demo.grant /\ demo.grant \in DemoGrantIds
          BY <1>a, <2>2, <2>3 DEF DemoProcess, DemoGrantIds
    <3>2. ASSUME NEW i \in 1..Len(demoResults'), demoResults'[i] = 200
          PROVE  /\ DemoActions[i] # "transact:payments"
                 /\ DemoActions[i] \in demoRow[demo.grant].caps
                 /\ demoRow[demo.grant].status \in {"approved", "revoked"}
      <4>1. CASE i \in 1..demo.n
            BY <2>2, <2>5, <3>2, <4>1, SMTT(30) DEF DemoInv, DemoServedOnlyGranted
      <4>2. CASE i = demo.n + 1
        <5>1. DemoActions[i] \in demoToken.caps
              BY <2>4, <2>5, <3>2, <4>2 DEF DemoHas
        <5>2. demoToken.caps \subseteq demoRow[demo.grant].caps
              BY <1>a, <2>2
        <5>3. "transact:payments" \notin DemoAsked /\ demoToken.caps \subseteq DemoAsked
              BY DEF DemoInv, DemoOK, DemoAsked
        <5> QED BY <1>a, <2>2, <5>1, <5>2, <5>3
      <4> QED BY <2>2, <2>5, <3>2, <4>1, <4>2
    <3> QED BY <2>2, <3>1, <3>2 DEF DemoServedOnlyGranted
  <2>8. DemoNeedsFailure'
        BY <2>2, <2>3 DEF DemoInv, DemoNeedsFailure
  <2> QED BY <1>a, <2>6, <2>7, <2>8 DEF DemoInv
\* Every other step leaves the results alone, and the grant once there are any.
<1>d. CASE ~DemoTry
  <2>1. demoResults' = demoResults
        BY <1>d DEF DemoNext, DemoStep, DemoWait, DemoRegister, DemoRequest, DemoPoll,
           DemoLoadGrant, DemoGetToken, DemoApprove, DemoDeny, DemoRevoke, DemoTokenEnds, demoVars
  <2>2. Known' /\ Granted' /\ DemoNeedsFailure' /\ (demoResults # <<>> => demo'.grant = demo.grant)
    <3> USE <1>a, <2>1 DEF DemoGrantIds
    <3>a. {"wait", "register", "request", "poll", "load", "get", "run", "done", "failed"}
            \subseteq DemoPlaces
          BY DEF DemoPlaces
    <3>b. DemoNeedsFailure
          BY DEF DemoInv
    <3>1. ASSUME NEW place \in DemoPlaces \ {"run", "done", "poll"}, DemoGoto(place),
                 demo.at \notin {"run", "done"}, place \in {"load", "get"} => demo.grant # 0,
                 place = "get" => demoBroke'
          PROVE  Known' /\ Granted' /\ DemoNeedsFailure' /\ demo'.grant = demo.grant
      <4>1. demo' = [at |-> place, n |-> 0, grant |-> demo.grant]
            BY <3>1, DemoMoves
      <4> QED BY <3>1, <4>1 DEF DemoNeedsFailure
    <3>2. ASSUME demo' = [demo EXCEPT !.n = @ + 1], demo.at \in {"wait", "poll"}
          PROVE  Known' /\ Granted' /\ DemoNeedsFailure' /\ demo'.grant = demo.grant
      <4>1. demo' = [at |-> demo.at, n |-> demo.n + 1, grant |-> demo.grant]
            BY <3>2, DemoMoves
      <4> QED BY <3>2, <4>1 DEF DemoNeedsFailure
    <3>3. CASE DemoWait
          BY <3>1, <3>2, <3>3, <3>a DEF DemoWait, DemoAgain
    <3>4. CASE DemoRegister
          BY <3>1, <3>4, <3>a DEF DemoRegister
    <3>5. CASE DemoRequest
      <4>1. demo.at = "request" /\ demoResults = <<>>
            BY <3>5 DEF DemoRequest
      <4>2. ASSUME NEW g \in DemoGrantIds, demo' = [demo EXCEPT !.at = "poll", !.grant = g]
            PROVE  Known' /\ Granted' /\ DemoNeedsFailure'
        <5>1. demo' = [at |-> "poll", n |-> demo.n, grant |-> g]
              BY <4>2, DemoMoves
        <5> QED BY <4>1, <5>1, DemoAssumption DEF DemoNeedsFailure
      <4> QED BY <3>1, <3>5, <3>a, <4>1, <4>2 DEF DemoRequest
    <3>6. CASE DemoPoll
          BY <3>1, <3>2, <3>6, <3>a DEF DemoPoll, DemoAgain
    <3>7. CASE DemoLoadGrant
          BY <3>1, <3>7, <3>a DEF DemoLoadGrant
    <3>8. CASE DemoGetToken
      <4>1. CASE DemoGoto("failed")
            BY <3>1, <3>8, <3>a, <4>1 DEF DemoGetToken
      <4>2. CASE /\ demoRow[demo.grant].status = "approved"
                 /\ demoToken' = [caps |-> demoRow[demo.grant].caps, live |-> TRUE]
                 /\ DemoGoto("run") /\ UNCHANGED demoBroke
        <5>1. demo' = [at |-> "run", n |-> 0, grant |-> demo.grant]
              BY <3>a, <4>2, DemoMoves
        <5>2. demo.at = "get" /\ UNCHANGED demoRow
              BY <3>8 DEF DemoGetToken
        <5> QED BY <3>b, <4>2, <5>1, <5>2 DEF DemoNeedsFailure
      <4> QED BY <3>8, <4>1, <4>2 DEF DemoGetToken
    <3>9. CASE /\ UNCHANGED <<demo, demoBroke>>
               /\ demoToken'.caps = demoToken.caps
      <4>1. Known' /\ DemoNeedsFailure'
            BY <3>9, <3>b DEF DemoNeedsFailure
      <4>2. Granted'
            BY <1>b, <3>9 DEF DemoProcess
      <4> QED BY <3>9, <4>1, <4>2
    <3>10. CASE \E g \in DemoGrantIds : DemoApprove(g) \/ DemoDeny(g) \/ DemoRevoke(g)
           BY <3>9, <3>10 DEF DemoApprove, DemoDeny, DemoRevoke
    <3>11. CASE DemoTokenEnds \/ UNCHANGED demoVars
      <4>1. demoToken'.caps = demoToken.caps
            BY <3>11 DEF DemoTokenEnds, demoVars, DemoInv, DemoOK
      <4> QED BY <3>9, <3>11, <4>1 DEF DemoTokenEnds, demoVars
    <3> QED BY <1>d, <3>3, <3>4, <3>5, <3>6, <3>7, <3>8, <3>10, <3>11 DEF DemoNext, DemoStep
  <2>3. DemoServedOnlyGranted'
    <3>1. CASE demoResults = <<>>
          BY <2>1, <3>1 DEF DemoServedOnlyGranted
    <3>2. CASE demoResults # <<>>
      <4>1. demo.at \in {"run", "done"} /\ demo.grant \in DemoGrantIds
            BY <1>a, <3>2 DEF DemoProcess, DemoGrantIds
      <4>2. /\ demoRow'[demo.grant].status \in {"approved", "revoked"}
            /\ demoRow'[demo.grant].caps = demoRow[demo.grant].caps
            BY <1>a, <1>b, <4>1
      <4> QED BY <2>1, <2>2, <3>2, <4>2 DEF DemoInv, DemoServedOnlyGranted
    <3> QED BY <3>1, <3>2
  <2> QED BY <1>a, <2>2, <2>3 DEF DemoInv
<1> QED BY <1>c, <1>d

\* So it holds of every reachable state.
LEMMA DemoInvariance == DemoSpec => []DemoInv
BY DemoInvInit, DemoStepInv, PTL DEF DemoSpec

\* Whatever the human grants, denies or revokes meanwhile: what the provider
\* serves was approved, and the payment never is.
THEOREM DemoServesOnlyGranted == DemoSpec => []DemoServedOnlyGranted
<1>1. DemoInv => DemoServedOnlyGranted
      BY DEF DemoInv
<1> QED BY <1>1, DemoInvariance, PTL

\* The demo never gets to its requests unless a call to the registry fails.
THEOREM DemoMeetsFailure == DemoSpec => []DemoNeedsFailure
<1>1. DemoInv => DemoNeedsFailure
      BY DEF DemoInv
<1> QED BY <1>1, DemoInvariance, PTL

-----------------------------------------------------------------------------
(* The approval page *)

\* A decision on its way that approves something of high risk was confirmed
\* twice; an answer on its way says what the registry has decided.
PageInv ==
  /\ PageTypeOK
  /\ PageHighRiskConfirmed
  /\ PageTellsTruth
  /\ \A t \in PageTasks :
       /\ pageTask[t].op = "approve" =>
            pageTask[t].caps \cap PageTwoStep = {} \/ pageTask[t].confirmed
       /\ pageTask[t].op = "yes" => pageTask[t].to = pageGrant.status

\* The page is loading and the grant pending.
LEMMA PageInvInit == PageInit => PageInv
<1> USE PageAssumption DEF PageInit, PageIdle
<1> SUFFICES ASSUME PageInit PROVE PageInv
    OBVIOUS
<1>1. PICK s \in PageTasks :
        pageTask = [k \in PageTasks |-> IF k = s THEN [op |-> "health"] ELSE PageIdle]
  <2>1. (CHOOSE k \in PageTasks : TRUE) \in PageTasks
        OBVIOUS
  <2> QED BY <2>1
<1>2. PageTypeOK
  <2>1. pageTask \in [PageTasks -> PageInFlight]
        BY <1>1 DEF PageInFlight
  <2>2. page \in PageStates
        BY DEF PageStates, PageFresh
  <2>3. pageGrant \in PageRow
        BY DEF PageRow
  <2> QED BY <2>1, <2>2, <2>3 DEF PageTypeOK
<1>3. \A t \in PageTasks : pageTask[t].op \notin {"approve", "yes"}
      BY <1>1
<1>4. PageHighRiskConfirmed /\ PageTellsTruth
      BY DEF PageHighRiskConfirmed, PageTellsTruth, PageFresh
<1> QED BY <1>2, <1>3, <1>4 DEF PageInv

\* What is shown stays well formed.
LEMMA PageTurns ==
  ASSUME page \in PageStates,
         NEW at \in {"loading", "error", "loaded", "confirm1", "confirm2", "signing",
                     "approved", "denied"},
         PageShow(at)
  PROVE  page' \in PageStates /\ page'.at = at
BY DEF PageStates, PageShow

\* The page with other rows ticked is in the same state.
LEMMA PageRows ==
  ASSUME page \in PageStates, NEW e \in SUBSET PageCaps, NEW p \in SUBSET PageCaps,
         \/ page' = [page EXCEPT !.enabled = e]
         \/ page' = [page EXCEPT !.pending = p]
         \/ page' = [page EXCEPT !.enabled = e, !.pending = p]
  PROVE  page' \in PageStates /\ page'.at = page.at
<1>1. \A w \in PageStates :
        /\ [w EXCEPT !.enabled = e] \in PageStates /\ [w EXCEPT !.enabled = e].at = w.at
        /\ [w EXCEPT !.pending = p] \in PageStates /\ [w EXCEPT !.pending = p].at = w.at
      BY DEF PageStates
<1>2. [page EXCEPT !.enabled = e, !.pending = p] = [[page EXCEPT !.enabled = e] EXCEPT !.pending = p]
      OBVIOUS
<1> QED BY <1>1, <1>2

\* The tasks that can be in flight.
LEMMA PageFlights ==
  /\ PageIdle \in PageInFlight
  /\ \A op \in {"health", "get"} : [op |-> op] \in PageInFlight
  /\ \A op \in {"approve", "deny"}, c \in SUBSET PageCaps, y, h \in BOOLEAN :
       [op |-> op, caps |-> c, confirmed |-> y, heard |-> h] \in PageInFlight
  /\ \A op \in {"yes", "no"}, to \in {"approved", "denied"}, h \in BOOLEAN :
       [op |-> op, to |-> to, heard |-> h] \in PageInFlight
BY DEF PageInFlight

\* What the fields of a task are, by its op; one that goes unheard is otherwise
\* the same.
LEMMA PageFields ==
  ASSUME NEW k \in PageInFlight
  PROVE  /\ k.op \in {"idle", "health", "get", "approve", "deny", "yes", "no"}
         /\ k.op \in {"approve", "deny"} =>
              k.caps \in SUBSET PageCaps /\ k.confirmed \in BOOLEAN /\ k.heard \in BOOLEAN
         /\ k.op \in {"yes", "no"} => k.to \in {"approved", "denied"} /\ k.heard \in BOOLEAN
         /\ k.op \in {"approve", "deny", "yes", "no"} =>
              LET u == [k EXCEPT !.heard = FALSE] IN
              /\ u \in PageInFlight /\ u.op = k.op
              /\ k.op = "approve" => u.caps = k.caps /\ u.confirmed = k.confirmed
              /\ k.op = "yes" => u.to = k.to
<1> DEFINE u == [k EXCEPT !.heard = FALSE]
<1>1. CASE k = PageIdle
      BY <1>1 DEF PageIdle
<1>2. CASE k \in [op : {"health", "get"}]
      BY <1>2
<1>3. CASE k \in [op : {"approve", "deny"}, caps : SUBSET PageCaps, confirmed : BOOLEAN,
                  heard : BOOLEAN]
  <2>1. /\ k.op \in {"approve", "deny"} /\ k.caps \in SUBSET PageCaps
        /\ k.confirmed \in BOOLEAN /\ k.heard \in BOOLEAN
        BY <1>3
  <2>2. u \in [op : {"approve", "deny"}, caps : SUBSET PageCaps, confirmed : BOOLEAN,
               heard : BOOLEAN]
        BY <1>3
  <2>3. u \in PageInFlight
        BY <2>2 DEF PageInFlight
  <2>4. u.op = k.op /\ u.caps = k.caps /\ u.confirmed = k.confirmed
        BY <1>3
  <2> QED BY <2>1, <2>3, <2>4
<1>4. CASE k \in [op : {"yes", "no"}, to : {"approved", "denied"}, heard : BOOLEAN]
  <2>1. k.op \in {"yes", "no"} /\ k.to \in {"approved", "denied"} /\ k.heard \in BOOLEAN
        BY <1>4
  <2>2. u \in [op : {"yes", "no"}, to : {"approved", "denied"}, heard : BOOLEAN]
        BY <1>4
  <2>3. u \in PageInFlight
        BY <2>2 DEF PageInFlight
  <2>4. u.op = k.op /\ u.to = k.to
        BY <1>4
  <2> QED BY <2>1, <2>3, <2>4
<1> QED BY <1>1, <1>2, <1>3, <1>4 DEF PageInFlight

\* Every click and every answer keeps what is known of the page and the grant.
LEMMA PageInvStep == PageInv /\ [PageNext]_pageVars => PageInv'
<1> USE PageAssumption
<1> SUFFICES ASSUME PageInv, [PageNext]_pageVars PROVE PageInv'
    OBVIOUS
<1> DEFINE Stands(k) ==
      /\ k.op = "approve" => k.caps \cap PageTwoStep = {} \/ k.confirmed
      /\ k.op = "yes" => k.to = pageGrant.status
<1>a. /\ page \in PageStates /\ pageTask \in [PageTasks -> PageInFlight]
      /\ pageGrant \in PageRow
      /\ \A t \in PageTasks : Stands(pageTask[t])
      /\ PageHighRiskConfirmed /\ PageTellsTruth
      BY DEF PageInv, PageTypeOK
\* One task moves, or none, and the grant stays.
<1>b. ASSUME pageGrant' = pageGrant, page' \in PageStates,
             page'.at \in {"approved", "denied"} => page'.at = pageGrant.status,
             \/ pageTask' = pageTask
             \/ \E t \in PageTasks, k \in PageInFlight :
                  Stands(k) /\ pageTask' = [pageTask EXCEPT ![t] = k]
      PROVE  PageInv'
  <2>1. /\ pageTask' \in [PageTasks -> PageInFlight]
        /\ \A t \in PageTasks : Stands(pageTask'[t])
    <3>1. CASE pageTask' = pageTask
          BY <1>a, <3>1
    <3>2. ASSUME NEW s \in PageTasks, NEW k \in PageInFlight, Stands(k),
                 pageTask' = [pageTask EXCEPT ![s] = k]
          PROVE  /\ pageTask' \in [PageTasks -> PageInFlight]
                 /\ \A t \in PageTasks : Stands(pageTask'[t])
      <4> HIDE DEF Stands
      <4> QED BY <1>a, <3>2
    <3> QED BY <1>b, <3>1, <3>2
  <2>2. PageHighRiskConfirmed' /\ PageTellsTruth'
        BY <1>a, <1>b DEF PageHighRiskConfirmed, PageTellsTruth
  <2> QED BY <1>a, <1>b, <2>1, <2>2 DEF PageInv, PageTypeOK
<1>s. \A at \in {"loading", "error", "loaded", "confirm1", "confirm2", "signing",
                "approved", "denied"} :
        PageShow(at) => page' \in PageStates /\ page'.at = at
      BY <1>a, PageTurns
<1>c. /\ Stands(PageIdle)
      /\ \A op \in {"health", "get", "deny", "no"} :
           \A k : k.op = op => Stands(k)
      BY DEF PageIdle
<1>1. CASE UNCHANGED pageVars
      BY <1>1, <1>a, <1>b DEF pageVars, PageTellsTruth
<1>2. ASSUME NEW t \in PageTasks, PageRetry(t) PROVE PageInv'
  <2>1. /\ pageTask' = [pageTask EXCEPT ![t] = [op |-> "health"]] /\ pageGrant' = pageGrant
        /\ [op |-> "health"] \in PageInFlight /\ Stands([op |-> "health"])
        BY <1>2, PageFlights DEF PageRetry, PageStart
  <2>2. page' \in PageStates /\ page'.at = "loading"
        BY <1>2, <1>s DEF PageRetry
  <2> QED BY <2>1, <2>2, <1>b
<1>3. ASSUME NEW t \in PageTasks, PageHealth(t) PROVE PageInv'
  <2>1. /\ \/ pageTask' = [pageTask EXCEPT ![t] = [op |-> "get"]]
           \/ pageTask' = [pageTask EXCEPT ![t] = PageIdle]
        /\ pageGrant' = pageGrant
        /\ [op |-> "get"] \in PageInFlight /\ Stands([op |-> "get"])
        /\ PageIdle \in PageInFlight
        BY <1>3, PageFlights DEF PageHealth, PageGoes
  <2>2. page' \in PageStates /\ (page'.at = "error" \/ page' = page)
        BY <1>3, <1>a, <1>s DEF PageHealth
  <2>3. page'.at \in {"approved", "denied"} => page'.at = pageGrant.status
        BY <2>2, <1>a DEF PageTellsTruth
  <2> QED BY <2>1, <2>2, <2>3, <1>b, <1>c
<1>4. ASSUME NEW t \in PageTasks, PageGet(t) PROVE PageInv'
  <2>1. /\ pageTask' = [pageTask EXCEPT ![t] = PageIdle] /\ pageGrant' = pageGrant
        /\ PageIdle \in PageInFlight
        BY <1>4, PageFlights DEF PageGet, PageGoes
  <2>2. page' \in PageStates /\ page'.at \in {"loaded", "error"}
    <3>1. CASE page' = [at |-> "loaded", enabled |-> PageCaps, pending |-> {}]
          BY <3>1 DEF PageStates
    <3>2. CASE PageShow("error")
          BY <3>2, <1>s
    <3> QED BY <1>4, <3>1, <3>2 DEF PageGet
  <2> QED BY <2>1, <2>2, <1>b, <1>c
<1>d. ASSUME NEW t \in PageTasks, NEW y \in BOOLEAN, PageSign(t, y), pageGrant' = pageGrant,
             page.enabled \cap PageTwoStep = {} \/ y
      PROVE  PageInv'
  <2> DEFINE k == [op |-> "approve", caps |-> page.enabled, confirmed |-> y, heard |-> TRUE]
  <2>1. pageTask' = [pageTask EXCEPT ![t] = k]
        BY <1>d DEF PageSign, PageStart
  <2>2. k \in PageInFlight /\ Stands(k)
    <3>1. page.enabled \in SUBSET PageCaps
          BY <1>a DEF PageStates
    <3> QED BY <3>1, <1>d, PageFlights
  <2>3. page' \in PageStates /\ page'.at = "signing"
        BY <1>d, <1>s DEF PageSign
  <2> HIDE DEF k, Stands
  <2> QED BY <1>d, <2>1, <2>2, <2>3, <1>b
<1>5. ASSUME NEW t \in PageTasks, PageApproveClick(t) PROVE PageInv'
  <2>1. CASE page.enabled \cap PageTwoStep # {}
    <3>1. /\ page' \in PageStates /\ page'.at = "confirm1" /\ pageTask' = pageTask
          /\ pageGrant' = pageGrant
          BY <1>5, <2>1, <1>s DEF PageApproveClick
    <3> QED BY <3>1, <1>b
  <2>2. CASE page.enabled \cap PageTwoStep = {}
        BY <1>5, <2>2, <1>d DEF PageApproveClick
  <2> QED BY <2>1, <2>2
<1>6. ASSUME NEW t \in PageTasks, PageApproveFinal(t) PROVE PageInv'
      BY <1>6, <1>d DEF PageApproveFinal
<1>7. ASSUME NEW t \in PageTasks, PageDeny(t) PROVE PageInv'
  <2> DEFINE k == [op |-> "deny", caps |-> {}, confirmed |-> FALSE, heard |-> TRUE]
  <2>1. pageTask' = [pageTask EXCEPT ![t] = k] /\ page' = page /\ pageGrant' = pageGrant
        BY <1>7 DEF PageDeny, PageStart
  <2>2. k \in PageInFlight /\ Stands(k)
        BY PageFlights
  <2>3. page.at = "loaded"
        BY <1>7 DEF PageDeny
  <2> HIDE DEF k, Stands
  <2> QED BY <2>1, <2>2, <2>3, <1>a, <1>b
<1>8. ASSUME NEW t \in PageTasks, PageDecided(t) PROVE PageInv'
  <2> DEFINE k == pageTask[t]
             to == IF k.op = "approve" THEN "approved" ELSE "denied"
             ans(a) == [op |-> a, to |-> to, heard |-> k.heard]
  <2>1. /\ k \in PageInFlight /\ k.op \in {"approve", "deny"} /\ Stands(k)
        /\ page' = page
        BY <1>8, <1>a DEF PageDecided
  <2>2. k.caps \in SUBSET PageCaps /\ k.confirmed \in BOOLEAN /\ k.heard \in BOOLEAN
        BY <2>1, PageFields
  <2>3. /\ to \in {"approved", "denied"}
        /\ \A a \in {"yes", "no"} : ans(a) \in PageInFlight
        BY <2>2, PageFlights
  <2>4. CASE pageTask' = [pageTask EXCEPT ![t] = ans("no")] /\ pageGrant' = pageGrant
    <3>1. ans("no") \in PageInFlight /\ Stands(ans("no"))
          BY <2>3
    <3> HIDE DEF ans, Stands
    <3> QED BY <2>4, <3>1, <2>1, <1>a, <1>b DEF PageTellsTruth
  <2>5. CASE /\ pageGrant.status = "pending"
             /\ pageGrant' = [status |-> to, by |-> "page", confirmed |-> k.confirmed,
                              caps |-> IF to = "denied" THEN pageGrant.caps ELSE k.caps]
             /\ \E a \in {"yes", "no"} : pageTask' = [pageTask EXCEPT ![t] = ans(a)]
    <3>1. PICK a \in {"yes", "no"} : pageTask' = [pageTask EXCEPT ![t] = ans(a)]
          BY <2>5
    <3>2. pageTask' \in [PageTasks -> PageInFlight]
      <4> HIDE DEF ans
      <4> QED BY <3>1, <2>3, <1>a
    <3>3. pageGrant' \in PageRow
          BY <2>5, <2>2, <2>3, <1>a DEF PageRow
    <3>4. page.at \notin {"approved", "denied"}
          BY <2>5, <1>a DEF PageTellsTruth
    <3>5. PageHighRiskConfirmed'
          BY <2>1, <2>5 DEF PageHighRiskConfirmed
    <3>6. ASSUME NEW s \in PageTasks
          PROVE  /\ pageTask'[s].op = "approve" =>
                      pageTask'[s].caps \cap PageTwoStep = {} \/ pageTask'[s].confirmed
                 /\ pageTask'[s].op = "yes" => pageTask'[s].to = pageGrant'.status
      <4>1. CASE s = t
            BY <4>1, <3>1, <1>a, <2>5
      <4>2. CASE s # t
        <5>1. pageTask'[s] = pageTask[s]
              BY <4>2, <3>1, <1>a
        <5>2. pageTask[s].op = "yes" => pageTask[s].to = "pending"
              BY <1>a, <2>5
        <5>3. pageTask[s].op = "yes" => pageTask[s].to \in {"approved", "denied"}
              BY <1>a, PageFields
        <5> QED BY <5>1, <5>2, <5>3, <1>a
      <4> QED BY <4>1, <4>2
    <3> QED BY <3>2, <3>3, <3>4, <3>5, <3>6, <2>1, <1>a DEF PageInv, PageTypeOK, PageTellsTruth
  <2> QED BY <1>8, <2>4, <2>5 DEF PageDecided, PageGoes
<1>9. ASSUME NEW t \in PageTasks, PageAnswer(t) PROVE PageInv'
  <2>1. /\ pageTask' = [pageTask EXCEPT ![t] = PageIdle] /\ pageGrant' = pageGrant
        /\ PageIdle \in PageInFlight /\ Stands(PageIdle)
        /\ pageTask[t] \in PageInFlight /\ pageTask[t].op \in {"yes", "no"}
        BY <1>9, <1>a, <1>c, PageFlights DEF PageAnswer, PageGoes
  <2>2. pageTask[t].to \in {"approved", "denied"}
        BY <2>1, PageFields
  <2>3. /\ page' \in PageStates
        /\ page' = page \/ page'.at = "error" \/ page'.at = pageTask[t].to
        /\ page' # page /\ page'.at # "error" => pageTask[t].op = "yes"
        BY <1>9, <1>a, <1>s, <2>2 DEF PageAnswer
  <2>4. page'.at \in {"approved", "denied"} => page'.at = pageGrant.status
        BY <2>3, <1>a DEF PageTellsTruth
  <2> HIDE DEF Stands
  <2> QED BY <2>1, <2>3, <2>4, <1>b
<1>10. ASSUME NEW c, \/ c \in PageCaps /\ (PageRemove(c) \/ PageRestore(c))
                     \/ PageConfirmRemove \/ PageContinue
       PROVE  PageInv'
  <2>1. /\ pageTask' = pageTask /\ pageGrant' = pageGrant
        /\ page.at \in {"loaded", "confirm1", "confirm2"}
        BY <1>10 DEF PageRemove, PageRestore, PageConfirmRemove, PageContinue, PageShowsGrant
  <2>2. page' \in PageStates /\ page'.at \in {"loaded", "confirm1", "confirm2"}
    <3>a. page.enabled \in SUBSET PageCaps /\ page.pending \in SUBSET PageCaps
          BY <1>a DEF PageStates
    <3>b. \A e, p \in SUBSET PageCaps :
            \/ page' = [page EXCEPT !.enabled = e]
            \/ page' = [page EXCEPT !.pending = p]
            \/ page' = [page EXCEPT !.enabled = e, !.pending = p]
            => page' \in PageStates /\ page'.at = page.at
          BY <1>a, PageRows
    <3>1. CASE c \in PageCaps /\ PageRemove(c)
      <4>1. \/ page' = [page EXCEPT !.pending = {c}]
            \/ page' = [page EXCEPT !.enabled = page.enabled \ {c}]
            BY <3>1 DEF PageRemove
      <4>2. {c} \in SUBSET PageCaps /\ page.enabled \ {c} \in SUBSET PageCaps
            BY <3>a, <3>1
      <4> QED BY <4>1, <4>2, <3>b, <2>1
    <3>2. CASE c \in PageCaps /\ PageRestore(c)
      <4>1. page' = [page EXCEPT !.enabled = page.enabled \cup {c}]
            BY <3>2 DEF PageRestore
      <4>2. page.enabled \cup {c} \in SUBSET PageCaps
            BY <3>a, <3>2
      <4> QED BY <4>1, <4>2, <3>b, <2>1
    <3>3. CASE PageConfirmRemove
      <4>1. \/ page' = [page EXCEPT !.enabled = page.enabled \ page.pending, !.pending = {}]
            \/ page' = [page EXCEPT !.pending = {}]
            BY <3>3 DEF PageConfirmRemove
      <4>2. page.enabled \ page.pending \in SUBSET PageCaps /\ {} \in SUBSET PageCaps
            BY <3>a
      <4> QED BY <4>1, <4>2, <3>b, <2>1
    <3>4. CASE PageContinue
          BY <3>4, <1>s DEF PageContinue
    <3> QED BY <1>10, <3>1, <3>2, <3>3, <3>4
  <2> QED BY <2>1, <2>2, <1>b
<1>11. CASE PageReopen
  <2>1. PICK t \in PageTasks :
          pageTask' = [k \in PageTasks |->
            IF k = t THEN [op |-> "health"]
            ELSE IF pageTask[k].op \in {"idle", "health", "get"} THEN PageIdle
            ELSE [pageTask[k] EXCEPT !.heard = FALSE]]
        BY <1>11 DEF PageReopen
  <2>2. pageGrant' = pageGrant /\ page' = PageFresh
        BY <1>11 DEF PageReopen
  <2>3. ASSUME NEW s \in PageTasks PROVE pageTask'[s] \in PageInFlight /\ Stands(pageTask'[s])
    <3>1. CASE s = t
          BY <2>1, <3>1, PageFlights
    <3>2. CASE s # t /\ pageTask[s].op \in {"idle", "health", "get"}
      <4>1. pageTask'[s] = PageIdle
            BY <2>1, <3>2
      <4> QED BY <4>1, <1>c, PageFlights
    <3>3. CASE s # t /\ pageTask[s].op \notin {"idle", "health", "get"}
      <4> DEFINE u == [pageTask[s] EXCEPT !.heard = FALSE]
      <4>1. pageTask'[s] = u
            BY <2>1, <3>3
      <4>2. pageTask[s] \in PageInFlight /\ pageTask[s].op \in {"approve", "deny", "yes", "no"}
            BY <1>a, <3>3, PageFields
      <4>3. /\ u \in PageInFlight /\ u.op = pageTask[s].op
            /\ pageTask[s].op = "approve" =>
                 u.caps = pageTask[s].caps /\ u.confirmed = pageTask[s].confirmed
            /\ pageTask[s].op = "yes" => u.to = pageTask[s].to
            BY <4>2, PageFields, Zenon
      <4> HIDE DEF u
      <4> QED BY <4>1, <4>3, <1>a
    <3> QED BY <3>1, <3>2, <3>3
  <2>4. pageTask' \in [PageTasks -> PageInFlight]
    <3>1. pageTask' = [k \in PageTasks |-> pageTask'[k]]
          BY <2>1
    <3> QED BY <2>3, <3>1
  <2>5. page' \in PageStates /\ page'.at = "loading"
        BY <2>2 DEF PageFresh, PageStates
  <2> QED BY <2>2, <2>3, <2>4, <2>5, <1>a
          DEF PageInv, PageTypeOK, PageHighRiskConfirmed, PageTellsTruth
<1>12. CASE PageElsewhere
  <2>1. PICK x \in {"approved", "denied"} :
          pageGrant' = [pageGrant EXCEPT !.status = x, !.by = "other"]
        BY <1>12 DEF PageElsewhere
  <2>2. pageGrant.status = "pending" /\ page' = page /\ pageTask' = pageTask
        BY <1>12 DEF PageElsewhere
  <2>3. pageGrant' \in PageRow /\ pageGrant'.by = "other"
    <3>1. pageGrant' = [[pageGrant EXCEPT !.status = x] EXCEPT !.by = "other"]
          BY <2>1
    <3>2. [pageGrant EXCEPT !.status = x] \in PageRow
          BY <1>a DEF PageRow
    <3>3. \A w \in PageRow : [w EXCEPT !.by = "other"] \in PageRow
                             /\ [w EXCEPT !.by = "other"].by = "other"
          BY DEF PageRow
    <3> QED BY <3>1, <3>2, <3>3
  <2>4. page.at \notin {"approved", "denied"}
        BY <1>a, <2>2 DEF PageTellsTruth
  <2>5. \A s \in PageTasks : pageTask[s].op # "yes"
        BY <1>a, <2>2, PageFields
  <2> QED BY <2>2, <2>3, <2>4, <2>5, <1>a
          DEF PageInv, PageTypeOK, PageHighRiskConfirmed, PageTellsTruth
<1>13. ASSUME NEW t \in PageTasks,
              \/ PageProgress(t) \/ PageRetry(t) \/ PageApproveClick(t) \/ PageApproveFinal(t)
              \/ PageDeny(t)
       PROVE  PageInv'
       BY <1>13, <1>2, <1>3, <1>4, <1>5, <1>6, <1>7, <1>8, <1>9, Zenon DEF PageProgress
<1>14. CASE \E c \in PageCaps : PageRemove(c) \/ PageRestore(c)
       BY <1>14, <1>10, Zenon
<1>15. CASE PageConfirmRemove \/ PageContinue
       BY <1>15, <1>10, Zenon
<1> HIDE DEF Stands
<1> QED BY <1>1, <1>11, <1>12, <1>13, <1>14, <1>15, Zenon DEF PageNext

\* So it holds of every reachable state.
LEMMA PageInvariant == PageSpec => []PageInv
BY PageInvInit, PageInvStep, PTL DEF PageSpec

\* ApprovalPage.tsx: whatever is removed, restored, reloaded, denied or left in
\* flight, what is granted from the page with a high-risk capability in it was
\* confirmed twice.
THEOREM PageConfirmsHighRisk == PageSpec => []PageHighRiskConfirmed
<1>1. PageInv => PageHighRiskConfirmed
      BY DEF PageInv
<1> QED BY <1>1, PageInvariant, PTL

\* ApprovalPage.tsx: what the page says of a decision is what the registry
\* decided, whichever of two answers comes last.
THEOREM PageShowsDecision == PageSpec => []PageTellsTruth
<1>1. PageInv => PageTellsTruth
      BY DEF PageInv
<1> QED BY <1>1, PageInvariant, PTL

-----------------------------------------------------------------------------
(* The SDK *)

\* A token with life left has no more of it than the last one its grant could
\* still get.
SdkWithin(token) ==
  token.left > 0 => sdkSince[token.grant] + token.left <= SdkLifetime + SdkLag

\* A call that holds a token took it when that grant could still get one, or
\* while the token had life left, and has waited since.
SdkInTime(call) ==
  call.at \in {"put", "sign"} =>
    /\ SdkWithin(call.token)
    /\ sdkSince[call.token.grant] < SdkLifetime + SdkLag + call.waited

SdkInv ==
  /\ SdkTypeOK
  /\ \A g \in SdkGrantIds : sdkStatus[g] # "revoked" => sdkSince[g] = 0
  /\ \A g \in SdkGrantIds : sdkNewest[g] # NoToken =>
       sdkNewest[g].grant = g /\ SdkWithin(sdkNewest[g])
  /\ sdkCache # NoToken => SdkWithin(sdkCache)
  /\ \A t \in SdkTasks : SdkInTime(sdkTask[t])

\* What is assumed of the SDK's constants.
LEMMA SdkConstants ==
  /\ SdkLifetime \in Nat /\ SdkLag \in Nat /\ SdkPatience \in Nat /\ SdkRetries \in Nat
  /\ SdkLifetime > 0 /\ SdkHorizon \in Nat
  /\ SdkHorizon = SdkLifetime + SdkLag + SdkPatience
BY SdkAssumption DEF SdkHorizon

\* The calls that can be in progress.
LEMMA SdkCalls ==
  /\ SdkIdle \in SdkCall
  /\ \A at \in {"register", "askGrant"}, n \in 0..SdkRetries, w \in 0..SdkPatience :
       [at |-> at, try |-> n, waited |-> w] \in SdkCall
  /\ \A g \in SdkGrantIds, w \in 0..SdkPatience :
       [at |-> "storeGrant", grant |-> g, waited |-> w] \in SdkCall
  /\ \A w \in 0..SdkPatience : [at |-> "look", waited |-> w] \in SdkCall
  /\ \A g \in SdkGrantIds, n \in 0..SdkRetries, w \in 0..SdkPatience :
       [at |-> "askToken", grant |-> g, try |-> n, waited |-> w] \in SdkCall
  /\ \A at \in {"put", "sign"}, k \in SdkToken, w \in 0..SdkPatience :
       [at |-> at, token |-> k, waited |-> w] \in SdkCall
BY DEF SdkCall

\* What a call knows, by where it is.
LEMMA SdkFields ==
  ASSUME NEW c \in SdkCall
  PROVE  /\ c # SdkIdle => c.at # "idle" /\ c.waited \in 0..SdkPatience
         /\ c.at \in {"storeGrant", "askToken"} => c.grant \in SdkGrantIds
         /\ c.at \in {"put", "sign"} => c.token \in SdkToken
         /\ c.at \in {"register", "askGrant", "askToken"} => c.try \in 0..SdkRetries
         /\ c.at \in {"idle", "register", "askGrant", "storeGrant", "look", "askToken", "put",
                      "sign"}
<1>1. CASE c = SdkIdle
      BY <1>1 DEF SdkIdle
<1>2. CASE c \in [at : {"register", "askGrant"}, try : 0..SdkRetries, waited : 0..SdkPatience]
      BY <1>2
<1>3. CASE c \in [at : {"storeGrant"}, grant : SdkGrantIds, waited : 0..SdkPatience]
      BY <1>3
<1>4. CASE c \in [at : {"look"}, waited : 0..SdkPatience]
      BY <1>4
<1>5. CASE c \in [at : {"askToken"}, grant : SdkGrantIds, try : 0..SdkRetries,
                  waited : 0..SdkPatience]
      BY <1>5
<1>6. CASE c \in [at : {"put", "sign"}, token : SdkToken, waited : 0..SdkPatience]
      BY <1>6
<1> QED BY <1>1, <1>2, <1>3, <1>4, <1>5, <1>6 DEF SdkCall

\* A failed attempt is followed by another one, or ends the call.
LEMMA SdkFails ==
  ASSUME NEW c \in SdkCall, c.at \in {"register", "askGrant", "askToken"}
  PROVE  SdkAfterFailure(c) \in SdkCall /\ SdkAfterFailure(c).at \notin {"put", "sign"}
<1> USE SdkConstants
<1>1. CASE ~(c.try < SdkRetries)
      BY <1>1, SdkCalls DEF SdkAfterFailure, SdkIdle
<1>2. CASE c.try < SdkRetries
  <2> DEFINE d == [c EXCEPT !.try = @ + 1]
  <2>1. SdkAfterFailure(c) = d
        BY <1>2 DEF SdkAfterFailure
  <2>2. CASE c \in [at : {"register", "askGrant"}, try : 0..SdkRetries, waited : 0..SdkPatience]
    <3>1. c.try + 1 \in 0..SdkRetries
          BY <1>2, <2>2
    <3>2. d \in [at : {"register", "askGrant"}, try : 0..SdkRetries, waited : 0..SdkPatience]
          BY <2>2, <3>1
    <3>3. d \in SdkCall
          BY <3>2 DEF SdkCall
    <3>4. d.at \notin {"put", "sign"}
          BY <3>2
    <3> QED BY <2>1, <3>3, <3>4
  <2>3. CASE c \in [at : {"askToken"}, grant : SdkGrantIds, try : 0..SdkRetries,
                    waited : 0..SdkPatience]
    <3>1. c.try + 1 \in 0..SdkRetries
          BY <1>2, <2>3
    <3>2. d \in [at : {"askToken"}, grant : SdkGrantIds, try : 0..SdkRetries,
                 waited : 0..SdkPatience]
          BY <2>3, <3>1
    <3>3. d \in SdkCall
          BY <3>2 DEF SdkCall
    <3>4. d.at \notin {"put", "sign"}
          BY <3>2
    <3> QED BY <2>1, <3>3, <3>4
  <2> QED BY <2>2, <2>3 DEF SdkCall, SdkIdle
<1> QED BY <1>1, <1>2

\* What becomes of a token.
LEMMA SdkTokens ==
  ASSUME NEW k \in SdkToken
  PROVE  /\ k.grant \in SdkGrantIds /\ k.left \in Nat /\ k.left <= SdkLifetime
         /\ [k EXCEPT !.good = FALSE] \in SdkToken
         /\ [k EXCEPT !.good = FALSE].grant = k.grant
         /\ [k EXCEPT !.good = FALSE].left = k.left
         /\ [k EXCEPT !.bound = "earlier"] \in SdkToken
         /\ [k EXCEPT !.bound = "earlier"].grant = k.grant
         /\ [k EXCEPT !.bound = "earlier"].left = k.left
         /\ SdkAge(k) \in SdkToken /\ SdkAge(k).grant = k.grant
         /\ SdkAge(k).left = IF k.left = 0 THEN 0 ELSE k.left - 1
<1> USE SdkConstants DEF SdkToken
<1>1. k.grant \in SdkGrantIds /\ k.left \in 0..SdkLifetime
      OBVIOUS
<1>2. /\ [k EXCEPT !.good = FALSE] \in SdkToken
      /\ [k EXCEPT !.good = FALSE].grant = k.grant
      /\ [k EXCEPT !.good = FALSE].left = k.left
      OBVIOUS
<1>3. /\ [k EXCEPT !.bound = "earlier"] \in SdkToken
      /\ [k EXCEPT !.bound = "earlier"].grant = k.grant
      /\ [k EXCEPT !.bound = "earlier"].left = k.left
      BY DEF SdkKeys
<1>4. /\ SdkAge(k) \in SdkToken /\ SdkAge(k).grant = k.grant
      /\ SdkAge(k).left = IF k.left = 0 THEN 0 ELSE k.left - 1
  <2>1. CASE k.left = 0
        BY <2>1 DEF SdkAge
  <2>2. CASE k.left # 0
    <3>1. k.left - 1 \in 0..SdkLifetime
          BY <1>1, <2>2
    <3>2. SdkAge(k) = [k EXCEPT !.left = k.left - 1]
          BY <2>2 DEF SdkAge
    <3> QED BY <2>2, <3>1, <3>2
  <2> QED BY <2>1, <2>2
<1> QED BY <1>1, <1>2, <1>3, <1>4

\* A call that holds a token gets on, waits, or finds its token changed.
LEMMA SdkHolds ==
  ASSUME NEW c \in SdkCall, c.at \in {"put", "sign"}, NEW k \in SdkToken
  PROVE  /\ LET d == [c EXCEPT !.at = "sign"] IN
              d \in SdkCall /\ d.token = c.token /\ d.waited = c.waited
         /\ LET d == [c EXCEPT !.token = k] IN
              d \in SdkCall /\ d.at = c.at /\ d.token = k /\ d.waited = c.waited
         /\ c.waited < SdkPatience =>
              LET d == [c EXCEPT !.waited = @ + 1, !.token = k] IN
              d \in SdkCall /\ d.at = c.at /\ d.token = k /\ d.waited = c.waited + 1
<1> USE SdkConstants
<1> DEFINE H == [at : {"put", "sign"}, token : SdkToken, waited : 0..SdkPatience]
<1>1. c \in H
      BY DEF SdkCall, SdkIdle
<1>2. \A d : d \in H => d \in SdkCall
      BY DEF SdkCall
<1>3. \A e \in H : /\ [e EXCEPT !.at = "sign"] \in H
                   /\ [e EXCEPT !.at = "sign"].token = e.token
                   /\ [e EXCEPT !.at = "sign"].waited = e.waited
      OBVIOUS
<1>4. \A e \in H : /\ [e EXCEPT !.token = k] \in H
                   /\ [e EXCEPT !.token = k].at = e.at
                   /\ [e EXCEPT !.token = k].token = k
                   /\ [e EXCEPT !.token = k].waited = e.waited
      OBVIOUS
<1>5. ASSUME c.waited < SdkPatience
      PROVE  LET d == [c EXCEPT !.waited = @ + 1, !.token = k] IN
             d \in SdkCall /\ d.at = c.at /\ d.token = k /\ d.waited = c.waited + 1
  <2> DEFINE f == [c EXCEPT !.waited = c.waited + 1]
             d == [c EXCEPT !.waited = @ + 1, !.token = k]
  <2>1. c.waited + 1 \in 0..SdkPatience
        BY <1>1, <1>5
  <2>2. f \in H /\ f.at = c.at /\ f.waited = c.waited + 1
        BY <1>1, <2>1
  <2>3. d = [f EXCEPT !.token = k]
        OBVIOUS
  <2> HIDE DEF H, f, d
  <2>4. /\ [f EXCEPT !.token = k] \in H
        /\ [f EXCEPT !.token = k].at = f.at
        /\ [f EXCEPT !.token = k].token = k
        /\ [f EXCEPT !.token = k].waited = f.waited
        BY <1>4, <2>2
  <2>5. d \in SdkCall /\ d.at = c.at /\ d.token = k /\ d.waited = c.waited + 1
        BY <1>2, <2>2, <2>3, <2>4
  <2> QED BY <2>5 DEF d
<1> HIDE DEF H
<1> QED BY <1>1, <1>2, <1>3, <1>4, <1>5

\* Any other call in progress waits too.
LEMMA SdkWaits ==
  ASSUME NEW c \in SdkCall, c # SdkIdle, c.at \notin {"put", "sign"}, c.waited < SdkPatience
  PROVE  /\ [c EXCEPT !.waited = @ + 1] \in SdkCall
         /\ [c EXCEPT !.waited = @ + 1].at = c.at
<1> USE SdkConstants
<1> DEFINE d == [c EXCEPT !.waited = @ + 1]
<1>1. CASE c \in [at : {"register", "askGrant"}, try : 0..SdkRetries, waited : 0..SdkPatience]
  <2>1. c.waited + 1 \in 0..SdkPatience
        BY <1>1
  <2>2. /\ d \in [at : {"register", "askGrant"}, try : 0..SdkRetries, waited : 0..SdkPatience]
        /\ d.at = c.at
        BY <1>1, <2>1
  <2> QED BY <2>2 DEF SdkCall
<1>2. CASE c \in [at : {"storeGrant"}, grant : SdkGrantIds, waited : 0..SdkPatience]
  <2>1. c.waited + 1 \in 0..SdkPatience
        BY <1>2
  <2>2. d \in [at : {"storeGrant"}, grant : SdkGrantIds, waited : 0..SdkPatience] /\ d.at = c.at
        BY <1>2, <2>1
  <2> QED BY <2>2 DEF SdkCall
<1>3. CASE c \in [at : {"look"}, waited : 0..SdkPatience]
  <2>1. c.waited + 1 \in 0..SdkPatience
        BY <1>3
  <2>2. d \in [at : {"look"}, waited : 0..SdkPatience] /\ d.at = c.at
        BY <1>3, <2>1
  <2> QED BY <2>2 DEF SdkCall
<1>4. CASE c \in [at : {"askToken"}, grant : SdkGrantIds, try : 0..SdkRetries,
                  waited : 0..SdkPatience]
  <2>1. c.waited + 1 \in 0..SdkPatience
        BY <1>4
  <2>2. /\ d \in [at : {"askToken"}, grant : SdkGrantIds, try : 0..SdkRetries,
                  waited : 0..SdkPatience]
        /\ d.at = c.at
        BY <1>4, <2>1
  <2> QED BY <2>2 DEF SdkCall
<1>5. CASE c \in [at : {"put", "sign"}, token : SdkToken, waited : 0..SdkPatience]
      BY <1>5
<1> QED BY <1>1, <1>2, <1>3, <1>4, <1>5 DEF SdkCall

\* The client has no grant and no token.
LEMMA SdkInvInit == SdkInit => SdkInv
<1> USE SdkConstants DEF SdkInit
<1> SUFFICES ASSUME SdkInit PROVE SdkInv
    OBVIOUS
<1>1. SdkTypeOK
  <2>1. sdkTask \in [SdkTasks -> SdkCall]
        BY SdkCalls, Zenon
  <2>2. sdkSince \in [SdkGrantIds -> 0..SdkHorizon]
    <3>1. 0 \in 0..SdkHorizon
          OBVIOUS
    <3> QED BY <3>1
  <2> QED BY <2>1, <2>2 DEF SdkTypeOK
<1>2. \A t \in SdkTasks : SdkInTime(sdkTask[t])
      BY DEF SdkInTime, SdkIdle
<1> QED BY <1>1, <1>2 DEF SdkInv

\* Every step keeps what is known of the client, its calls and the token.
LEMMA SdkInvStep == SdkInv /\ [SdkNext]_sdkVars => SdkInv'
<1> USE SdkConstants
<1> SUFFICES ASSUME SdkInv, [SdkNext]_sdkVars PROVE SdkInv'
    OBVIOUS
<1>a. /\ sdkTask \in [SdkTasks -> SdkCall]
      /\ sdkKnown \in BOOLEAN
      /\ sdkGrant \in SdkGrantIds \cup {NoGrant}
      /\ sdkCache \in SdkToken \cup {NoToken}
      /\ sdkStatus \in [SdkGrantIds -> {"none", "approved", "revoked"}]
      /\ sdkNewest \in [SdkGrantIds -> SdkToken \cup {NoToken}]
      /\ sdkSince \in [SdkGrantIds -> 0..SdkHorizon]
      /\ sdkServed \in BOOLEAN
      /\ \A g \in SdkGrantIds : sdkStatus[g] # "revoked" => sdkSince[g] = 0
      /\ \A g \in SdkGrantIds : sdkNewest[g] # NoToken =>
           sdkNewest[g].grant = g /\ SdkWithin(sdkNewest[g])
      /\ sdkCache # NoToken => SdkWithin(sdkCache)
      /\ \A t \in SdkTasks : SdkInTime(sdkTask[t])
      BY DEF SdkInv, SdkTypeOK
<1>n. ASSUME NEW k \in SdkToken
      PROVE  k.grant \in SdkGrantIds /\ k.left \in Nat /\ sdkSince[k.grant] \in Nat
  <2>1. k.grant \in SdkGrantIds /\ k.left \in Nat
        BY SdkTokens
  <2>2. \A g \in SdkGrantIds : sdkSince[g] \in Nat
        BY <1>a
  <2> QED BY <2>1, <2>2
\* One call moves, the registry and the cache stay.
<1>b. ASSUME NEW t \in SdkTasks, NEW c \in SdkCall, SdkInTime(c), SdkGoto(t, c),
             sdkSince' = sdkSince, sdkStatus' = sdkStatus, sdkNewest' = sdkNewest,
             sdkKnown' \in BOOLEAN, sdkServed' \in BOOLEAN,
             sdkCache' = sdkCache, sdkGrant' \in SdkGrantIds \cup {NoGrant}
      PROVE  SdkInv'
  <2>1. sdkTask' \in [SdkTasks -> SdkCall] /\ \A s \in SdkTasks : sdkTask'[s] \in {c, sdkTask[s]}
        BY <1>a, <1>b DEF SdkGoto
  <2>2. SdkTypeOK'
        BY <2>1, <1>a, <1>b DEF SdkTypeOK
  <2>3. \A s \in SdkTasks : SdkInTime(sdkTask'[s])
        BY <2>1, <1>a, <1>b
  <2> QED BY <1>a, <1>b, <2>2, <2>3 DEF SdkInv, SdkInTime, SdkWithin
<1>c. \A c : c.at \notin {"put", "sign"} => SdkInTime(c)
      BY DEF SdkInTime
<1>d. SdkIdle \in SdkCall /\ SdkIdle.at = "idle"
      BY SdkCalls DEF SdkIdle
<1>1. CASE UNCHANGED sdkVars
      BY <1>1, <1>a DEF sdkVars, sdkRegistry, SdkInv, SdkTypeOK, SdkInTime, SdkWithin
<1>2. ASSUME NEW t \in SdkTasks, SdkTransportFails(t) \/ SdkAnsweredError(t) PROVE SdkInv'
  <2>1. /\ SdkGoto(t, SdkAfterFailure(sdkTask[t])) \/ SdkGoto(t, SdkIdle)
        /\ UNCHANGED <<sdkClient, sdkRegistry, sdkServed>>
        /\ sdkTask[t] \in SdkCall /\ sdkTask[t].at \in {"register", "askGrant", "askToken"}
        BY <1>2, <1>a DEF SdkTransportFails, SdkAnsweredError
  <2>2. SdkAfterFailure(sdkTask[t]) \in SdkCall /\ SdkInTime(SdkAfterFailure(sdkTask[t]))
        BY <2>1, <1>c, SdkFails
  <2>3. UNCHANGED <<sdkSince, sdkStatus, sdkNewest, sdkKnown, sdkServed, sdkCache, sdkGrant>>
        BY <2>1 DEF sdkClient, sdkRegistry
  <2>4. SdkInTime(SdkIdle)
        BY <1>c, <1>d
  <2>5. CASE SdkGoto(t, SdkIdle)
        BY <2>5, <2>3, <2>4, <1>a, <1>b, <1>d
  <2>6. CASE SdkGoto(t, SdkAfterFailure(sdkTask[t]))
        BY <2>6, <2>2, <2>3, <1>a, <1>b
  <2> QED BY <2>1, <2>5, <2>6
<1>3. ASSUME NEW t \in SdkTasks, SdkRegister(t) \/ SdkRequestGrant(t) PROVE SdkInv'
  <2>1. PICK at \in {"register", "askGrant"} : SdkGoto(t, [at |-> at, try |-> 0, waited |-> 0])
        BY <1>3 DEF SdkRegister, SdkRequestGrant
  <2>2. UNCHANGED <<sdkSince, sdkStatus, sdkNewest, sdkKnown, sdkServed, sdkCache, sdkGrant>>
        BY <1>3 DEF SdkRegister, SdkRequestGrant, sdkClient, sdkRegistry
  <2>3. /\ [at |-> at, try |-> 0, waited |-> 0] \in SdkCall
        /\ SdkInTime([at |-> at, try |-> 0, waited |-> 0])
        BY SdkCalls, <1>c
  <2> QED BY <2>1, <2>2, <2>3, <1>a, <1>b
<1>4. ASSUME NEW t \in SdkTasks, SdkRegistered(t) PROVE SdkInv'
  <2>1. /\ SdkGoto(t, SdkAfterFailure(sdkTask[t])) \/ SdkGoto(t, SdkIdle)
        /\ sdkTask[t] \in SdkCall /\ sdkTask[t].at = "register"
        /\ UNCHANGED <<sdkSince, sdkStatus, sdkNewest, sdkServed, sdkCache, sdkGrant>>
        /\ sdkKnown' = TRUE
        BY <1>4, <1>a DEF SdkRegistered, sdkClient
  <2>2. SdkAfterFailure(sdkTask[t]) \in SdkCall /\ SdkInTime(SdkAfterFailure(sdkTask[t]))
        BY <2>1, <1>c, SdkFails
  <2>4. SdkInTime(SdkIdle)
        BY <1>c, <1>d
  <2>5. CASE SdkGoto(t, SdkIdle)
        BY <2>5, <2>1, <2>4, <1>a, <1>b, <1>d
  <2>6. CASE SdkGoto(t, SdkAfterFailure(sdkTask[t]))
        BY <2>6, <2>2, <2>1, <1>a, <1>b
  <2> QED BY <2>1, <2>5, <2>6
<1>5. ASSUME NEW t \in SdkTasks, NEW g \in SdkGrantIds, SdkGrantApproved(t, g) PROVE SdkInv'
  <2> DEFINE c == [at |-> "storeGrant", grant |-> g, waited |-> sdkTask[t].waited]
  <2>1. /\ sdkTask' = [sdkTask EXCEPT ![t] = c]
        /\ sdkTask[t] \in SdkCall /\ sdkTask[t].at = "askGrant"
        /\ UNCHANGED <<sdkSince, sdkNewest, sdkKnown, sdkServed, sdkCache, sdkGrant>>
        /\ sdkStatus[g] # "revoked" /\ sdkStatus' = [sdkStatus EXCEPT ![g] = "approved"]
        BY <1>5, <1>a DEF SdkGrantApproved, sdkClient, SdkGoto
  <2>2. c \in SdkCall /\ SdkInTime(c)
        BY <2>1, <1>c, <1>d, SdkCalls, SdkFields
  <2> HIDE DEF c
  <2>3. sdkTask' \in [SdkTasks -> SdkCall] /\ \A s \in SdkTasks : SdkInTime(sdkTask'[s])
        BY <2>1, <2>2, <1>a
  <2>4. /\ sdkStatus' \in [SdkGrantIds -> {"none", "approved", "revoked"}]
        /\ \A k \in SdkGrantIds : sdkStatus'[k] # "revoked" => sdkSince[k] = 0
        BY <2>1, <1>a
  <2> QED BY <2>1, <2>3, <2>4, <1>a DEF SdkInv, SdkTypeOK, SdkInTime, SdkWithin
<1>6. ASSUME NEW t \in SdkTasks, SdkStoreGrant(t) PROVE SdkInv'
  <2>1. /\ SdkGoto(t, SdkIdle) /\ sdkGrant' = sdkTask[t].grant
        /\ sdkTask[t] \in SdkCall /\ sdkTask[t].at = "storeGrant"
        /\ UNCHANGED <<sdkSince, sdkStatus, sdkNewest, sdkKnown, sdkServed, sdkCache>>
        BY <1>6, <1>a DEF SdkStoreGrant, sdkRegistry
  <2>2. sdkGrant' \in SdkGrantIds /\ SdkInTime(SdkIdle)
        BY <2>1, <1>c, <1>d, SdkFields
  <2> QED BY <2>1, <2>2, <1>a, <1>b, <1>d
<1>7. ASSUME NEW t \in SdkTasks, SdkAuthenticate(t) PROVE SdkInv'
  <2>1. /\ SdkGoto(t, [at |-> "look", waited |-> 0])
        /\ UNCHANGED <<sdkSince, sdkStatus, sdkNewest, sdkKnown, sdkServed, sdkCache, sdkGrant>>
        BY <1>7 DEF SdkAuthenticate, sdkClient, sdkRegistry
  <2>2. [at |-> "look", waited |-> 0] \in SdkCall /\ SdkInTime([at |-> "look", waited |-> 0])
        BY <1>c, SdkCalls
  <2> QED BY <2>1, <2>2, <1>a, <1>b
<1>8. ASSUME NEW t \in SdkTasks, SdkUseCached(t) PROVE SdkInv'
  <2> DEFINE c == [at |-> "sign", token |-> sdkCache, waited |-> sdkTask[t].waited]
  <2>1. /\ SdkGoto(t, c) /\ sdkCache.left # 0 /\ sdkCache # NoToken
        /\ sdkTask[t] \in SdkCall /\ sdkTask[t].at = "look"
        /\ UNCHANGED <<sdkSince, sdkStatus, sdkNewest, sdkKnown, sdkServed, sdkCache, sdkGrant>>
        BY <1>8, <1>a DEF SdkUseCached, SdkCached, Expired, SdkRefreshInBackground, sdkClient,
           sdkRegistry
  <2>2. sdkTask[t].waited \in 0..SdkPatience /\ sdkCache \in SdkToken /\ SdkWithin(sdkCache)
        BY <2>1, <1>a, <1>d, SdkFields
  <2>3. c \in SdkCall
        BY <2>2, SdkCalls
  <2>4. /\ sdkCache.grant \in SdkGrantIds /\ sdkCache.left \in Nat
        /\ sdkSince[sdkCache.grant] \in Nat
        BY <2>2, <1>n
  <2>5. sdkSince[sdkCache.grant] < SdkLifetime + SdkLag + sdkTask[t].waited
        BY <2>1, <2>2, <2>4 DEF SdkWithin
  <2>6. SdkInTime(c)
        BY <2>2, <2>5 DEF SdkInTime
  <2> HIDE DEF c
  <2> QED BY <2>1, <2>3, <2>6, <1>a, <1>b
<1>9. ASSUME NEW t \in SdkTasks, SdkIssueToken(t) PROVE SdkInv'
  <2> DEFINE c == [at |-> "askToken", grant |-> sdkGrant, try |-> 0,
                   waited |-> sdkTask[t].waited]
  <2>1. /\ SdkGoto(t, c) /\ sdkGrant # NoGrant
        /\ sdkTask[t] \in SdkCall /\ sdkTask[t].at = "look"
        /\ UNCHANGED <<sdkSince, sdkStatus, sdkNewest, sdkKnown, sdkServed, sdkCache, sdkGrant>>
        BY <1>9, <1>a DEF SdkIssueToken, sdkClient, sdkRegistry
  <2>2. sdkTask[t].waited \in 0..SdkPatience /\ sdkGrant \in SdkGrantIds
        BY <2>1, <1>a, <1>d, SdkFields
  <2>3. c \in SdkCall /\ SdkInTime(c)
        BY <2>2, <1>c, SdkCalls
  <2> HIDE DEF c
  <2> QED BY <2>1, <2>3, <1>a, <1>b
<1>10. ASSUME NEW t \in SdkTasks, SdkNotGranted(t) PROVE SdkInv'
  <2>1. /\ SdkGoto(t, SdkIdle)
        /\ UNCHANGED <<sdkSince, sdkStatus, sdkNewest, sdkKnown, sdkServed, sdkCache, sdkGrant>>
        BY <1>10 DEF SdkNotGranted, sdkClient, sdkRegistry
  <2>2. SdkInTime(SdkIdle)
        BY <1>c, <1>d
  <2> QED BY <2>1, <2>2, <1>a, <1>b, <1>d
\* What the registry issues is within the life its grant can still give.
<1>e. ASSUME NEW g \in SdkGrantIds, SdkRegistryIssues(g)
      PROVE  /\ SdkIssuedFor(g) \in SdkToken /\ SdkIssuedFor(g).grant = g
             /\ SdkWithin(SdkIssuedFor(g)) /\ sdkSince[g] \in Nat
             /\ sdkSince[g] < SdkLifetime + SdkLag
             /\ sdkNewest' \in [SdkGrantIds -> SdkToken \cup {NoToken}]
             /\ \A k \in SdkGrantIds : sdkNewest'[k] # NoToken =>
                  sdkNewest'[k].grant = k /\ SdkWithin(sdkNewest'[k])
             /\ UNCHANGED <<sdkKnown, sdkStatus, sdkSince>>
  <2>1. sdkSince[g] \in Nat /\ sdkSince[g] <= SdkLag
        BY <1>e, <1>a DEF SdkRegistryIssues, SdkSeenApproved
  <2>2. /\ SdkIssuedFor(g) \in SdkToken /\ SdkIssuedFor(g).grant = g
        /\ SdkWithin(SdkIssuedFor(g))
    <3>1. CASE sdkNewest[g] # NoToken
          BY <3>1, <1>a DEF SdkIssuedFor
    <3>2. CASE sdkNewest[g] = NoToken
      <4> DEFINE n == [grant |-> g, left |-> SdkLifetime, bound |-> "own", good |-> TRUE]
      <4>1. SdkIssuedFor(g) = n
            BY <3>2 DEF SdkIssuedFor
      <4>2. n \in SdkToken /\ n.grant = g /\ n.left = SdkLifetime
            BY DEF SdkToken, SdkKeys
      <4>3. SdkWithin(n)
        <5> HIDE DEF n
        <5> QED BY <4>2, <2>1 DEF SdkWithin
      <4> HIDE DEF n
      <4> QED BY <4>1, <4>2, <4>3
    <3> QED BY <3>1, <3>2
  <2>3. sdkNewest' = [sdkNewest EXCEPT ![g] = SdkIssuedFor(g)]
        BY <1>e DEF SdkRegistryIssues
  <2>4. /\ sdkNewest' \in [SdkGrantIds -> SdkToken \cup {NoToken}]
        /\ \A k \in SdkGrantIds : sdkNewest'[k] # NoToken =>
             sdkNewest'[k].grant = k /\ SdkWithin(sdkNewest'[k])
        BY <2>2, <2>3, <1>a
  <2> QED BY <2>1, <2>2, <2>4, <1>e DEF SdkRegistryIssues
<1>11. ASSUME NEW t \in SdkTasks, SdkTokenIssued(t) \/ SdkAnswerLost(t) PROVE SdkInv'
  <2> DEFINE g == sdkTask[t].grant
             c == [at |-> "put", token |-> SdkIssuedFor(g), waited |-> sdkTask[t].waited]
             d == SdkAfterFailure(sdkTask[t])
  <2>1. /\ sdkTask[t] \in SdkCall /\ sdkTask[t].at = "askToken" /\ SdkRegistryIssues(g)
        /\ sdkTask' = [sdkTask EXCEPT ![t] = c] \/ sdkTask' = [sdkTask EXCEPT ![t] = d]
        /\ UNCHANGED <<sdkCache, sdkGrant, sdkServed>>
        BY <1>11, <1>a DEF SdkTokenIssued, SdkAnswerLost, sdkClient, SdkGoto
  <2>2. g \in SdkGrantIds /\ sdkTask[t].waited \in 0..SdkPatience
        BY <2>1, <1>d, SdkFields
  <2> HIDE DEF g
  <2>3. /\ SdkIssuedFor(g) \in SdkToken /\ SdkIssuedFor(g).grant = g
        /\ SdkWithin(SdkIssuedFor(g)) /\ sdkSince[g] \in Nat
        /\ sdkSince[g] < SdkLifetime + SdkLag
        /\ sdkNewest' \in [SdkGrantIds -> SdkToken \cup {NoToken}]
        /\ \A k \in SdkGrantIds : sdkNewest'[k] # NoToken =>
             sdkNewest'[k].grant = k /\ SdkWithin(sdkNewest'[k])
        /\ UNCHANGED <<sdkKnown, sdkStatus, sdkSince>>
        BY <2>1, <2>2, <1>e
  <2>4. c \in SdkCall /\ SdkInTime(c)
    <3>1. c \in SdkCall
          BY <2>2, <2>3, SdkCalls
    <3>2. SdkInTime(c)
          BY <2>2, <2>3 DEF SdkInTime
    <3> QED BY <3>1, <3>2
  <2>5. d \in SdkCall /\ SdkInTime(d)
        BY <2>1, <1>c, SdkFails
  <2> HIDE DEF c, d
  <2>6. sdkTask' \in [SdkTasks -> SdkCall] /\ \A s \in SdkTasks : SdkInTime(sdkTask'[s])
        BY <2>1, <2>4, <2>5, <1>a
  <2>7. SdkTypeOK'
        BY <2>1, <2>3, <2>6, <1>a DEF SdkTypeOK
  <2>8. \A s \in SdkTasks : SdkInTime(sdkTask[s])'
        BY <2>3, <2>6 DEF SdkInTime, SdkWithin
  <2>9. \A k \in SdkGrantIds : sdkNewest'[k] # NoToken =>
          sdkNewest'[k].grant = k /\ SdkWithin(sdkNewest[k])'
        BY <2>3 DEF SdkWithin
  <2>10. sdkCache' # NoToken => SdkWithin(sdkCache)'
        BY <2>1, <2>3, <1>a DEF SdkWithin
  <2> QED BY <2>3, <2>7, <2>8, <2>9, <2>10, <1>a DEF SdkInv
<1>12. ASSUME NEW t \in SdkTasks, SdkPut(t) PROVE SdkInv'
  <2> DEFINE c == sdkTask[t]
             d == [c EXCEPT !.at = "sign"]
  <2>1. /\ c \in SdkCall /\ c.at = "put" /\ SdkInTime(c)
        /\ sdkTask' = [sdkTask EXCEPT ![t] = d]
        /\ sdkCache' = c.token
        /\ UNCHANGED <<sdkGrant, sdkKnown, sdkStatus, sdkNewest, sdkSince, sdkServed>>
        BY <1>12, <1>a DEF SdkPut, SdkGoto, sdkRegistry
  <2>2. c.token \in SdkToken /\ SdkWithin(c.token)
        BY <2>1, SdkFields DEF SdkInTime
  <2>3. d \in SdkCall /\ d.token = c.token /\ d.waited = c.waited
        BY <2>1, <2>2, SdkHolds
  <2>4. SdkInTime(d)
        BY <2>1, <2>3 DEF SdkInTime
  <2> HIDE DEF c, d
  <2>5. sdkTask' \in [SdkTasks -> SdkCall] /\ \A s \in SdkTasks : SdkInTime(sdkTask'[s])
        BY <2>1, <2>3, <2>4, <1>a
  <2>6. SdkTypeOK'
        BY <2>1, <2>2, <2>5, <1>a DEF SdkTypeOK
  <2>7. \A s \in SdkTasks : SdkInTime(sdkTask[s])'
        BY <2>1, <2>5 DEF SdkInTime, SdkWithin
  <2>8. SdkWithin(sdkCache)'
        BY <2>1, <2>2 DEF SdkWithin
  <2>9. \A k \in SdkGrantIds : sdkNewest'[k] # NoToken =>
          sdkNewest'[k].grant = k /\ SdkWithin(sdkNewest[k])'
        BY <2>1, <1>a DEF SdkWithin
  <2> QED BY <2>1, <2>6, <2>7, <2>8, <2>9, <1>a DEF SdkInv
<1>13. ASSUME NEW t \in SdkTasks, SdkSend(t) PROVE SdkInv'
  <2>1. /\ SdkGoto(t, SdkIdle) /\ SdkInTime(SdkIdle)
        /\ UNCHANGED <<sdkSince, sdkStatus, sdkNewest, sdkKnown, sdkCache, sdkGrant>>
        BY <1>13, <1>c, <1>d DEF SdkSend, sdkClient, sdkRegistry
  <2>2. sdkServed' \in BOOLEAN
    <3>1. SdkAccepted(sdkTask[t].token, SdkProof(sdkTask[t].token)) \in BOOLEAN
          BY DEF SdkAccepted
    <3>2. sdkServed' = (sdkServed \/ SdkAccepted(sdkTask[t].token, SdkProof(sdkTask[t].token)))
          BY <1>13 DEF SdkSend
    <3> HIDE DEF SdkAccepted, SdkProof
    <3> QED BY <3>1, <3>2, <1>a
  <2> QED BY <2>1, <2>2, <1>a, <1>b, <1>d
<1>14. CASE SdkRestart
  <2>1. /\ sdkTask' = [t \in SdkTasks |-> SdkIdle] /\ sdkGrant' = NoGrant /\ sdkCache' = NoToken
        /\ UNCHANGED <<sdkKnown, sdkStatus, sdkSince, sdkServed>>
        BY <1>14 DEF SdkRestart
  <2>2. /\ sdkNewest' \in [SdkGrantIds -> SdkToken \cup {NoToken}]
        /\ \A k \in SdkGrantIds : sdkNewest'[k] # NoToken =>
             sdkNewest'[k].grant = k /\ SdkWithin(sdkNewest'[k])
    <3>1. CASE UNCHANGED sdkNewest
          BY <3>1, <1>a
    <3>2. CASE sdkNewest' = [g \in SdkGrantIds |->
            IF sdkNewest[g] = NoToken THEN NoToken ELSE [sdkNewest[g] EXCEPT !.bound = "earlier"]]
      <4>1. ASSUME NEW g \in SdkGrantIds
            PROVE  /\ sdkNewest'[g] \in SdkToken \cup {NoToken}
                   /\ sdkNewest'[g] # NoToken => sdkNewest'[g].grant = g /\ SdkWithin(sdkNewest'[g])
        <5>1. CASE sdkNewest[g] = NoToken
              BY <3>2, <5>1
        <5>2. CASE sdkNewest[g] # NoToken
          <6> DEFINE k == sdkNewest[g]
                     n == [k EXCEPT !.bound = "earlier"]
          <6>1. k \in SdkToken /\ k.grant = g /\ SdkWithin(k) /\ sdkNewest'[g] = n
                BY <3>2, <5>2, <1>a
          <6>2. n \in SdkToken /\ n.grant = k.grant /\ n.left = k.left
                BY <6>1, SdkTokens
          <6> HIDE DEF k, n
          <6> QED BY <6>1, <6>2 DEF SdkWithin
        <5> QED BY <5>1, <5>2
      <4> QED BY <3>2, <4>1
    <3> QED BY <1>14, <3>1, <3>2 DEF SdkRestart
  <2>3. sdkTask' \in [SdkTasks -> SdkCall] /\ \A s \in SdkTasks : SdkInTime(sdkTask[s])'
        BY <2>1, <1>d DEF SdkInTime
  <2>4. SdkTypeOK'
        BY <2>1, <2>2, <2>3, <1>a DEF SdkTypeOK
  <2>5. \A k \in SdkGrantIds : sdkNewest'[k] # NoToken =>
          sdkNewest'[k].grant = k /\ SdkWithin(sdkNewest[k])'
        BY <2>1, <2>2 DEF SdkWithin
  <2> QED BY <2>1, <2>3, <2>4, <2>5, <1>a DEF SdkInv
<1>15. ASSUME NEW g \in SdkGrantIds, SdkGrantRevoked(g) PROVE SdkInv'
  <2>1. /\ sdkStatus' = [sdkStatus EXCEPT ![g] = "revoked"]
        /\ UNCHANGED <<sdkTask, sdkGrant, sdkCache, sdkKnown, sdkNewest, sdkSince, sdkServed>>
        BY <1>15 DEF SdkGrantRevoked, sdkClient
  <2>2. /\ sdkStatus' \in [SdkGrantIds -> {"none", "approved", "revoked"}]
        /\ \A k \in SdkGrantIds : sdkStatus'[k] # "revoked" => sdkSince[k] = 0
        BY <2>1, <1>a
  <2>3. SdkTypeOK'
        BY <2>1, <2>2, <1>a DEF SdkTypeOK
  <2>4. \A s \in SdkTasks : SdkInTime(sdkTask[s])'
        BY <2>1, <1>a DEF SdkInTime, SdkWithin
  <2>5. \A k \in SdkGrantIds : sdkNewest'[k] # NoToken =>
          sdkNewest'[k].grant = k /\ SdkWithin(sdkNewest[k])'
        BY <2>1, <1>a DEF SdkWithin
  <2>6. sdkCache' # NoToken => SdkWithin(sdkCache)'
        BY <2>1, <1>a DEF SdkWithin
  <2> QED BY <2>1, <2>2, <2>3, <2>4, <2>5, <2>6 DEF SdkInv
<1>f. ASSUME NEW k \in SdkToken, NEW g \in SdkGrantIds
      PROVE  /\ SdkSpoil(k, g) \in SdkToken /\ SdkSpoil(k, g).grant = k.grant
             /\ SdkSpoil(k, g).left = k.left
      BY SdkTokens DEF SdkSpoil
<1>16. ASSUME NEW g \in SdkGrantIds, SdkTokenRevoked(g) PROVE SdkInv'
  <2>1. /\ sdkNewest' = [sdkNewest EXCEPT ![g] = NoToken]
        /\ sdkCache' = SdkSpoil(sdkCache, g)
        /\ sdkTask' = [t \in SdkTasks |->
             IF sdkTask[t].at \in {"put", "sign"}
               THEN [sdkTask[t] EXCEPT !.token = SdkSpoil(@, g)]
               ELSE sdkTask[t]]
        /\ UNCHANGED <<sdkGrant, sdkKnown, sdkStatus, sdkSince, sdkServed>>
        BY <1>16 DEF SdkTokenRevoked
  <2>2. /\ sdkCache' \in SdkToken \cup {NoToken}
        /\ sdkCache' # NoToken => SdkWithin(sdkCache')
    <3>1. CASE sdkCache \in SdkToken /\ sdkCache # NoToken
      <4>1. /\ sdkCache' \in SdkToken /\ sdkCache'.grant = sdkCache.grant
            /\ sdkCache'.left = sdkCache.left
            BY <2>1, <3>1, <1>f
      <4> QED BY <4>1, <3>1, <1>a DEF SdkWithin
    <3>2. CASE sdkCache = NoToken
      <4>1. sdkCache' = NoToken
        <5>1. NoToken \in [grant : {NoGrant}, left : {0}, good : {FALSE}]
              BY DEF NoToken
        <5>2. [NoToken EXCEPT !.good = FALSE] = NoToken
          <6> HIDE DEF NoToken
          <6> QED BY <5>1
        <5> QED BY <2>1, <3>2, <5>2 DEF SdkSpoil
      <4> QED BY <4>1
    <3> QED BY <3>1, <3>2, <1>a
  <2>3. ASSUME NEW s \in SdkTasks PROVE sdkTask'[s] \in SdkCall /\ SdkInTime(sdkTask'[s])
    <3>1. CASE sdkTask[s].at \notin {"put", "sign"}
          BY <2>1, <3>1, <1>a
    <3>2. CASE sdkTask[s].at \in {"put", "sign"}
      <4> DEFINE c == sdkTask[s]
                 k == SdkSpoil(c.token, g)
                 d == [c EXCEPT !.token = k]
      <4>1. c \in SdkCall /\ c.at \in {"put", "sign"} /\ SdkInTime(c) /\ sdkTask'[s] = d
            BY <2>1, <3>2, <1>a
      <4>2. c.token \in SdkToken
            BY <4>1, SdkFields
      <4>3. k \in SdkToken /\ k.grant = c.token.grant /\ k.left = c.token.left
            BY <4>2, <1>f
      <4> HIDE DEF c, k
      <4>4. d \in SdkCall /\ d.at = c.at /\ d.token = k /\ d.waited = c.waited
            BY <4>1, <4>3, SdkHolds
      <4> HIDE DEF d
      <4> QED BY <4>1, <4>3, <4>4 DEF SdkInTime, SdkWithin
    <3> QED BY <3>1, <3>2
  <2>4. sdkTask' \in [SdkTasks -> SdkCall]
    <3>1. sdkTask' = [t \in SdkTasks |-> sdkTask'[t]]
          BY <2>1
    <3> QED BY <2>3, <3>1
  <2>5. SdkTypeOK'
        BY <2>1, <2>2, <2>4, <1>a DEF SdkTypeOK
  <2>6. \A s \in SdkTasks : SdkInTime(sdkTask[s])'
        BY <2>1, <2>3 DEF SdkInTime, SdkWithin
  <2>7. \A k \in SdkGrantIds : sdkNewest'[k] # NoToken =>
          sdkNewest'[k].grant = k /\ SdkWithin(sdkNewest[k])'
        BY <2>1, <1>a DEF SdkWithin
  <2>8. sdkCache' # NoToken => SdkWithin(sdkCache)'
        BY <2>1, <2>2 DEF SdkWithin
  <2> QED BY <2>1, <2>5, <2>6, <2>7, <2>8, <1>a DEF SdkInv
<1>17. CASE SdkTick
  <2>1. /\ \A t \in SdkTasks : sdkTask[t] # SdkIdle => sdkTask[t].waited < SdkPatience
        /\ sdkTask' = [t \in SdkTasks |->
             IF sdkTask[t] = SdkIdle THEN SdkIdle
             ELSE IF sdkTask[t].at \in {"put", "sign"}
               THEN [sdkTask[t] EXCEPT !.waited = @ + 1, !.token = SdkAge(@)]
               ELSE [sdkTask[t] EXCEPT !.waited = @ + 1]]
        /\ sdkCache' = SdkAge(sdkCache)
        /\ sdkNewest' = [g \in SdkGrantIds |->
             IF sdkNewest[g].left = 0 THEN NoToken ELSE SdkAge(sdkNewest[g])]
        /\ sdkSince' = [g \in SdkGrantIds |->
             IF sdkStatus[g] = "revoked" /\ sdkSince[g] < SdkHorizon
               THEN sdkSince[g] + 1 ELSE sdkSince[g]]
        /\ sdkServed' = FALSE
        /\ UNCHANGED <<sdkGrant, sdkKnown, sdkStatus>>
        BY <1>17 DEF SdkTick
  <2>2. /\ sdkSince' \in [SdkGrantIds -> 0..SdkHorizon]
        /\ \A g \in SdkGrantIds : sdkStatus'[g] # "revoked" => sdkSince'[g] = 0
        /\ \A g \in SdkGrantIds : sdkSince[g] \in Nat /\ sdkSince'[g] \in Nat
                                  /\ sdkSince'[g] <= sdkSince[g] + 1
    <3>1. sdkSince \in [SdkGrantIds -> 0..SdkHorizon] /\ SdkHorizon \in Nat
          BY <1>a
    <3>2. sdkSince' = [g \in SdkGrantIds |->
             IF sdkStatus[g] = "revoked" /\ sdkSince[g] < SdkHorizon
               THEN sdkSince[g] + 1 ELSE sdkSince[g]]
          BY <2>1
    <3>3. ASSUME NEW g \in SdkGrantIds
          PROVE  /\ sdkSince[g] \in Nat /\ sdkSince'[g] \in 0..SdkHorizon
                 /\ sdkSince'[g] <= sdkSince[g] + 1
                 /\ sdkStatus[g] # "revoked" => sdkSince'[g] = sdkSince[g]
      <4>1. sdkSince[g] \in 0..SdkHorizon
            BY <3>1
      <4>2. sdkSince'[g] = IF sdkStatus[g] = "revoked" /\ sdkSince[g] < SdkHorizon
                             THEN sdkSince[g] + 1 ELSE sdkSince[g]
            BY <3>2
      <4> QED BY <3>1, <4>1, <4>2
    <3>4. sdkSince' \in [SdkGrantIds -> 0..SdkHorizon]
      <4>1. sdkSince' = [g \in SdkGrantIds |-> sdkSince'[g]]
            BY <3>2
      <4> QED BY <3>3, <4>1
    <3>5. \A g \in SdkGrantIds : sdkStatus'[g] # "revoked" => sdkSince'[g] = 0
      <4>1. sdkStatus' = sdkStatus
            BY <2>1
      <4>2. \A g \in SdkGrantIds : sdkStatus[g] # "revoked" => sdkSince[g] = 0
            BY <1>a
      <4> QED BY <3>3, <4>1, <4>2
    <3>6. \A g \in SdkGrantIds : sdkSince'[g] \in Nat
          BY <3>1, <3>3
    <3> QED BY <3>3, <3>4, <3>5, <3>6
  \* A token ages with the grant.
  <2>3. ASSUME NEW k \in SdkToken, SdkWithin(k)
        PROVE  /\ SdkAge(k) \in SdkToken /\ SdkAge(k).grant = k.grant
               /\ SdkAge(k).left > 0 =>
                    sdkSince'[SdkAge(k).grant] + SdkAge(k).left <= SdkLifetime + SdkLag
    <3>1. /\ SdkAge(k) \in SdkToken /\ SdkAge(k).grant = k.grant /\ k.grant \in SdkGrantIds
          /\ k.left \in Nat
          /\ SdkAge(k).left = IF k.left = 0 THEN 0 ELSE k.left - 1
          BY SdkTokens
    <3>2. sdkSince[k.grant] \in Nat /\ sdkSince'[k.grant] \in Nat
          /\ sdkSince'[k.grant] <= sdkSince[k.grant] + 1
          BY <3>1, <2>2
    <3> QED BY <3>1, <3>2, <2>3 DEF SdkWithin
  <2>4. sdkCache' \in SdkToken \cup {NoToken} /\ (sdkCache' # NoToken => SdkWithin(sdkCache)')
    <3>1. CASE sdkCache \in SdkToken /\ sdkCache # NoToken
          BY <2>1, <2>3, <3>1, <1>a DEF SdkWithin
    <3>2. CASE sdkCache = NoToken
          BY <2>1, <3>2 DEF SdkAge, NoToken
    <3> QED BY <3>1, <3>2, <1>a
  <2>5. ASSUME NEW g \in SdkGrantIds
        PROVE  /\ sdkNewest'[g] \in SdkToken \cup {NoToken}
               /\ sdkNewest'[g] # NoToken => sdkNewest'[g].grant = g /\ SdkWithin(sdkNewest[g])'
    <3>1. CASE sdkNewest[g].left = 0
          BY <2>1, <3>1
    <3>2. CASE sdkNewest[g].left # 0
      <4>1. sdkNewest'[g] = SdkAge(sdkNewest[g])
            BY <2>1, <3>2
      <4>2. sdkNewest[g] # NoToken
        <5>1. NoToken.left = 0
              BY DEF NoToken
        <5> QED BY <5>1, <3>2
      <4> QED BY <4>1, <4>2, <2>3, <1>a DEF SdkWithin
    <3> QED BY <3>1, <3>2
  <2>6. ASSUME NEW s \in SdkTasks PROVE sdkTask'[s] \in SdkCall /\ SdkInTime(sdkTask[s])'
    <3>1. CASE sdkTask[s] = SdkIdle
          BY <2>1, <3>1, <1>d DEF SdkInTime
    <3>2. CASE sdkTask[s] # SdkIdle /\ sdkTask[s].at \notin {"put", "sign"}
      <4>1. sdkTask'[s] = [sdkTask[s] EXCEPT !.waited = @ + 1]
            BY <2>1, <3>2
      <4>2. sdkTask'[s] \in SdkCall /\ sdkTask'[s].at = sdkTask[s].at
            BY <4>1, <3>2, <2>1, <1>a, SdkWaits
      <4> QED BY <4>2, <3>2 DEF SdkInTime
    <3>3. CASE sdkTask[s] # SdkIdle /\ sdkTask[s].at \in {"put", "sign"}
      <4> DEFINE c == sdkTask[s]
                 k == SdkAge(c.token)
                 d == [c EXCEPT !.waited = @ + 1, !.token = k]
      <4>1. /\ c \in SdkCall /\ c # SdkIdle /\ c.at \in {"put", "sign"} /\ SdkInTime(c)
            /\ c.waited < SdkPatience
            BY <2>1, <3>3, <1>a
      <4>2. sdkTask'[s] = d
            BY <2>1, <3>3
      <4>3. c.token \in SdkToken /\ c.waited \in 0..SdkPatience
            BY <4>1, SdkFields
      <4>4. /\ k \in SdkToken /\ k.grant = c.token.grant
            /\ k.left > 0 => sdkSince'[k.grant] + k.left <= SdkLifetime + SdkLag
            BY <2>3, <4>1, <4>3 DEF SdkInTime
      <4>5. c.token.grant \in SdkGrantIds
            BY <4>3, SdkTokens
      <4> HIDE DEF c, k
      <4>6. d \in SdkCall /\ d.at = c.at /\ d.token = k /\ d.waited = c.waited + 1
            BY <4>1, <4>4, SdkHolds
      <4> HIDE DEF d
      <4>7. sdkSince'[k.grant] < SdkLifetime + SdkLag + d.waited
        <5>1. sdkSince[c.token.grant] < SdkLifetime + SdkLag + c.waited
              BY <4>1 DEF SdkInTime
        <5>2. /\ sdkSince[c.token.grant] \in Nat /\ sdkSince'[c.token.grant] \in Nat
              /\ sdkSince'[c.token.grant] <= sdkSince[c.token.grant] + 1
              BY <4>5, <2>2
        <5> QED BY <5>1, <5>2, <4>3, <4>4, <4>6
      <4> QED BY <4>2, <4>4, <4>6, <4>7 DEF SdkInTime, SdkWithin
    <3> QED BY <3>1, <3>2, <3>3
  <2>7. sdkTask' \in [SdkTasks -> SdkCall]
    <3>1. sdkTask' = [t \in SdkTasks |-> sdkTask'[t]]
          BY <2>1
    <3> QED BY <2>6, <3>1
  <2>8. sdkNewest' \in [SdkGrantIds -> SdkToken \cup {NoToken}]
        BY <2>1, <2>5
  <2>9. SdkTypeOK'
        BY <2>1, <2>2, <2>4, <2>7, <2>8, <1>a DEF SdkTypeOK
  <2> QED BY <2>2, <2>4, <2>5, <2>6, <2>9 DEF SdkInv
<1>18. ASSUME NEW t \in SdkTasks, SdkStep(t) PROVE SdkInv'
       BY <1>18, <1>2, <1>4, <1>5, <1>6, <1>8, <1>9, <1>10, <1>11, <1>12, <1>13, Zenon DEF SdkStep
<1> QED BY <1>1, <1>3, <1>7, <1>14, <1>15, <1>16, <1>17, <1>18, Zenon DEF SdkNext

\* So it holds of every reachable state.
LEMMA SdkInvariant == SdkSpec => []SdkInv
BY SdkInvInit, SdkInvStep, PTL DEF SdkSpec

\* A token that is signed with still had life left, or was taken by a call that may
\* have waited.
LEMMA SdkInvFades == SdkInv => SdkEndedGrantFades
<1> SUFFICES ASSUME SdkInv, NEW t \in SdkTasks, sdkTask[t].at = "sign"
             PROVE  sdkSince[sdkTask[t].token.grant] < SdkHorizon
    BY DEF SdkEndedGrantFades
<1>1. sdkTask[t] \in SdkCall /\ SdkInTime(sdkTask[t]) /\ sdkTask[t] # SdkIdle
      BY DEF SdkInv, SdkTypeOK, SdkIdle
<1>2. sdkTask[t].waited \in 0..SdkPatience /\ sdkTask[t].token \in SdkToken
      BY <1>1, SdkFields
<1>3. sdkSince[sdkTask[t].token.grant] \in Nat
  <2>1. sdkSince \in [SdkGrantIds -> 0..SdkHorizon]
        BY DEF SdkInv, SdkTypeOK
  <2>2. sdkTask[t].token.grant \in SdkGrantIds
        BY <1>2, SdkTokens
  <2> QED BY <2>1, <2>2, SdkConstants
<1> QED BY <1>1, <1>2, <1>3, SdkConstants DEF SdkInTime

\* cache.rs, client.rs: no request leaves with a token of a grant revoked longer
\* ago than one life of a token, the replica's lag and the call's own time,
\* however many tasks share the client and whatever is lost, retried or restarted.
THEOREM SdkRevocationFades == SdkSpec => []SdkEndedGrantFades
BY SdkInvFades, SdkInvariant, PTL

-----------------------------------------------------------------------------
(* The limit the SDK keeps on itself *)

LimTypeOK ==
  /\ limTask \in [LimTasks -> {"idle", "insert"}]
  /\ LimBucketOK
  /\ limAdmitted \in [LimAges -> Nat] /\ limLoaded \in [LimAges -> Nat]
  /\ limFor \in 0..LimMinute

\* The ticks that n cells take, and the cells of the bursts of n limiters stored
\* after a first one.
LimTicksFor(n) == LimPeriod * n

LimBursts(n) == LimBurst * (1 + n)

\* The cells of a bucket, and the part of the next one that is there, in ticks.
LimContent == LimTicksFor(limBucket.cells) + limBucket.phase

\* Of every stretch of time in which the map had a limiter: what was admitted and
\* what is left in the bucket came from the burst at its start, the bursts of the
\* limiters stored in it and the ticks it lasted.
LimAccounted ==
  \A a \in LimAges : a < limFor =>
    LimContent + LimTicksFor(limAdmitted[a]) <= LimTicksFor(LimBursts(limLoaded[a])) + a

LimInv ==
  /\ LimTypeOK
  /\ limBucket.cells = LimBurst => limBucket.phase = 0
  /\ \A a, b \in LimAges : a <= b => limLoaded[a] <= limLoaded[b]
  /\ limLoaded[LimOldest] <= LimLoads
  /\ LimAccounted

\* What is assumed of the limiter's constants, and the ages its history is kept for.
LEMMA LimConstants ==
  /\ LimBurst \in Nat /\ LimBurst > 0 /\ LimPeriod \in Nat /\ LimPeriod > 0
  /\ LimMinute \in Nat /\ LimMinute > 0 /\ LimLoads \in Nat /\ LimLoads > 0
  /\ LimOldest \in Nat /\ LimOldest + 1 = LimMinute /\ LimAges = 0..LimOldest
  /\ 0 \in LimAges /\ LimOldest \in LimAges
BY LimAssumption DEF LimOldest, LimAges

\* The arithmetic of LimTicksFor and LimBursts.  Each fact about the two products is
\* shown once and cited from here on: the products stay out of the provers' sight.
LEMMA LimTicksInt == \A x \in Int : LimTicksFor(x) \in Int
BY LimConstants DEF LimTicksFor

\* Cells in ticks: how they add up.
LEMMA LimTicksNat == \A x \in Nat : LimTicksFor(x) \in Nat
BY LimConstants DEF LimTicksFor

\* No cells take no time.
LEMMA LimTicksNone == LimTicksFor(0) = 0
BY LimConstants DEF LimTicksFor

\* One cell more takes a period more.
LEMMA LimTicksNext == \A x \in Int : LimTicksFor(x + 1) = LimTicksFor(x) + LimPeriod
BY LimConstants DEF LimTicksFor

\* Ticks add up as cells do.
LEMMA LimTicksSum == \A x, y \in Int : LimTicksFor(x + y) = LimTicksFor(x) + LimTicksFor(y)
BY LimConstants DEF LimTicksFor

\* More cells take no less time.
LEMMA LimTicksGrow == \A x, y \in Int : x <= y => LimTicksFor(x) <= LimTicksFor(y)
BY LimConstants DEF LimTicksFor

\* The cells of a first limiter and of those loaded after it.
LEMMA LimBurstsInt == \A n \in Int : LimBursts(n) \in Int
BY LimConstants DEF LimBursts

\* One limiter holds one burst.
LEMMA LimBurstsFirst == LimBursts(0) = LimBurst
BY LimConstants DEF LimBursts

\* Each limiter loaded adds a burst.
LEMMA LimBurstsNext == \A n \in Int : LimBursts(n + 1) = LimBursts(n) + LimBurst
BY LimConstants DEF LimBursts

\* One more cell takes one more period.
LEMMA LimOneMore == \A x, y \in Nat : y <= x + 1 => LimTicksFor(y) <= LimTicksFor(x) + LimPeriod
<1> SUFFICES ASSUME NEW x \in Nat, NEW y \in Nat, y <= x + 1
             PROVE  LimTicksFor(y) <= LimTicksFor(x) + LimPeriod
    OBVIOUS
<1>1. x + 1 \in Int /\ x \in Int /\ y \in Int
      OBVIOUS
<1>2. LimTicksFor(y) <= LimTicksFor(x + 1)
      BY <1>1, LimTicksGrow
<1>3. LimTicksFor(x + 1) = LimTicksFor(x) + LimPeriod
      BY <1>1, LimTicksNext
<1> QED BY <1>2, <1>3

\* One more limiter stored brings the ticks of one more burst.
LEMMA LimOneBurstMore ==
  \A n \in Nat : /\ LimTicksFor(LimBursts(n)) \in Int
                 /\ LimTicksFor(LimBursts(n + 1)) =
                      LimTicksFor(LimBursts(n)) + LimTicksFor(LimBurst)
<1> SUFFICES ASSUME NEW n \in Nat
             PROVE  /\ LimTicksFor(LimBursts(n)) \in Int
                    /\ LimTicksFor(LimBursts(n + 1)) =
                         LimTicksFor(LimBursts(n)) + LimTicksFor(LimBurst)
    OBVIOUS
<1>1. LimBursts(n) \in Int /\ LimBurst \in Int
      BY LimBurstsInt, LimConstants
<1>2. LimBursts(n + 1) = LimBursts(n) + LimBurst
      BY LimBurstsNext
<1>3. LimTicksFor(LimBursts(n) + LimBurst) = LimTicksFor(LimBursts(n)) + LimTicksFor(LimBurst)
      BY <1>1, LimTicksSum
<1> QED BY <1>1, <1>2, <1>3, LimTicksInt

\* LimCap is past the number of limiters the bound lets be stored.
LEMMA LimCapped == LimCap \in Nat /\ LimLoads < LimCap
<1>1. (1 + LimLoads) * LimBurst \in Nat /\ (1 + LimLoads) * LimBurst >= 1 + LimLoads
      BY LimConstants
<1> QED BY <1>1, LimConstants DEF LimCap

\* The accounts are in order before the first limiter.
LEMMA LimInvInit == LimInit => LimInv
<1> SUFFICES ASSUME LimInit PROVE LimInv
    OBVIOUS
<1>1. LimTypeOK
      BY LimConstants DEF LimInit, LimTypeOK, LimBucketOK, NoBucket
<1>2. LimAccounted
      BY LimConstants DEF LimInit, LimAccounted, LimAges
<1> QED BY <1>1, <1>2, LimConstants DEF LimInit, LimInv, NoBucket

\* Counting what happens now.
LEMMA LimBumps ==
  ASSUME NEW f \in [LimAges -> Nat]
  PROVE  /\ LimBump(f) \in [LimAges -> Nat]
         /\ \A a \in LimAges : LimBump(f)[a] <= f[a] + 1
         /\ \A a \in LimAges : f[a] < LimCap => LimBump(f)[a] = f[a] + 1
BY LimCapped DEF LimBump

\* The next tick.
LEMMA LimShifts ==
  ASSUME NEW f \in [LimAges -> Nat]
  PROVE  /\ LimShift(f) \in [LimAges -> Nat]
         /\ LimShift(f)[0] = 0
         /\ \A a \in LimAges : a # 0 => a - 1 \in LimAges /\ LimShift(f)[a] = f[a - 1]
BY LimConstants DEF LimShift, LimAges

\* The fields of a bucket.
LEMMA LimBuckets ==
  ASSUME NEW b \in [cells : 0..LimBurst, phase : 0..(LimPeriod - 1), set : BOOLEAN]
  PROVE  b.cells \in 0..LimBurst /\ b.phase \in 0..(LimPeriod - 1) /\ b.set \in BOOLEAN
OBVIOUS

\* A limiter put in place.
LEMMA LimStores == ASSUME LimInv, NEW t \in LimTasks, LimStoreLimiter(t) PROVE LimInv'
<1> USE LimConstants DEF LimInv
<1>1. /\ limBucket' = LimFresh /\ limLoaded' = LimBump(limLoaded)
      /\ limAdmitted' = limAdmitted /\ limFor' = limFor
      /\ limLoaded[LimOldest] < LimLoads
      /\ limTask' \in [LimTasks -> {"idle", "insert"}]
      BY DEF LimStoreLimiter, LimTypeOK
<1>2. \A a \in LimAges : limLoaded[a] \in Nat /\ limLoaded'[a] = limLoaded[a] + 1
  <2> SUFFICES ASSUME NEW a \in LimAges
               PROVE  limLoaded[a] \in Nat /\ limLoaded'[a] = limLoaded[a] + 1
      OBVIOUS
  <2>1. limLoaded[a] <= limLoaded[LimOldest] /\ limLoaded[a] \in Nat /\ limLoaded[LimOldest] \in Nat
        BY DEF LimAges, LimTypeOK
  <2>2. limLoaded[a] < LimCap
        BY <1>1, <2>1, LimCapped
  <2> QED BY <1>1, <2>1, <2>2, LimBumps DEF LimTypeOK
<1>3. /\ limBucket'.cells = LimBurst /\ limBucket'.phase = 0 /\ LimBucketOK'
      BY <1>1 DEF LimFresh, LimBucketOK
<1>4. LimTypeOK'
      BY <1>1, <1>3, LimBumps DEF LimTypeOK
<1>5. \A a, b \in LimAges : a <= b => limLoaded'[a] <= limLoaded'[b]
      BY <1>2
<1>6. limLoaded'[LimOldest] <= LimLoads
      BY <1>1, <1>2
<1>7. LimAccounted'
  <2> SUFFICES ASSUME NEW a \in LimAges, a < limFor'
               PROVE  LimContent' + LimTicksFor(limAdmitted'[a])
                        <= LimTicksFor(LimBursts(limLoaded'[a])) + a
      BY DEF LimAccounted
  <2> DEFINE A == limAdmitted[a]
             L == limLoaded[a]
  <2>1. A \in Nat /\ L \in Nat /\ a \in Nat /\ limBucket.cells \in Nat /\ limBucket.phase \in Nat
        BY DEF LimTypeOK, LimBucketOK, LimAges
  <2>2. LimContent + LimTicksFor(A) <= LimTicksFor(LimBursts(L)) + a
        BY <1>1 DEF LimAccounted
  <2>3. LimContent \in Nat
    <3>1. LimTicksFor(limBucket.cells) \in Nat
          BY <2>1, LimTicksNat
    <3> QED BY <3>1, <2>1 DEF LimContent
  <2>4. LimContent' = LimTicksFor(LimBurst) /\ LimTicksFor(LimBurst) \in Nat
    <3>1. LimTicksFor(LimBurst) \in Nat
          BY LimTicksNat
    <3> QED BY <3>1, <1>3 DEF LimContent
  <2>5. limAdmitted'[a] = A /\ limLoaded'[a] = L + 1
        BY <1>1, <1>2
  <2> HIDE DEF A, L
  <2>6. LimTicksFor(A) \in Nat
        BY <2>1, LimTicksNat
  <2>7. /\ LimTicksFor(LimBursts(L)) \in Int
        /\ LimTicksFor(LimBursts(L + 1)) = LimTicksFor(LimBursts(L)) + LimTicksFor(LimBurst)
        BY <2>1, LimOneBurstMore
  <2>8. LimTicksFor(LimBurst) + LimTicksFor(A) <= LimTicksFor(LimBursts(L + 1)) + a
        BY <2>1, <2>2, <2>3, <2>4, <2>6, <2>7
  <2> QED BY <2>4, <2>5, <2>8
<1> QED BY <1>3, <1>4, <1>5, <1>6, <1>7

\* A cell taken.
LEMMA LimTakes ==
  ASSUME LimInv, NEW t \in LimTasks, LimAdmit(t)
  PROVE  LimInv'
<1> USE LimConstants DEF LimInv
<1>1. CASE UNCHANGED <<limBucket, limAdmitted>>
      BY <1>1 DEF LimAdmit, LimTypeOK, LimBucketOK, LimAccounted, LimContent
<1>2. CASE /\ limBucket.cells > 0
           /\ limBucket' = LimTake(limBucket)
           /\ limAdmitted' = LimBump(limAdmitted)
  <2>1. /\ UNCHANGED <<limTask, limLoaded, limFor>>
        /\ limBucket.cells \in 0..LimBurst /\ limBucket.phase \in 0..(LimPeriod - 1)
        BY DEF LimAdmit, LimTypeOK, LimBucketOK
  <2>2. /\ limBucket'.cells = limBucket.cells - 1 /\ limBucket'.phase = limBucket.phase
        /\ LimBucketOK'
    <3>1. limBucket.cells - 1 \in 0..LimBurst
          BY <1>2, <2>1
    <3> QED BY <1>2, <3>1 DEF LimTake, LimBucketOK, LimTypeOK
  <2>3. LimTypeOK'
        BY <1>2, <2>1, <2>2, LimBumps DEF LimTypeOK
  <2>4. limBucket'.cells # LimBurst
        BY <2>1, <2>2
  <2>5. LimAccounted'
    <3> SUFFICES ASSUME NEW a \in LimAges, a < limFor'
                 PROVE  LimContent' + LimTicksFor(limAdmitted'[a])
                          <= LimTicksFor(LimBursts(limLoaded'[a])) + a
        BY DEF LimAccounted
    <3> DEFINE A == limAdmitted[a]
               B == limAdmitted'[a]
               L == limLoaded[a]
    <3>1. A \in Nat /\ B \in Nat /\ B <= A + 1 /\ a \in Nat /\ L \in Nat /\ limLoaded'[a] = L
      <4>1. limAdmitted \in [LimAges -> Nat] /\ limLoaded \in [LimAges -> Nat]
            BY DEF LimTypeOK
      <4>2. /\ limAdmitted' \in [LimAges -> Nat]
            /\ \A x \in LimAges : limAdmitted'[x] <= limAdmitted[x] + 1
            BY <1>2, <4>1, LimBumps
      <4>3. a \in Nat
            BY DEF LimAges
      <4> QED BY <2>1, <4>1, <4>2, <4>3
    <3>2. LimContent + LimTicksFor(A) <= LimTicksFor(LimBursts(L)) + a
          BY <2>1 DEF LimAccounted
    <3>3. LimContent' = LimContent - LimPeriod /\ LimContent \in Int
      <4> DEFINE n == limBucket.cells - 1
      <4>1. n \in Int /\ limBucket.cells = n + 1 /\ limBucket'.cells = n
            BY <2>1, <2>2
      <4>2. LimContent = LimTicksFor(n + 1) + limBucket.phase
            BY <4>1 DEF LimContent
      <4>3. LimContent' = LimTicksFor(n) + limBucket.phase
            BY <4>1, <2>2 DEF LimContent
      <4> HIDE DEF n
      <4>4. LimTicksFor(n) \in Int /\ LimTicksFor(n + 1) = LimTicksFor(n) + LimPeriod
            BY <4>1, LimTicksInt, LimTicksNext
      <4> QED BY <4>2, <4>3, <4>4, <2>1
    <3> HIDE DEF A, L
    <3>4. LimTicksFor(A) \in Nat
          BY <3>1, LimTicksNat
    <3>5. LimTicksFor(LimBursts(L)) \in Int
          BY <3>1, LimOneBurstMore
    <3>6. LimTicksFor(B) \in Nat /\ LimTicksFor(B) <= LimTicksFor(A) + LimPeriod
      <4> HIDE DEF B
      <4>1. LimTicksFor(B) \in Nat
            BY <3>1, LimTicksNat
      <4>2. LimTicksFor(B) <= LimTicksFor(A) + LimPeriod
            BY <3>1, LimOneMore
      <4> QED BY <4>1, <4>2
    <3>7. LimContent' + LimTicksFor(B) <= LimTicksFor(LimBursts(L)) + a
          BY <3>1, <3>2, <3>3, <3>4, <3>5, <3>6
    <3> QED BY <3>1, <3>7
  <2> QED BY <2>1, <2>3, <2>4, <2>5
<1> QED BY <1>1, <1>2 DEF LimAdmit

\* Time passes: the bucket has at most one tick more in it, and never more than
\* its cells' worth.
LEMMA LimRefills ==
  ASSUME LimInv, limBucket' = LimRefill(limBucket)
  PROVE  /\ LimBucketOK'
         /\ limBucket'.cells = LimBurst => limBucket'.phase = 0
         /\ LimContent \in Int /\ LimContent' \in Int
         /\ LimContent' <= LimContent + 1
         /\ LimContent' <= LimTicksFor(LimBurst)
<1> USE LimConstants DEF LimInv
<1> DEFINE b == limBucket
<1>1. /\ b \in [cells : 0..LimBurst, phase : 0..(LimPeriod - 1), set : BOOLEAN]
      /\ b.cells \in 0..LimBurst /\ b.phase \in 0..(LimPeriod - 1)
      BY DEF LimTypeOK, LimBucketOK
<1>2. LimContent \in Int /\ LimContent = LimTicksFor(b.cells) + b.phase
      BY <1>1, LimTicksInt DEF LimContent
<1>3. ASSUME LimBucketOK', limBucket'.cells = LimBurst => limBucket'.phase = 0
      PROVE  LimContent' \in Int /\ LimContent' <= LimTicksFor(LimBurst)
  <2>1. /\ limBucket'.cells \in 0..LimBurst /\ limBucket'.phase \in 0..(LimPeriod - 1)
        BY <1>3 DEF LimBucketOK
  <2>2. CASE limBucket'.cells = LimBurst
    <3>1. LimTicksFor(LimBurst) \in Int
          BY LimTicksInt
    <3>2. LimContent' = LimTicksFor(LimBurst) + 0
          BY <1>3, <2>2 DEF LimContent
    <3> QED BY <3>1, <3>2
  <2>3. CASE limBucket'.cells # LimBurst
    <3>1. LimTicksFor(limBucket'.cells + 1) <= LimTicksFor(LimBurst)
          BY <2>1, <2>3, LimTicksGrow
    <3>2. LimTicksFor(limBucket'.cells + 1) = LimTicksFor(limBucket'.cells) + LimPeriod
      <4> DEFINE n == limBucket'.cells
      <4>1. n \in Int
            BY <2>1
      <4> HIDE DEF n
      <4>2. LimTicksFor(n + 1) = LimTicksFor(n) + LimPeriod
            BY <4>1, LimTicksNext
      <4> QED BY <4>2 DEF n
    <3>3. LimTicksFor(limBucket'.cells) \in Int /\ LimTicksFor(LimBurst) \in Int
      <4>1. limBucket'.cells \in Int /\ LimBurst \in Int
            BY <2>1
      <4> QED BY <4>1, LimTicksInt, Zenon
    <3>4. LimContent' = LimTicksFor(limBucket'.cells) + limBucket'.phase
          BY DEF LimContent
    <3>5. limBucket'.phase \in 0..(LimPeriod - 1)
          BY <2>1
    <3> QED BY <3>1, <3>2, <3>3, <3>4, <3>5, LimConstants, SMTT(30)
  <2> QED BY <2>2, <2>3
<1>4. CASE ~b.set \/ b.cells = LimBurst
  <2>1. limBucket' = limBucket
        BY <1>4 DEF LimRefill
  <2> QED BY <2>1, <1>2, <1>3 DEF LimTypeOK, LimBucketOK, LimContent
<1>5. CASE b.set /\ b.cells # LimBurst /\ b.phase + 1 < LimPeriod
  <2>1. limBucket' = [b EXCEPT !.phase = b.phase + 1]
        BY <1>5 DEF LimRefill
  <2>2. b.phase + 1 \in 0..(LimPeriod - 1)
        BY <1>1, <1>5
  <2>3. LimBucketOK' /\ limBucket'.cells = b.cells /\ limBucket'.phase = b.phase + 1
        BY <1>1, <2>1, <2>2 DEF LimBucketOK
  <2>4. LimContent' = LimContent + 1
    <3>1. LimTicksFor(b.cells) \in Int
          BY <1>1, LimTicksInt
    <3> QED BY <2>3, <3>1, <1>1, <1>2 DEF LimContent
  <2> QED BY <1>2, <1>3, <1>5, <2>3, <2>4
<1>6. CASE b.set /\ b.cells # LimBurst /\ ~(b.phase + 1 < LimPeriod)
  <2>1. limBucket' = [b EXCEPT !.phase = 0, !.cells = b.cells + 1]
        BY <1>6 DEF LimRefill
  <2>2. b.cells + 1 \in 0..LimBurst /\ 0 \in 0..(LimPeriod - 1) /\ b.phase + 1 = LimPeriod
        BY <1>1, <1>6
  <2>3. \A p \in 0..(LimPeriod - 1), n \in 0..LimBurst :
          LET c == [b EXCEPT !.phase = p, !.cells = n] IN
          /\ c \in [cells : 0..LimBurst, phase : 0..(LimPeriod - 1), set : BOOLEAN]
          /\ c.phase = p /\ c.cells = n
        BY <1>1
  <2>4. limBucket' \in [cells : 0..LimBurst, phase : 0..(LimPeriod - 1), set : BOOLEAN]
        /\ limBucket'.cells = b.cells + 1 /\ limBucket'.phase = 0
        BY <2>1, <2>2, <2>3, Zenon
  <2>5. LimContent' = LimContent + 1
    <3>1. b.cells \in Int
          BY <1>1
    <3>2. LimTicksFor(b.cells + 1) = LimTicksFor(b.cells) + LimPeriod /\ LimTicksFor(b.cells) \in Int
          BY <3>1, LimTicksNext, LimTicksInt, Zenon
    <3> QED BY <3>2, <2>2, <2>4, <1>1, <1>2 DEF LimContent
  <2> QED BY <1>2, <1>3, <2>4, <2>5 DEF LimBucketOK
<1> QED BY <1>1, <1>4, <1>5, <1>6

\* A tick adds one to the content at most, and one to each age.
LEMMA LimTicks == ASSUME LimInv, LimTick PROVE LimInv'
<1> USE LimConstants DEF LimInv
<1>1. /\ limBucket' = LimRefill(limBucket)
      /\ limAdmitted' = LimShift(limAdmitted) /\ limLoaded' = LimShift(limLoaded)
      /\ limFor' = (IF limBucket.set /\ limFor < LimMinute THEN limFor + 1 ELSE limFor)
      /\ limTask' = limTask
      BY DEF LimTick
<1>2. /\ limFor' \in 0..LimMinute /\ limFor' <= limFor + 1 /\ limFor \in 0..LimMinute
      BY <1>1 DEF LimTypeOK
<1>3. LimTypeOK'
      BY <1>1, <1>2, LimRefills, LimShifts DEF LimTypeOK
<1>4. \A a, b \in LimAges : a <= b => limLoaded'[a] <= limLoaded'[b]
  <2> SUFFICES ASSUME NEW a \in LimAges, NEW b \in LimAges, a <= b
               PROVE  limLoaded'[a] <= limLoaded'[b]
      OBVIOUS
  <2>1. limLoaded \in [LimAges -> Nat] /\ limLoaded' \in [LimAges -> Nat]
        BY <1>3 DEF LimTypeOK
  <2>2. CASE a = 0
    <3>1. limLoaded'[a] = 0 /\ limLoaded'[b] \in Nat
          BY <2>1, <2>2, <1>1, LimShifts
    <3> QED BY <3>1
  <2>3. CASE a # 0
    <3>1. a \in Nat /\ b \in Nat /\ b # 0 /\ a - 1 <= b - 1
          BY <2>3 DEF LimAges
    <3>2. /\ a - 1 \in LimAges /\ limLoaded'[a] = limLoaded[a - 1]
          /\ b - 1 \in LimAges /\ limLoaded'[b] = limLoaded[b - 1]
          BY <2>1, <2>3, <3>1, <1>1, LimShifts
    <3> QED BY <3>1, <3>2
  <2> QED BY <2>2, <2>3
<1>5. limLoaded'[LimOldest] <= LimLoads
  <2>1. CASE LimOldest = 0
        BY <2>1, <1>1, LimShifts DEF LimTypeOK
  <2>2. CASE LimOldest # 0
    <3>1. LimOldest - 1 \in LimAges /\ limLoaded'[LimOldest] = limLoaded[LimOldest - 1]
          BY <2>2, <1>1, LimShifts DEF LimTypeOK
    <3>2. limLoaded[LimOldest - 1] <= limLoaded[LimOldest]
          BY <3>1
    <3> QED BY <3>1, <3>2 DEF LimTypeOK
  <2> QED BY <2>1, <2>2
<1>6. LimAccounted'
  <2> SUFFICES ASSUME NEW a \in LimAges, a < limFor'
               PROVE  LimContent' + LimTicksFor(limAdmitted'[a])
                        <= LimTicksFor(LimBursts(limLoaded'[a])) + a
      BY DEF LimAccounted
  <2>1. CASE a = 0
    <3>1. limAdmitted'[a] = 0 /\ limLoaded'[a] = 0
          BY <2>1, <1>1, LimShifts DEF LimTypeOK
    <3>2. LimTicksFor(0) = 0 /\ LimBursts(0) = LimBurst /\ LimTicksFor(LimBurst) \in Int
          BY LimTicksNone, LimBurstsFirst, LimTicksInt
    <3> QED BY <2>1, <3>1, <3>2, <1>1, LimRefills
  <2>2. CASE a # 0
    <3> DEFINE A == limAdmitted[a - 1]
               L == limLoaded[a - 1]
    <3>1. a - 1 \in LimAges /\ limAdmitted'[a] = A /\ limLoaded'[a] = L
          BY <2>2, <1>1, LimShifts DEF LimTypeOK
    <3>2. A \in Nat /\ L \in Nat /\ a \in Nat /\ a - 1 < limFor
          BY <3>1, <1>2 DEF LimTypeOK, LimAges
    <3>3. LimContent + LimTicksFor(A) <= LimTicksFor(LimBursts(L)) + (a - 1)
          BY <3>1, <3>2 DEF LimAccounted
    <3>4. LimTicksFor(A) \in Int /\ LimTicksFor(LimBursts(L)) \in Int
      <4> HIDE DEF A, L
      <4>1. LimTicksFor(A) \in Int
            BY <3>2, LimTicksInt
      <4>2. LimTicksFor(LimBursts(L)) \in Int
            BY <3>2, LimOneBurstMore
      <4> QED BY <4>1, <4>2
    <3>5. LimContent \in Int /\ LimContent' \in Int /\ LimContent' <= LimContent + 1
          BY <1>1, LimRefills
    <3>6. LimContent' + LimTicksFor(A) <= LimTicksFor(LimBursts(L)) + a
      <4> HIDE DEF A, L
      <4> QED BY <3>2, <3>3, <3>4, <3>5
    <3> QED BY <3>1, <3>6
  <2> QED BY <2>1, <2>2
<1> QED BY <1>1, <1>3, <1>4, <1>5, <1>6, LimRefills

\* Every step keeps the accounts in order.
LEMMA LimInvStep == LimInv /\ [LimNext]_limVars => LimInv'
<1> SUFFICES ASSUME LimInv, [LimNext]_limVars PROVE LimInv'
    OBVIOUS
<1>1. CASE UNCHANGED limVars
      BY <1>1 DEF limVars, LimInv, LimTypeOK, LimBucketOK, LimAccounted, LimContent
<1>2. ASSUME NEW t \in LimTasks, LimStoreGrant(t) PROVE LimInv'
      BY <1>2 DEF LimStoreGrant, LimInv, LimTypeOK, LimBucketOK, LimAccounted, LimContent
<1>3. ASSUME NEW t \in LimTasks, LimStoreLimiter(t) PROVE LimInv'
      BY <1>3, LimStores
<1>4. ASSUME NEW t \in LimTasks, LimAdmit(t) PROVE LimInv'
      BY <1>4, LimTakes
<1>5. CASE LimTick
      BY <1>5, LimTicks
<1> QED BY <1>1, <1>2, <1>3, <1>4, <1>5 DEF LimNext

\* The accounts are in order in every reachable state.
LEMMA LimInvariant == LimSpec => []LimInv
BY LimInvInit, LimInvStep, PTL DEF LimSpec

\* For any burst, replenishing period and interval, and however often a new grant
\* replaces the limiter while tasks go on asking: an interval for which the SDK had
\* a limiter in its map admits no more than the refill, one burst, and one more
\* burst for each grant stored in it (rate_limiter.rs, check; client.rs,
\* authenticate_request and request_grant).
THEOREM SdkHoldsRate == LimSpec => []LimRateHeld
<1>1. LimInv => LimRateHeld
  <2> SUFFICES ASSUME LimInv, limFor = LimMinute
               PROVE  limAdmitted[LimOldest] <=
                        LimBurst * (1 + limLoaded[LimOldest]) + LimOldest \div LimPeriod
      BY DEF LimRateHeld
  <2> DEFINE A == limAdmitted[LimOldest]
             B == LimBursts(limLoaded[LimOldest])
             q == LimOldest \div LimPeriod
  <2>1. /\ A \in Nat /\ limLoaded[LimOldest] \in Nat
        /\ limBucket.cells \in Nat /\ limBucket.phase \in Nat
        BY LimConstants DEF LimInv, LimTypeOK, LimBucketOK
  <2>2. B \in Int
        BY <2>1, LimBurstsInt
  <2>3. LimContent + LimTicksFor(A) <= LimTicksFor(B) + LimOldest
        BY LimConstants DEF LimInv, LimAccounted
  <2>4. LimContent \in Int /\ LimContent >= 0
    <3>1. LimTicksFor(limBucket.cells) \in Int /\ LimTicksFor(limBucket.cells) >= 0
          BY <2>1, LimTicksNat
    <3> QED BY <3>1, <2>1 DEF LimContent
  <2>5. q \in Int /\ LimOldest < LimTicksFor(q + 1)
        BY LimConstants DEF LimTicksFor
  <2>6. B \in Int /\ B = LimBurst * (1 + limLoaded[LimOldest])
        BY <2>2 DEF LimBursts
  <2> HIDE DEF A, B, q
  <2>7. /\ LimTicksFor(A) \in Int /\ LimTicksFor(B) \in Int /\ LimTicksFor(q + 1) \in Int
        /\ LimTicksFor(B + (q + 1)) = LimTicksFor(B) + LimTicksFor(q + 1)
        /\ B + (q + 1) <= A => LimTicksFor(B + (q + 1)) <= LimTicksFor(A)
    <3>1. q + 1 \in Int /\ B + (q + 1) \in Int /\ A \in Int /\ B \in Int
          BY <2>1, <2>2, <2>5
    <3>2. LimTicksFor(A) \in Int /\ LimTicksFor(B) \in Int /\ LimTicksFor(q + 1) \in Int
          BY <3>1, LimTicksInt
    <3>3. LimTicksFor(B + (q + 1)) = LimTicksFor(B) + LimTicksFor(q + 1)
          BY <3>1, LimTicksSum
    <3>4. B + (q + 1) <= A => LimTicksFor(B + (q + 1)) <= LimTicksFor(A)
          BY <3>1, LimTicksGrow
    <3> QED BY <3>2, <3>3, <3>4
  <2>8. A <= B + q
        BY <2>1, <2>2, <2>3, <2>4, <2>5, <2>7, LimConstants
  <2> QED BY <2>6, <2>8 DEF A, q
<1> QED BY <1>1, LimInvariant, PTL
=============================================================================
