----------------------------- MODULE PartsProof -----------------------------
(***************************************************************************)
(* Proofs about the parts of the system taken together (Parts): whichever  *)
(* part runs, each of them behaves as it does alone, so that what is shown *)
(* of a part in RegistryPartsProof and ClientsProof holds here, where the  *)
(* runs check it.                                                          *)
(***************************************************************************)
EXTENDS Parts, RegistryPartsProof, ClientsProof

\* A step of Parts is, for every part, a step of its own or no step at all.
LEMMA PartsMoves ==
  [PartsNext]_partsVars =>
    /\ [SdkNext]_sdkVars /\ [LimNext]_limVars /\ [BrNext]_brVars /\ [IfNext]_ifVars
    /\ [HlNext]_hlVars /\ [McpNext]_mcpVars /\ [DemoNext]_demoVars /\ [RegNext]_regVars
    /\ [PageNext]_pageVars /\ [KeyNext]_keyVars /\ [EnvNew]_env
    /\ UNCHANGED part
<1> SUFFICES ASSUME [PartsNext]_partsVars
             PROVE  /\ [SdkNext]_sdkVars /\ [LimNext]_limVars /\ [BrNext]_brVars /\ [IfNext]_ifVars
                    /\ [HlNext]_hlVars /\ [McpNext]_mcpVars /\ [DemoNext]_demoVars
                    /\ [RegNext]_regVars /\ [PageNext]_pageVars /\ [KeyNext]_keyVars
                    /\ [EnvNew]_env /\ UNCHANGED part
    OBVIOUS
<1>1. CASE UNCHANGED partsVars
      BY <1>1 DEF partsVars
<1>2. CASE SdkNext /\ PartsKeep("sdk")
      BY <1>2 DEF PartsKeep
<1>3. CASE LimNext /\ PartsKeep("limiter")
      BY <1>3 DEF PartsKeep
<1>4. CASE BrNext /\ PartsKeep("breaker")
      BY <1>4 DEF PartsKeep
<1>5. CASE IfNext /\ PartsKeep("in flight")
      BY <1>5 DEF PartsKeep
<1>6. CASE HlNext /\ PartsKeep("health")
      BY <1>6 DEF PartsKeep
<1>7. CASE McpNext /\ PartsKeep("mcp")
      BY <1>7 DEF PartsKeep
<1>8. CASE DemoNext /\ PartsKeep("demo")
      BY <1>8 DEF PartsKeep
<1>9. CASE RegNext /\ PartsKeep("registration")
      BY <1>9 DEF PartsKeep
<1>10. CASE PageNext /\ PartsKeep("page")
       BY <1>10 DEF PartsKeep
<1>11. CASE KeyNext /\ PartsKeep("key")
       BY <1>11 DEF PartsKeep
<1>12. CASE EnvNew /\ PartsKeep("envelope")
       BY <1>12 DEF PartsKeep
<1> QED BY <1>1, <1>2, <1>3, <1>4, <1>5, <1>6, <1>7, <1>8, <1>9, <1>10, <1>11, <1>12
        DEF PartsNext

\* Wherever it starts, every part starts as it does alone.
LEMMA PartsStart ==
  PartsInit =>
    /\ SdkInit /\ LimInit /\ BrInit /\ IfInit /\ HlInit /\ McpInit /\ DemoInit
    /\ RegInit /\ PageInit /\ KeyInit /\ EnvInit
    /\ part \in PartNames
BY DEF PartsInit

\* The registry's parts and the clients that state no fairness behave here as
\* they do alone: each of their specifications is implemented.
THEOREM PartsRunAlone ==
  PartsSpec => LimSpec /\ IfSpec /\ McpSpec /\ DemoSpec /\ RegSpec /\ PageSpec /\ KeySpec /\ EnvSpec
BY PartsStart, PartsMoves, PTL
   DEF PartsSpec, LimSpec, IfSpec, McpSpec, DemoSpec, RegSpec, PageSpec, KeySpec, EnvSpec

-----------------------------------------------------------------------------
(* What is known of all parts *)

PartsInv ==
  /\ part \in PartNames
  /\ SdkInv /\ LimInv /\ BrInv /\ IfTypeOK /\ IfHeld /\ HlInv /\ McpInv /\ DemoInv
  /\ RegInv /\ PageInv /\ KeyInv /\ EnvInv

\* The parts begin as they should.
LEMMA PartsInvInit == PartsInit => PartsInv
BY PartsStart, SdkInvInit, LimInvInit, BrInvInit, IfInvInit, HlInvInit, McpInvInit, DemoInvInit,
   RegInvInit, PageInvInit, KeyInvInit, EnvInvInit
   DEF PartsInv

\* Each part's steps keep what is known of it, and the others keep what they have.
LEMMA PartsInvStep == PartsInv /\ [PartsNext]_partsVars => PartsInv'
<1> SUFFICES ASSUME PartsInv, [PartsNext]_partsVars PROVE PartsInv'
    OBVIOUS
<1>1. SdkInv' /\ LimInv'
      BY PartsMoves, SdkInvStep, LimInvStep DEF PartsInv
<1>2. BrInv' /\ (IfTypeOK /\ IfHeld)' /\ HlInv'
      BY PartsMoves, BrInvStep, IfStep, HlInvStep DEF PartsInv
<1>3. McpInv' /\ DemoInv'
      BY PartsMoves, McpStepInv, DemoStepInv DEF PartsInv
<1>4. RegInv' /\ PageInv'
      BY PartsMoves, RegInvStep, PageInvStep DEF PartsInv
<1>5. KeyInv' /\ EnvInv'
      BY PartsMoves, KeyStep, EnvStep DEF PartsInv
<1>6. part' \in PartNames
      BY PartsMoves DEF PartsInv
<1> QED BY <1>1, <1>2, <1>3, <1>4, <1>5, <1>6 DEF PartsInv

\* All of it holds of every reachable state.
LEMMA PartsInvariant == PartsSpec => []PartsInv
BY PartsInvInit, PartsInvStep, PTL DEF PartsSpec

\* Every variable of the parts has its type, for any number of tasks, calls,
\* requests, probes, agents and manifests, any bucket, breaker and lifetime.
THEOREM PartsTyped == PartsSpec => []PartsTypeOK
<1>1. PartsInv => PartsTypeOK
      BY DEF PartsInv, PartsTypeOK, SdkInv, LimInv, LimTypeOK, BrInv, HlInv, McpInv, DemoInv,
         RegInv, PageInv, KeyInv
<1> QED BY <1>1, PartsInvariant, PTL

\* What is promised of each part holds here of all of them at once: the safety
\* that the run of Parts checks, for every value of the constants.
THEOREM PartsSafe ==
  PartsSpec =>
    /\ [](SdkEndedGrantFades /\ LimRateHeld /\ BrMissesBounded /\ IfHeld /\ HlFailedStaysOut)
    /\ [](McpServesApproved /\ McpIdentityKept /\ McpRevokedFades)
    /\ [](DemoServedOnlyGranted /\ DemoNeedsFailure)
    /\ [](RegOtpOnce /\ RegDeletionHolds) /\ RegFirstStays
    /\ [](PageHighRiskConfirmed /\ PageTellsTruth)
    /\ [](EnvAsSaid /\ KeyPublishedVerifies)
<1>1. PartsInv => SdkInv /\ BrInv /\ HlInv
      BY DEF PartsInv
<1>2. PartsSpec => [](SdkEndedGrantFades /\ BrMissesBounded /\ HlFailedStaysOut)
      BY <1>1, PartsInvariant, SdkInvFades, BrInvMisses, HlInvFailed, PTL
<1>3. PartsSpec => []LimRateHeld /\ []IfHeld
      BY PartsRunAlone, SdkHoldsRate, InFlightHeld, PTL
<1>4. PartsSpec => [](McpServesApproved /\ McpIdentityKept /\ McpRevokedFades)
      BY PartsRunAlone, McpServesOnlyApproved, McpKeepsIdentity, McpRevocationFades, PTL
<1>5. PartsSpec => [](DemoServedOnlyGranted /\ DemoNeedsFailure)
      BY PartsRunAlone, DemoServesOnlyGranted, DemoMeetsFailure, PTL
<1>6. PartsSpec => [](RegOtpOnce /\ RegDeletionHolds) /\ RegFirstStays
      BY PartsRunAlone, OtpBringsOne, DeletionHolds, FirstManifestStays, PTL
<1>7. PartsSpec => [](PageHighRiskConfirmed /\ PageTellsTruth)
      BY PartsRunAlone, PageConfirmsHighRisk, PageShowsDecision, PTL
<1>8. PartsSpec => [](EnvAsSaid /\ KeyPublishedVerifies)
      BY PartsRunAlone, EnvelopeAsSaid, PublishedKeyVerifies, PTL
<1> QED BY <1>2, <1>3, <1>4, <1>5, <1>6, <1>7, <1>8, PTL

-----------------------------------------------------------------------------
(* The grants the clients live on.  The MCP server, the demo and the approval *)
(* page each come with the part of the registry they meet, one request a      *)
(* step.  That part does with a grant what GrantLifecycle says, which Grants  *)
(* implements with all its handlers and replicas (GrantsImplementLifecycle).  *)

\* The grants of the MCP server; their capabilities do not matter there.
McpStatusOf == [g \in McpGrantIds |-> mcpRow[g].status]

McpScopeOf == [g \in McpGrantIds |-> {}]

McpLife ==
  INSTANCE GrantLifecycle
  WITH Grants <- McpGrantIds, Keys <- {}, status <- McpStatusOf, scope <- McpScopeOf

\* What becomes of a grant, when its row does.
LEMMA McpStatuses ==
  ASSUME McpTypeOK, NEW g \in McpGrantIds, NEW row \in McpRow,
         mcpRow' = [mcpRow EXCEPT ![g] = row]
  PROVE  McpStatusOf' = [McpStatusOf EXCEPT ![g] = row.status]
BY DEF McpTypeOK, McpStatusOf

\* A step of the MCP server and its registry is a step of the life cycle or none.
LEMMA McpLifeStep == McpTypeOK /\ [McpNext]_mcpVars => [McpLife!LNext]_(McpLife!lifecycleVars)
<1> SUFFICES ASSUME McpTypeOK, [McpNext]_mcpVars
             PROVE  [McpLife!LNext]_(McpLife!lifecycleVars)
    OBVIOUS
<1>1. ASSUME UNCHANGED mcpRow PROVE UNCHANGED McpLife!lifecycleVars
      BY <1>1 DEF McpLife!lifecycleVars, McpStatusOf, McpScopeOf
<1>2. /\ McpScopeOf' = McpScopeOf
      /\ \A g \in McpGrantIds : McpScopeOf = [McpScopeOf EXCEPT ![g] = {}]
      BY DEF McpScopeOf
<1>3. \A g \in McpGrantIds : mcpRow[g] \in McpRow /\ McpStatusOf[g] = mcpRow[g].status
      BY DEF McpTypeOK, McpStatusOf
<1>4. CASE McpRequestGrant
  <2>1. CASE UNCHANGED mcpRow
        BY <1>1, <2>1
  <2>2. ASSUME NEW g \in McpGrantIds, mcpRow[g] = McpNoRow,
               mcpRow' = [mcpRow EXCEPT ![g] =
                 [agent |-> mcp.st.agent, lapsed |-> FALSE, status |-> "pending"]]
        PROVE  McpLife!LNext
    <3>1. [agent |-> mcp.st.agent, lapsed |-> FALSE, status |-> "pending"] \in McpRow
          BY DEF McpTypeOK, McpProcess, McpState, McpRow
    <3>2. McpStatusOf' = [McpStatusOf EXCEPT ![g] = "pending"]
          BY <2>2, <3>1, McpStatuses
    <3>3. McpStatusOf[g] = "none"
          BY <1>3, <2>2 DEF McpNoRow
    <3>4. McpLife!LRequest(g, {})
          BY <1>2, <3>2, <3>3 DEF McpLife!LRequest, McpLife!Become
    <3> QED BY <3>4 DEF McpLife!LNext
  <2> QED BY <1>4, <2>1, <2>2 DEF McpRequestGrant, McpGrantFor
<1>5. ASSUME NEW g \in McpGrantIds, NEW st \in {"approved", "denied", "revoked"},
             mcpRow' = [mcpRow EXCEPT ![g].status = st]
      PROVE  McpStatusOf' = [McpStatusOf EXCEPT ![g] = st]
  <2>1. [mcpRow[g] EXCEPT !.status = st] \in McpRow /\ [mcpRow[g] EXCEPT !.status = st].status = st
        BY <1>3 DEF McpRow
  <2> QED BY <1>5, <2>1, McpStatuses
<1>6. ASSUME NEW g \in McpGrantIds, McpApprove(g) \/ McpDeny(g) \/ McpRevoke(g) \/ McpLapse(g)
      PROVE  [McpLife!LNext]_(McpLife!lifecycleVars)
  <2>1. CASE McpApprove(g)
    <3>1. McpLife!LApprove(g, {})
          BY <1>2, <1>3, <1>5, <2>1 DEF McpApprove, McpLife!LApprove, McpLife!Become
    <3> QED BY <3>1 DEF McpLife!LNext
  <2>2. CASE McpDeny(g)
    <3>1. McpLife!LDeny(g)
          BY <1>2, <1>3, <1>5, <2>2 DEF McpDeny, McpLife!LDeny, McpLife!Become
    <3> QED BY <3>1 DEF McpLife!LNext
  <2>3. CASE McpRevoke(g)
    <3>1. McpLife!LRevoke(g)
          BY <1>2, <1>3, <1>5, <2>3 DEF McpRevoke, McpLife!LRevoke, McpLife!Become
    <3> QED BY <3>1 DEF McpLife!LNext
  <2>4. CASE McpLapse(g)
    <3>1. /\ [mcpRow[g] EXCEPT !.lapsed = TRUE] \in McpRow
          /\ [mcpRow[g] EXCEPT !.lapsed = TRUE].status = mcpRow[g].status
          BY <1>3 DEF McpRow
    <3>2. mcpRow' = [mcpRow EXCEPT ![g] = [mcpRow[g] EXCEPT !.lapsed = TRUE]]
          BY <2>4 DEF McpLapse
    <3>3. McpStatusOf' = [McpStatusOf EXCEPT ![g] = mcpRow[g].status]
          BY <3>1, <3>2, McpStatuses
    <3>4. McpStatusOf' = McpStatusOf
          BY <1>3, <3>3 DEF McpStatusOf
    <3> QED BY <1>2, <3>4 DEF McpLife!lifecycleVars
  <2> QED BY <1>6, <2>1, <2>2, <2>3, <2>4
<1>7. ASSUME McpNext, ~McpRequestGrant,
             \A g \in McpGrantIds : ~(McpApprove(g) \/ McpDeny(g) \/ McpRevoke(g) \/ McpLapse(g))
      PROVE  UNCHANGED mcpRow
      BY <1>7 DEF McpNext, McpStep, McpStart, McpLoad, McpFirstRun, McpSaved, McpRegister,
           McpGrantOnFile, McpPoll, McpReady, McpFatal, McpCrash, McpCallStep, McpAsk,
           McpLookAtGrant, McpFindToken, McpInsertToken, McpGotToken, McpCallFails, McpTick,
           mcpRegistry
<1>8. CASE UNCHANGED mcpVars
      BY <1>1, <1>8 DEF mcpVars
<1> QED BY <1>1, <1>4, <1>6, <1>7, <1>8

\* The grants the MCP server polls for and serves under (agentauth.ts) live as
\* the registry lets a grant live, through every crash and every save.
THEOREM McpMeetsLifecycle == McpSpec => McpLife!LSpec
<1>1. McpInit => McpLife!LInit
      BY DEF McpInit, McpNoRow, McpStatusOf, McpScopeOf, McpLife!LInit
<1>2. McpInv => McpTypeOK
      BY DEF McpInv
<1> QED BY <1>1, <1>2, McpLifeStep, McpInvariance, PTL DEF McpSpec, McpLife!LSpec

\* The grants of the demo.  A pending one asks for DemoAsked, which its row does
\* not repeat.
DemoScope(row) ==
  CASE row.status = "none" -> {}
    [] row.status \in {"pending", "denied"} -> DemoAsked
    [] OTHER -> row.caps

DemoStatusOf == [g \in DemoGrantIds |-> demoRow[g].status]

DemoScopeOf == [g \in DemoGrantIds |-> DemoScope(demoRow[g])]

DemoLife ==
  INSTANCE GrantLifecycle
  WITH Grants <- DemoGrantIds, Keys <- DemoAsked, status <- DemoStatusOf, scope <- DemoScopeOf

\* What becomes of a grant and its scope, when its row does.
LEMMA DemoStatuses ==
  ASSUME DemoOK, NEW g \in DemoGrantIds, NEW row \in DemoRow,
         demoRow' = [demoRow EXCEPT ![g] = row]
  PROVE  /\ DemoStatusOf' = [DemoStatusOf EXCEPT ![g] = row.status]
         /\ DemoScopeOf' = [DemoScopeOf EXCEPT ![g] = DemoScope(row)]
BY DEF DemoOK, DemoStatusOf, DemoScopeOf

\* A step of the demo and its registry is a step of the life cycle or none.
LEMMA DemoLifeStep == DemoOK /\ [DemoNext]_demoVars => [DemoLife!LNext]_(DemoLife!lifecycleVars)
<1> SUFFICES ASSUME DemoOK, [DemoNext]_demoVars
             PROVE  [DemoLife!LNext]_(DemoLife!lifecycleVars)
    OBVIOUS
<1>1. ASSUME UNCHANGED demoRow PROVE UNCHANGED DemoLife!lifecycleVars
      BY <1>1 DEF DemoLife!lifecycleVars, DemoStatusOf, DemoScopeOf
<1>2. ASSUME NEW g \in DemoGrantIds
      PROVE  /\ demoRow[g] \in DemoRow
             /\ DemoStatusOf[g] = demoRow[g].status /\ DemoScopeOf[g] = DemoScope(demoRow[g])
      BY <1>2 DEF DemoOK, DemoStatusOf, DemoScopeOf
<1>3. ASSUME NEW g \in DemoGrantIds, NEW st \in {"pending", "denied", "revoked"},
             demoRow' = [demoRow EXCEPT ![g].status = st]
      PROVE  /\ DemoStatusOf' = [DemoStatusOf EXCEPT ![g] = st]
             /\ DemoScopeOf' = [DemoScopeOf EXCEPT ![g] =
                  IF st = "revoked" THEN demoRow[g].caps ELSE DemoAsked]
             /\ DemoScopeOf[g] = (IF st = "revoked" THEN demoRow[g].caps ELSE DemoAsked)
                  => UNCHANGED DemoScopeOf
  <2> DEFINE row == [demoRow[g] EXCEPT !.status = st]
  <2>1. row \in DemoRow /\ row.status = st /\ row.caps = demoRow[g].caps
        BY <1>2 DEF DemoRow
  <2>2. demoRow' = [demoRow EXCEPT ![g] = row]
        BY <1>3
  <2> HIDE DEF row
  <2>3. DemoScope(row) = IF st = "revoked" THEN demoRow[g].caps ELSE DemoAsked
        BY <2>1 DEF DemoScope
  <2>4. /\ DemoStatusOf' = [DemoStatusOf EXCEPT ![g] = st]
        /\ DemoScopeOf' = [DemoScopeOf EXCEPT ![g] = DemoScope(row)]
        BY <2>1, <2>2, DemoStatuses
  <2>5. DemoScopeOf[g] = DemoScope(row) => UNCHANGED DemoScopeOf
        BY <2>4 DEF DemoScopeOf
  <2> QED BY <2>3, <2>4, <2>5
<1>4. ASSUME NEW g \in DemoGrantIds, DemoGrantFor(g)
      PROVE  [DemoLife!LNext]_(DemoLife!lifecycleVars)
  <2>1. CASE UNCHANGED demoRow
        BY <1>1, <2>1
  <2>2. ASSUME demoRow[g].status = "none", demoRow' = [demoRow EXCEPT ![g].status = "pending"]
        PROVE  DemoLife!LNext
    <3>1. DemoLife!LRequest(g, DemoAsked)
          BY <1>2, <1>3, <2>2 DEF DemoLife!LRequest, DemoLife!Become
    <3> QED BY <3>1 DEF DemoLife!LNext
  <2> QED BY <1>4, <2>1, <2>2 DEF DemoGrantFor
<1>5. ASSUME NEW g \in DemoGrantIds, DemoApprove(g) PROVE DemoLife!LNext
  <2>1. PICK C \in (SUBSET DemoAsked) \ {{}} :
          demoRow' = [demoRow EXCEPT ![g] = [status |-> "approved", caps |-> C]]
        BY <1>5 DEF DemoApprove
  <2> DEFINE row == [status |-> "approved", caps |-> C]
  <2>2. row \in DemoRow /\ row.status = "approved" /\ DemoScope(row) = C
        BY DEF DemoRow, DemoScope
  <2>3. demoRow' = [demoRow EXCEPT ![g] = row]
        BY <2>1
  <2> HIDE DEF row
  <2>4. demoRow[g].status = "pending" /\ DemoScope(demoRow[g]) = DemoAsked
        BY <1>5 DEF DemoApprove, DemoScope
  <2>5. /\ DemoStatusOf' = [DemoStatusOf EXCEPT ![g] = "approved"]
        /\ DemoScopeOf' = [DemoScopeOf EXCEPT ![g] = C]
        BY <2>2, <2>3, DemoStatuses
  <2>6. DemoLife!LApprove(g, C)
        BY <1>2, <2>4, <2>5 DEF DemoLife!LApprove, DemoLife!Become
  <2> QED BY <2>6 DEF DemoLife!LNext
<1>6. ASSUME NEW g \in DemoGrantIds, DemoDeny(g) PROVE DemoLife!LNext
  <2>1. DemoScope(demoRow[g]) = DemoAsked
        BY <1>6 DEF DemoDeny, DemoScope
  <2>2. DemoLife!LDeny(g)
        BY <1>2, <1>3, <1>6, <2>1 DEF DemoDeny, DemoLife!LDeny, DemoLife!Become
  <2> QED BY <2>2 DEF DemoLife!LNext
<1>7. ASSUME NEW g \in DemoGrantIds, DemoRevoke(g) PROVE DemoLife!LNext
  <2>1. DemoScope(demoRow[g]) = demoRow[g].caps
        BY <1>7 DEF DemoRevoke, DemoScope
  <2>2. DemoLife!LRevoke(g)
        BY <1>2, <1>3, <1>7, <2>1 DEF DemoRevoke, DemoLife!LRevoke, DemoLife!Become
  <2> QED BY <2>2 DEF DemoLife!LNext
<1>8. ASSUME DemoRequest \/ DemoLoadGrant
      PROVE  UNCHANGED demoRow \/ \E g \in DemoGrantIds : DemoGrantFor(g)
      BY <1>8 DEF DemoRequest, DemoLoadGrant
<1>9. ASSUME DemoStep, ~(DemoRequest \/ DemoLoadGrant) PROVE UNCHANGED demoRow
      BY <1>9 DEF DemoStep, DemoWait, DemoRegister, DemoPoll, DemoGetToken, DemoTry
<1>10. CASE DemoTokenEnds \/ UNCHANGED demoVars
       BY <1>1, <1>10 DEF DemoTokenEnds, demoVars
<1> QED BY <1>1, <1>4, <1>5, <1>6, <1>7, <1>8, <1>9, <1>10, Zenon DEF DemoNext

\* The grants the demo asks for, waits for and asks for again (main.rs) live as
\* the registry lets a grant live, and are never approved for more than it asked.
THEOREM DemoMeetsLifecycle == DemoSpec => DemoLife!LSpec
<1>1. DemoInit => DemoLife!LInit
      BY DEF DemoInit, DemoScope, DemoStatusOf, DemoScopeOf, DemoLife!LInit
<1>2. DemoInv => DemoOK
      BY DEF DemoInv
<1> QED BY <1>1, <1>2, DemoLifeStep, DemoInvariance, PTL DEF DemoSpec, DemoLife!LSpec

\* The grant the approval page is opened for, requested before the first state.
PageStatusOf == [g \in {"grant"} |-> pageGrant.status]

PageScopeOf == [g \in {"grant"} |-> pageGrant.caps]

PageLife ==
  INSTANCE GrantLifecycle
  WITH Grants <- {"grant"}, Keys <- PageCaps, status <- PageStatusOf, scope <- PageScopeOf

\* Nobody narrows the grant before it is decided.
PageWhole == pageGrant.status = "pending" => pageGrant.caps = PageCaps

\* A step of the page and its registry is a step of the life cycle or none.
LEMMA PageLifeStep ==
  PageTypeOK /\ PageWhole /\ [PageNext]_pageVars =>
    PageWhole' /\ [PageLife!LNext]_(PageLife!lifecycleVars)
<1> SUFFICES ASSUME PageTypeOK, PageWhole, [PageNext]_pageVars
             PROVE  PageWhole' /\ [PageLife!LNext]_(PageLife!lifecycleVars)
    OBVIOUS
<1>1. CASE UNCHANGED pageGrant
      BY <1>1 DEF PageWhole, PageLife!lifecycleVars, PageStatusOf, PageScopeOf
<1>2. ASSUME NEW st \in {"approved", "denied"}, NEW C \in SUBSET PageCaps,
             pageGrant.status = "pending",
             st = "denied" => C = PageCaps,
             pageGrant'.status = st, pageGrant'.caps = C
      PROVE  PageWhole' /\ PageLife!LNext
  <2>1. /\ PageStatusOf["grant"] = "pending" /\ PageScopeOf["grant"] = PageCaps
        /\ PageStatusOf' = [PageStatusOf EXCEPT !["grant"] = st]
        /\ PageScopeOf' = [PageScopeOf EXCEPT !["grant"] = C]
        /\ C = PageCaps => PageScopeOf' = PageScopeOf
        BY <1>2 DEF PageWhole, PageStatusOf, PageScopeOf
  <2> HIDE DEF PageStatusOf, PageScopeOf
  <2>2. ASSUME st = "approved" PROVE PageLife!LNext
    <3>1. PageLife!LApprove("grant", C)
          BY <1>2, <2>1, <2>2 DEF PageLife!LApprove, PageLife!Become
    <3> QED BY <3>1 DEF PageLife!LNext
  <2>3. ASSUME st = "denied" PROVE PageLife!LNext
    <3>1. PageLife!LDeny("grant")
          BY <1>2, <2>1, <2>3 DEF PageLife!LDeny, PageLife!Become
    <3> QED BY <3>1 DEF PageLife!LNext
  <2>4. PageWhole'
        BY <1>2 DEF PageWhole
  <2> QED BY <2>2, <2>3, <2>4
<1>3. ASSUME NEW t \in PageTasks, PageDecided(t), pageGrant' # pageGrant
      PROVE  PageWhole' /\ PageLife!LNext
  <2> DEFINE k == pageTask[t]
             st == IF k.op = "approve" THEN "approved" ELSE "denied"
             C == IF st = "denied" THEN pageGrant.caps ELSE k.caps
  <2>1. /\ k \in PageInFlight /\ k.op \in {"approve", "deny"} /\ pageGrant.status = "pending"
        /\ pageGrant' = [status |-> st, by |-> "page", confirmed |-> k.confirmed, caps |-> C]
        BY <1>3 DEF PageDecided, PageTypeOK
  <2>2. st \in {"approved", "denied"} /\ C \in SUBSET PageCaps /\ (st = "denied" => C = PageCaps)
        BY <2>1 DEF PageInFlight, PageIdle, PageWhole
  <2>3. pageGrant'.status = st /\ pageGrant'.caps = C
        BY <2>1
  <2> HIDE DEF st, C
  <2> QED BY <1>2, <2>1, <2>2, <2>3
<1>4. CASE PageElsewhere
  <2>1. PICK st \in {"approved", "denied"} :
          pageGrant' = [pageGrant EXCEPT !.status = st, !.by = "other"]
        BY <1>4 DEF PageElsewhere
  <2>2. pageGrant.status = "pending" /\ pageGrant.caps = PageCaps
        BY <1>4 DEF PageElsewhere, PageWhole
  <2>3. pageGrant'.status = st /\ pageGrant'.caps = PageCaps
        BY <2>1, <2>2 DEF PageTypeOK, PageRow
  <2> QED BY <1>2, <2>2, <2>3
<1>5. ASSUME PageNext, ~PageElsewhere, \A t \in PageTasks : ~PageDecided(t)
      PROVE  UNCHANGED pageGrant
      BY <1>5 DEF PageNext, PageProgress, PageHealth, PageGet, PageAnswer, PageRetry,
           PageApproveClick, PageApproveFinal, PageSign, PageDeny, PageRemove, PageRestore,
           PageConfirmRemove, PageContinue, PageReopen
<1>6. CASE UNCHANGED pageVars
      BY <1>1, <1>6 DEF pageVars
<1> QED BY <1>1, <1>3, <1>4, <1>5, <1>6

\* However the page's answers, other tabs and a human who comes back overlap
\* (App.tsx), the grant it shows is decided once and never for more than was
\* asked: every step is a step of the life cycle.
THEOREM PageMeetsLifecycle == PageSpec => [][PageLife!LNext]_(PageLife!lifecycleVars)
<1>1. PageInit => PageWhole
      BY DEF PageInit, PageWhole
<1>2. PageInv => PageTypeOK
      BY DEF PageInv
<1> QED BY <1>1, <1>2, PageLifeStep, PageInvariant, PTL DEF PageSpec
=============================================================================
