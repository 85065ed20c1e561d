------------------------------- MODULE Parts -------------------------------
(***************************************************************************)
(* The parts of the system that stand beside Grants, Tokens and the audit  *)
(* trail, in one specification.  Each is a system of its own: it meets     *)
(* the registry only as its environment, or not at all, and shares no      *)
(* state with the others.  So nothing is lost by letting one of them run   *)
(* in a behaviour, chosen in its first state, while the rest stay as they  *)
(* began; and what holds here of a part holds of it alone.                 *)
(***************************************************************************)
EXTENDS SdkClient, SdkLimiter, Breaker, InFlight, Health, McpAgent, DemoAgent,
        Registration, ApprovalPage, SigningKey, Envelope

VARIABLE part    \* the part that runs

partsVars ==
  <<part, sdkVars, limVars, brVars, ifVars, hlVars, mcpVars, demoVars, regVars,
    pageVars, keyVars, env>>

PartNames ==
  {"sdk", "limiter", "breaker", "in flight", "health", "mcp", "demo",
   "registration", "page", "key", "envelope"}

PartsInit ==
  /\ part \in PartNames
  /\ SdkInit /\ LimInit /\ BrInit /\ IfInit /\ HlInit /\ McpInit /\ DemoInit
  /\ RegInit /\ PageInit /\ KeyInit /\ EnvInit
  /\ part # "breaker" => brConfig = CHOOSE c \in BrConfigs : TRUE

\* What all parts but x keep.
PartsKeep(x) ==
  /\ UNCHANGED part
  /\ x # "sdk" => UNCHANGED sdkVars
  /\ x # "limiter" => UNCHANGED limVars
  /\ x # "breaker" => UNCHANGED brVars
  /\ x # "in flight" => UNCHANGED ifVars
  /\ x # "health" => UNCHANGED hlVars
  /\ x # "mcp" => UNCHANGED mcpVars
  /\ x # "demo" => UNCHANGED demoVars
  /\ x # "registration" => UNCHANGED regVars
  /\ x # "page" => UNCHANGED pageVars
  /\ x # "key" => UNCHANGED keyVars
  /\ x # "envelope" => UNCHANGED env

PartsNext ==
  \/ part = "sdk" /\ SdkNext /\ PartsKeep("sdk")
  \/ part = "limiter" /\ LimNext /\ PartsKeep("limiter")
  \/ part = "breaker" /\ BrNext /\ PartsKeep("breaker")
  \/ part = "in flight" /\ IfNext /\ PartsKeep("in flight")
  \/ part = "health" /\ HlNext /\ PartsKeep("health")
  \/ part = "mcp" /\ McpNext /\ PartsKeep("mcp")
  \/ part = "demo" /\ DemoNext /\ PartsKeep("demo")
  \/ part = "registration" /\ RegNext /\ PartsKeep("registration")
  \/ part = "page" /\ PageNext /\ PartsKeep("page")
  \/ part = "key" /\ KeyNext /\ PartsKeep("key")
  \/ part = "envelope" /\ EnvNew /\ PartsKeep("envelope")

\* SdkFairness, BrFairness and HlFairness, each where its part runs.
PartsFairness ==
  /\ WF_sdkVars(part = "sdk" /\ SdkTick)
  /\ \A t \in SdkTasks : WF_sdkVars(part = "sdk" /\ SdkStep(t))
  /\ WF_brVars(part = "breaker" /\ BrTick)
  /\ \A c \in BrCalls : WF_brVars(part = "breaker" /\ BrRecord(c))
  /\ \A s \in HlServices :
       SF_hlVars(part = "health" /\ \E p \in HlProbes : HlProbeStarts(p, s))
  /\ \A p \in HlProbes : WF_hlVars(part = "health" /\ HlProbeGoesOn(p))

PartsSpec == PartsInit /\ [][PartsNext]_partsVars /\ PartsFairness

\* Every part keeps to its types.
PartsTypeOK ==
  /\ part \in PartNames
  /\ SdkTypeOK /\ LimBucketOK /\ BrTypeOK /\ IfTypeOK /\ HlTypeOK /\ McpTypeOK
  /\ DemoOK /\ RegTypeOK /\ PageTypeOK /\ KeyTypeOK
=============================================================================
