------------------------------- MODULE Health -------------------------------
(***************************************************************************)
(* Start-up and readiness of the two services: services/registry and       *)
(* services/verifier main.rs, their HealthState and the /health/ready      *)
(* handlers.  A probe is one request to /health/ready; what it answers     *)
(* decides whether the balancer sends the instance traffic (external).     *)
(* Postgres and Redis come and go; a process may crash at any point and be *)
(* started again.                                                          *)
(***************************************************************************)
EXTENDS Integers, Sequences

CONSTANT HlProbes   \* probes in flight at a time, for both services together

HlServices == {"registry", "verifier"}
HlStores == {"postgres", "redis"}

VARIABLES
  hl,         \* [HlServices -> the process]
  hlProbe,    \* [HlProbes -> the probe]
  hlUp,       \* [HlStores -> it answers]
  hlRouted    \* [HlServices -> the last probe was answered 200]

hlVars == <<hl, hlProbe, hlUp, hlRouted>>

-----------------------------------------------------------------------------
\* What main connects to, in order: DbPool::new, then CacheService::new in the
\* registry; the other way round in the verifier.  The first that fails ends
\* the process.  (So do a replica or Vault that cannot be reached: HlCrash.
\* audit.initialize does nothing.)
HlNeeds ==
  [registry |-> <<"postgres", "redis">>, verifier |-> <<"redis", "postgres">>]

HlDown ==
  [at |-> "down", done |-> 0, started |-> FALSE, ready |-> FALSE,
   cacheReady |-> FALSE, failed |-> FALSE]

\* `failed' is history: a check made for a probe has failed in this process.
HlProcess ==
  [at : {"down", "boot", "warm", "serving"}, done : 0..2, started : BOOLEAN,
   ready : BOOLEAN, cacheReady : BOOLEAN, failed : BOOLEAN]

HlNoProbe == [at |-> "idle"]

HlTypeOK ==
  /\ hl \in [HlServices -> HlProcess]
  /\ hlProbe \in [HlProbes -> {HlNoProbe} \cup [at : {"postgres", "redis"}, of : HlServices]]
  /\ hlUp \in [HlStores -> BOOLEAN]
  /\ hlRouted \in [HlServices -> BOOLEAN]

HlInit ==
  /\ hl = [s \in HlServices |-> HlDown]
  /\ hlProbe = [p \in HlProbes |-> HlNoProbe]
  /\ hlUp = [d \in HlStores |-> TRUE]
  /\ hlRouted = [s \in HlServices |-> FALSE]

-----------------------------------------------------------------------------
(* main *)

HlStart(s) ==
  /\ hl[s].at = "down"
  /\ hl' = [hl EXCEPT ![s].at = "boot"]
  /\ UNCHANGED <<hlProbe, hlUp, hlRouted>>

HlConnect(s) ==
  /\ hl[s].at = "boot"
  /\ hl[s].done < Len(HlNeeds[s])
  /\ hl' = [hl EXCEPT ![s] =
       IF hlUp[HlNeeds[s][hl[s].done + 1]] THEN [hl[s] EXCEPT !.done = @ + 1] ELSE HlDown]
  /\ UNCHANGED <<hlProbe, hlUp, hlRouted>>

\* The verifier warms up with one Redis check, whose failure only leaves
\* cache_ready unset.
HlWarmUp ==
  LET v == hl["verifier"] IN
  /\ v.at = "boot" /\ v.done = Len(HlNeeds["verifier"])
  /\ hl' = [hl EXCEPT !["verifier"].at = "warm", !["verifier"].cacheReady = hlUp["redis"]]
  /\ UNCHANGED <<hlProbe, hlUp, hlRouted>>

\* Bound to its port: started, and ready - the verifier only with its cache.
HlServe(s) ==
  /\ IF s = "registry"
       THEN hl[s].at = "boot" /\ hl[s].done = Len(HlNeeds[s])
       ELSE hl[s].at = "warm"
  /\ hl' = [hl EXCEPT ![s].at = "serving", ![s].started = TRUE,
                      ![s].ready = (s = "registry" \/ hl[s].cacheReady)]
  /\ UNCHANGED <<hlProbe, hlUp, hlRouted>>

HlCrash(s) ==
  /\ hl[s].at # "down"
  /\ hl' = [hl EXCEPT ![s] = HlDown]
  /\ hlProbe' = [p \in HlProbes |->
       IF hlProbe[p] # HlNoProbe /\ hlProbe[p].of = s THEN HlNoProbe ELSE hlProbe[p]]
  /\ UNCHANGED <<hlUp, hlRouted>>

-----------------------------------------------------------------------------
(* GET /health/ready *)

\* A slip: the body says not ready, but the status is 200 all the same.
HlAnswerOk(p, s, ok) ==
  /\ hlProbe' = [hlProbe EXCEPT ![p] = HlNoProbe]
  /\ hlRouted' = [hlRouted EXCEPT ![s] = TRUE]

HlAnswer(p, s, ok) ==
  /\ hlProbe' = [hlProbe EXCEPT ![p] = HlNoProbe]
  /\ hlRouted' = [hlRouted EXCEPT ![s] = ok]

\* is_ready, in the verifier is_cache_ready too; nobody answers for a process
\* that is not serving.
HlMarkedReady(s) ==
  hl[s].at = "serving" /\ hl[s].ready /\ (s = "verifier" => hl[s].cacheReady)

HlProbeStarts(p, s) ==
  /\ hlProbe[p] = HlNoProbe
  /\ IF HlMarkedReady(s)
       THEN /\ hlProbe' = [hlProbe EXCEPT ![p] =
                 [at |-> IF s = "registry" THEN "postgres" ELSE "redis", of |-> s]]
            /\ UNCHANGED hlRouted
       ELSE HlAnswer(p, s, FALSE)
  /\ UNCHANGED <<hl, hlUp>>

\* mark_not_ready; mark_cache_not_ready clears both of the verifier's flags.
\* Nothing in either service sets them again.
HlCheckFailed(s) ==
  hl' = [hl EXCEPT ![s].failed = TRUE, ![s].ready = FALSE,
                   ![s].cacheReady = IF s = "verifier" THEN FALSE ELSE @]

HlCheckPostgres(p) ==
  LET s == hlProbe[p].of IN
  /\ hlProbe[p].at = "postgres"
  /\ \/ /\ hlUp["postgres"]
        /\ hlProbe' = [hlProbe EXCEPT ![p].at = "redis"]
        /\ UNCHANGED <<hl, hlRouted>>
     \/ ~hlUp["postgres"] /\ HlCheckFailed(s) /\ HlAnswer(p, s, FALSE)
  /\ UNCHANGED hlUp

HlCheckRedis(p) ==
  LET s == hlProbe[p].of IN
  /\ hlProbe[p].at = "redis"
  /\ \/ hlUp["redis"] /\ HlAnswer(p, s, TRUE) /\ UNCHANGED hl
     \/ ~hlUp["redis"] /\ HlCheckFailed(s) /\ HlAnswer(p, s, FALSE)
  /\ UNCHANGED hlUp

HlStoreChanges(d) ==
  /\ hlUp' = [hlUp EXCEPT ![d] = ~@]
  /\ UNCHANGED <<hl, hlProbe, hlRouted>>

-----------------------------------------------------------------------------
HlBoot(s) == HlStart(s) \/ HlConnect(s) \/ HlServe(s) \/ (s = "verifier" /\ HlWarmUp)

HlProbeGoesOn(p) == HlCheckPostgres(p) \/ HlCheckRedis(p)

HlNext ==
  \/ \E s \in HlServices : HlBoot(s) \/ HlCrash(s)
  \/ \E p \in HlProbes : (\E s \in HlServices : HlProbeStarts(p, s)) \/ HlProbeGoesOn(p)
  \/ \E d \in HlStores : HlStoreChanges(d)

\* Each service is probed again and again, and a probe that has begun ends.
HlFairness ==
  /\ \A s \in HlServices : SF_hlVars(\E p \in HlProbes : HlProbeStarts(p, s))
  /\ \A p \in HlProbes : WF_hlVars(HlProbeGoesOn(p))

HlSpec == HlInit /\ [][HlNext]_hlVars /\ HlFairness

-----------------------------------------------------------------------------
\* Once a check has failed the process is out of rotation for good: whatever
\* probes were under way beside the failed one, readiness never comes back
\* without a restart (handlers.rs:499, health.rs `readiness').
HlFailedStaysOut == \A s \in HlServices : hl[s].failed => ~HlMarkedReady(s)

\* That, and the balancer learns the truth: while Redis or Postgres is gone for
\* good the registry gets no traffic, without Redis neither does the verifier;
\* a ready process whose stores work does.
HlRouting ==
  /\ []HlFailedStaysOut
  /\ <>[](~hlUp["redis"]) => <>[](\A s \in HlServices : ~hlRouted[s])
  /\ <>[](~hlUp["postgres"]) => <>[](~hlRouted["registry"])
  /\ \A s \in HlServices :
       <>[](HlMarkedReady(s) /\ \A d \in HlStores : hlUp[d]) => <>[](hlRouted[s])

-----------------------------------------------------------------------------
(* What the tests say and the code does not do. *)

\* "verifier should recover within 30 seconds after Redis restart", "registry
\* should recover within 60 seconds after PostgreSQL restart": a process that
\* lost a store answers a probe with ready again, sooner or later, when both
\* stores are back for good.
HlRecovers ==
  \A s \in HlServices :
    <>[](hl[s].failed /\ \A d \in HlStores : hlUp[d]) => []<>(hlRouted[s])
=============================================================================
