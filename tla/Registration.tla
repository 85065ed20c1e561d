---------------------------- MODULE Registration ----------------------------
(***************************************************************************)
(* How agents come into the registry and leave it: the handlers of         *)
(* crates/registry/src/handlers/agents.rs with their queries on            *)
(* agent_manifests and the one-time passwords of services/cache.rs.        *)
(*                                                                         *)
(* As in Grants, a handler is one request in flight and each call it       *)
(* awaits is an action; a request may break off at any of them (an error,  *)
(* a client that hangs up, a restart).  What follows the last of them, an  *)
(* attempt to write the audit event and the answer, changes no state here. *)
(***************************************************************************)
EXTENDS Database, FiniteSets

CONSTANTS
  RegTasks,      \* requests being served at a time
  RegAgents,     \* agent ids
  RegManifests,  \* bound: the manifests sent, [id, key, name], one human's
  RegOtps        \* one-time passwords, none of them a key

ASSUME RegAssumption ==
  /\ RegOtps \cap {m.key : m \in RegManifests} = {}
  /\ \A m \in RegManifests : DOMAIN m = {"id", "key", "name"} /\ m.id \in RegAgents

VARIABLES
  regOp,         \* [RegTasks -> what the request knows and does next]
  regOtp,        \* Redis: [RegOtps -> "unissued", "live" or "gone"]
  regTold,       \* history: agents whose deletion is audited and answered with 204
  regRaced       \* history: agents inserted while a deletion was looking for them

regRest == <<regTold, regRaced>>
regVars == <<primary, stream, regOp, regOtp, regRest>>

-----------------------------------------------------------------------------
RegAbsent == [active |-> FALSE, m |-> "none"]

\* Keys that sign what is sent.
RegSigners == {m.key : m \in RegManifests}

\* A row of agent_manifests; `by' is the key whose signature is on it, or the OTP
\* the registry signed it for.
RegRow == [active : BOOLEAN, m : RegManifests, by : RegOtps \cup RegSigners]

RegTable == [RegAgents -> RegRow \cup {RegAbsent}]

RegIdle == [at |-> "idle"]

RegOperation ==
  {RegIdle}
    \cup [at : {"exists", "insert"}, m : RegManifests, by : RegOtps \cup RegSigners]
    \cup [at : {"recheck"}, a : RegAgents]

RegInit ==
  /\ DbInit([a \in RegAgents |-> RegAbsent])
  /\ regOp = [h \in RegTasks |-> RegIdle]
  /\ regOtp = [o \in RegOtps |-> "unissued"]
  /\ regTold = {} /\ regRaced = {}

RegGoto(h, o) == regOp' = [regOp EXCEPT ![h] = o]

-----------------------------------------------------------------------------
(* POST /v1/agents/register and /v1/agents/bootstrap *)

\* verify_manifest_bytes: with the public key the manifest itself names.
RegVerified(m, signer) == signer = m.key

\* agent_exists, active or not.
RegTaken(id) == primary[id] # RegAbsent

\* register_agent with the manifest m, signed with some key.
RegStart(h) ==
  /\ regOp[h] = RegIdle
  /\ \E m \in RegManifests, k \in RegSigners : RegGoto(h, [at |-> "exists", m |-> m, by |-> k])
  /\ UNCHANGED <<dbVars, regOtp, regRest>>

\* A slip: the password is read and left in place.
RegBootstrapGet(h) ==
  /\ regOp[h] = RegIdle
  /\ \E m \in RegManifests, o \in RegOtps :
       /\ regOtp[o] = "live"
       /\ RegGoto(h, [at |-> "exists", m |-> m, by |-> o])
  /\ UNCHANGED <<dbVars, regOtp, regRest>>

\* bootstrap_agent: GETDEL takes the password before anything else is looked
\* at; a password that is not there is refused.
RegBootstrap(h) ==
  /\ regOp[h] = RegIdle
  /\ \E m \in RegManifests, o \in RegOtps :
       /\ regOtp[o] = "live"
       /\ regOtp' = [regOtp EXCEPT ![o] = "gone"]
       /\ RegGoto(h, [at |-> "exists", m |-> m, by |-> o])
  /\ UNCHANGED <<dbVars, regRest>>

\* agent_exists on the primary.  An id that is taken ends both requests:
\* register says "already_registered", whatever the manifest and unverified,
\* bootstrap refuses, and its password stays spent.  Otherwise the manifest's
\* signature is verified, or made by the registry, which may fail.
RegExists(h) ==
  LET o == regOp[h] IN
  /\ o.at = "exists"
  /\ \/ RegGoto(h, RegIdle)
     \/ /\ ~RegTaken(o.m.id)
        /\ o.by \in RegOtps \/ RegVerified(o.m, o.by)
        /\ RegGoto(h, [o EXCEPT !.at = "insert"])
  /\ UNCHANGED <<dbVars, regOtp, regRest>>

\* The primary key and the index on (human, name).
RegFree(m) ==
  \A a \in RegAgents : primary[a] # RegAbsent => a # m.id /\ primary[a].m.name # m.name

RegPut(h) ==
  LET m == regOp[h].m IN
  /\ Commit([primary EXCEPT ![m.id] = [active |-> TRUE, m |-> m, by |-> regOp[h].by]])
  /\ regRaced' = IF \E k \in RegTasks : regOp[k] = [at |-> "recheck", a |-> m.id]
                 THEN regRaced \cup {m.id} ELSE regRaced

\* A slip: ON CONFLICT (id) DO UPDATE.
RegInsertOver(h) ==
  /\ regOp[h].at = "insert"
  /\ RegPut(h)
  /\ RegGoto(h, RegIdle)
  /\ UNCHANGED <<regOtp, regTold>>

\* insert_agent is a plain INSERT: where a key is taken by now it fails.
RegInsert(h) ==
  /\ regOp[h].at = "insert"
  /\ \/ RegFree(regOp[h].m) /\ RegPut(h)
     \/ ~RegFree(regOp[h].m) /\ UNCHANGED <<dbVars, regRaced>>
  /\ RegGoto(h, RegIdle)
  /\ UNCHANGED <<regOtp, regTold>>

-----------------------------------------------------------------------------
(* DELETE /v1/agents/:id *)

\* deactivate_agent: UPDATE .. WHERE is_active, on the primary.
RegDelete(h) ==
  /\ regOp[h] = RegIdle
  /\ \E a \in RegAgents :
       \/ /\ primary[a].active
          /\ Commit([primary EXCEPT ![a].active = FALSE])
          /\ regTold' = regTold \cup {a}
          /\ UNCHANGED regOp
       \/ /\ ~primary[a].active
          /\ RegGoto(h, [at |-> "recheck", a |-> a])
          /\ UNCHANGED <<dbVars, regTold>>
  /\ UNCHANGED <<regOtp, regRaced>>

\* A slip: an agent that was not deactivated is taken to be inactive.
RegRecheckNot(h) ==
  /\ regOp[h].at = "recheck"
  /\ regTold' = regTold \cup {regOp[h].a}
  /\ RegGoto(h, RegIdle)
  /\ UNCHANGED <<dbVars, regOtp, regRaced>>

\* No row was changed: agent_exists, on a replica, tells "not there" (404)
\* from "already inactive".
RegRecheck(h) ==
  /\ regOp[h].at = "recheck"
  /\ \E t \in Views :
       regTold' = IF t[regOp[h].a] = RegAbsent THEN regTold ELSE regTold \cup {regOp[h].a}
  /\ RegGoto(h, RegIdle)
  /\ UNCHANGED <<dbVars, regOtp, regRaced>>

-----------------------------------------------------------------------------
\* A call fails, the client hangs up or the process dies: what was committed
\* stays, the rest of the request is not done.
RegBreakOff(h) ==
  /\ regOp[h] # RegIdle
  /\ RegGoto(h, RegIdle)
  /\ UNCHANGED <<dbVars, regOtp, regRest>>

\* store_otp; nothing in the repository calls it.  A password is not reused.
RegStoreOtp(o) ==
  /\ regOtp[o] = "unissued"
  /\ regOtp' = [regOtp EXCEPT ![o] = "live"]
  /\ UNCHANGED <<dbVars, regOp, regRest>>

\* Its TTL passes.
RegOtpExpires(o) ==
  /\ regOtp[o] = "live"
  /\ regOtp' = [regOtp EXCEPT ![o] = "gone"]
  /\ UNCHANGED <<dbVars, regOp, regRest>>

RegReplicate ==
  /\ \E r \in Replicas : Replicate(r)
  /\ UNCHANGED <<regOp, regOtp, regRest>>

RegNext ==
  \/ \E h \in RegTasks :
       \/ RegStart(h) \/ RegBootstrap(h) \/ RegExists(h) \/ RegInsert(h)
       \/ RegDelete(h) \/ RegRecheck(h) \/ RegBreakOff(h)
  \/ \E o \in RegOtps : RegStoreOtp(o) \/ RegOtpExpires(o)
  \/ RegReplicate

RegSpec == RegInit /\ [][RegNext]_regVars

-----------------------------------------------------------------------------
RegTypeOK ==
  /\ primary \in RegTable
  /\ stream \in [Replicas -> Seq(RegTable)]
  /\ regOp \in [RegTasks -> RegOperation]
  /\ regOtp \in [RegOtps -> {"unissued", "live", "gone"}]
  /\ regTold \subseteq RegAgents
  /\ regRaced \subseteq RegAgents

\* However registrations of one id and one name overlap, the first manifest
\* stays: a row is never replaced, re-activated or removed, and no two agents
\* of the human share a name.
RegFirstStays ==
  [][\A a \in RegAgents : primary[a] # RegAbsent =>
       /\ primary'[a].m = primary[a].m
       /\ primary'[a].active => primary[a].active
       /\ \A b \in RegAgents \ {a} :
            primary'[b] # RegAbsent => primary'[b].m.name # primary'[a].m.name]_regVars

\* An agent on record got there by its own key's signature or by a password, and
\* one password brings in at most one agent, whatever overlaps or breaks off; one
\* that is spent or lost brings in none from then on.
RegOtpOnce ==
  /\ \A a \in RegAgents : RegTaken(a) =>
       primary[a].by \in RegOtps \/ RegVerified(primary[a].m, primary[a].by)
  /\ \A o \in RegOtps :
       LET made == {a \in RegAgents : RegTaken(a) /\ primary[a].by = o}
       IN  Cardinality(made) <= 1 /\ (made # {} => regOtp[o] = "gone")

\* An agent whose deletion was confirmed (204, and a revocation in the audit
\* log) is on record and inactive, for good, unless it was being registered
\* while the deletion was between its UPDATE on the primary and its look at a
\* replica: there "exists but wasn't deactivated" is not "already inactive".
RegDeletionHolds ==
  \A a \in regTold : primary[a] # RegAbsent /\ (primary[a].active => a \in regRaced)
=============================================================================
