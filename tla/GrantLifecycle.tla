--------------------------- MODULE GrantLifecycle ---------------------------
(***************************************************************************)
(* What the registry promises about a capability grant, without handlers,  *)
(* replicas or time: a grant is requested once, decided at most once, may  *)
(* be revoked only after it was approved, and the kinds of capability it   *)
(* covers never grow.                                                      *)
(***************************************************************************)
CONSTANTS Grants,      \* grant identities
          Keys         \* kinds of capability (`capability_type_key')

VARIABLES status,      \* the grant_status column, "none" before the insert
          scope        \* the keys of the granted_capabilities column

lifecycleVars == <<status, scope>>

LInit ==
  /\ status = [g \in Grants |-> "none"]
  /\ scope = [g \in Grants |-> {}]

Become(g, from, to) ==
  /\ status[g] = from
  /\ status' = [status EXCEPT ![g] = to]

LRequest(g, K) ==
  /\ Become(g, "none", "pending")
  /\ scope' = [scope EXCEPT ![g] = K]

LApprove(g, K) ==
  /\ Become(g, "pending", "approved")
  /\ K \subseteq scope[g]
  /\ scope' = [scope EXCEPT ![g] = K]

LDeny(g) == Become(g, "pending", "denied") /\ UNCHANGED scope

LRevoke(g) == Become(g, "approved", "revoked") /\ UNCHANGED scope

LNext ==
  \E g \in Grants :
    \/ \E K \in SUBSET Keys : LRequest(g, K) \/ LApprove(g, K)
    \/ LDeny(g)
    \/ LRevoke(g)

LSpec == LInit /\ [][LNext]_lifecycleVars
=============================================================================
