----------------------------- MODULE DemoAgent -----------------------------
(***************************************************************************)
(* The demo (services/demo-agent/src/main.rs): an agent that goes once     *)
(* through registration, a grant, the wait for the human and a token, and  *)
(* then makes four requests to a mock service provider, which has the      *)
(* token verified for each.  Registry and verifier are the environment:    *)
(* they do what Grants and Tokens say, or fail.                            *)
(***************************************************************************)
EXTENDS Integers, Sequences

CONSTANTS
  DemoTries,    \* wait_for_registry: 30
  DemoPolls,    \* wait_for_approval: 300
  DemoGrants    \* bound: grants of this agent and provider, 1..DemoGrants

ASSUME DemoAssumption ==
  {DemoTries, DemoPolls, DemoGrants} \subseteq Nat \ {0}

VARIABLES
  demo,         \* where the agent is and what it has learnt
  demoRow,      \* registry: [1..DemoGrants -> the grant]
  demoToken,    \* registry: the token's capabilities and whether it still verifies
  demoResults,  \* the mock provider's answers so far: [action -> status]
  demoBroke     \* history: a request to the registry has failed

demoVars == <<demo, demoRow, demoToken, demoResults, demoBroke>>

-----------------------------------------------------------------------------
DemoGrantIds == 1..DemoGrants

\* demo_capabilities: what the agent asks for; run_demo_requests: what it tries.
DemoAsked == {"read:calendar", "write:files", "delete:files"}
DemoActions == <<"read:calendar", "write:files", "delete:files", "transact:payments">>

DemoRow == [status : {"none", "pending", "approved", "denied", "revoked"},
            caps : SUBSET DemoAsked]

DemoPlaces ==
  {"wait", "register", "request", "poll", "load", "get", "run", "done", "failed"}

\* n counts the tries of a loop; grant 0 is none.
DemoProcess == [at : DemoPlaces, n : Nat, grant : 0..DemoGrants]

DemoNoToken == [caps |-> {}, live |-> FALSE]

DemoInit ==
  /\ demo = [at |-> "wait", n |-> 0, grant |-> 0]
  /\ demoRow = [g \in DemoGrantIds |-> [status |-> "none", caps |-> {}]]
  /\ demoToken = DemoNoToken
  /\ demoResults = <<>>
  /\ demoBroke = FALSE

DemoGoto(place) == demo' = [demo EXCEPT !.at = place, !.n = 0]

\* Once more round the loop, up to its limit; then bail.
DemoAgain(limit) ==
  IF demo.n + 1 < limit THEN demo' = [demo EXCEPT !.n = @ + 1] ELSE DemoGoto("failed")

-----------------------------------------------------------------------------
\* wait_for_registry: ready, or another try.
DemoWait ==
  /\ demo.at = "wait"
  /\ DemoGoto("register") \/ DemoAgain(DemoTries)
  /\ UNCHANGED <<demoRow, demoToken, demoResults, demoBroke>>

\* client.register(): an error may mean "already registered"; it goes on.
DemoRegister ==
  /\ demo.at = "register"
  /\ DemoGoto("request")
  /\ UNCHANGED <<demoRow, demoToken, demoResults, demoBroke>>

\* POST /v1/grants/request: the pending grant if there is one, else a new one;
\* either way "pending".
DemoGrantFor(g) ==
  \/ demoRow[g].status = "pending" /\ UNCHANGED demoRow
  \/ /\ \A k \in DemoGrantIds : demoRow[k].status # "pending"
     /\ demoRow[g].status = "none"
     /\ \A k \in DemoGrantIds : k < g => demoRow[k].status # "none"
     /\ demoRow' = [demoRow EXCEPT ![g].status = "pending"]

\* request_grant: "pending" is what it expects; an error bails, also when only the
\* answer is lost and the grant is there.
DemoRequest ==
  /\ demo.at = "request"
  /\ \/ \E g \in DemoGrantIds :
          /\ DemoGrantFor(g)
          /\ demo' = [demo EXCEPT !.at = "poll", !.grant = g]
          /\ UNCHANGED demoBroke
     \/ /\ DemoGoto("failed")
        /\ demoBroke' = TRUE
        /\ UNCHANGED demoRow \/ \E g \in DemoGrantIds : DemoGrantFor(g)
  /\ UNCHANGED <<demoToken, demoResults>>

\* wait_for_approval: only "approved" ends the wait; a denial, too, is waited
\* out.
DemoPoll ==
  /\ demo.at = "poll"
  /\ \/ demoRow[demo.grant].status = "approved" /\ DemoGoto("load")
     \/ DemoAgain(DemoPolls)
  /\ UNCHANGED <<demoRow, demoToken, demoResults, demoBroke>>

\* A slip: "pending" is treated like every other error.
DemoLoadGrantGoingOn ==
  /\ demo.at = "load"
  /\ DemoGoto("get")
  /\ (\E g \in DemoGrantIds : DemoGrantFor(g)) \/ UNCHANGED demoRow
  /\ UNCHANGED <<demoToken, demoResults, demoBroke>>

\* The approved grant is requested again, to load it into the SDK.  No grant of
\* the pair is pending now, so the registry makes a new one and says "pending":
\* "Still pending? Shouldn't happen after we waited", and the agent bails.  Any
\* other error is only a warning; a new grant whose answer was lost stays behind, where
\* nobody looks, and is left out.
DemoLoadGrant ==
  /\ demo.at = "load"
  /\ \/ /\ \E g \in DemoGrantIds : DemoGrantFor(g)
        /\ DemoGoto("failed")
        /\ UNCHANGED demoBroke
     \/ DemoGoto("get") /\ demoBroke' = TRUE /\ UNCHANGED demoRow
  /\ UNCHANGED <<demoToken, demoResults>>

\* client.get_token has no grant (CapabilityNotGranted), so issue_token_directly
\* asks with the grant's id: refused unless the grant is approved.
DemoGetToken ==
  /\ demo.at = "get"
  /\ \/ /\ demoRow[demo.grant].status = "approved"
        /\ demoToken' = [caps |-> demoRow[demo.grant].caps, live |-> TRUE]
        /\ DemoGoto("run")
        /\ UNCHANGED demoBroke
     \/ DemoGoto("failed") /\ demoBroke' = TRUE /\ UNCHANGED demoToken
  /\ UNCHANGED <<demoRow, demoResults>>

\* verify_token: the verifier cannot be asked, or says what it thinks of the
\* token.
DemoVerify == {"unreachable", IF demoToken.live THEN "valid" ELSE "invalid"}

\* A slip: the provider takes any valid token.
DemoHasAny(action) == TRUE

\* has_capability over what the verifier returned for the token.
DemoHas(action) == action \in demoToken.caps

\* What the mock provider's handler of an action answers.
DemoHandle(action) ==
  {IF v = "unreachable" THEN 502
   ELSE IF v = "valid" /\ DemoHas(action) THEN 200 ELSE 403 : v \in DemoVerify}

\* The next request; 0 stands for no answer.
DemoTry ==
  /\ demo.at = "run"
  /\ \E status \in {0} \cup DemoHandle(DemoActions[demo.n + 1]) :
       demoResults' = Append(demoResults, status)
  /\ IF demo.n + 1 < 4 THEN demo' = [demo EXCEPT !.n = @ + 1] ELSE DemoGoto("done")
  /\ UNCHANGED <<demoRow, demoToken, demoBroke>>

-----------------------------------------------------------------------------
\* The human: approves all or part of what is asked, denies, revokes.
DemoApprove(g) ==
  /\ demoRow[g].status = "pending"
  /\ \E C \in (SUBSET DemoAsked) \ {{}} :
       demoRow' = [demoRow EXCEPT ![g] = [status |-> "approved", caps |-> C]]
  /\ UNCHANGED <<demo, demoToken, demoResults, demoBroke>>

DemoDeny(g) ==
  /\ demoRow[g].status = "pending"
  /\ demoRow' = [demoRow EXCEPT ![g].status = "denied"]
  /\ UNCHANGED <<demo, demoToken, demoResults, demoBroke>>

DemoRevoke(g) ==
  /\ demoRow[g].status = "approved"
  /\ demoRow' = [demoRow EXCEPT ![g].status = "revoked"]
  /\ UNCHANGED <<demo, demoToken, demoResults, demoBroke>>

\* The token expires or is revoked.
DemoTokenEnds ==
  /\ demoToken.live
  /\ demoToken' = [demoToken EXCEPT !.live = FALSE]
  /\ UNCHANGED <<demo, demoRow, demoResults, demoBroke>>

-----------------------------------------------------------------------------
DemoStep ==
  \/ DemoWait \/ DemoRegister \/ DemoRequest \/ DemoPoll \/ DemoLoadGrant
  \/ DemoGetToken \/ DemoTry

DemoNext ==
  \/ DemoStep
  \/ \E g \in DemoGrantIds : DemoApprove(g) \/ DemoDeny(g) \/ DemoRevoke(g)
  \/ DemoTokenEnds

DemoSpec == DemoInit /\ [][DemoNext]_demoVars

-----------------------------------------------------------------------------
DemoOK ==
  /\ demo \in DemoProcess
  /\ demoRow \in [DemoGrantIds -> DemoRow]
  /\ demoToken \in [caps : SUBSET DemoAsked, live : BOOLEAN]

\* End to end, from the human's choice to the provider's answer: what is served
\* was approved by the human, and the payment never is.
DemoServedOnlyGranted ==
  \A i \in 1..Len(demoResults) :
    demoResults[i] = 200 =>
      /\ DemoActions[i] # "transact:payments"
      /\ DemoActions[i] \in demoRow[demo.grant].caps
      /\ demoRow[demo.grant].status \in {"approved", "revoked"}

\* The demo reaches its requests only when the registry has failed it: the call
\* meant to load the approved grant asks for a new one, and its success ends
\* the run.
DemoNeedsFailure == demo.at \in {"get", "run", "done"} => demoBroke
=============================================================================
