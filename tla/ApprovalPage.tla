---------------------------- MODULE ApprovalPage ----------------------------
(***************************************************************************)
(* The page on which the human decides a pending grant: services/          *)
(* approval-ui/src/pages/ApprovalPage.tsx, the risk rules of               *)
(* utils/capabilities.ts and the calls of api.ts.  One grant, one tab.     *)
(*                                                                         *)
(* Each async function the page has started is a task; it goes on whatever *)
(* is shown, and sets the page's state when its answer arrives.  A click   *)
(* sees what is shown.  The rows stay in the page, and can be used from    *)
(* the keyboard, under the confirmation dialog.                            *)
(***************************************************************************)
EXTENDS Naturals, FiniteSets

CONSTANTS
  PageTasks,     \* bound: async functions in flight at a time
  PageCaps,      \* the capabilities the agent asks for
  PageTwoStep    \* those of type delete or transact: requiresTwoStep, risk "high"

ASSUME PageAssumption == PageTasks # {} /\ PageTwoStep \subseteq PageCaps

VARIABLES
  page,          \* PageState, enabledIndices, pendingRemoveIndex (a set of at most one)
  pageTask,      \* [PageTasks -> what is in flight]
  pageGrant      \* registry: the grant; `by' and `confirmed' are history

pageVars == <<page, pageTask, pageGrant>>

-----------------------------------------------------------------------------
PageStates ==
  [at : {"loading", "error", "loaded", "confirm1", "confirm2", "signing",
         "approved", "denied"},
   enabled : SUBSET PageCaps, pending : SUBSET PageCaps]

PageIdle == [op |-> "idle"]

\* heard: the page that started it is still there.
PageInFlight ==
  {PageIdle}
    \cup [op : {"health", "get"}]
    \cup [op : {"approve", "deny"}, caps : SUBSET PageCaps, confirmed : BOOLEAN,
          heard : BOOLEAN]
    \cup [op : {"yes", "no"}, to : {"approved", "denied"}, heard : BOOLEAN]

PageRow ==
  [status : {"pending", "approved", "denied"}, caps : SUBSET PageCaps,
   by : {"page", "other"}, confirmed : BOOLEAN]

PageFresh == [at |-> "loading", enabled |-> {}, pending |-> {}]

\* The page is opened: loadGrant has been called, by whichever task.
PageInit ==
  /\ page = PageFresh
  /\ LET t == CHOOSE k \in PageTasks : TRUE
     IN  pageTask = [k \in PageTasks |-> IF k = t THEN [op |-> "health"] ELSE PageIdle]
  /\ pageGrant = [status |-> "pending", caps |-> PageCaps, by |-> "other", confirmed |-> FALSE]

PageShow(place) == page' = [page EXCEPT !.at = place]

PageStart(t, k) == pageTask[t] = PageIdle /\ pageTask' = [pageTask EXCEPT ![t] = k]

PageGoes(t, k) == pageTask' = [pageTask EXCEPT ![t] = k]

-----------------------------------------------------------------------------
(* loadGrant *)

\* RETRY, offered on the error page only.
PageRetry(t) ==
  /\ page.at = "error"
  /\ PageStart(t, [op |-> "health"])
  /\ PageShow("loading")
  /\ UNCHANGED pageGrant

\* checkHealth
PageHealth(t) ==
  /\ pageTask[t].op = "health"
  /\ \/ PageGoes(t, [op |-> "get"]) /\ UNCHANGED page
     \/ PageGoes(t, PageIdle) /\ PageShow("error")
  /\ UNCHANGED pageGrant

\* getGrantRequest's answer: pending, as the replica asked had it at some time
\* before, so everything is enabled and shown, or an error: it is decided, or
\* the call failed.  The registry never says "expired".
PageGet(t) ==
  /\ pageTask[t].op = "get"
  /\ \/ page' = [at |-> "loaded", enabled |-> PageCaps, pending |-> {}]
     \/ PageShow("error")
  /\ PageGoes(t, PageIdle)
  /\ UNCHANGED pageGrant

-----------------------------------------------------------------------------
(* The rows *)

PageShowsGrant == page.at \in {"loaded", "confirm1", "confirm2"}

\* handleRemove: what needs two steps is only marked.
PageRemove(c) ==
  /\ PageShowsGrant /\ c \in page.enabled /\ c \notin page.pending
  /\ page' = IF c \in PageTwoStep THEN [page EXCEPT !.pending = {c}]
                                  ELSE [page EXCEPT !.enabled = @ \ {c}]
  /\ UNCHANGED <<pageTask, pageGrant>>

\* handleConfirmRemove, or CANCEL.
PageConfirmRemove ==
  /\ PageShowsGrant /\ page.pending \cap page.enabled # {}
  /\ \/ page' = [page EXCEPT !.enabled = @ \ page.pending, !.pending = {}]
     \/ page' = [page EXCEPT !.pending = {}]
  /\ UNCHANGED <<pageTask, pageGrant>>

PageRestore(c) ==
  /\ PageShowsGrant /\ c \in PageCaps \ page.enabled
  /\ page' = [page EXCEPT !.enabled = @ \cup {c}]
  /\ UNCHANGED <<pageTask, pageGrant>>

-----------------------------------------------------------------------------
(* The decision *)

\* startSigning: the enabled capabilities are sent (nonce and signature are
\* random bytes nobody checks).
PageSign(t, confirmed) ==
  /\ PageStart(t, [op |-> "approve", caps |-> page.enabled, confirmed |-> confirmed,
                   heard |-> TRUE])
  /\ PageShow("signing")

\* A slip: the risk is that of the capability marked last.
PageApproveClickUnsummed(t) ==
  /\ page.at = "loaded" /\ page.enabled # {}
  /\ IF page.pending \cap PageTwoStep # {}
     THEN PageShow("confirm1") /\ UNCHANGED pageTask
     ELSE PageSign(t, FALSE)
  /\ UNCHANGED pageGrant

\* APPROVE: what holds a high-risk capability is to be confirmed first.
PageApproveClick(t) ==
  /\ page.at = "loaded" /\ page.enabled # {}
  /\ IF page.enabled \cap PageTwoStep # {}
     THEN PageShow("confirm1") /\ UNCHANGED pageTask
     ELSE PageSign(t, FALSE)
  /\ UNCHANGED pageGrant

\* The dialogs: CONTINUE, CANCEL.
PageContinue ==
  /\ page.at \in {"confirm1", "confirm2"}
  /\ PageShow("loaded") \/ (page.at = "confirm1" /\ PageShow("confirm2"))
  /\ UNCHANGED <<pageTask, pageGrant>>

\* APPROVE on the second one, even with nothing enabled any more.
PageApproveFinal(t) ==
  /\ page.at = "confirm2"
  /\ PageSign(t, TRUE)
  /\ UNCHANGED pageGrant

\* handleDeny changes nothing that is shown until it is answered, so APPROVE
\* can still be clicked.
PageDeny(t) ==
  /\ page.at = "loaded"
  /\ PageStart(t, [op |-> "deny", caps |-> {}, confirmed |-> FALSE, heard |-> TRUE])
  /\ UNCHANGED <<page, pageGrant>>

\* The registry handles a decision.  It may refuse it (as decided, lapsed or
\* empty), and the answer may be lost on the way back.
PageDecided(t) ==
  LET k == pageTask[t]
      to == IF k.op = "approve" THEN "approved" ELSE "denied"
      Answer(a) == PageGoes(t, [op |-> a, to |-> to, heard |-> k.heard])
  IN  /\ k.op \in {"approve", "deny"}
      /\ \/ /\ pageGrant.status = "pending"
            /\ k.op = "deny" \/ k.caps # {}
            /\ pageGrant' = [status |-> to, by |-> "page", confirmed |-> k.confirmed,
                             caps |-> IF to = "denied" THEN pageGrant.caps ELSE k.caps]
            /\ Answer("yes") \/ Answer("no")
         \/ Answer("no") /\ UNCHANGED pageGrant
      /\ UNCHANGED page

\* A slip: the page goes by what was clicked, not by what was answered.
PageAnswerShown(t) ==
  LET k == pageTask[t] IN
  /\ k.op \in {"yes", "no"}
  /\ IF ~k.heard THEN UNCHANGED page
     ELSE PageShow(IF k.op = "no" THEN "error"
                   ELSE IF page.at = "signing" THEN "approved" ELSE "denied")
  /\ PageGoes(t, PageIdle)
  /\ UNCHANGED pageGrant

\* The answer arrives, and is shown whatever was shown before.
PageAnswer(t) ==
  LET k == pageTask[t] IN
  /\ k.op \in {"yes", "no"}
  /\ IF ~k.heard THEN UNCHANGED page
     ELSE PageShow(IF k.op = "yes" THEN k.to ELSE "error")
  /\ PageGoes(t, PageIdle)
  /\ UNCHANGED pageGrant

-----------------------------------------------------------------------------
\* The human leaves the page, for the list of agents say, and opens it again.
\* The loads of the old one go unheard; so do its decisions, but those still
\* reach the registry.
PageReopen ==
  /\ page.at # "loading"
  /\ \E t \in PageTasks :
       /\ pageTask[t].op \in {"idle", "health", "get"}
       /\ pageTask' = [k \in PageTasks |->
            IF k = t THEN [op |-> "health"]
            ELSE IF pageTask[k].op \in {"idle", "health", "get"} THEN PageIdle
            ELSE [pageTask[k] EXCEPT !.heard = FALSE]]
  /\ page' = PageFresh
  /\ UNCHANGED pageGrant

\* The grant is decided elsewhere: another tab, another client.
PageElsewhere ==
  /\ pageGrant.status = "pending"
  /\ \E s \in {"approved", "denied"} :
       pageGrant' = [pageGrant EXCEPT !.status = s, !.by = "other"]
  /\ UNCHANGED <<page, pageTask>>

PageProgress(t) == PageHealth(t) \/ PageGet(t) \/ PageDecided(t) \/ PageAnswer(t)

PageNext ==
  \/ \E t \in PageTasks :
       \/ PageProgress(t) \/ PageRetry(t) \/ PageApproveClick(t) \/ PageApproveFinal(t)
       \/ PageDeny(t)
  \/ \E c \in PageCaps : PageRemove(c) \/ PageRestore(c)
  \/ PageConfirmRemove \/ PageContinue \/ PageReopen \/ PageElsewhere

PageSpec == PageInit /\ [][PageNext]_pageVars

-----------------------------------------------------------------------------
PageTypeOK ==
  /\ page \in PageStates
  /\ pageTask \in [PageTasks -> PageInFlight]
  /\ pageGrant \in PageRow

\* No delete or transact capability is granted from this page without both
\* confirmations, whatever is removed, restored, reloaded or denied meanwhile.
PageHighRiskConfirmed ==
  (pageGrant.status = "approved" /\ pageGrant.by = "page"
     /\ pageGrant.caps \cap PageTwoStep # {}) => pageGrant.confirmed

\* "GRANT AUTHORIZED" and "REQUEST DENIED" are what the registry decided, also
\* when a denial and an approval were in flight together; only the error page
\* leaves the decision open.
PageTellsTruth == page.at \in {"approved", "denied"} => pageGrant.status = page.at
=============================================================================
