--------------------------- MODULE SyncLifecycle ---------------------------
(***************************************************************************)
(* What the backfill of a subscription promises, whatever messages,        *)
(* workers and flags it takes: a sync that is asked for is carried by      *)
(* something until it has come to an end, what is complete has been        *)
(* delivered to Jira, and only a request takes anything back.  Module      *)
(* Backfill is shown to implement this.                                    *)
(***************************************************************************)

CONSTANTS
  Tasks,     \* what has a status of its own: a task of a repository, the discovery
  Units,     \* what is delivered at a time: a page of a task, a repository found
  UnitsOf(_) \* the units of a task

VARIABLES
  status,    \* Subscription.syncStatus
  requested, \* a request is being carried out: it may forget what was done
  delivered, \* units that went to Jira since they were last forgotten
  complete,  \* tasks whose status is complete
  open,      \* tasks a sync asks for that are pending, or have not begun
  carrier,   \* "held" by a message, a handler or a request; "lost"; or "none"
  disturbed  \* a request met a handler, two handlers met, or a task is there twice

promise == <<status, requested, delivered, complete, open, carrier, disturbed>>

InProgress == status \in {"PENDING", "ACTIVE"}

Init ==
  /\ status = "NONE"
  /\ requested = FALSE
  /\ delivered = {} /\ complete = {}
  /\ open \subseteq Tasks
  /\ carrier = "none"
  /\ disturbed = FALSE

\* A request shows the sync as pending, or leaves alone what another one has shown.
Request ==
  /\ status' \in {status, "PENDING"}
  /\ requested' = TRUE
  /\ carrier' = "held"
  /\ UNCHANGED <<delivered, complete, open>>

\* Tasks and units are forgotten together, the tasks first.
Forget ==
  /\ requested
  /\ complete' \subseteq complete /\ delivered' \subseteq delivered
  /\ disturbed' \/ \A t \in complete' : UnitsOf(t) \cap delivered \subseteq delivered'
  /\ open' \subseteq Tasks
  /\ requested' \in BOOLEAN
  /\ UNCHANGED <<status, carrier>>

HandOver ==
  /\ requested /\ ~requested'
  /\ carrier' \in {"held", "lost"}
  /\ UNCHANGED <<status, delivered, complete, open>>

\* Work goes on only where something carries it.
Deliver ==
  /\ carrier = "held"
  /\ delivered \subseteq delivered' /\ delivered' \subseteq Units
  /\ open \subseteq open' /\ open' \subseteq Tasks
  /\ UNCHANGED <<status, requested, complete, carrier>>

Complete(t) ==
  /\ carrier = "held"
  /\ delivered \subseteq delivered' /\ delivered' \subseteq Units
  /\ disturbed' \/ UnitsOf(t) \subseteq delivered'
  /\ complete' = complete \cup {t}
  /\ open' \subseteq open
  /\ UNCHANGED <<status, requested, carrier>>

\* Handlers that met may undo each other's work.
Interfere ==
  /\ disturbed' /\ carrier = "held"
  /\ complete' \subseteq Tasks /\ open' \subseteq Tasks
  /\ UNCHANGED <<requested, delivered, carrier>>
  /\ status' \in {status, "FAILED"}

\* The sync is seen to move or to end; tasks are given up with or without it.
Progress ==
  /\ carrier = "held"
  /\ status' \in {status, "ACTIVE", "COMPLETE", "FAILED"}
  /\ open' \subseteq open
  /\ UNCHANGED <<requested, delivered, complete, carrier>>

\* The last carrier is gone: the sync is over, with no work waiting unless it
\* failed, or it was lost.
Release ==
  /\ carrier = "held" /\ ~requested
  /\ \/ carrier' = "lost"
     \/ /\ carrier' = "none"
        /\ status = "FAILED" \/ (status = "COMPLETE" /\ open = {})
  /\ UNCHANGED <<status, requested, delivered, complete, open>>

Next ==
  /\ disturbed => disturbed'
  /\ \/ Request \/ Forget \/ HandOver \/ Deliver
     \/ \E t \in Tasks : Complete(t)
     \/ Interfere \/ Progress \/ Release
     \/ UNCHANGED <<status, requested, delivered, complete, open, carrier>>

Spec == Init /\ [][Next]_promise

-----------------------------------------------------------------------------
\* A sync in progress is carried by something, or was lost in a known way.
Carried == InProgress => carrier # "none"

\* A sync that ended without a failure hides no work.
NothingHidden == status = "COMPLETE" /\ carrier = "none" => open = {}

\* What is complete was delivered.
CompleteIsDelivered == disturbed \/ \A t \in complete : UnitsOf(t) \subseteq delivered
=============================================================================
