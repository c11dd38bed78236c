------------------------- MODULE DeploymentWebhooks -------------------------
(***************************************************************************)
(* Deployment webhooks of one environment of one repository: a webhook     *)
(* caches a successful deployment in DynamoDB and sends a message          *)
(* (src/github/deployment.ts); handlers receive the messages in any order  *)
(* and again and again (src/sqs/sqs.ts), find the last success before      *)
(* their own status (src/services/deployment-cache-service.ts) and submit  *)
(* the deployment with the commits since to Jira (src/transforms/          *)
(* transform-deployment.ts).                                               *)
(***************************************************************************)
EXTENDS Naturals, Sequences, FiniteSets, FiniteSetsExt

CONSTANTS
  Statuses,     \* the deployment statuses by id: each one's deployment and state
  Worker,       \* executions of the message handler
  MAX_RECEIVE,  \* maxAttempts of the queue
  MaxWebhooks,  \* bound: webhooks that come, of any statuses
  MaxMsgs,      \* bound: messages at a time
  MaxFaults     \* bound: faults

Status == 1..Len(Statuses)
Deployment == {Statuses[s].deployment : s \in Status}
Msg == 1..MaxMsgs

ASSUME StatusesAssumption == Statuses \in Seq([deployment : Nat \ {0}, success : BOOLEAN])
ASSUME BoundsAssumption ==
  MAX_RECEIVE \in Nat \ {0} /\ MaxMsgs \in Nat \ {0} /\ MaxWebhooks \in Nat /\ MaxFaults \in Nat

VARIABLES
  web,      \* where the webhook of each status is
  cached,   \* the successes in DynamoDB
  stale,    \* statuses whose webhook was received more than a day ago
  queue,    \* the messages: their status, place and ApproximateReceiveCount
  worker,   \* the handlers: position, message (0: none left), status and base
  jira,     \* Jira: the updateSequenceNumber and status shown of each deployment
  faults,   \* faults so far, for the bound
  ghost     \* history: the older successes cached before each webhook, and its fate

vars == <<web, cached, stale, queue, worker, jira, faults, ghost>>

None == 0
NoBase == [from |-> "none", of |-> None]
Absent == [status |-> None, at |-> "absent", receives |-> 0]
Idle == [pc |-> "idle", msg |-> None, status |-> None, base |-> NoBase]

Init ==
  /\ web = [s \in Status |-> "none"]
  /\ cached = {}
  /\ stale = {}
  /\ queue = [m \in Msg |-> Absent]
  /\ worker = [w \in Worker |-> Idle]
  /\ jira = [d \in Deployment |-> [sequence |-> 0, status |-> None]]
  /\ faults = 0
  /\ ghost = [before |-> [s \in Status |-> {}], fate |-> [s \in Status |-> "open"]]

Fault == faults < MaxFaults /\ faults' = faults + 1
NoFault == UNCHANGED faults

-----------------------------------------------------------------------------
(* The web server. *)

\* Mutant: the status itself counts.
NotAfter(s) == {c \in cached : c <= s}

\* By created_at, which grows with the id: no two statuses are of the same time.
OlderSuccesses(s) == {c \in cached : c < s}

Moves(s, from, to) == web[s] = from /\ web' = [web EXCEPT ![s] = to]

\* Webhooks come in any order, or never.
ReceiveWebhook(s) ==
  /\ Cardinality({x \in Status : web[x] # "none"}) < MaxWebhooks
  /\ Moves(s, "none", IF Statuses[s].success THEN "caching" ELSE "sending")
  /\ ghost' = [ghost EXCEPT !.before[s] = OlderSuccesses(s)]
  /\ UNCHANGED <<cached, stale, queue, worker, jira, faults>>

\* An error of putItem is logged.
CacheSuccessfulDeployment(s) ==
  /\ Moves(s, "caching", "sending")
  /\ \/ cached' = cached \cup {s} /\ NoFault
     \/ UNCHANGED cached /\ Fault
  /\ UNCHANGED <<stale, queue, worker, jira, ghost>>

IsHeld(m) == \E w \in Worker : worker[w].msg = m
HasRoom == \E m \in Msg : queue[m] = Absent /\ ~IsHeld(m)
Fresh == CHOOSE m \in Msg : queue[m] = Absent /\ ~IsHeld(m)
NewMessage(s) == [status |-> s, at |-> "visible", receives |-> 0]

SendWebhookMessage(s) ==
  /\ HasRoom
  /\ Moves(s, "sending", "sent")
  /\ queue' = [queue EXCEPT ![Fresh] = NewMessage(s)]
  /\ UNCHANGED <<cached, stale, worker, jira, faults, ghost>>

\* sendMessage fails, or the server dies on the way.
WebhookIsLost(s) ==
  /\ Fault
  /\ Moves(s, "caching", "lost") \/ Moves(s, "sending", "lost")
  /\ UNCHANGED <<cached, stale, queue, worker, jira, ghost>>

-----------------------------------------------------------------------------
(* The queue. *)

ReceiveMessage(w, m) ==
  /\ worker[w].pc = "idle"
  /\ queue[m].at = "visible" /\ queue[m].receives < MAX_RECEIVE
  /\ queue' = [queue EXCEPT ![m].at = "inflight", ![m].receives = @ + 1]
  /\ worker' = [worker EXCEPT ![w] =
                  [pc |-> "received", msg |-> m, status |-> queue[m].status, base |-> NoBase]]
  /\ UNCHANGED <<web, cached, stale, jira, faults, ghost>>

DiscardedIn(g, s) == [g EXCEPT !.fate[s] = IF @ = "sent" THEN @ ELSE "discarded"]

RedriveToDlq(m) ==
  /\ queue[m].at = "visible" /\ queue[m].receives = MAX_RECEIVE
  /\ queue' = [queue EXCEPT ![m] = Absent]
  /\ ghost' = DiscardedIn(ghost, queue[m].status)
  /\ UNCHANGED <<web, cached, stale, worker, jira, faults>>

\* Expected only of a message whose handler has died.
VisibilityLapses(m) ==
  /\ queue[m].at = "inflight"
  /\ IF IsHeld(m) THEN Fault ELSE NoFault
  /\ queue' = [queue EXCEPT ![m].at = "visible"]
  /\ UNCHANGED <<web, cached, stale, worker, jira, ghost>>

IsQueued(s) == \E m \in Msg : queue[m].status = s

GrowsOld(s) ==
  /\ IsQueued(s) /\ s \notin stale
  /\ stale' = stale \cup {s}
  /\ UNCHANGED <<web, cached, queue, worker, jira, faults, ghost>>

-----------------------------------------------------------------------------
(* executeMessage and the handler it calls. *)

\* Deletes the worker's message if it is still there; an error is logged.
DeletesMessage(w) ==
  LET m == worker[w].msg IN
  \/ /\ NoFault
     /\ queue' = IF m # None THEN [queue EXCEPT ![m] = Absent] ELSE queue
  \/ Fault /\ UNCHANGED queue

Discards(w) ==
  ghost' = IF worker[w].msg # None THEN DiscardedIn(ghost, worker[w].status) ELSE ghost
Goes(w, pc) == worker' = [worker EXCEPT ![w].pc = pc]
GoesWith(w, pc, base) == worker' = [worker EXCEPT ![w] = [@ EXCEPT !.pc = pc, !.base = base]]
Ends(w) == worker' = [worker EXCEPT ![w] = Idle]

\* Mutant: the age of messages is not looked at.
NeverStale(w) == FALSE

IsStale(w) == worker[w].status \in stale

DeleteStaleMessage(w) ==
  /\ worker[w].pc = "received" /\ IsStale(w)
  /\ DeletesMessage(w) /\ Discards(w) /\ Ends(w)
  /\ UNCHANGED <<web, cached, stale, jira>>

\* Preemptive rate limit: a new message with the same payload, then the old one goes.
SendPostponed(w) ==
  /\ worker[w].pc = "received" /\ ~IsStale(w)
  /\ HasRoom
  /\ queue' = [queue EXCEPT ![Fresh] = NewMessage(worker[w].status)]
  /\ Goes(w, "postponed")
  /\ UNCHANGED <<web, cached, stale, jira, faults, ghost>>

DeletePostponed(w) ==
  /\ worker[w].pc = "postponed"
  /\ DeletesMessage(w) /\ Ends(w)
  /\ UNCHANGED <<web, cached, stale, jira, ghost>>

\* Within the limit, or the limit is not known; more time for the message.
StartHandler(w) ==
  /\ worker[w].pc = "received" /\ ~IsStale(w)
  /\ Goes(w, "handling")
  /\ UNCHANGED <<web, cached, stale, queue, jira, faults, ghost>>

\* The commit since which commits are sent: that of a success in the cache, or what
\* GitHub's list of deployments gives, if anything.
BaseOf(s) ==
  IF OlderSuccesses(s) # {} THEN [from |-> "cache", of |-> Max(OlderSuccesses(s))]
  ELSE [from |-> "github", of |-> None]

FindBase(w) ==
  /\ worker[w].pc = "handling"
  /\ GoesWith(w, "submitting", BaseOf(worker[w].status))
  /\ UNCHANGED <<web, cached, stale, queue, jira, faults, ghost>>

\* No subscription, blocked, or neither issue keys nor services: processDeployment returns.
NothingToSend(w) ==
  /\ worker[w].pc \in {"handling", "submitting"}
  /\ Discards(w)
  /\ GoesWith(w, "done", NoBase)
  /\ UNCHANGED <<web, cached, stale, queue, jira, faults>>

\* Mutant: one number for all updates of a deployment.
DeploymentNumber(s) == Statuses[s].deployment

\* deployment_status.id; the times that are sent along do not order anything.
UpdateSequenceNumber(s) == s

\* Jira keeps the update of the highest number.
Submit(w) ==
  /\ worker[w].pc = "submitting"
  /\ LET s == worker[w].status
         d == Statuses[s].deployment
     IN /\ ghost' = [ghost EXCEPT !.fate[s] = "sent"]
        /\ jira' = IF UpdateSequenceNumber(s) > jira[d].sequence
                   THEN [jira EXCEPT ![d] = [sequence |-> UpdateSequenceNumber(s), status |-> s]]
                   ELSE jira
  /\ GoesWith(w, "done", NoBase)
  /\ UNCHANGED <<web, cached, stale, queue, faults>>

DeleteDone(w) ==
  /\ worker[w].pc = "done"
  /\ DeletesMessage(w) /\ Ends(w)
  /\ UNCHANGED <<web, cached, stale, jira, ghost>>

\* changeVisibilityTimeout, with any delay; the message may be gone.
Retries(w) ==
  LET m == worker[w].msg IN
  queue' = IF m # None /\ queue[m].at = "inflight"
           THEN [queue EXCEPT ![m].at = "visible"] ELSE queue

\* Mutant: errors that may be retried are taken for the others.
DeletesFailed(w) ==
  /\ worker[w].pc \in {"received", "handling", "submitting"}
  /\ queue' = [queue EXCEPT ![worker[w].msg] = Absent]
  /\ Ends(w)
  /\ UNCHANGED <<web, cached, stale, jira, faults, ghost>>

\* An error of SQS, DynamoDB, GitHub or Jira that may be retried; they are not counted, as
\* MAX_RECEIVE bounds them.
FailsAndRetries(w) ==
  /\ worker[w].pc \in {"received", "handling", "submitting"}
  /\ Retries(w) /\ Ends(w)
  /\ UNCHANGED <<web, cached, stale, jira, faults, ghost>>

\* 401, 403 or 404 of Jira or GitHub.
FailsForGood(w) ==
  /\ worker[w].pc \in {"handling", "submitting"}
  /\ Discards(w) /\ DeletesMessage(w) /\ Ends(w)
  /\ UNCHANGED <<web, cached, stale, jira>>

\* The message is retried while the handler goes on without it.
TimesOut(w) ==
  /\ worker[w].pc \in {"handling", "submitting"} /\ worker[w].msg # None
  /\ Fault
  /\ Retries(w)
  /\ worker' = [worker EXCEPT ![w].msg = None]
  /\ UNCHANGED <<web, cached, stale, jira, ghost>>

Crash(w) ==
  /\ worker[w].pc # "idle"
  /\ Fault
  /\ Ends(w)
  /\ UNCHANGED <<web, cached, stale, queue, jira, ghost>>


-----------------------------------------------------------------------------
Step(w) ==
  \/ DeleteStaleMessage(w)
  \/ SendPostponed(w)
  \/ DeletePostponed(w)
  \/ StartHandler(w)
  \/ FindBase(w)
  \/ NothingToSend(w)
  \/ Submit(w)
  \/ DeleteDone(w)

Fails(w) == FailsAndRetries(w) \/ FailsForGood(w) \/ TimesOut(w) \/ Crash(w)

Next ==
  \/ \E s \in Status :
       \/ ReceiveWebhook(s) \/ CacheSuccessfulDeployment(s)
       \/ SendWebhookMessage(s) \/ WebhookIsLost(s) \/ GrowsOld(s)
  \/ \E m \in Msg : RedriveToDlq(m) \/ VisibilityLapses(m)
  \/ \E w \in Worker, m \in Msg : ReceiveMessage(w, m)
  \/ \E w \in Worker : Step(w) \/ Fails(w)

Spec == Init /\ [][Next]_vars

\* Time passes, the queue delivers and redrives, and handlers go on while they live.
Fairness ==
  /\ \A s \in Status : WF_vars(GrowsOld(s))
  /\ \A m \in Msg :
       /\ WF_vars(RedriveToDlq(m)) /\ WF_vars(VisibilityLapses(m))
       /\ WF_vars(\E w \in Worker : ReceiveMessage(w, m))
  /\ \A w \in Worker : WF_vars(Step(w))

FairSpec == Spec /\ Fairness

-----------------------------------------------------------------------------
(* Properties. *)

Base == [from : {"none", "github"}, of : {None}] \cup [from : {"cache"}, of : Status]

TypeOK ==
  /\ web \in [Status -> {"none", "caching", "sending", "sent", "lost"}]
  /\ cached \subseteq Status /\ stale \subseteq Status
  /\ queue \in [Msg -> [status : Status \cup {None}, at : {"absent", "visible", "inflight"},
                       receives : 0..MAX_RECEIVE]]
  /\ worker \in [Worker ->
       [pc : {"idle", "received", "postponed", "handling", "submitting", "done"},
        msg : Msg \cup {None}, status : Status \cup {None}, base : Base]]
  /\ jira \in [Deployment -> [sequence : Nat, status : Status \cup {None}]]
  /\ faults \in 0..MaxFaults
  /\ ghost.before \in [Status -> SUBSET Status]
  /\ ghost.fate \in [Status -> {"open", "sent", "discarded"}]


\* A status whose message was sent has a message, has been submitted to Jira or was
\* discarded in one of the ways the code means to: too old, nothing to send, an error that
\* is not a failure, or the dead letter queue (sqs.ts:326, sqs.ts:372).
NothingVanishes ==
  \A s \in Status : web[s] = "sent" => IsQueued(s) \/ ghost.fate[s] # "open"

\* Whatever the order of messages, retries and handlers that outlive their message, Jira
\* shows the newest status submitted of a deployment (transform-deployment.ts:406).
JiraShowsNewest ==
  \A s \in Status : ghost.fate[s] = "sent" => jira[Statuses[s].deployment].status >= s

\* The commits sent with a status start at an older success, and no older success was
\* cached by the time its webhook came that is newer (deployment.ts:17): the order in which
\* the queue delivers does not matter, and GitHub is asked only when the cache had none.
CommitsSinceLastSuccess ==
  \A w \in Worker : worker[w].pc = "submitting" =>
    LET s == worker[w].status
        base == worker[w].base
        older == {c \in ghost.before[s] : c < s}
    IN IF base.from = "cache" THEN base.of < s /\ \A c \in older : c <= base.of ELSE older = {}

\* Every message ends, those as well that the preemptive rate limit postpones over and over
\* (sqs.ts:263).
EveryMessageSettles == <>[](queue = [m \in Msg |-> Absent])
=============================================================================
