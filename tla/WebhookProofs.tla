---------------------------- MODULE WebhookProofs ----------------------------
(***************************************************************************)
(* Proofs about what webhooks bring to Jira: DeploymentWebhooks, for any   *)
(* deployments and statuses, any number of handlers, and any number of     *)
(* webhooks, messages and faults; Pushes, for any pushes, commits and      *)
(* issue keys and any number of attempts; and PullRequests, for any number *)
(* of changes, attempts and webhooks, whatever the order.                  *)
(***************************************************************************)
EXTENDS DeploymentWebhooks, Pushes, PullRequests, SequenceTheorems, WellFoundedInduction, TLAPS

-----------------------------------------------------------------------------
(* The inductive invariant. *)

Queued == [status : Status, at : {"visible", "inflight"}, receives : 0..MAX_RECEIVE]

Busy == [pc : {"received", "postponed", "handling", "submitting", "done"},
         msg : Msg \cup {None}, status : Status, base : Base]

\* A message is there for a status whose webhook sent one.
QueueOK ==
  /\ queue \in [Msg -> Queued \cup {Absent}]
  /\ \A m \in Msg : queue[m] # Absent => web[queue[m].status] = "sent"

\* The message a handler holds is gone or still has the status the handler works on.
HandlerOK(w) ==
  /\ worker[w] \in Busy /\ web[worker[w].status] = "sent"
  /\ worker[w].msg # None =>
       queue[worker[w].msg] = Absent \/ queue[worker[w].msg].status = worker[w].status
  /\ worker[w].pc \in {"received", "postponed"} => worker[w].msg # None
  /\ worker[w].pc = "done" /\ worker[w].msg # None => ghost.fate[worker[w].status] # "open"

WorkersOK ==
  /\ DOMAIN worker = Worker /\ worker = [w \in Worker |-> worker[w]]
  /\ \A w \in Worker : worker[w] = Idle \/ HandlerOK(w)

HistoryOK ==
  /\ ghost \in [before : [Status -> SUBSET Status],
                fate : [Status -> {"open", "sent", "discarded"}]]
  /\ \A s \in Status : ghost.before[s] \subseteq cached

\* What Jira shows is what it had with the highest number.
JiraOK ==
  /\ jira \in [Deployment -> [sequence : Status \cup {None}, status : Status \cup {None}]]
  /\ \A d \in Deployment : jira[d].status = jira[d].sequence

TypeInv ==
  /\ web \in [Status -> {"none", "caching", "sending", "sent", "lost"}]
  /\ cached \subseteq Status /\ stale \subseteq Status
  /\ faults \in 0..MaxFaults
  /\ QueueOK /\ WorkersOK /\ HistoryOK /\ JiraOK

\* Postponing leaves a message no handler is about to delete for it: the handlers that have
\* sent theirs again may be many, each about to delete the message it holds.
IsOnlyPostponed(m) == \E w \in Worker : worker[w].pc = "postponed" /\ worker[w].msg = m

Kept ==
  \A s \in Status : web[s] = "sent" =>
    \/ ghost.fate[s] # "open"
    \/ \E m \in Msg : queue[m].status = s /\ ~IsOnlyPostponed(m)

-----------------------------------------------------------------------------
(* Facts about the operators of the model. *)

\* The statuses are numbers.
LEMMA StatusFacts ==
  /\ Len(Statuses) \in Nat /\ Status \subseteq Nat \ {0} /\ None \notin Status
  /\ \A s \in Status : Statuses[s].deployment \in Deployment /\ Statuses[s].success \in BOOLEAN
<1> DEFINE AnyStatus == [deployment : Nat \ {0}, success : BOOLEAN]
<1> HIDE DEF AnyStatus
<1>0. Statuses \in Seq(AnyStatus)
  BY StatusesAssumption DEF AnyStatus
<1>1. Len(Statuses) \in Nat
  BY <1>0
<1>2. \A s \in Status : Statuses[s] \in AnyStatus
  BY <1>0 DEF Status
<1> USE DEF AnyStatus
<1> QED BY <1>1, <1>2 DEF Status, Deployment, None

\* Max picks the newest of some statuses.
LEMMA MaxFacts ==
  ASSUME NEW S \in SUBSET Status, S # {}
  PROVE  Max(S) \in S /\ \A y \in S : y <= Max(S)
<1> DEFINE n == Len(Statuses)
           Below == {n - x : x \in S}
           Less == OpToRel(<, Nat)
<1>1. n \in Nat /\ \A x \in S : x \in Nat /\ x <= n
  BY StatusFacts DEF Status
<1>2. Below \subseteq Nat /\ Below # {}
  BY <1>1
<1>3. IsWellFoundedOn(Less, Nat)
  BY NatLessThanWellFounded
<1>4. PICK b \in Below : \A y \in Below : ~(<<y, b>> \in Less)
  <2> HIDE DEF Below, Less
  <2> QED BY <1>2, <1>3, WFMin
<1>5. PICK x \in S : b = n - x
  BY <1>4
<1>6. ASSUME NEW y \in S PROVE x >= y
  <2>1. n - y \in Below /\ n - y \in Nat /\ b \in Nat
    BY <1>1, <1>2, <1>4
  <2>2. ~(n - y < b)
    BY <1>4, <2>1 DEF OpToRel
  <2> QED BY <1>1, <1>5, <2>2
<1>7. \E z \in S : \A y \in S : z >= y
  BY <1>6
<1>8. Max(S) \in S /\ \A y \in S : Max(S) >= y
  BY <1>7 DEF Max
<1> QED BY <1>8, <1>1

\* A new message takes a place that is free and that no handler remembers.
LEMMA FreshFacts ==
  ASSUME HasRoom
  PROVE  Fresh \in Msg /\ queue[Fresh] = Absent /\ ~IsHeld(Fresh)
BY DEF HasRoom, Fresh

-----------------------------------------------------------------------------
(* What the operations on the queue, and a step of one handler, leave alone. *)

\* Messages handlers hold stay what they are, or go.
HeldKept ==
  \A m \in Msg : IsHeld(m) /\ queue[m] # queue'[m] =>
    queue'[m] = Absent \/ (queue[m] # Absent /\ queue'[m].status = queue[m].status)

\* What was sent, submitted or discarded remains so.
PastKept ==
  \A s \in Status :
    /\ web[s] = "sent" => web'[s] = "sent"
    /\ ghost.fate[s] # "open" => ghost'.fate[s] # "open"
    /\ ghost.fate[s] = "sent" => ghost'.fate[s] = "sent"

LEMMA DropMessage ==
  ASSUME QueueOK, web' = web, NEW m \in Msg, queue' = [queue EXCEPT ![m] = Absent]
  PROVE  QueueOK' /\ HeldKept
BY DEF QueueOK, HeldKept, Queued

LEMMA AddMessage ==
  ASSUME QueueOK, HasRoom, NEW s \in Status, queue' = [queue EXCEPT ![Fresh] = NewMessage(s)],
         web' = web \/ (web' = [web EXCEPT ![s] = "sent"]
                        /\ web \in [Status -> {"none", "caching", "sending", "sent", "lost"}]),
         web'[s] = "sent"
  PROVE  QueueOK' /\ HeldKept
<1>1. NewMessage(s) \in Queued /\ NewMessage(s).status = s
  BY BoundsAssumption DEF NewMessage, Queued
<1>2. Fresh \in Msg /\ queue[Fresh] = Absent /\ ~IsHeld(Fresh)
  BY FreshFacts
<1>3. \A m \in Msg : queue'[m] = IF m = Fresh THEN NewMessage(s) ELSE queue[m]
  BY <1>2 DEF QueueOK
<1>4. queue' \in [Msg -> Queued \cup {Absent}]
  BY <1>1, <1>2 DEF QueueOK
<1>5. \A x \in Status : web[x] = "sent" => web'[x] = "sent"
  OBVIOUS
<1>6. \A m \in Msg : queue[m] # Absent => queue[m].status \in Status
  BY DEF QueueOK, Queued
<1>7. \A m \in Msg : queue'[m] # Absent => web'[queue'[m].status] = "sent"
  BY <1>1, <1>3, <1>5, <1>6 DEF QueueOK
<1>8. HeldKept
  BY <1>2, <1>3 DEF HeldKept
<1> QED BY <1>4, <1>7, <1>8 DEF QueueOK

LEMMA MoveMessage ==
  ASSUME QueueOK, web' = web, NEW m \in Msg, queue[m] # Absent,
         NEW at \in {"visible", "inflight"}, NEW n \in 0..MAX_RECEIVE,
         queue' = [queue EXCEPT ![m].at = at, ![m].receives = n]
  PROVE  QueueOK' /\ HeldKept
<1>1. queue[m] \in Queued
  BY DEF QueueOK
<1>2. [queue[m] EXCEPT !.at = at, !.receives = n] \in Queued
  BY <1>1 DEF Queued
<1>3. \A i \in Msg : queue'[i] = IF i = m THEN [queue[m] EXCEPT !.at = at, !.receives = n]
                                 ELSE queue[i]
  BY DEF QueueOK
<1>4. queue'[m].status = queue[m].status
  <2>1. [queue[m] EXCEPT !.at = at, !.receives = n].status = queue[m].status
    BY <1>1 DEF Queued
  <2> QED BY <1>3, <2>1
<1>5. queue' \in [Msg -> Queued \cup {Absent}]
  BY <1>2, <1>3 DEF QueueOK
<1> QED BY <1>3, <1>4, <1>5 DEF QueueOK, HeldKept

LEMMA SameQueue ==
  ASSUME QueueOK, queue' = queue, PastKept
  PROVE  QueueOK' /\ HeldKept
<1>1. \A m \in Msg : queue[m] # Absent => queue[m].status \in Status
  BY DEF QueueOK, Queued
<1> QED BY <1>1 DEF QueueOK, HeldKept, PastKept

\* A handler that takes no step is as well as before.
LEMMA HandlerKept ==
  ASSUME NEW w \in Worker, HandlerOK(w), HeldKept, PastKept, worker'[w] = worker[w]
  PROVE  HandlerOK(w)'
<1>1. worker[w] \in Busy /\ worker[w].status \in Status /\ worker[w].msg \in Msg \cup {None}
  BY DEF HandlerOK, Busy
<1>2. web'[worker[w].status] = "sent"
  BY <1>1 DEF HandlerOK, PastKept
<1>3. worker[w].pc = "done" /\ worker[w].msg # None => ghost'.fate[worker[w].status] # "open"
  BY <1>1 DEF HandlerOK, PastKept
<1>4. worker[w].msg # None =>
        queue'[worker[w].msg] = Absent \/ queue'[worker[w].msg].status = worker[w].status
  BY <1>1 DEF HandlerOK, HeldKept, IsHeld
<1> QED BY <1>1, <1>2, <1>3, <1>4 DEF HandlerOK

\* One handler goes on and is well afterwards: all are.
LEMMA OneHandler ==
  ASSUME WorkersOK, HeldKept, PastKept, NEW w \in Worker, NEW x,
         worker' = [worker EXCEPT ![w] = x], x = Idle \/ HandlerOK(w)'
  PROVE  WorkersOK'
<1>1. \A v \in Worker : worker'[v] = IF v = w THEN x ELSE worker[v]
  BY DEF WorkersOK
<1>2. DOMAIN worker' = Worker /\ worker' = [v \in Worker |-> worker'[v]]
  BY DEF WorkersOK
<1>3. ASSUME NEW v \in Worker PROVE worker'[v] = Idle \/ HandlerOK(v)'
  BY <1>1, HandlerKept DEF WorkersOK
<1> QED BY <1>2, <1>3 DEF WorkersOK

LEMMA SameHandlers ==
  ASSUME WorkersOK, HeldKept, PastKept, worker' = worker
  PROVE  WorkersOK'
<1>1. ASSUME NEW v \in Worker PROVE worker'[v] = Idle \/ HandlerOK(v)'
  BY HandlerKept DEF WorkersOK
<1> QED BY <1>1 DEF WorkersOK

\* A fault is counted up to its bound.
LEMMA Faults ==
  ASSUME faults \in 0..MaxFaults, Fault \/ NoFault
  PROVE  faults' \in 0..MaxFaults
BY BoundsAssumption DEF Fault, NoFault

\* A status is discarded, unless it was submitted before.
LEMMA DiscardFacts ==
  ASSUME HistoryOK, NEW s \in Status, ghost' = DiscardedIn(ghost, s), web' = web, cached' = cached
  PROVE  HistoryOK' /\ PastKept /\ ghost'.fate[s] # "open"
<1>1. ghost' = [before |-> ghost.before,
                fate |-> [ghost.fate EXCEPT ![s] = IF @ = "sent" THEN @ ELSE "discarded"]]
  BY DEF HistoryOK, DiscardedIn
<1>2. ghost.fate \in [Status -> {"open", "sent", "discarded"}]
      /\ ghost.before \in [Status -> SUBSET Status]
  BY DEF HistoryOK
<1>3. ghost'.before = ghost.before
      /\ ghost'.fate = [ghost.fate EXCEPT ![s] = IF @ = "sent" THEN @ ELSE "discarded"]
  BY <1>1
<1>4. HistoryOK'
  BY <1>1, <1>2, <1>3 DEF HistoryOK
<1> QED BY <1>2, <1>3, <1>4 DEF PastKept

LEMMA PastStays ==
  ASSUME HistoryOK, ghost' = ghost, web' = web, cached \subseteq cached'
  PROVE  HistoryOK' /\ PastKept
BY DEF HistoryOK, PastKept

\* The handler's delete, whether it succeeds, finds no message or fails.
LEMMA DeleteFacts ==
  ASSUME QueueOK, NEW w \in Worker, HandlerOK(w), faults \in 0..MaxFaults, PastKept, web' = web,
         DeletesMessage(w)
  PROVE  QueueOK' /\ HeldKept /\ faults' \in 0..MaxFaults
<1>1. worker[w].msg \in Msg \cup {None}
  BY DEF HandlerOK, Busy
<1>2. queue' = queue \/ (worker[w].msg # None /\ queue' = [queue EXCEPT ![worker[w].msg] = Absent])
  BY DEF DeletesMessage
<1>3. QueueOK' /\ HeldKept
  BY <1>1, <1>2, DropMessage, SameQueue
<1>4. Fault \/ NoFault
  BY DEF DeletesMessage
<1> QED BY <1>3, <1>4, Faults

LEMMA RetryFacts ==
  ASSUME QueueOK, NEW w \in Worker, HandlerOK(w), PastKept, web' = web, Retries(w)
  PROVE  QueueOK' /\ HeldKept
<1> DEFINE m == worker[w].msg
<1>1. m \in Msg \cup {None}
  BY DEF HandlerOK, Busy
<1>2. CASE queue' = queue
  BY <1>2, SameQueue
<1>3. CASE m # None /\ queue[m].at = "inflight" /\ queue' = [queue EXCEPT ![m].at = "visible"]
  <2>1. m \in Msg /\ queue[m] # Absent /\ queue[m] \in Queued
    BY <1>1, <1>3 DEF QueueOK, Absent
  <2>2. queue' = [queue EXCEPT ![m].at = "visible", ![m].receives = queue[m].receives]
    BY <2>1, <1>3 DEF QueueOK, Queued
  <2>3. queue[m].receives \in 0..MAX_RECEIVE
    BY <2>1 DEF Queued
  <2> QED BY <2>1, <2>2, <2>3, MoveMessage
<1> QED BY <1>2, <1>3 DEF Retries

\* A handler that moves on keeps its message and status.
LEMMA GoesFacts ==
  ASSUME NEW w \in Worker, WorkersOK, HandlerOK(w), HeldKept, PastKept,
         NEW pc \in {"received", "postponed", "handling", "submitting", "done"}, NEW base \in Base,
         NEW msg \in {worker[w].msg, None},
         worker' = [worker EXCEPT ![w] = [pc |-> pc, msg |-> msg, status |-> worker[w].status,
                                          base |-> base]],
         pc \in {"received", "postponed"} => msg # None,
         pc = "done" /\ msg # None => ghost'.fate[worker[w].status] # "open"
  PROVE  WorkersOK'
<1> DEFINE x == [pc |-> pc, msg |-> msg, status |-> worker[w].status, base |-> base]
<1>1. worker[w].status \in Status /\ worker[w].msg \in Msg \cup {None}
  BY DEF HandlerOK, Busy
<1>2. x \in Busy
  BY <1>1 DEF Busy
<1>3. worker'[w] = x
  BY DEF WorkersOK
<1>4. web'[x.status] = "sent"
  BY <1>1 DEF HandlerOK, PastKept
<1>5. x.msg # None => queue'[x.msg] = Absent \/ queue'[x.msg].status = x.status
  BY <1>1 DEF HandlerOK, HeldKept, IsHeld
<1>6. HandlerOK(w)'
  BY <1>2, <1>3, <1>4, <1>5 DEF HandlerOK
<1> QED BY <1>6, OneHandler

\* A busy handler is well.
LEMMA BusyFacts ==
  ASSUME WorkersOK, NEW w \in Worker, worker[w].pc # "idle"
  PROVE  /\ HandlerOK(w) /\ worker[w].status \in Status /\ worker[w].msg \in Msg \cup {None}
         /\ worker[w].base \in Base
         /\ worker[w] = [pc |-> worker[w].pc, msg |-> worker[w].msg,
                         status |-> worker[w].status, base |-> worker[w].base]
<1>1. HandlerOK(w)
  BY DEF WorkersOK, Idle
<1> QED BY <1>1 DEF HandlerOK, Busy

\* A handler's record, changed in the ways the steps change it.
LEMMA ChangedRecord ==
  ASSUME NEW x \in Busy, NEW pc, NEW base
  PROVE  /\ [x EXCEPT !.pc = pc]
              = [pc |-> pc, msg |-> x.msg, status |-> x.status, base |-> x.base]
         /\ [x EXCEPT !.pc = pc, !.base = base]
              = [pc |-> pc, msg |-> x.msg, status |-> x.status, base |-> base]
         /\ [x EXCEPT !.msg = None]
              = [pc |-> x.pc, msg |-> None, status |-> x.status, base |-> x.base]
<1>1. [x EXCEPT !.pc = pc] = [pc |-> pc, msg |-> x.msg, status |-> x.status, base |-> x.base]
  BY DEF Busy
<1>2. [x EXCEPT !.msg = None]
        = [pc |-> x.pc, msg |-> None, status |-> x.status, base |-> x.base]
  BY DEF Busy
<1> DEFINE y == [x EXCEPT !.pc = pc]
<1>3. [x EXCEPT !.pc = pc, !.base = base] = [y EXCEPT !.base = base]
  BY DEF Busy
<1>4. y = [pc |-> pc, msg |-> x.msg, status |-> x.status, base |-> x.base]
  BY <1>1
<1> HIDE DEF y
<1>5. [y EXCEPT !.base = base] = [pc |-> pc, msg |-> x.msg, status |-> x.status, base |-> base]
  BY <1>4
<1> QED BY <1>1, <1>2, <1>3, <1>5

-----------------------------------------------------------------------------
(* Types, and what handlers hold and remember, are kept. *)

LEMMA InitTypes == Init => TypeInv
<1> SUFFICES ASSUME Init PROVE TypeInv
  OBVIOUS
<1>1. QueueOK
  BY DEF Init, QueueOK
<1>2. WorkersOK
  BY DEF Init, WorkersOK
<1>3. HistoryOK
  BY DEF Init, HistoryOK
<1>4. JiraOK
  BY DEF Init, JiraOK, None
<1> QED BY <1>1, <1>2, <1>3, <1>4, BoundsAssumption DEF Init, TypeInv

\* The web server's steps.
LEMMA WebServerTypes ==
  ASSUME TypeInv, NEW s \in Status,
         \/ ReceiveWebhook(s) \/ CacheSuccessfulDeployment(s) \/ SendWebhookMessage(s)
         \/ WebhookIsLost(s) \/ GrowsOld(s)
  PROVE  TypeInv' /\ HeldKept /\ PastKept
<1> USE DEF TypeInv
<1>1. CASE ReceiveWebhook(s)
  <2>1. web[s] = "none"
        /\ web' = [web EXCEPT ![s] = IF Statuses[s].success THEN "caching" ELSE "sending"]
    BY <1>1 DEF ReceiveWebhook, Moves
  <2>2. ghost' = [before |-> [ghost.before EXCEPT ![s] = OlderSuccesses(s)], fate |-> ghost.fate]
    BY <1>1 DEF ReceiveWebhook, HistoryOK
  <2>3. OlderSuccesses(s) \subseteq cached /\ cached' = cached
    BY <1>1 DEF OlderSuccesses, ReceiveWebhook
  <2>4. HistoryOK'
    BY <2>2, <2>3 DEF HistoryOK
  <2>5. PastKept
    BY <2>1, <2>2 DEF PastKept
  <2>6. QueueOK' /\ HeldKept
    BY <1>1, <2>5, SameQueue DEF ReceiveWebhook
  <2>7. WorkersOK'
    BY <1>1, <2>5, <2>6, SameHandlers DEF ReceiveWebhook
  <2>8. web' \in [Status -> {"none", "caching", "sending", "sent", "lost"}]
    BY <2>1
  <2> QED BY <1>1, <2>4, <2>5, <2>6, <2>7, <2>8 DEF ReceiveWebhook, JiraOK
<1>2. CASE CacheSuccessfulDeployment(s)
  <2>1. web[s] = "caching" /\ web' = [web EXCEPT ![s] = "sending"]
    BY <1>2 DEF CacheSuccessfulDeployment, Moves
  <2>2. cached \subseteq cached' /\ cached' \subseteq Status /\ ghost' = ghost
    BY <1>2 DEF CacheSuccessfulDeployment
  <2>3. HistoryOK' /\ PastKept
    BY <2>1, <2>2 DEF HistoryOK, PastKept
  <2>4. QueueOK' /\ HeldKept
    BY <1>2, <2>3, SameQueue DEF CacheSuccessfulDeployment
  <2>5. WorkersOK'
    BY <1>2, <2>3, <2>4, SameHandlers DEF CacheSuccessfulDeployment
  <2>6. faults' \in 0..MaxFaults
    BY <1>2, Faults DEF CacheSuccessfulDeployment
  <2> QED BY <1>2, <2>1, <2>2, <2>3, <2>4, <2>5, <2>6 DEF CacheSuccessfulDeployment, JiraOK
<1>3. CASE SendWebhookMessage(s)
  <2>1. web[s] = "sending" /\ web' = [web EXCEPT ![s] = "sent"]
    BY <1>3 DEF SendWebhookMessage, Moves
  <2>2. HistoryOK' /\ PastKept
    BY <1>3, <2>1 DEF HistoryOK, PastKept, SendWebhookMessage
  <2>3. web'[s] = "sent"
    BY <2>1
  <2>4. QueueOK' /\ HeldKept
    BY <1>3, <2>1, <2>3, AddMessage DEF SendWebhookMessage
  <2>5. WorkersOK'
    BY <1>3, <2>2, <2>4, SameHandlers DEF SendWebhookMessage
  <2> QED BY <1>3, <2>1, <2>2, <2>4, <2>5 DEF SendWebhookMessage, JiraOK
<1>4. CASE WebhookIsLost(s)
  <2>1. web[s] # "sent" /\ web' = [web EXCEPT ![s] = "lost"]
    BY <1>4 DEF WebhookIsLost, Moves
  <2>2. HistoryOK' /\ PastKept
    BY <1>4, <2>1 DEF HistoryOK, PastKept, WebhookIsLost
  <2>3. QueueOK' /\ HeldKept
    BY <1>4, <2>2, SameQueue DEF WebhookIsLost
  <2>4. WorkersOK'
    BY <1>4, <2>2, <2>3, SameHandlers DEF WebhookIsLost
  <2>5. faults' \in 0..MaxFaults
    BY <1>4, Faults DEF WebhookIsLost
  <2> QED BY <1>4, <2>1, <2>2, <2>3, <2>4, <2>5 DEF WebhookIsLost, JiraOK
<1>5. CASE GrowsOld(s)
  <2>1. HistoryOK' /\ PastKept
    BY <1>5 DEF HistoryOK, PastKept, GrowsOld
  <2>2. QueueOK' /\ HeldKept
    BY <1>5, <2>1, SameQueue DEF GrowsOld
  <2>3. WorkersOK'
    BY <1>5, <2>1, <2>2, SameHandlers DEF GrowsOld
  <2> QED BY <1>5, <2>1, <2>2, <2>3 DEF GrowsOld, JiraOK
<1> QED BY <1>1, <1>2, <1>3, <1>4, <1>5

\* The queue's steps.
LEMMA QueueTypes ==
  ASSUME TypeInv, NEW m \in Msg,
         \/ RedriveToDlq(m) \/ VisibilityLapses(m) \/ \E w \in Worker : ReceiveMessage(w, m)
  PROVE  TypeInv' /\ HeldKept /\ PastKept
<1> USE DEF TypeInv
<1>1. queue[m] \in Queued /\ queue[m] # Absent
  BY DEF QueueOK, Absent, RedriveToDlq, VisibilityLapses, ReceiveMessage
<1>2. queue[m].status \in Status /\ queue[m].receives \in 0..MAX_RECEIVE
  BY <1>1 DEF Queued
<1>3. CASE RedriveToDlq(m)
  <2>1. HistoryOK' /\ PastKept
    BY <1>2, <1>3, DiscardFacts DEF RedriveToDlq
  <2>2. QueueOK' /\ HeldKept
    BY <1>3, DropMessage DEF RedriveToDlq
  <2>3. WorkersOK'
    BY <1>3, <2>1, <2>2, SameHandlers DEF RedriveToDlq
  <2> QED BY <1>3, <2>1, <2>2, <2>3 DEF RedriveToDlq, JiraOK
<1>4. CASE VisibilityLapses(m)
  <2>1. HistoryOK' /\ PastKept
    BY <1>4, PastStays DEF VisibilityLapses
  <2>2. queue' = [queue EXCEPT ![m].at = "visible", ![m].receives = queue[m].receives]
    BY <1>1, <1>4 DEF VisibilityLapses, QueueOK, Queued
  <2>3. QueueOK' /\ HeldKept
    BY <1>1, <1>2, <1>4, <2>2, MoveMessage DEF VisibilityLapses
  <2>4. WorkersOK'
    BY <1>4, <2>1, <2>3, SameHandlers DEF VisibilityLapses
  <2>5. faults' \in 0..MaxFaults
    BY <1>4, Faults DEF VisibilityLapses
  <2> QED BY <1>4, <2>1, <2>3, <2>4, <2>5 DEF VisibilityLapses, JiraOK
<1>5. ASSUME NEW w \in Worker, ReceiveMessage(w, m) PROVE TypeInv' /\ HeldKept /\ PastKept
  <2> DEFINE x == [pc |-> "received", msg |-> m, status |-> queue[m].status, base |-> NoBase]
  <2>1. HistoryOK' /\ PastKept
    BY <1>5, PastStays DEF ReceiveMessage
  <2>2. queue[m].receives + 1 \in 0..MAX_RECEIVE
    BY <1>2, <1>5, BoundsAssumption DEF ReceiveMessage
  <2>3. queue' = [queue EXCEPT ![m].at = "inflight", ![m].receives = queue[m].receives + 1]
    BY <1>5 DEF ReceiveMessage
  <2>4. QueueOK' /\ HeldKept
    BY <1>1, <1>5, <2>2, <2>3, MoveMessage DEF ReceiveMessage
  <2>5. x \in Busy
    BY <1>2 DEF Busy, Base, NoBase
  <2>6. worker' = [worker EXCEPT ![w] = x] /\ worker'[w] = x
    BY <1>5 DEF ReceiveMessage, WorkersOK
  <2>7. queue'[m].status = queue[m].status
    BY <1>1, <2>3 DEF QueueOK, Queued
  <2>8. web'[x.status] = "sent"
    BY <1>1, <1>5 DEF ReceiveMessage, QueueOK
  <2>9. HandlerOK(w)'
    BY <2>5, <2>6, <2>7, <2>8 DEF HandlerOK, None, Msg
  <2>10. WorkersOK'
    BY <2>1, <2>4, <2>6, <2>9, OneHandler
  <2> QED BY <1>5, <2>1, <2>4, <2>10 DEF ReceiveMessage, JiraOK
<1> QED BY <1>3, <1>4, <1>5

\* The handler's steps.
LEMMA HandlerTypes ==
  ASSUME TypeInv, NEW w \in Worker, Step(w) \/ Fails(w)
  PROVE  TypeInv' /\ HeldKept /\ PastKept
<1> USE DEF TypeInv
<1> DEFINE s == worker[w].status
           goes(pc, msg, base) == worker' = [worker EXCEPT ![w] =
                                     [pc |-> pc, msg |-> msg, status |-> s, base |-> base]]
<1>1. worker[w].pc # "idle"
  BY DEF Step, DeleteStaleMessage, SendPostponed, DeletePostponed, StartHandler, FindBase,
         NothingToSend, Submit, DeleteDone, Fails, FailsAndRetries, FailsForGood, TimesOut, Crash
<1>2. /\ HandlerOK(w) /\ s \in Status /\ worker[w].msg \in Msg \cup {None}
      /\ worker[w].base \in Base
      /\ worker[w] = [pc |-> worker[w].pc, msg |-> worker[w].msg, status |-> s,
                      base |-> worker[w].base]
  BY <1>1, BusyFacts
<1>3. worker[w] \in Busy
  BY <1>2 DEF HandlerOK
<1>4. ASSUME NEW pc, Goes(w, pc) PROVE goes(pc, worker[w].msg, worker[w].base)
  <2>1. worker' = [worker EXCEPT ![w] = [worker[w] EXCEPT !.pc = pc]]
    BY <1>4 DEF Goes, WorkersOK
  <2> QED BY <1>3, <2>1, ChangedRecord
<1>5. ASSUME NEW pc, NEW base, GoesWith(w, pc, base) PROVE goes(pc, worker[w].msg, base)
  <2>1. worker' = [worker EXCEPT ![w] = [worker[w] EXCEPT !.pc = pc, !.base = base]]
    BY <1>5 DEF GoesWith
  <2> QED BY <1>3, <2>1, ChangedRecord
<1>6. ASSUME TimesOut(w) PROVE goes(worker[w].pc, None, worker[w].base)
  <2>1. worker' = [worker EXCEPT ![w] = [worker[w] EXCEPT !.msg = None]]
    BY <1>6 DEF TimesOut, WorkersOK
  <2> QED BY <1>3, <2>1, ChangedRecord
<1>7. ASSUME Discards(w), web' = web, cached' = cached
      PROVE  HistoryOK' /\ PastKept /\ (worker[w].msg # None => ghost'.fate[s] # "open")
  BY <1>2, <1>7, DiscardFacts, PastStays DEF Discards
<1>8. ASSUME Ends(w), HeldKept, PastKept PROVE WorkersOK'
  BY <1>8, OneHandler DEF Ends
<1>9. NoBase \in Base
  BY DEF NoBase, Base
<1>10. CASE DeleteStaleMessage(w)
  <2>1. HistoryOK' /\ PastKept
    BY <1>7, <1>10 DEF DeleteStaleMessage
  <2>2. QueueOK' /\ HeldKept /\ faults' \in 0..MaxFaults
    BY <1>2, <1>10, <2>1, DeleteFacts DEF DeleteStaleMessage
  <2>3. WorkersOK'
    BY <1>8, <1>10, <2>1, <2>2 DEF DeleteStaleMessage
  <2> QED BY <1>10, <2>1, <2>2, <2>3 DEF DeleteStaleMessage, JiraOK
<1>11. CASE SendPostponed(w)
  <2>1. HistoryOK' /\ PastKept
    BY <1>11, PastStays DEF SendPostponed
  <2>2. QueueOK' /\ HeldKept
    BY <1>2, <1>11, AddMessage DEF SendPostponed, HandlerOK
  <2>3. goes("postponed", worker[w].msg, worker[w].base)
    BY <1>4, <1>11 DEF SendPostponed
  <2>4. worker[w].msg # None
    BY <1>11, <1>2 DEF SendPostponed, HandlerOK
  <2>5. WorkersOK'
    BY <1>2, <2>1, <2>2, <2>3, <2>4, GoesFacts
  <2> QED BY <1>11, <2>1, <2>2, <2>5 DEF SendPostponed, JiraOK
<1>12. CASE DeletePostponed(w)
  <2>1. HistoryOK' /\ PastKept
    BY <1>12, PastStays DEF DeletePostponed
  <2>2. QueueOK' /\ HeldKept /\ faults' \in 0..MaxFaults
    BY <1>2, <1>12, <2>1, DeleteFacts DEF DeletePostponed
  <2>3. WorkersOK'
    BY <1>8, <1>12, <2>1, <2>2 DEF DeletePostponed
  <2> QED BY <1>12, <2>1, <2>2, <2>3 DEF DeletePostponed, JiraOK
<1>13. CASE StartHandler(w)
  <2>1. HistoryOK' /\ PastKept
    BY <1>13, PastStays DEF StartHandler
  <2>2. QueueOK' /\ HeldKept
    BY <1>13, <2>1, SameQueue DEF StartHandler
  <2>3. goes("handling", worker[w].msg, worker[w].base)
    BY <1>4, <1>13 DEF StartHandler
  <2>4. WorkersOK'
    BY <1>2, <2>1, <2>2, <2>3, GoesFacts
  <2> QED BY <1>13, <2>1, <2>2, <2>4 DEF StartHandler, JiraOK
<1>14. CASE FindBase(w)
  <2>1. HistoryOK' /\ PastKept
    BY <1>14, PastStays DEF FindBase
  <2>2. QueueOK' /\ HeldKept
    BY <1>14, <2>1, SameQueue DEF FindBase
  <2>3. goes("submitting", worker[w].msg, BaseOf(s))
    BY <1>5, <1>14 DEF FindBase
  <2>4. BaseOf(s) \in Base
    <3>1. OlderSuccesses(s) \in SUBSET Status
      BY DEF OlderSuccesses
    <3> QED BY <3>1, MaxFacts DEF BaseOf, Base
  <2>5. WorkersOK'
    BY <1>2, <2>1, <2>2, <2>3, <2>4, GoesFacts
  <2> QED BY <1>14, <2>1, <2>2, <2>5 DEF FindBase, JiraOK
<1>15. CASE NothingToSend(w)
  <2>1. HistoryOK' /\ PastKept /\ (worker[w].msg # None => ghost'.fate[s] # "open")
    BY <1>7, <1>15 DEF NothingToSend
  <2>2. QueueOK' /\ HeldKept
    BY <1>15, <2>1, SameQueue DEF NothingToSend
  <2>3. goes("done", worker[w].msg, NoBase)
    BY <1>5, <1>15 DEF NothingToSend
  <2>4. WorkersOK'
    BY <1>2, <1>9, <2>1, <2>2, <2>3, GoesFacts
  <2> QED BY <1>15, <2>1, <2>2, <2>4 DEF NothingToSend, JiraOK
<1>16. CASE Submit(w)
  <2> DEFINE d == Statuses[s].deployment
  <2>1. ghost' = [ghost EXCEPT !.fate[s] = "sent"]
    BY <1>16 DEF Submit
  <2>2. HistoryOK' /\ PastKept /\ ghost'.fate[s] # "open"
    BY <1>2, <1>16, <2>1 DEF HistoryOK, PastKept, Submit
  <2>3. QueueOK' /\ HeldKept
    BY <1>16, <2>2, SameQueue DEF Submit
  <2>4. goes("done", worker[w].msg, NoBase)
    BY <1>5, <1>16 DEF Submit
  <2>5. WorkersOK'
    BY <1>2, <1>9, <2>2, <2>3, <2>4, GoesFacts
  <2>6. jira' = jira \/ jira' = [jira EXCEPT ![d] = [sequence |-> s, status |-> s]]
    BY <1>16 DEF Submit, UpdateSequenceNumber
  <2>7. JiraOK'
    BY <1>2, <2>6 DEF JiraOK
  <2> QED BY <1>16, <2>2, <2>3, <2>5, <2>7 DEF Submit
<1>17. CASE DeleteDone(w)
  <2>1. HistoryOK' /\ PastKept
    BY <1>17, PastStays DEF DeleteDone
  <2>2. QueueOK' /\ HeldKept /\ faults' \in 0..MaxFaults
    BY <1>2, <1>17, <2>1, DeleteFacts DEF DeleteDone
  <2>3. WorkersOK'
    BY <1>8, <1>17, <2>1, <2>2 DEF DeleteDone
  <2> QED BY <1>17, <2>1, <2>2, <2>3 DEF DeleteDone, JiraOK
<1>18. CASE FailsAndRetries(w)
  <2>1. HistoryOK' /\ PastKept
    BY <1>18, PastStays DEF FailsAndRetries
  <2>2. QueueOK' /\ HeldKept
    BY <1>2, <1>18, <2>1, RetryFacts DEF FailsAndRetries
  <2>3. WorkersOK'
    BY <1>8, <1>18, <2>1, <2>2 DEF FailsAndRetries
  <2> QED BY <1>18, <2>1, <2>2, <2>3 DEF FailsAndRetries, JiraOK
<1>19. CASE FailsForGood(w)
  <2>1. HistoryOK' /\ PastKept
    BY <1>7, <1>19 DEF FailsForGood
  <2>2. QueueOK' /\ HeldKept /\ faults' \in 0..MaxFaults
    BY <1>2, <1>19, <2>1, DeleteFacts DEF FailsForGood
  <2>3. WorkersOK'
    BY <1>8, <1>19, <2>1, <2>2 DEF FailsForGood
  <2> QED BY <1>19, <2>1, <2>2, <2>3 DEF FailsForGood, JiraOK
<1>20. CASE TimesOut(w)
  <2>1. HistoryOK' /\ PastKept
    BY <1>20, PastStays DEF TimesOut
  <2>2. QueueOK' /\ HeldKept
    BY <1>2, <1>20, <2>1, RetryFacts DEF TimesOut
  <2>3. goes(worker[w].pc, None, worker[w].base) /\ worker[w].pc \in {"handling", "submitting"}
    BY <1>20, <1>6 DEF TimesOut
  <2>4. WorkersOK'
    BY <1>2, <2>1, <2>2, <2>3, GoesFacts
  <2>5. faults' \in 0..MaxFaults
    BY <1>20, Faults DEF TimesOut
  <2> QED BY <1>20, <2>1, <2>2, <2>4, <2>5 DEF TimesOut, JiraOK
<1>21. CASE Crash(w)
  <2>1. HistoryOK' /\ PastKept
    BY <1>21, PastStays DEF Crash
  <2>2. QueueOK' /\ HeldKept
    BY <1>21, <2>1, SameQueue DEF Crash
  <2>3. WorkersOK' /\ faults' \in 0..MaxFaults
    BY <1>8, <1>21, <2>1, <2>2, Faults DEF Crash
  <2> QED BY <1>21, <2>1, <2>2, <2>3 DEF Crash, JiraOK
<1> QED
  BY <1>10, <1>11, <1>12, <1>13, <1>14, <1>15, <1>16, <1>17, <1>18, <1>19, <1>20, <1>21
     DEF Step, Fails

LEMMA StepTypes ==
  ASSUME TypeInv, [Next]_vars
  PROVE  TypeInv' /\ HeldKept /\ PastKept
<1>1. CASE UNCHANGED vars
  <2>1. HistoryOK' /\ PastKept
    BY <1>1, PastStays DEF vars, TypeInv
  <2>2. QueueOK' /\ HeldKept
    BY <1>1, <2>1, SameQueue DEF vars, TypeInv
  <2>3. WorkersOK'
    BY <1>1, <2>1, <2>2, SameHandlers DEF vars, TypeInv
  <2> QED BY <1>1, <2>1, <2>2, <2>3 DEF vars, TypeInv, JiraOK
<1>2. CASE Next
  BY <1>2, WebServerTypes, QueueTypes, HandlerTypes DEF Next
<1> QED BY <1>1, <1>2

\* What the webhooks, the queue, the handlers, the cache and Jira's view are made of.
THEOREM Types == Spec => []TypeInv
<1>1. TypeInv /\ [Next]_vars => TypeInv'
  BY StepTypes
<1> QED BY InitTypes, <1>1, PTL DEF Spec

-----------------------------------------------------------------------------
(* Nothing vanishes. *)

\* A message that stays for a status, and that no handler has just postponed.
Stays(m, s) ==
  /\ m \in Msg /\ queue[m].status = s /\ queue'[m].status = s
  /\ ~IsOnlyPostponed(m)
  /\ \A w \in Worker : worker'[w].pc = "postponed" /\ worker'[w].msg = m => worker'[w] = worker[w]

LEMMA StaysKept ==
  ASSUME NEW s \in Status, NEW m, Stays(m, s)
  PROVE  \E i \in Msg : queue'[i].status = s /\ ~(IsOnlyPostponed(i))'
<1>1. ~(IsOnlyPostponed(m))'
  BY DEF Stays, IsOnlyPostponed
<1> QED BY <1>1 DEF Stays

\* A new message is nobody's.
LEMMA FreshKept ==
  ASSUME QueueOK, WorkersOK, HasRoom, NEW s \in Status,
         queue' = [queue EXCEPT ![Fresh] = NewMessage(s)],
         \A w \in Worker : worker'[w].msg = worker[w].msg
  PROVE  \E i \in Msg : queue'[i].status = s /\ ~(IsOnlyPostponed(i))'
<1>1. PICK m \in Msg : m = Fresh /\ ~IsHeld(m)
  BY FreshFacts
<1>2. queue'[m].status = s
  BY <1>1 DEF QueueOK, NewMessage
<1>3. ~(IsOnlyPostponed(m))'
  BY <1>1 DEF IsOnlyPostponed, IsHeld
<1> QED BY <1>2, <1>3

\* Who deletes a message either ends the status or is not the only one to keep it.
LEMMA DeleteKept ==
  ASSUME TypeInv, NEW w \in Worker, HandlerOK(w), DeletesMessage(w), Ends(w),
         NEW s \in Status, NEW m \in Msg, queue[m].status = s, ~IsOnlyPostponed(m),
         worker[w].msg # m
  PROVE  Stays(m, s)
<1>1. queue' = queue \/ (worker[w].msg # None /\ queue' = [queue EXCEPT ![worker[w].msg] = Absent])
  BY DEF DeletesMessage
<1>2. queue'[m] = queue[m]
  BY <1>1 DEF TypeInv, QueueOK
<1>3. \A v \in Worker : worker'[v] = IF v = w THEN Idle ELSE worker[v]
  BY DEF Ends, TypeInv, WorkersOK
<1> QED BY <1>2, <1>3 DEF Stays, Idle

LEMMA InitKept == Init => Kept
BY DEF Init, Kept

LEMMA StepKept ==
  ASSUME TypeInv, Kept, [Next]_vars
  PROVE  Kept'
<1> SUFFICES ASSUME NEW s \in Status, web'[s] = "sent", ghost'.fate[s] = "open"
             PROVE  \E i \in Msg : queue'[i].status = s /\ ~(IsOnlyPostponed(i))'
  BY DEF Kept
<1>1. TypeInv' /\ HeldKept /\ PastKept
  BY StepTypes
<1>2. ghost.fate[s] = "open"
  BY <1>1 DEF PastKept
<1> USE DEF TypeInv
<1>3. CASE web[s] # "sent"
  <2>1. SendWebhookMessage(s)
    BY <1>3 DEF Next, vars, ReceiveWebhook, CacheSuccessfulDeployment, SendWebhookMessage,
       WebhookIsLost, GrowsOld, Moves, RedriveToDlq, VisibilityLapses, ReceiveMessage, Step,
       DeleteStaleMessage, SendPostponed, DeletePostponed, StartHandler, FindBase, NothingToSend,
       Submit, DeleteDone, Fails, FailsAndRetries, FailsForGood, TimesOut, Crash
  <2> QED BY <2>1, FreshKept DEF SendWebhookMessage
<1>4. CASE web[s] = "sent"
  <2>1. PICK m \in Msg : queue[m].status = s /\ ~IsOnlyPostponed(m)
    BY <1>2, <1>4 DEF Kept
  <2>2. queue[m] \in Queued
    BY <2>1, StatusFacts DEF QueueOK, Absent
  <2> SUFFICES ASSUME ~Stays(m, s)
               PROVE  \E i \in Msg : queue'[i].status = s /\ ~(IsOnlyPostponed(i))'
    BY StaysKept
  <2>3. ~(queue'[m].status = s /\ worker' = worker)
    BY <2>1 DEF Stays
  <2>4. CASE UNCHANGED vars
    BY <2>1, <2>3, <2>4 DEF vars
  <2>5. ASSUME NEW x \in Status,
               \/ ReceiveWebhook(x) \/ CacheSuccessfulDeployment(x)
               \/ WebhookIsLost(x) \/ GrowsOld(x)
        PROVE  FALSE
    BY <2>1, <2>3, <2>5
       DEF ReceiveWebhook, CacheSuccessfulDeployment, WebhookIsLost, GrowsOld
  <2>6. ASSUME NEW x \in Status, SendWebhookMessage(x) PROVE FALSE
    <3>1. queue[Fresh] = Absent /\ Fresh \in Msg /\ queue[m] # Absent
      BY <2>2, <2>6, FreshFacts DEF SendWebhookMessage, Queued, Absent
    <3>2. queue'[m] = queue[m]
      BY <2>6, <3>1 DEF SendWebhookMessage, QueueOK
    <3> QED BY <2>1, <2>3, <2>6, <3>2 DEF SendWebhookMessage
  <2>7. ASSUME NEW i \in Msg, RedriveToDlq(i) PROVE FALSE
    <3>1. i # m
      <4>1. CASE i = m
        <5>1. queue[i].status = s /\ ghost' = DiscardedIn(ghost, s)
          BY <2>1, <2>7, <4>1 DEF RedriveToDlq
        <5> QED BY <2>7, <5>1, DiscardFacts DEF RedriveToDlq
      <4> QED BY <4>1
    <3> QED BY <2>1, <2>3, <2>7, <3>1 DEF RedriveToDlq, QueueOK
  <2>8. ASSUME NEW i \in Msg, VisibilityLapses(i) PROVE FALSE
    <3>1. queue'[m].status = queue[m].status
      BY <2>2, <2>8 DEF VisibilityLapses, QueueOK, Queued
    <3> QED BY <2>1, <2>3, <2>8, <3>1 DEF VisibilityLapses
  <2>9. ASSUME NEW i \in Msg, NEW w \in Worker, ReceiveMessage(w, i) PROVE FALSE
    <3>1. queue'[m].status = queue[m].status
      BY <2>2, <2>9 DEF ReceiveMessage, QueueOK, Queued
    <3>2. \A v \in Worker : worker'[v] = worker[v] \/ worker'[v].pc = "received"
      BY <2>9 DEF ReceiveMessage, WorkersOK
    <3> QED BY <2>1, <3>1, <3>2 DEF Stays
  <2>10. ASSUME NEW w \in Worker, Step(w) \/ Fails(w)
         PROVE  \E i \in Msg : queue'[i].status = s /\ ~(IsOnlyPostponed(i))'
    <3>1. worker[w].pc # "idle"
      BY <2>10 DEF Step, DeleteStaleMessage, SendPostponed, DeletePostponed, StartHandler,
         FindBase, NothingToSend, Submit, DeleteDone, Fails, FailsAndRetries, FailsForGood,
         TimesOut, Crash
    <3>2. HandlerOK(w) /\ worker[w].status \in Status /\ worker[w].msg \in Msg \cup {None}
      BY <3>1, BusyFacts
    <3>3. worker[w].msg = m => worker[w].status = s /\ worker[w].msg # None
      BY <2>1, <2>2, <3>2 DEF HandlerOK, Queued, Absent, None, Msg
    <3>4. ASSUME Discards(w), web' = web, cached' = cached PROVE worker[w].msg # m
      BY <3>2, <3>3, <3>4, DiscardFacts DEF Discards
    <3>5. ASSUME worker[w].msg # m, DeletesMessage(w), Ends(w) PROVE FALSE
      BY <2>1, <3>2, <3>5, DeleteKept
    <3>6. CASE DeleteStaleMessage(w)
      BY <3>4, <3>5, <3>6 DEF DeleteStaleMessage
    <3>7. CASE SendPostponed(w)
      <4>1. \A v \in Worker : worker'[v].msg = worker[v].msg
        BY <3>2, <3>7 DEF SendPostponed, Goes, WorkersOK, HandlerOK, Busy
      <4>2. \A v \in Worker : worker'[v] = worker[v] \/ v = w
        BY <3>7 DEF SendPostponed, Goes, WorkersOK
      <4>3. queue'[m].status = s
        BY <2>1, <2>2, <3>7, FreshFacts DEF SendPostponed, QueueOK, Absent, Queued
      <4>4. worker[w].msg = m
        BY <2>1, <4>1, <4>2, <4>3 DEF Stays
      <4>5. worker[w].status = s
        BY <3>3, <4>4
      <4> QED BY <3>7, <4>1, <4>5, FreshKept DEF SendPostponed
    <3>8. CASE DeletePostponed(w)
      <4>1. worker[w].msg # m
        BY <2>1, <3>8 DEF DeletePostponed, IsOnlyPostponed
      <4> QED BY <3>5, <3>8, <4>1 DEF DeletePostponed
    <3>9. CASE DeleteDone(w)
      <4>1. worker[w].msg # m
        BY <1>2, <3>2, <3>3, <3>9 DEF DeleteDone, HandlerOK
      <4> QED BY <3>5, <3>9, <4>1 DEF DeleteDone
    <3>10. CASE FailsForGood(w)
      BY <3>4, <3>5, <3>10 DEF FailsForGood
    <3>11. CASE StartHandler(w) \/ FindBase(w) \/ NothingToSend(w) \/ Submit(w)
      <4>1. queue' = queue
        BY <3>11 DEF StartHandler, FindBase, NothingToSend, Submit
      <4>2. \A v \in Worker : worker'[v] = worker[v] \/ worker'[v].pc # "postponed"
        <5>1. \A v \in Worker : v # w => worker'[v] = worker[v]
          BY <3>11 DEF StartHandler, FindBase, NothingToSend, Submit, Goes, GoesWith, WorkersOK
        <5>2. worker[w] \in Busy
          BY <3>2 DEF HandlerOK
        <5>3. CASE StartHandler(w)
          BY <5>1, <5>2, <5>3 DEF StartHandler, Goes, WorkersOK, Busy
        <5>4. ASSUME NEW pc \in {"submitting", "done"}, NEW base, GoesWith(w, pc, base)
              PROVE  worker'[w].pc # "postponed"
          <6>1. worker'[w] = [worker[w] EXCEPT !.pc = pc, !.base = base]
            BY <5>4 DEF GoesWith, WorkersOK
          <6>2. worker'[w].pc = pc
            BY <5>2, <6>1 DEF Busy
          <6> QED BY <6>2
        <5> QED BY <3>11, <5>1, <5>3, <5>4 DEF FindBase, NothingToSend, Submit
      <4> QED BY <2>1, <4>1, <4>2 DEF Stays
    <3>12. CASE FailsAndRetries(w) \/ TimesOut(w)
      <4>1. queue'[m].status = s
        BY <2>1, <2>2, <3>12 DEF FailsAndRetries, TimesOut, Retries, QueueOK, Queued
      <4>2. \A v \in Worker : worker'[v] = worker[v] \/ worker'[v].pc # "postponed"
        BY <3>2, <3>12 DEF FailsAndRetries, TimesOut, Ends, Idle, WorkersOK, HandlerOK, Busy
      <4> QED BY <2>1, <4>1, <4>2 DEF Stays
    <3>13. CASE Crash(w)
      <4>1. \A v \in Worker : worker'[v] = worker[v] \/ worker'[v].pc # "postponed"
        BY <3>13 DEF Crash, Ends, Idle, WorkersOK
      <4> QED BY <2>1, <3>13, <4>1 DEF Stays, Crash
    <3> QED
      BY <2>10, <3>6, <3>7, <3>8, <3>9, <3>10, <3>11, <3>12, <3>13 DEF Step, Fails
  <2> QED BY <2>4, <2>5, <2>6, <2>7, <2>8, <2>9, <2>10 DEF Next
<1> QED BY <1>3, <1>4

\* A status whose webhook sent a message stays in the queue until it is submitted or
\* discarded in a way the code means to: whatever is postponed, retried, delivered again or
\* lost with its handler (sqs.ts:263, sqs.ts:326, sqs.ts:372).
THEOREM NothingIsLost == Spec => []NothingVanishes
<1>1. Init => TypeInv /\ Kept
  BY InitTypes, InitKept
<1>2. (TypeInv /\ Kept) /\ [Next]_vars => (TypeInv /\ Kept)'
  BY StepTypes, StepKept
<1>3. Kept => NothingVanishes
  BY DEF Kept, NothingVanishes, IsQueued
<1> QED BY <1>1, <1>2, <1>3, PTL DEF Spec

-----------------------------------------------------------------------------
(* Jira shows the newest status. *)

LEMMA JiraFacts ==
  ASSUME JiraOK, NEW d \in Deployment
  PROVE  jira[d].status = jira[d].sequence /\ jira[d].status \in Nat
<1>1. jira[d].status \in Status \cup {None}
  BY DEF JiraOK
<1>2. jira[d].status \in Nat
  <2>1. Status \cup {None} \subseteq Nat
    BY StatusFacts DEF None
  <2> QED BY <1>1, <2>1, Zenon
<1>3. jira[d].status = jira[d].sequence
  BY DEF JiraOK
<1> QED BY <1>2, <1>3

LEMMA StepNewest ==
  ASSUME TypeInv, JiraShowsNewest, [Next]_vars
  PROVE  JiraShowsNewest'
<1> USE DEF TypeInv, JiraShowsNewest
<1>1. ASSUME NEW w \in Worker, Submit(w) PROVE JiraShowsNewest'
  <2> DEFINE x == worker[w].status
             d == Statuses[x].deployment
  <2>1. x \in Status
    BY <1>1, BusyFacts DEF Submit
  <2>2. \A s \in Status : ghost'.fate[s] = "sent" => s = x \/ ghost.fate[s] = "sent"
    BY <1>1, <2>1 DEF Submit, HistoryOK
  <2>3. d \in Deployment /\ x \in Nat
    BY <2>1, StatusFacts
  <2>4. jira' = IF x > jira[d].sequence THEN [jira EXCEPT ![d] = [sequence |-> x, status |-> x]]
                ELSE jira
    BY <1>1 DEF Submit, UpdateSequenceNumber
  <2>5. jira[d].status = jira[d].sequence /\ jira[d].status \in Nat
    BY <2>3, JiraFacts
  <2>6. jira'[d].status >= jira[d].status /\ jira'[d].status >= x
        /\ \A e \in Deployment \ {d} : jira'[e] = jira[e]
    <3>1. CASE x > jira[d].sequence
      <4>1. /\ jira'[d] = [sequence |-> x, status |-> x]
            /\ \A e \in Deployment \ {d} : jira'[e] = jira[e]
        BY <2>3, <2>4, <3>1 DEF JiraOK
      <4> QED BY <2>3, <2>5, <3>1, <4>1
    <3>2. CASE ~(x > jira[d].sequence)
      BY <2>3, <2>4, <2>5, <3>2
    <3> QED BY <3>1, <3>2
  <2>7. ASSUME NEW s \in Status, ghost'.fate[s] = "sent"
        PROVE  jira'[Statuses[s].deployment].status >= s
    <3> DEFINE e == Statuses[s].deployment
    <3>1. e \in Deployment /\ s \in Nat
      BY StatusFacts
    <3>2. CASE s = x
      BY <2>6, <3>2
    <3>3. CASE s # x
      <4>1. jira[e].status >= s /\ jira[e].status \in Nat
        BY <2>2, <2>7, <3>1, <3>3, JiraFacts
      <4>2. CASE e # d
        BY <2>6, <3>1, <4>1, <4>2
      <4>3. CASE e = d
        <5>1. jira'[d].status \in Nat
          BY <2>3, <2>4, <2>5, JiraFacts DEF JiraOK
        <5> QED BY <2>6, <3>1, <4>1, <4>3, <5>1
      <4> QED BY <4>2, <4>3
    <3> QED BY <3>2, <3>3
  <2> QED BY <2>7
<1>2. ASSUME jira' = jira, \A s \in Status : ghost'.fate[s] = "sent" => ghost.fate[s] = "sent"
      PROVE  JiraShowsNewest'
  BY <1>2
<1>3. ASSUME NEW s \in Status, HistoryOK, ghost' = DiscardedIn(ghost, s)
      PROVE  \A x \in Status : ghost'.fate[x] = "sent" => ghost.fate[x] = "sent"
  BY <1>3 DEF DiscardedIn, HistoryOK
<1>4. CASE UNCHANGED vars
  BY <1>2, <1>4 DEF vars
<1>5. ASSUME NEW s \in Status,
             \/ ReceiveWebhook(s) \/ CacheSuccessfulDeployment(s) \/ SendWebhookMessage(s)
             \/ WebhookIsLost(s) \/ GrowsOld(s)
      PROVE  JiraShowsNewest'
  BY <1>2, <1>5 DEF ReceiveWebhook, CacheSuccessfulDeployment, SendWebhookMessage, WebhookIsLost,
     GrowsOld, HistoryOK
<1>6. ASSUME NEW m \in Msg, RedriveToDlq(m) PROVE JiraShowsNewest'
  <2>1. queue[m].status \in Status
    BY <1>6 DEF RedriveToDlq, QueueOK, Queued, Absent
  <2> QED BY <1>2, <1>3, <1>6, <2>1 DEF RedriveToDlq
<1>7. ASSUME NEW m \in Msg, VisibilityLapses(m) \/ \E w \in Worker : ReceiveMessage(w, m)
      PROVE  JiraShowsNewest'
  BY <1>2, <1>7 DEF VisibilityLapses, ReceiveMessage
<1>8. ASSUME NEW w \in Worker,
             \/ DeleteStaleMessage(w) \/ NothingToSend(w) \/ FailsForGood(w)
      PROVE  JiraShowsNewest'
  <2>1. worker[w].status \in Status
    BY <1>8, BusyFacts DEF DeleteStaleMessage, NothingToSend, FailsForGood
  <2>2. Discards(w) /\ jira' = jira
    BY <1>8 DEF DeleteStaleMessage, NothingToSend, FailsForGood
  <2> QED BY <1>2, <1>3, <2>1, <2>2 DEF Discards
<1>9. ASSUME NEW w \in Worker,
             \/ SendPostponed(w) \/ DeletePostponed(w) \/ StartHandler(w) \/ FindBase(w)
             \/ DeleteDone(w) \/ FailsAndRetries(w) \/ TimesOut(w) \/ Crash(w)
      PROVE  JiraShowsNewest'
  BY <1>2, <1>9 DEF SendPostponed, DeletePostponed, StartHandler, FindBase, DeleteDone,
     FailsAndRetries, TimesOut, Crash
<1> QED BY <1>1, <1>4, <1>5, <1>6, <1>7, <1>8, <1>9 DEF Next, Step, Fails

\* Jira shows of a deployment no status older than one submitted, in whatever order
\* handlers submit them and however often (transform-deployment.ts:406).
THEOREM NewestShown == Spec => []JiraShowsNewest
<1>1. Init => JiraShowsNewest
  BY DEF Init, JiraShowsNewest
<1>2. (TypeInv /\ JiraShowsNewest) /\ [Next]_vars => (TypeInv /\ JiraShowsNewest)'
  BY StepTypes, StepNewest
<1> QED BY InitTypes, <1>1, <1>2, PTL DEF Spec

-----------------------------------------------------------------------------
(* The commits sent start at the last success. *)

\* Only a handler's own steps change its record, and the history before a webhook that has
\* sent its message does not change.
LEMMA StepBase ==
  ASSUME TypeInv, CommitsSinceLastSuccess, [Next]_vars
  PROVE  CommitsSinceLastSuccess'
<1> USE DEF TypeInv
<1> DEFINE Before(s) == {c \in ghost'.before[s] : c < s}
<1>1. ASSUME NEW s \in Status, web[s] = "sent" PROVE ghost'.before[s] = ghost.before[s]
  <2>1. ASSUME NEW x \in Status, ReceiveWebhook(x) PROVE ghost'.before[s] = ghost.before[s]
    BY <1>1, <2>1 DEF ReceiveWebhook, Moves, HistoryOK
  <2>2. ASSUME NEW x, ghost' = DiscardedIn(ghost, x) PROVE ghost'.before[s] = ghost.before[s]
    BY <2>2 DEF DiscardedIn, HistoryOK
  <2>3. ASSUME NEW w \in Worker, Submit(w) PROVE ghost'.before[s] = ghost.before[s]
    BY <2>3 DEF Submit, HistoryOK
  <2>4. CASE Next
    BY <2>1, <2>2, <2>3, <2>4 DEF Next, ReceiveWebhook, CacheSuccessfulDeployment,
       SendWebhookMessage, WebhookIsLost, GrowsOld, RedriveToDlq, VisibilityLapses, ReceiveMessage,
       Step, DeleteStaleMessage, SendPostponed, DeletePostponed, StartHandler, FindBase,
       NothingToSend, DeleteDone, Fails, FailsAndRetries, FailsForGood, TimesOut, Crash, Discards
  <2> QED BY <2>4 DEF vars
<1>2. SUFFICES ASSUME NEW w \in Worker, worker'[w].pc = "submitting"
               PROVE  LET s == worker'[w].status
                          base == worker'[w].base
                      IN  IF base.from = "cache"
                          THEN base.of < s /\ \A c \in Before(s) : c <= base.of
                          ELSE Before(s) = {}
  BY DEF CommitsSinceLastSuccess
<1>3. TypeInv'
  BY StepTypes
<1>4. CASE /\ worker[w].pc = "submitting" /\ worker'[w].status = worker[w].status
           /\ worker'[w].base = worker[w].base
  <2>1. worker[w].status \in Status /\ web[worker[w].status] = "sent"
    BY <1>4, BusyFacts DEF HandlerOK
  <2> QED BY <1>1, <1>4, <2>1 DEF CommitsSinceLastSuccess
<1>5. CASE FindBase(w)
  <2> DEFINE s == worker[w].status
             Older == OlderSuccesses(s)
  <2>1. HandlerOK(w) /\ worker[w] \in Busy /\ s \in Status /\ web[s] = "sent"
    BY <1>5, BusyFacts DEF FindBase, HandlerOK
  <2>2. worker'[w] = [worker[w] EXCEPT !.pc = "submitting", !.base = BaseOf(s)]
    BY <1>5 DEF FindBase, GoesWith, WorkersOK
  <2>3. worker'[w].status = s /\ worker'[w].base = BaseOf(s)
    BY <2>1, <2>2 DEF Busy
  <2>4. Before(s) \subseteq Older /\ Older \subseteq Status
    BY <1>1, <2>1, <2>3 DEF OlderSuccesses, HistoryOK
  <2>5. Older # {} => Max(Older) \in Older /\ \A c \in Older : c <= Max(Older)
    BY <2>4, MaxFacts
  <2>6. CASE Older = {}
    BY <2>3, <2>4, <2>6 DEF BaseOf, OlderSuccesses
  <2>7. CASE Older # {}
    <3>1. worker'[w].base = [from |-> "cache", of |-> Max(Older)]
      BY <2>3, <2>7 DEF BaseOf
    <3>2. Max(Older) < s
      BY <2>5, <2>7 DEF OlderSuccesses
    <3> HIDE DEF Older
    <3> QED BY <2>3, <2>4, <2>5, <2>7, <3>1, <3>2
  <2> QED BY <2>6, <2>7
<1>6. CASE UNCHANGED vars
  BY <1>2, <1>4, <1>6 DEF vars
<1>7. CASE worker'[w] = worker[w]
  BY <1>2, <1>4, <1>7
<1>8. ASSUME NEW s \in Status,
             \/ ReceiveWebhook(s) \/ CacheSuccessfulDeployment(s) \/ SendWebhookMessage(s)
             \/ WebhookIsLost(s) \/ GrowsOld(s)
      PROVE  worker'[w] = worker[w]
  BY <1>8 DEF ReceiveWebhook, CacheSuccessfulDeployment, SendWebhookMessage, WebhookIsLost, GrowsOld
<1>9. ASSUME NEW m \in Msg, RedriveToDlq(m) \/ VisibilityLapses(m) PROVE worker'[w] = worker[w]
  BY <1>9 DEF RedriveToDlq, VisibilityLapses
<1>10. ASSUME NEW v \in Worker, NEW m \in Msg, ReceiveMessage(v, m) PROVE worker'[w] = worker[w]
  BY <1>2, <1>10 DEF ReceiveMessage, WorkersOK
<1>11. ASSUME NEW v \in Worker, v # w, Step(v) \/ Fails(v) PROVE worker'[w] = worker[w]
  BY <1>11 DEF Step, DeleteStaleMessage, SendPostponed, DeletePostponed, StartHandler, FindBase,
     NothingToSend, Submit, DeleteDone, Fails, FailsAndRetries, FailsForGood, TimesOut, Crash,
     Goes, GoesWith, Ends, WorkersOK
<1>12. CASE Step(w) \/ Fails(w)
  <2>1. ASSUME Ends(w) PROVE FALSE
    BY <1>2, <2>1 DEF Ends, Idle, WorkersOK
  <2>2. worker[w] \in Busy
    <3>1. worker[w].pc # "idle"
      BY <1>12 DEF Step, DeleteStaleMessage, SendPostponed, DeletePostponed, StartHandler,
         FindBase, NothingToSend, Submit, DeleteDone, Fails, FailsAndRetries, FailsForGood,
         TimesOut, Crash
    <3> QED BY <3>1, BusyFacts DEF HandlerOK
  <2>3. CASE SendPostponed(w) \/ StartHandler(w)
    BY <1>2, <2>2, <2>3 DEF SendPostponed, StartHandler, Goes, WorkersOK, Busy
  <2>4. ASSUME NEW base, GoesWith(w, "done", base) PROVE FALSE
    <3>1. worker'[w] = [worker[w] EXCEPT !.pc = "done", !.base = base]
      BY <2>4 DEF GoesWith, WorkersOK
    <3>2. worker'[w].pc = "done"
      BY <2>2, <3>1 DEF Busy
    <3> QED BY <1>2, <3>2
  <2>5. CASE TimesOut(w)
    <3>1. worker'[w] = [worker[w] EXCEPT !.msg = None]
      BY <2>5 DEF TimesOut, WorkersOK
    <3>2. /\ worker'[w].pc = worker[w].pc /\ worker'[w].status = worker[w].status
          /\ worker'[w].base = worker[w].base
      BY <2>2, <3>1 DEF Busy
    <3> QED BY <1>2, <1>4, <3>2
  <2> QED
    BY <1>5, <1>12, <2>1, <2>3, <2>4, <2>5 DEF Step, DeleteStaleMessage, DeletePostponed,
       NothingToSend, Submit, DeleteDone, Fails, FailsAndRetries, FailsForGood, Crash
<1> QED
  BY <1>6, <1>7, <1>8, <1>9, <1>10, <1>11, <1>12 DEF Next

\* The commits sent with a status start at an older success, the newest of those in the cache
\* when its webhook came or a newer one, in whatever order the messages are handled and however
\* long the handlers outlive them (deployment.ts:17, deployment-cache-service.ts).
THEOREM CommitsStartRight == Spec => []CommitsSinceLastSuccess
<1>1. Init => CommitsSinceLastSuccess
  BY DEF Init, Idle, CommitsSinceLastSuccess
<1>2. TypeInv /\ CommitsSinceLastSuccess /\ [Next]_vars
        => (TypeInv /\ CommitsSinceLastSuccess)'
  BY StepTypes, StepBase
<1> QED BY InitTypes, <1>1, <1>2, PTL DEF Spec

\* The type invariant of the model holds in every reachable state.
THEOREM TypeCorrect == Spec => []TypeOK
<1>1. TypeInv => TypeOK
  <2> SUFFICES ASSUME TypeInv PROVE TypeOK
    OBVIOUS
  <2> USE DEF TypeInv
  <2>1. queue \in [Msg -> [status : Status \cup {None}, at : {"absent", "visible", "inflight"},
                          receives : 0..MAX_RECEIVE]]
    BY BoundsAssumption DEF QueueOK, Queued, Absent
  <2>2. ASSUME NEW w \in Worker
        PROVE worker[w] \in
                [pc : {"idle", "received", "postponed", "handling", "submitting", "done"},
                 msg : Msg \cup {None}, status : Status \cup {None}, base : Base]
    BY DEF WorkersOK, HandlerOK, Busy, Idle, Base, NoBase
  <2>3. jira \in [Deployment -> [sequence : Nat, status : Status \cup {None}]]
    <3>1. Status \cup {None} \subseteq Nat
      BY StatusFacts DEF None
    <3> QED BY <3>1 DEF JiraOK
  <2>4. /\ ghost.before \in [Status -> SUBSET Status]
        /\ ghost.fate \in [Status -> {"open", "sent", "discarded"}]
    BY DEF HistoryOK
  <2> QED BY <2>1, <2>2, <2>3, <2>4 DEF TypeOK, WorkersOK
<1> QED BY Types, <1>1, PTL
-----------------------------------------------------------------------------
(* Pushes.  A key is invalid for a push only when it was doubted when it   *)
(* was looked up; and what Redis or Jira may say is missing is doubted.    *)

PushState ==
  [pc : {"webhook", "queued", "looking", "sending", "done", "discarded", "dead"},
   receives : 0..PUSH_ATTEMPTS, keys : SUBSET Key, invalid : SUBSET Key,
   commits : SUBSET Commit, excused : SUBSET Key, cause : {"none", "gone", "error"}]

PushTypes ==
  /\ issues \subseteq Key /\ doubted \subseteq Key
  /\ remembered \in [Key -> {"nothing", "exist", "not_exist"}]
  /\ gone \subseteq Commit /\ arrived \subseteq Commit
  /\ push \in [Push -> PushState]

WhatIsMissingIsDoubted ==
  \A k \in Key \ doubted : k \in issues /\ remembered[k] # "not_exist"

\* What a push has decided about a commit is justified: it is on its way, or gone, or excused.
Accounted(p, there) ==
  \A c \in FirstCommits(p) :
    c \in there \/ c \in gone \/ KeysOf(c) \subseteq push[p].excused

PushOK(p) ==
  /\ push[p].invalid \subseteq push[p].excused
  /\ push[p].pc = "sending" => Accounted(p, push[p].commits)
  /\ push[p].pc = "done" => Accounted(p, arrived)
  /\ push[p].cause = "gone" => push[p].pc = "queued" /\ push[p].receives < PUSH_ATTEMPTS

PushesInv == PushTypes /\ WhatIsMissingIsDoubted /\ \A p \in Push : PushOK(p)

\* What is about a commit of a push is about keys and commits of the system.
LEMMA CommitKeys ==
  ASSUME NEW p \in Push
  PROVE  /\ FirstCommits(p) \subseteq Commit
         /\ \A c \in Commit : KeysOf(c) \subseteq Key
BY DEF FirstCommits, Key

\* A push that does not move stays as it should be: commits only arrive, or go for good.
LEMMA PushStays ==
  ASSUME NEW p \in Push, PushOK(p), push'[p] = push[p],
         gone \subseteq gone', arrived \subseteq arrived'
  PROVE  PushOK(p)'
<1>1. FirstCommits(p)' = FirstCommits(p)
  BY DEF FirstCommits
<1>2. \A c : KeysOf(c)' = KeysOf(c)
  BY DEF KeysOf
<1>3. (push[p].pc = "sending" => Accounted(p, push[p].commits))'
  BY <1>1, <1>2 DEF PushOK, Accounted
<1>4. (push[p].pc = "done" => Accounted(p, arrived))'
  BY <1>1, <1>2 DEF PushOK, Accounted
<1> QED
  BY <1>3, <1>4 DEF PushOK

LEMMA PushesInitially ==
  ASSUME PushesAssumption, PushesInit
  PROVE  PushesInv
<1>1. \A p \in Push : push[p] = At("webhook", 0)
  BY DEF PushesInit
<1>2. At("webhook", 0) \in PushState
  BY PushesAssumption DEF At, PushState
<1>3. PushTypes
  BY <1>1, <1>2 DEF PushesInit, PushTypes
<1>4. WhatIsMissingIsDoubted
  BY DEF PushesInit, WhatIsMissingIsDoubted
<1>5. \A p \in Push : PushOK(p)
  BY <1>1 DEF PushOK, At
<1> QED
  BY <1>3, <1>4, <1>5 DEF PushesInv

\* A step of one push leaves the others as they should be.
LEMMA OnePushMoves ==
  ASSUME NEW p \in Push, PushTypes, \A q \in Push : PushOK(q),
         NEW r \in PushState, push' = [push EXCEPT ![p] = r],
         gone \subseteq gone', arrived \subseteq arrived'
  PROVE  /\ push' \in [Push -> PushState]
         /\ push'[p] = r
         /\ \A q \in Push \ {p} : PushOK(q)'
BY PushStays DEF PushTypes

\* A push that neither sends commits nor is done has nothing to account for.
LEMMA PushRests ==
  ASSUME NEW p \in Push, PushesInv,
         NEW r \in PushState, r.pc \notin {"sending", "done"}, r.invalid \subseteq r.excused,
         r.cause = "gone" => r.pc = "queued" /\ r.receives < PUSH_ATTEMPTS,
         push' = [push EXCEPT ![p] = r],
         UNCHANGED <<issues, remembered, gone, arrived, doubted>>
  PROVE  PushesInv'
<1>1. /\ push' \in [Push -> PushState]
      /\ push'[p] = r
      /\ \A q \in Push \ {p} : PushOK(q)'
  BY OnePushMoves DEF PushesInv
<1>2. PushOK(p)'
  BY <1>1 DEF PushOK
<1>3. PushTypes'
  BY <1>1 DEF PushesInv, PushTypes
<1>4. WhatIsMissingIsDoubted'
  BY DEF PushesInv, WhatIsMissingIsDoubted
<1> QED
  BY <1>1, <1>2, <1>3, <1>4 DEF PushesInv

LEMMA QueueSteps ==
  ASSUME PushesAssumption, PushesInv, NEW p \in Push,
         \/ HandlePush(p) \/ LosePush(p) \/ ReceivePush(p) \/ RedrivePush(p) \/ RedeliverPush(p)
  PROVE  PushesInv'
<1>1. push \in [Push -> PushState] /\ PushOK(p)
  BY DEF PushesInv, PushTypes
<1>2. ASSUME NEW pc \in {"queued", "discarded", "dead"}, Leaves(p, pc),
             push[p].cause = "gone" => pc = "dead" /\ FALSE,
             UNCHANGED <<issues, remembered, gone, arrived, doubted>>
      PROVE  PushesInv'
  <2> DEFINE r == [push[p] EXCEPT !.pc = pc]
  <2>1. /\ r \in PushState /\ r.pc = pc /\ r.invalid = push[p].invalid
        /\ r.excused = push[p].excused /\ r.cause = push[p].cause
    BY <1>1 DEF PushState
  <2>2. push' = [push EXCEPT ![p] = r]
    BY <1>2 DEF Leaves
  <2> HIDE DEF r
  <2> QED
    BY <1>1, <1>2, <2>1, <2>2, PushRests DEF PushOK
<1>3. CASE HandlePush(p)
  BY <1>1, <1>2, <1>3 DEF HandlePush, PushOK
<1>4. CASE LosePush(p)
  BY <1>1, <1>2, <1>4 DEF LosePush, PushOK
<1>5. CASE RedrivePush(p)
  BY <1>1, <1>2, <1>5, PushesAssumption DEF RedrivePush, PushOK, PushState
<1>6. CASE RedeliverPush(p)
  BY <1>1, <1>2, <1>6 DEF RedeliverPush, PushOK
<1>7. CASE ReceivePush(p)
  <2> DEFINE r == [At("looking", push[p].receives + 1) EXCEPT
                     !.keys = UNION {KeysOf(c) : c \in FirstCommits(p)}]
  <2>1. UNION {KeysOf(c) : c \in FirstCommits(p)} \subseteq Key
    BY CommitKeys
  <2>2. push[p].receives + 1 \in 0..PUSH_ATTEMPTS
    BY <1>1, <1>7, PushesAssumption DEF ReceivePush, PushState
  <2>3. r \in PushState /\ r.pc = "looking" /\ r.invalid = {} /\ r.excused = {} /\ r.cause = "none"
    BY <2>1, <2>2 DEF At, PushState
  <2>4. push' = [push EXCEPT ![p] = r]
    BY <1>1, <1>7 DEF ReceivePush
  <2> HIDE DEF r
  <2> QED
    BY <1>7, <2>3, <2>4, PushRests DEF ReceivePush
<1> QED
  BY <1>3, <1>4, <1>5, <1>6, <1>7

LEMMA LookUpSteps ==
  ASSUME PushesAssumption, PushesInv, NEW p \in Push,
         (\E k \in push[p].keys : LookUp(p, k)) \/ LookUpFails(p)
  PROVE  PushesInv'
<1>1. push \in [Push -> PushState] /\ PushOK(p)
  BY DEF PushesInv, PushTypes
<1>2. ASSUME NEW k \in push[p].keys, LookUp(p, k)
      PROVE  PushesInv'
  <2>1. PICK answer \in KeyStatus(k) :
          /\ remembered' = IF answer = "unknown" THEN remembered
                           ELSE [remembered EXCEPT ![k] = answer]
          /\ push' = [push EXCEPT ![p] =
               [@ EXCEPT !.keys = push[p].keys \ {k},
                         !.invalid = push[p].invalid \cup {j \in {k} : IsInvalid(answer)},
                         !.excused = push[p].excused \cup ({k} \cap doubted)]]
    BY <1>2 DEF LookUp
  <2> DEFINE invalid == push[p].invalid \cup {j \in {k} : IsInvalid(answer)}
             r == [push[p] EXCEPT !.keys = push[p].keys \ {k}, !.invalid = invalid,
                                  !.excused = push[p].excused \cup ({k} \cap doubted)]
  <2>2. k \in Key
    BY <1>1 DEF PushState
  <2>3. answer \in {"unknown", "exist", "not_exist"} /\ (answer = "not_exist" => k \in doubted)
    BY <2>2 DEF KeyStatus, PushesInv, PushTypes, WhatIsMissingIsDoubted
  <2>4. invalid \subseteq Key /\ invalid \subseteq push[p].excused \cup ({k} \cap doubted)
    BY <1>1, <2>2, <2>3 DEF PushState, PushOK, IsInvalid
  <2>5. push' = [push EXCEPT ![p] = r]
    BY <2>1
  <2> HIDE DEF invalid
  <2>6. r \in PushState /\ r.invalid \subseteq r.excused /\ r.cause = push[p].cause
    BY <1>1, <2>2, <2>4 DEF PushState
  <2>7. r.pc = "looking"
    BY <1>1, <1>2 DEF PushState, LookUp
  <2> HIDE DEF r
  <2>8. UNCHANGED <<issues, gone, arrived, doubted>>
    BY <1>2 DEF LookUp
  <2>9. /\ push' \in [Push -> PushState]
        /\ push'[p] = r
        /\ \A q \in Push \ {p} : PushOK(q)'
    BY <2>6, <2>5, <2>8, OnePushMoves DEF PushesInv
  <2>10. PushOK(p)'
    BY <1>1, <1>2, <2>6, <2>7, <2>9 DEF PushOK, LookUp
  <2>11. remembered' \in [Key -> {"nothing", "exist", "not_exist"}]
    BY <2>1, <2>3 DEF PushesInv, PushTypes
  <2>12. WhatIsMissingIsDoubted'
    BY <2>1, <2>2, <2>3, <2>8 DEF PushesInv, PushTypes, WhatIsMissingIsDoubted
  <2> QED
    BY <2>8, <2>9, <2>10, <2>11, <2>12 DEF PushesInv, PushTypes
<1>3. CASE LookUpFails(p)
  <2> DEFINE r == [push[p] EXCEPT !.keys = {}, !.invalid = {}]
  <2>1. /\ r \in PushState /\ r.pc = "looking" /\ r.invalid = {}
        /\ r.cause = push[p].cause
    BY <1>1, <1>3 DEF PushState, LookUpFails
  <2>2. push' = [push EXCEPT ![p] = r]
    BY <1>1, <1>3 DEF LookUpFails
  <2> HIDE DEF r
  <2> QED
    BY <1>1, <1>3, <2>1, <2>2, PushRests DEF LookUpFails, PushOK
<1> QED
  BY <1>2, <1>3

LEMMA CommitSteps ==
  ASSUME PushesAssumption, PushesInv, NEW p \in Push,
         \/ CommitNotFound(p) \/ FetchCommits(p) \/ SendCommits(p) \/ PushFails(p)
         \/ DiscardPush(p)
  PROVE  PushesInv'
<1>1. push \in [Push -> PushState] /\ PushOK(p)
  BY DEF PushesInv, PushTypes
<1>2. CASE CommitNotFound(p)
  <2> DEFINE r == [At("queued", push[p].receives) EXCEPT !.cause = "gone"]
  <2>1. /\ r \in PushState /\ r.pc = "queued" /\ r.invalid = {} /\ r.excused = {}
        /\ r.receives = push[p].receives
    BY <1>1 DEF At, PushState
  <2>2. push' = [push EXCEPT ![p] = r] /\ push[p].receives < PUSH_ATTEMPTS
    BY <1>1, <1>2, PushesAssumption DEF CommitNotFound, IsLastAttempt, PushState
  <2> HIDE DEF r
  <2> QED
    BY <1>2, <2>1, <2>2, PushRests DEF CommitNotFound
<1>3. CASE PushFails(p)
  <2> DEFINE r == [At("queued", push[p].receives) EXCEPT !.cause = "error"]
  <2>1. /\ r \in PushState /\ r.pc = "queued" /\ r.invalid = {} /\ r.excused = {}
        /\ r.cause = "error"
    BY <1>1 DEF At, PushState
  <2>2. push' = [push EXCEPT ![p] = r]
    BY <1>1, <1>3 DEF PushFails
  <2> HIDE DEF r
  <2> QED
    BY <1>3, <2>1, <2>2, PushRests DEF PushFails
<1>4. CASE DiscardPush(p)
  <2> DEFINE r == At("discarded", push[p].receives)
  <2>1. /\ r \in PushState /\ r.pc = "discarded" /\ r.invalid = {} /\ r.excused = {}
        /\ r.cause = "none"
    BY <1>1 DEF At, PushState
  <2>2. push' = [push EXCEPT ![p] = r]
    BY <1>1, <1>4 DEF DiscardPush
  <2> HIDE DEF r
  <2> QED
    BY <1>4, <2>1, <2>2, PushRests DEF DiscardPush
<1>5. CASE FetchCommits(p)
  <2> DEFINE r == [push[p] EXCEPT !.pc = "sending", !.commits = Wanted(p) \ gone]
  <2>1. /\ r \in PushState /\ r.pc = "sending" /\ r.commits = Wanted(p) \ gone
        /\ r.invalid = push[p].invalid /\ r.excused = push[p].excused /\ r.cause = push[p].cause
    BY <1>1, CommitKeys DEF PushState, Wanted
  <2>2. push' = [push EXCEPT ![p] = r]
    BY <1>1, <1>5 DEF FetchCommits
  <2> HIDE DEF r
  <2>3. UNCHANGED <<issues, remembered, gone, arrived, doubted>>
    BY <1>5 DEF FetchCommits
  <2>4. /\ push' \in [Push -> PushState]
        /\ push'[p] = r
        /\ \A q \in Push \ {p} : PushOK(q)'
    BY <2>1, <2>2, <2>3, OnePushMoves DEF PushesInv
  <2>5. \A c \in FirstCommits(p) : c \in r.commits \/ c \in gone \/ KeysOf(c) \subseteq r.excused
    BY <1>1, <2>1 DEF Wanted, PushOK
  <2>6. FirstCommits(p)' = FirstCommits(p) /\ \A c : KeysOf(c)' = KeysOf(c)
    BY DEF FirstCommits, KeysOf
  <2>7. Accounted(p, push[p].commits)'
    BY <2>3, <2>4, <2>5, <2>6 DEF Accounted
  <2>8. PushOK(p)'
    BY <1>1, <1>5, <2>1, <2>4, <2>7 DEF PushOK, FetchCommits, HasAllKeys
  <2> QED
    BY <2>3, <2>4, <2>8 DEF PushesInv, PushTypes, WhatIsMissingIsDoubted
<1>6. CASE SendCommits(p)
  <2> DEFINE r == [At("done", push[p].receives) EXCEPT !.excused = push[p].excused]
  <2>1. /\ r \in PushState /\ r.pc = "done" /\ r.invalid = {} /\ r.excused = push[p].excused
        /\ r.cause = "none"
    BY <1>1 DEF At, PushState
  <2>2. push' = [push EXCEPT ![p] = r]
    BY <1>1, <1>6 DEF SendCommits
  <2> HIDE DEF r
  <2>3. UNCHANGED <<issues, remembered, gone, doubted>> /\ arrived' = arrived \cup push[p].commits
    BY <1>6 DEF SendCommits
  <2>4. /\ push' \in [Push -> PushState]
        /\ push'[p] = r
        /\ \A q \in Push \ {p} : PushOK(q)'
    BY <2>1, <2>2, <2>3, OnePushMoves DEF PushesInv
  <2>5. \A c \in FirstCommits(p) : c \in arrived' \/ c \in gone \/ KeysOf(c) \subseteq r.excused
    BY <1>1, <1>6, <2>1, <2>3 DEF SendCommits, PushOK, Accounted
  <2>6. FirstCommits(p)' = FirstCommits(p) /\ \A c : KeysOf(c)' = KeysOf(c)
    BY DEF FirstCommits, KeysOf
  <2>7. Accounted(p, arrived)'
    BY <2>3, <2>4, <2>5, <2>6 DEF Accounted
  <2>8. PushOK(p)'
    BY <2>1, <2>4, <2>7 DEF PushOK
  <2>9. arrived' \subseteq Commit
    BY <1>1, <2>3 DEF PushesInv, PushTypes, PushState
  <2> QED
    BY <2>3, <2>4, <2>8, <2>9 DEF PushesInv, PushTypes, WhatIsMissingIsDoubted
<1> QED
  BY <1>2, <1>3, <1>4, <1>5, <1>6

LEMMA WorldSteps ==
  ASSUME PushesInv,
         \/ \E k \in Key : CreateIssue(k) \/ Forget(k)
         \/ \E c \in Commit : CommitGoes(c)
  PROVE  PushesInv'
<1>1. push' = push /\ arrived' = arrived /\ gone \subseteq gone'
  BY DEF CreateIssue, Forget, CommitGoes
<1>2. \A p \in Push : PushOK(p)'
  BY <1>1, PushStays DEF PushesInv
<1>3. PushTypes'
  BY DEF PushesInv, PushTypes, CreateIssue, Forget, CommitGoes
<1>4. WhatIsMissingIsDoubted'
  BY DEF PushesInv, PushTypes, WhatIsMissingIsDoubted, CreateIssue, Forget, CommitGoes
<1> QED
  BY <1>2, <1>3, <1>4 DEF PushesInv

\* Once a push is done, Jira has each of its first commits that GitHub still has and that
\* names an issue that is there; and a commit that is gone is never why a push is given up,
\* for it is left out on the last attempt (Pushes: processPush, getCommit).
THEOREM CommitsReachJira == PushesSpec => []CommitsArrive
<1>1. PushesInit => PushesInv
  BY PushesInitially, PushesAssumption
<1>2. PushesInv /\ [PushesNext]_pushes => PushesInv'
  <2> SUFFICES ASSUME PushesInv, [PushesNext]_pushes
               PROVE  PushesInv'
    OBVIOUS
  <2>1. CASE UNCHANGED pushes
    <3>1. UNCHANGED <<issues, remembered, gone, arrived, push, doubted>>
      BY <2>1 DEF pushes
    <3>2. \A p \in Push : PushOK(p)'
      BY <3>1, PushStays DEF PushesInv
    <3> QED
      BY <3>1, <3>2 DEF PushesInv, PushTypes, WhatIsMissingIsDoubted
  <2>2. CASE \/ \E k \in Key : CreateIssue(k) \/ Forget(k)
             \/ \E c \in Commit : CommitGoes(c)
    BY <2>2, WorldSteps
  <2>3. ASSUME NEW p \in Push,
               \/ HandlePush(p) \/ LosePush(p) \/ ReceivePush(p) \/ RedrivePush(p)
               \/ RedeliverPush(p)
        PROVE  PushesInv'
    BY <2>3, QueueSteps, PushesAssumption
  <2>4. ASSUME NEW p \in Push, (\E k \in push[p].keys : LookUp(p, k)) \/ LookUpFails(p)
        PROVE  PushesInv'
    BY <2>4, LookUpSteps, PushesAssumption
  <2>5. ASSUME NEW p \in Push,
               \/ CommitNotFound(p) \/ FetchCommits(p) \/ SendCommits(p) \/ PushFails(p)
               \/ DiscardPush(p)
        PROVE  PushesInv'
    BY <2>5, CommitSteps, PushesAssumption
  <2> QED
    BY <2>1, <2>2, <2>3, <2>4, <2>5 DEF PushesNext
<1>3. PushesInv => CommitsArrive
  BY PushesAssumption DEF PushesInv, PushTypes, PushState, PushOK, Accounted, CommitsArrive
<1> QED
  BY <1>1, <1>2, <1>3, PTL DEF PushesSpec

-----------------------------------------------------------------------------
(* Pull requests: what webhooks and their requests look like. *)

Index == 1..Len(events)
Kinds == {"create", "delete", "opened", "closed", "reopened", "converted_to_draft",
          "ready_for_review", "edited"}
Stages == {"sent", "queued", "fetching", "linking", "updating", "deletingBranch",
           "deletingPullRequest", "done"}
PullRequestStates == {"none", "OPEN", "DRAFT", "MERGED", "DECLINED"}
Bodies == {"plain", "key", "linked"}
Event == [kind : Kinds, bot : BOOLEAN, pc : Stages, pr : PullRequestStates, title : BOOLEAN,
          body : Bodies, left : BOOLEAN, number : Nat, attempt : Nat]
Repository == [branch : BOOLEAN, named : BOOLEAN, pr : PullRequestStates, title : BOOLEAN,
               body : Bodies]
Shown == [branch : [number : Nat, is : BOOLEAN], pr : [number : Nat, is : PullRequestStates]]

EventTypes ==
  repo \in Repository /\ events \in Seq(Event) /\ shown \in Shown /\ clock \in Nat

\* One webhook has been taken further, and others may have come.
Evolves(i) ==
  /\ events' \in Seq(Event) /\ Len(events) <= Len(events')
  /\ \A j \in Index \ {i} : events'[j] = events[j]
  /\ \A j \in Index' \ Index : events'[j].pc = "sent"

\* What a webhook says.
Alike(e, f) ==
  /\ e.kind = f.kind /\ e.bot = f.bot /\ e.pr = f.pr /\ e.title = f.title /\ e.body = f.body
  /\ e.left = f.left

LEMMA IndexFacts ==
  ASSUME EventTypes
  PROVE  /\ Len(events) \in Nat /\ Index \subseteq Nat /\ \A i \in Index : events[i] \in Event
         /\ DOMAIN events = Index
BY DEF EventTypes, Index

LEMMA Altering ==
  ASSUME EventTypes, NEW i \in Index, NEW e \in Event, events' = [events EXCEPT ![i] = e]
  PROVE  Evolves(i) /\ events'[i] = e /\ Index' = Index
<1>1. events \in Seq(Event) /\ i \in 1..Len(events)
  BY DEF EventTypes, Index
<1>2. events' \in Seq(Event) /\ Len(events') = Len(events)
  BY <1>1, ExceptSeq
<1>3. \A j \in Index : events'[j] = IF j = i THEN e ELSE events[j]
  BY <1>1, IndexFacts
<1> QED
  BY <1>1, <1>2, <1>3 DEF Evolves, Index

LEMMA Proceeding ==
  ASSUME EventTypes, NEW i \in Index, NEW to \in Stages, Proceeds(i, to)
  PROVE  /\ Evolves(i) /\ Index' = Index /\ Alike(events'[i], events[i]) /\ events'[i].pc = to
         /\ events'[i].number = events[i].number /\ events'[i].attempt = events[i].attempt
<1> DEFINE e == [events[i] EXCEPT !.pc = to]
<1>1. events[i] \in Event
  BY IndexFacts
<1>2. e \in Event
  BY <1>1 DEF Event
<1>3. /\ Alike(e, events[i]) /\ e.pc = to /\ e.number = events[i].number
      /\ e.attempt = events[i].attempt
  BY <1>1 DEF Event, Alike
<1>4. events' = [events EXCEPT ![i] = e]
  BY DEF Proceeds
<1> HIDE DEF e
<1> QED
  BY <1>2, <1>3, <1>4, Altering

LEMMA ProceedingNumbered ==
  ASSUME EventTypes, NEW i \in Index, NEW to \in Stages, ProceedsNumbered(i, to)
  PROVE  /\ Evolves(i) /\ Index' = Index /\ Alike(events'[i], events[i]) /\ events'[i].pc = to
         /\ events'[i].number = clock + 1 /\ clock' = clock + 1
<1> DEFINE e == [events[i] EXCEPT !.pc = to, !.number = clock + 1]
<1>1. events[i] \in Event /\ clock + 1 \in Nat
  BY IndexFacts DEF EventTypes
<1>2. e \in Event
  BY <1>1 DEF Event
<1>3. Alike(e, events[i]) /\ e.pc = to /\ e.number = clock + 1
  BY <1>1 DEF Event, Alike
<1>4. events' = [events EXCEPT ![i] = e]
  <2>1. events' = [events EXCEPT ![i].pc = to, ![i].number = clock + 1]
    BY DEF ProceedsNumbered
  <2> QED
    BY <2>1, IndexFacts
<1> HIDE DEF e
<1> QED
  BY <1>2, <1>3, <1>4, Altering DEF ProceedsNumbered

LEMMA Finishing ==
  ASSUME EventTypes, NEW i \in Index, Finishes(i)
  PROVE  /\ Evolves(i) /\ Index' = Index /\ events'[i].pc = "done" /\ events'[i].number = 0
         /\ events'[i].kind = events[i].kind /\ events'[i].bot = events[i].bot
<1>1. events[i].kind \in Kinds /\ events[i].bot \in BOOLEAN
  BY IndexFacts DEF Event
<1> DEFINE e == Ended(events[i])
<1>2. Webhook(NoRepo(FALSE), events[i].kind, events[i].bot, FALSE) \in Event
  BY <1>1 DEF Event, Stages, PullRequestStates, Bodies, Webhook, NoRepo
<1>3. e \in Event /\ e.pc = "done"
  BY <1>2 DEF Event, Stages, Ended
<1>4. e.number = 0 /\ e.kind = events[i].kind /\ e.bot = events[i].bot
  BY DEF Ended, Webhook
<1>5. events' = [events EXCEPT ![i] = e]
  BY DEF Finishes
<1> HIDE DEF e
<1> QED
  BY <1>3, <1>4, <1>5, Altering

LEMMA Retrying ==
  ASSUME EventTypes, NEW i \in Index,
         events' = [events EXCEPT ![i].pc = "queued", ![i].attempt = @ + 1]
  PROVE  /\ Evolves(i) /\ Index' = Index /\ Alike(events'[i], events[i])
         /\ events'[i].pc = "queued" /\ events'[i].number = events[i].number
<1> DEFINE e == [events[i] EXCEPT !.pc = "queued", !.attempt = @ + 1]
<1>1. events[i] \in Event
  BY IndexFacts
<1>2. e \in Event
  <2>1. events[i].attempt + 1 \in Nat /\ "queued" \in Stages
    BY <1>1 DEF Event, Stages
  <2> QED
    BY <1>1, <2>1 DEF Event
<1>3. Alike(e, events[i]) /\ e.pc = "queued" /\ e.number = events[i].number
  BY <1>1 DEF Event, Alike
<1>4. events' = [events EXCEPT ![i] = e]
  BY IndexFacts
<1> HIDE DEF e
<1> QED
  BY <1>2, <1>3, <1>4, Altering

\* Webhooks of a change come after those that are there.
LEMMA Extending ==
  ASSUME EventTypes, NEW news \in Seq(Event), \A j \in 1..Len(news) : news[j].pc = "sent",
         events' = events \o news
  PROVE  /\ Evolves(0) /\ Index' = 1..(Len(events) + Len(news)) /\ Index \subseteq Index'
         /\ \A j \in Index' \ Index : j - Len(events) \in 1..Len(news) /\
                                      events'[j] = news[j - Len(events)]
<1>1. /\ events \in Seq(Event) /\ events' \in Seq(Event)
      /\ Len(events') = Len(events) + Len(news) /\ Len(events) \in Nat /\ Len(news) \in Nat
  BY DEF EventTypes
<1>2. \A j \in 1..Len(events') :
        events'[j] = IF j <= Len(events) THEN events[j] ELSE news[j - Len(events)]
  BY <1>1
<1> QED
  BY <1>1, <1>2 DEF Evolves, Index

-----------------------------------------------------------------------------
(* What a change of the repository brings. *)

PullRequestKinds == Kinds \ {"create", "delete"}

\* A pull request has a webhook for what happens to it, and one that names no issue any more
\* says so when it was the title that named them.
Tells(r, kinds, left) ==
  \/ /\ kinds = <<"create">> /\ ~repo.branch /\ r.branch
     /\ r.pr = repo.pr /\ r.title = repo.title /\ r.body = repo.body
  \/ /\ kinds = <<"delete">> /\ repo.branch /\ ~r.branch
     /\ r.pr = repo.pr /\ r.title = repo.title /\ r.body = repo.body
  \/ /\ kinds = <<"closed", "delete">> /\ repo.branch /\ ~r.branch
     /\ r.pr = "DECLINED" /\ r.title = repo.title /\ r.body = repo.body
  \/ /\ \E kind \in PullRequestKinds : kinds = <<kind>>
     /\ r.branch = repo.branch /\ r.pr # "none" /\ (repo.branch \/ repo.pr # "none")
     /\ IsKeyed(repo) /\ ~IsKeyed(r) /\ r.title # repo.title => left

LEMMA Telling ==
  ASSUME EventTypes, repo.pr = "none" => ~repo.title /\ repo.body = "plain", GitHubChanges
  PROVE  \E r \in Repository, kinds \in Seq(Kinds), left \in BOOLEAN :
           Changes(r, kinds, left) /\ Tells(r, kinds, left) /\ r.named = repo.named
<1>1. repo \in Repository
  BY DEF EventTypes
<1>2. ASSUME NEW kind \in Kinds
      PROVE  <<kind>> \in Seq(Kinds)
  OBVIOUS
<1>3. \A k \in {"opened", "closed", "reopened", "converted_to_draft", "ready_for_review",
                "edited"} : k \in PullRequestKinds /\ k \in Kinds
  BY DEF PullRequestKinds, Kinds
<1>4. CASE CreateBranch
  <2> DEFINE r == [repo EXCEPT !.branch = TRUE]
  <2>1. /\ r \in Repository /\ r.branch /\ r.named = repo.named /\ r.pr = repo.pr
        /\ r.title = repo.title /\ r.body = repo.body
    BY <1>1 DEF Repository
  <2>2. Changes(r, <<"create">>, FALSE) /\ ~repo.branch
    BY <1>4 DEF CreateBranch
  <2> HIDE DEF r
  <2>3. "create" \in Kinds
    BY DEF Kinds
  <2> QED
    BY <1>2, <2>1, <2>2, <2>3 DEF Tells
<1>5. CASE DeleteBranch
  <2> DEFINE r == [repo EXCEPT !.branch = FALSE]
             q == [repo EXCEPT !.branch = FALSE, !.pr = "DECLINED"]
  <2>1. /\ r \in Repository /\ ~r.branch /\ r.named = repo.named /\ r.pr = repo.pr
        /\ r.title = repo.title /\ r.body = repo.body
    BY <1>1 DEF Repository
  <2>2. /\ q \in Repository /\ ~q.branch /\ q.named = repo.named /\ q.pr = "DECLINED"
        /\ q.title = repo.title /\ q.body = repo.body
    BY <1>1 DEF Repository, PullRequestStates
  <2>3. /\ repo.branch
        /\ Changes(r, <<"delete">>, FALSE) \/ Changes(q, <<"closed", "delete">>, FALSE)
    BY <1>5 DEF DeleteBranch
  <2> HIDE DEF r, q
  <2>4. "delete" \in Kinds /\ <<"closed", "delete">> \in Seq(Kinds)
    BY DEF Kinds
  <2>5. CASE Changes(r, <<"delete">>, FALSE)
    BY <1>2, <2>1, <2>3, <2>4, <2>5 DEF Tells
  <2>6. CASE Changes(q, <<"closed", "delete">>, FALSE)
    BY <2>2, <2>3, <2>4, <2>6 DEF Tells
  <2> QED
    BY <2>3, <2>5, <2>6
<1>6. ASSUME NEW r \in Repository, NEW kind \in PullRequestKinds, NEW left \in BOOLEAN,
             Changes(r, <<kind>>, left), r.named = repo.named, r.branch = repo.branch,
             r.pr # "none", repo.branch \/ repo.pr # "none",
             IsKeyed(repo) /\ ~IsKeyed(r) /\ r.title # repo.title => left
      PROVE  \E q \in Repository, kinds \in Seq(Kinds), last \in BOOLEAN :
               Changes(q, kinds, last) /\ Tells(q, kinds, last) /\ q.named = repo.named
  <2>1. <<kind>> \in Seq(Kinds)
    BY <1>2 DEF PullRequestKinds
  <2>2. Tells(r, <<kind>>, left)
    BY <1>6 DEF Tells
  <2> QED
    BY <1>6, <2>1, <2>2
<1>7. CASE OpenPullRequest
  <2>1. PICK title \in BOOLEAN, body \in {"plain", "key"} :
          Changes([repo EXCEPT !.pr = "OPEN", !.title = title, !.body = body], <<"opened">>, FALSE)
    BY <1>7 DEF OpenPullRequest
  <2> DEFINE r == [repo EXCEPT !.pr = "OPEN", !.title = title, !.body = body]
  <2>2. r \in Repository /\ r.branch = repo.branch /\ r.named = repo.named /\ r.pr = "OPEN"
    BY <1>1 DEF Repository, PullRequestStates, Bodies
  <2>3. Changes(r, <<"opened">>, FALSE)
    BY <2>1
  <2> HIDE DEF r
  <2>4. IsKeyed(repo) => IsKeyed(r)
    BY <1>7, <2>2 DEF OpenPullRequest, IsKeyed
  <2>5. repo.branch
    BY <1>7 DEF OpenPullRequest
  <2> QED
    BY <1>3, <1>6, <2>2, <2>3, <2>4, <2>5
<1>8. ASSUME NEW pr \in PullRequestStates \ {"none"}, NEW kind \in PullRequestKinds,
             Changes([repo EXCEPT !.pr = pr], <<kind>>, FALSE), repo.branch \/ repo.pr # "none"
      PROVE  \E q \in Repository, kinds \in Seq(Kinds), last \in BOOLEAN :
               Changes(q, kinds, last) /\ Tells(q, kinds, last) /\ q.named = repo.named
  <2> DEFINE r == [repo EXCEPT !.pr = pr]
  <2>1. /\ r \in Repository /\ r.branch = repo.branch /\ r.named = repo.named /\ r.pr # "none"
        /\ r.title = repo.title
    BY <1>1 DEF Repository
  <2>2. Changes(r, <<kind>>, FALSE)
    BY <1>8
  <2> HIDE DEF r
  <2>3. repo.branch \/ repo.pr # "none"
    BY <1>8
  <2> QED
    BY <1>6, <2>1, <2>2, <2>3
<1>9. CASE ClosePullRequest \/ ReopenPullRequest \/ ConvertToDraft \/ MarkReady
  <2>1. \E pr \in PullRequestStates \ {"none"}, kind \in PullRequestKinds :
          Changes([repo EXCEPT !.pr = pr], <<kind>>, FALSE) /\ (repo.branch \/ repo.pr # "none")
    <3>1. \A p \in {"OPEN", "DRAFT", "MERGED", "DECLINED"} : p \in PullRequestStates \ {"none"}
      BY DEF PullRequestStates
    <3> QED
      BY <1>3, <1>9, <3>1 DEF ClosePullRequest, IsOpen, ReopenPullRequest, ConvertToDraft, MarkReady
  <2> QED
    BY <1>8, <2>1
<1>10. CASE EditTitle
  <2> DEFINE r == [repo EXCEPT !.title = ~@]
  <2>1. /\ r \in Repository /\ r.branch = repo.branch /\ r.named = repo.named /\ r.pr = repo.pr
        /\ r.title = ~repo.title
    BY <1>1 DEF Repository
  <2>2. Changes(r, <<"edited">>, repo.title) /\ repo.pr # "none" /\ repo.title \in BOOLEAN
    BY <1>1, <1>10 DEF EditTitle, Repository
  <2> HIDE DEF r
  <2>3. IsKeyed(repo) /\ ~IsKeyed(r) => repo.title
    BY <2>1 DEF IsKeyed
  <2> QED
    BY <1>3, <1>6, <2>1, <2>2, <2>3
<1>11. CASE EditBody
  <2>1. PICK body \in {"plain", "key"} : Changes([repo EXCEPT !.body = body], <<"edited">>, FALSE)
    BY <1>11 DEF EditBody
  <2> DEFINE r == [repo EXCEPT !.body = body]
  <2>2. /\ r \in Repository /\ r.branch = repo.branch /\ r.named = repo.named /\ r.pr = repo.pr
        /\ r.title = repo.title
    BY <1>1 DEF Repository, Bodies
  <2>3. Changes(r, <<"edited">>, FALSE) /\ repo.pr # "none"
    BY <1>11, <2>1 DEF EditBody
  <2> HIDE DEF r
  <2> QED
    BY <1>3, <1>6, <2>2, <2>3
<1> QED
  BY <1>4, <1>5, <1>7, <1>9, <1>10, <1>11 DEF GitHubChanges

\* The webhooks that a change adds.
News(r, kinds, left, bot) ==
  /\ Evolves(0) /\ Index \subseteq Index' /\ Index' = 1..(Len(events) + Len(kinds))
  /\ \A j \in 1..Len(kinds) : events'[Len(events) + j] = Webhook(r, kinds[j], bot, left)
  /\ repo' = r /\ UNCHANGED <<shown, clock>>

\* What a change, told by such webhooks, is excused for.
Excuses(r, kinds, bot) ==
  (happened \ {"unnoticed"}) \cup Unnoticed(r) \cup
    {IF kinds[i] = "delete" THEN "branch ignored" ELSE "ignored" :
       i \in {j \in 1..Len(kinds) : IsIgnored(kinds[j], bot)}}

LEMMA Changing ==
  ASSUME EventTypes, NEW r \in Repository, NEW kinds \in Seq(Kinds), NEW left \in BOOLEAN,
         Changes(r, kinds, left)
  PROVE  \E bot \in BOOLEAN : News(r, kinds, left, bot) /\ happened' = Excuses(r, kinds, bot)
<1>1. PICK bot \in BOOLEAN :
        /\ events' = events \o [i \in 1..Len(kinds) |-> Webhook(r, kinds[i], bot, left)]
        /\ happened' = Excuses(r, kinds, bot)
  BY DEF Changes, Excuses
<1> DEFINE news == [i \in 1..Len(kinds) |-> Webhook(r, kinds[i], bot, left)]
<1>2. Len(kinds) \in Nat /\ \A j \in 1..Len(kinds) : kinds[j] \in Kinds
  OBVIOUS
<1>3. \A j \in 1..Len(kinds) : Webhook(r, kinds[j], bot, left) \in Event
  BY <1>2 DEF Webhook, Event, Repository, Stages
<1>4. news \in Seq(Event) /\ Len(news) = Len(kinds)
  BY <1>2, <1>3
<1>5. \A j \in 1..Len(kinds) : /\ news[j] = Webhook(r, kinds[j], bot, left)
                               /\ news[j].pc = "sent"
  BY DEF Webhook
<1>6. events' = events \o news /\ repo' = r /\ UNCHANGED <<shown, clock>>
  BY <1>1 DEF Changes
<1> HIDE DEF news
<1>7. /\ Evolves(0) /\ Index' = 1..(Len(events) + Len(kinds)) /\ Index \subseteq Index'
      /\ \A j \in Index' \ Index : events'[j] = news[j - Len(events)]
  BY <1>4, <1>5, <1>6, Extending
<1>8. ASSUME NEW j \in 1..Len(kinds)
      PROVE  events'[Len(events) + j] = news[j]
  <2>1. Len(events) \in Nat
    BY IndexFacts
  <2>2. Len(events) + j \in Index' \ Index
    BY <1>2, <1>7, <2>1 DEF Index
  <2>3. (Len(events) + j) - Len(events) = j
    BY <1>2, <2>1
  <2> QED
    BY <1>7, <2>2, <2>3
<1> QED
  BY <1>1, <1>5, <1>6, <1>7, <1>8 DEF News

-----------------------------------------------------------------------------
(* Where webhooks may be, and how updates are numbered. *)

DeletionIgnored == "branch ignored" \in happened

EventOK(e) ==
  /\ e.pc \in {"queued", "fetching"} => e.kind = "create"
  /\ e.pc = "deletingBranch" => e.kind = "delete"
  /\ e.pc \in {"linking", "deletingPullRequest"} => IsOfPullRequest(e)
  /\ e.pc = "updating" => e.kind # "delete"
  /\ e.pc \notin {"sent", "done"} => ~IsIgnored(e.kind, e.bot)
  /\ e.pc = "linking" \/ (e.pc = "updating" /\ IsOfPullRequest(e)) => NamesIssues(e)
  /\ e.pc = "deletingPullRequest" => ~NamesIssues(e)
  /\ e.kind = "delete" /\ e.bot => DeletionIgnored
  /\ e.number <= clock

EventsOK == \A i \in Index : EventOK(events[i])

RepoOK ==
  /\ repo.pr = "none" => ~repo.title /\ repo.body = "plain"
  /\ shown.branch.number <= clock /\ shown.pr.number <= clock
  /\ ~repo.branch => (events = <<>> /\ repo.pr = "none")
                     \/ \E i \in Index : events[i].kind = "delete"
  /\ \A i \in Index : IsOfPullRequest(events[i]) => repo.pr # "none"

EventsSound == EventTypes /\ EventsOK /\ RepoOK

LEMMA EventsStay ==
  ASSUME EventTypes, EventsOK, NEW i \in Index \cup {0}, Evolves(i), clock' \in Nat,
         clock <= clock', repo'.named = repo.named, DeletionIgnored => DeletionIgnored',
         i \in Index => EventOK(events[i])',
         \A j \in Index' \ Index : EventOK(events[j])'
  PROVE  EventsOK'
<1> SUFFICES ASSUME NEW j \in Index', j # i, j \in Index
             PROVE  EventOK(events[j])'
  BY DEF EventsOK
<1>1. PICK e \in Event : e = events[j]
  BY IndexFacts
<1>2. e = events'[j]
  BY <1>1 DEF Evolves
<1>3. EventOK(e) /\ e.number \in Nat
  BY <1>1 DEF EventsOK, Event
<1>4. e.number <= clock'
  BY <1>3 DEF EventOK, EventTypes
<1>5. e.kind = "delete" /\ e.bot => DeletionIgnored'
  BY <1>3 DEF EventOK
<1>6. NamesIssues(e)' = NamesIssues(e)
  BY DEF NamesIssues
<1>7. EventOK(e)'
  BY <1>3, <1>4, <1>5, <1>6 DEF EventOK
<1> QED
  BY <1>2, <1>7 DEF EventOK, NamesIssues

\* A webhook that is taken further in a way that fits.
LEMMA OneEvent ==
  ASSUME EventsSound, NEW i \in Index, Evolves(i), Index' = Index, repo' = repo,
         DeletionIgnored => DeletionIgnored', clock' \in Nat, clock <= clock', shown' \in Shown,
         shown'.branch.number <= clock', shown'.pr.number <= clock',
         NEW e \in Event, e = events'[i], e.kind = events[i].kind, EventOK(e)'
  PROVE  EventsSound'
<1>1. EventTypes'
  BY DEF EventsSound, EventTypes, Evolves
<1>2. EventsOK'
  <2>1. EventOK(events[i])'
    BY DEF EventOK, NamesIssues
  <2> QED
    BY <2>1, EventsStay DEF EventsSound
<1>3. \A j \in Index : events'[j].kind = events[j].kind
  BY DEF Evolves
<1>4. events # <<>> /\ Len(events) \in Nat
  BY DEF Index, EventsSound, EventTypes
<1>5. RepoOK'
  <2>1. \A j \in Index : IsOfPullRequest(events[j])' => repo.pr # "none"
    BY <1>3 DEF EventsSound, RepoOK, IsOfPullRequest
  <2>2. ~repo.branch => \E j \in Index : events'[j].kind = "delete"
    BY <1>3, <1>4 DEF EventsSound, RepoOK
  <2> QED
    BY <2>1, <2>2 DEF EventsSound, RepoOK
<1> QED
  BY <1>1, <1>2, <1>5 DEF EventsSound

LEMMA FinishedSound ==
  ASSUME EventsSound, NEW i \in Index, Finishes(i), repo' = repo, clock' = clock,
         DeletionIgnored => DeletionIgnored', shown' \in Shown,
         shown'.branch.number <= clock, shown'.pr.number <= clock
  PROVE  EventsSound'
<1>1. PICK d \in Event : d = events[i]
  BY IndexFacts DEF EventsSound
<1>2. Evolves(i) /\ Index' = Index
  BY Finishing DEF EventsSound
<1>3. PICK e \in Event : e = events'[i]
  BY <1>2, IndexFacts DEF Evolves, Index
<1>4. e.pc = "done" /\ e.number = 0 /\ e.kind = d.kind /\ e.bot = d.bot
  BY <1>1, <1>3, Finishing DEF EventsSound
<1>5. EventOK(d)
  BY <1>1 DEF EventsSound, EventsOK
<1>6. clock \in Nat
  BY DEF EventsSound, EventTypes
<1>7. EventOK(e)'
  BY <1>4, <1>5, <1>6 DEF EventOK
<1> QED
  BY <1>1, <1>2, <1>3, <1>4, <1>6, <1>7, OneEvent

\* The same webhook, taken further.
LEMMA FurtherSound ==
  ASSUME EventsSound, NEW i \in Index, Evolves(i), Index' = Index, repo' = repo, shown' = shown,
         DeletionIgnored => DeletionIgnored', clock' \in Nat, clock <= clock',
         NEW d \in Event, d = events[i], NEW e \in Event, e = events'[i], Alike(e, d),
         e.number <= clock', ~IsIgnored(d.kind, d.bot),
         \/ e.pc \in {"queued", "fetching", "updating"} /\ d.kind = "create"
         \/ e.pc = "deletingBranch" /\ d.kind = "delete"
         \/ e.pc \in {"linking", "updating"} /\ IsOfPullRequest(d) /\ NamesIssues(d)
         \/ e.pc = "deletingPullRequest" /\ IsOfPullRequest(d) /\ ~NamesIssues(d)
  PROVE  EventsSound'
<1>1. EventOK(d)
  BY DEF EventsSound, EventsOK
<1>2. IsIgnored(e.kind, e.bot) = IsIgnored(d.kind, d.bot) /\ IsOfPullRequest(e) = IsOfPullRequest(d)
  BY DEF Alike, IsIgnored, IsOfPullRequest
<1>3. NamesIssues(e)' = NamesIssues(d)
  BY DEF Alike, NamesIssues
<1>4. e.kind = "delete" /\ e.bot => DeletionIgnored'
  BY <1>1 DEF EventOK, Alike
<1>5. IsOfPullRequest(d) => d.kind # "create" /\ d.kind # "delete"
  BY DEF IsOfPullRequest
<1>6. EventOK(e)'
  BY <1>2, <1>3, <1>4, <1>5 DEF EventOK, Alike
<1>7. shown \in Shown /\ shown.branch.number <= clock' /\ shown.pr.number <= clock'
  BY DEF EventsSound, EventTypes, RepoOK, Shown
<1> QED
  BY <1>6, <1>7, OneEvent DEF Alike

\* The repository changes.
LEMMA ChangesSound ==
  ASSUME EventsSound, NEW r \in Repository, NEW kinds \in Seq(Kinds), NEW left \in BOOLEAN,
         Tells(r, kinds, left), r.named = repo.named, NEW bot \in BOOLEAN,
         News(r, kinds, left, bot), DeletionIgnored => DeletionIgnored',
         bot /\ (\E j \in 1..Len(kinds) : kinds[j] = "delete") => DeletionIgnored'
  PROVE  EventsSound'
<1>1. Len(events) \in Nat /\ Len(kinds) \in Nat
  BY IndexFacts DEF EventsSound
<1>2. ASSUME NEW j \in Index' \ Index
      PROVE  EventOK(events[j])' /\ j - Len(events) \in 1..Len(kinds)
                                 /\ events'[j].kind = kinds[j - Len(events)]
  <2>1. j \in Nat /\ j > Len(events) /\ j <= Len(events) + Len(kinds)
    BY <1>1, <1>2 DEF News, Index
  <2>2. PICK k \in 1..Len(kinds) : j = Len(events) + k
    <3>1. j - Len(events) \in 1..Len(kinds) /\ j = Len(events) + (j - Len(events))
      BY <1>1, <2>1
    <3> QED
      BY <3>1
  <2>3. PICK kind \in Kinds : kind = kinds[k]
    OBVIOUS
  <2>4. events'[j] = Webhook(r, kind, bot, left)
    BY <2>2, <2>3 DEF News
  <2>5. /\ events'[j].pc = "sent" /\ events'[j].kind = kind /\ events'[j].bot = bot
        /\ events'[j].number = 0
    BY <2>4 DEF Webhook
  <2>6. kind = "delete" /\ bot => DeletionIgnored'
    BY <2>2, <2>3
  <2>7. 0 <= clock'
    BY DEF News, EventsSound, EventTypes
  <2>8. EventOK(events[j])'
    BY <2>5, <2>6, <2>7 DEF EventOK
  <2>9. j - Len(events) = k
    BY <1>1, <2>2
  <2> QED
    BY <2>3, <2>5, <2>8, <2>9
<1>3. EventTypes'
  BY DEF News, Evolves, EventsSound, EventTypes
<1>4. EventsOK'
  <2>1. repo'.named = repo.named /\ clock' \in Nat /\ clock <= clock' /\ Evolves(0)
    BY DEF News, EventsSound, EventTypes
  <2>2. 0 \notin Index
    BY DEF Index
  <2> QED
    BY <1>2, <2>1, <2>2, EventsStay DEF EventsSound
<1>5. RepoOK'
  <2>1. repo'.pr = "none" => ~repo'.title /\ repo'.body = "plain"
    BY DEF News, Tells, EventsSound, RepoOK
  <2>2. ASSUME ~repo'.branch, events' # <<>>
        PROVE  \E i \in Index' : events'[i].kind = "delete"
    <3>1. CASE \E i \in Index : events[i].kind = "delete"
      <4>1. PICK i \in Index : events[i].kind = "delete"
        BY <3>1
      <4>2. events'[i] = events[i] /\ i \in Index'
        BY DEF News, Evolves, Index
      <4> QED
        BY <4>1, <4>2
    <3>2. CASE \E k \in 1..Len(kinds) : kinds[k] = "delete"
      <4>1. PICK k \in 1..Len(kinds) : kinds[k] = "delete"
        BY <3>2
      <4>2. Len(events) + k \in Index' /\ events'[Len(events) + k] = Webhook(r, "delete", bot, left)
        BY <1>1, <4>1 DEF News
      <4> QED
        BY <4>2 DEF Webhook
    <3>3. ~r.branch
      BY <2>2 DEF News
    <3>4. CASE kinds = <<"delete">> \/ kinds = <<"closed", "delete">>
      BY <3>2, <3>4
    <3>5. CASE ~repo.branch /\ repo.pr # "none"
      BY <3>1, <3>5 DEF EventsSound, RepoOK
    <3> QED
      BY <3>3, <3>4, <3>5 DEF Tells
  <2>3. shown'.branch.number <= clock' /\ shown'.pr.number <= clock'
    BY DEF News, EventsSound, RepoOK
  <2>4. ~repo'.branch => (events' = <<>> /\ repo'.pr = "none")
                         \/ \E i \in Index' : events'[i].kind = "delete"
    <3> SUFFICES ASSUME ~repo'.branch, ~(events' = <<>> /\ repo'.pr = "none")
                 PROVE  \E i \in Index' : events'[i].kind = "delete"
      OBVIOUS
    <3>1. CASE events' # <<>>
      BY <2>2, <3>1
    <3>2. CASE events' = <<>> /\ repo'.pr # "none"
      <4>1. kinds = <<>> /\ events = <<>>
        BY <1>1, <3>2 DEF News, Index, EventsSound, EventTypes, Evolves
      <4> QED
        BY <4>1 DEF Tells
    <3> QED
      BY <3>1, <3>2
  <2>5. ASSUME NEW j \in Index', IsOfPullRequest(events[j])'
        PROVE  repo'.pr # "none"
    <3>1. CASE j \in Index
      <4>1. events'[j] = events[j]
        BY <3>1 DEF News, Evolves, Index
      <4>2. repo.pr # "none"
        BY <2>5, <3>1, <4>1 DEF EventsSound, RepoOK, IsOfPullRequest
      <4> QED
        BY <4>2 DEF Tells, News
    <3>2. CASE j \notin Index
      <4>1. PICK k \in 1..Len(kinds) : k = j - Len(events) /\ events'[j].kind = kinds[k]
        BY <1>2, <2>5, <3>2
      <4>2. kinds[k] # "create" /\ kinds[k] # "delete"
        BY <2>5, <4>1 DEF IsOfPullRequest
      <4>3. kinds # <<"create">> /\ kinds # <<"delete">>
        BY <4>2
      <4> QED
        BY <4>3 DEF Tells, News
    <3> QED
      BY <3>1, <3>2
  <2> QED
    BY <2>1, <2>3, <2>4, <2>5 DEF RepoOK
<1> QED
  BY <1>3, <1>4, <1>5 DEF EventsSound

LEMMA AppendFacts ==
  ASSUME NEW es \in Seq(Event), NEW w \in Event, NEW fs, fs = Append(es, w)
  PROVE  /\ fs \in Seq(Event) /\ Len(fs) = Len(es) + 1 /\ fs[Len(es) + 1] = w
         /\ \A j \in 1..Len(es) : fs[j] = es[j]
BY AppendProperties

LEMMA Appending ==
  ASSUME EventTypes, NEW i \in Index, NEW d \in Event, NEW w \in Event, w.pc = "sent",
         events' \in Seq(Event), Len(events') = Len(events) + 1,
         \A j \in Index : events'[j] = IF j = i THEN d ELSE events[j],
         events'[Len(events) + 1] = w
  PROVE  /\ Evolves(i) /\ Index' = Index \cup {Len(events) + 1} /\ Len(events) + 1 \notin Index
         /\ events'[i] = d /\ events'[Len(events) + 1] = w
<1>1. Len(events) \in Nat
  BY IndexFacts
<1>2. Index' = Index \cup {Len(events) + 1} /\ Len(events) + 1 \notin Index
  BY <1>1 DEF Index
<1>3. \A j \in Index' \ Index : events'[j].pc = "sent"
  BY <1>2
<1>4. \A j \in Index \ {i} : events'[j] = events[j]
  OBVIOUS
<1>5. Evolves(i)
  BY <1>1, <1>3, <1>4 DEF Evolves
<1> QED
  BY <1>2, <1>5

\* Links are added to the body, which is an edit by a bot.
Links(i, r) ==
  events' = Append([events EXCEPT ![i].pc = "updating"], Webhook(r, "edited", TRUE, FALSE))

LEMMA Linking ==
  ASSUME EventsSound, NEW i \in Index, NEW r \in Repository, Links(i, r)
  PROVE  /\ Evolves(i) /\ Index' = Index \cup {Len(events) + 1} /\ Len(events) + 1 \notin Index
         /\ Alike(events'[i], events[i]) /\ events'[i].pc = "updating"
         /\ events'[i].number = events[i].number
         /\ events'[Len(events) + 1] = Webhook(r, "edited", TRUE, FALSE)
<1> DEFINE d == [events[i] EXCEPT !.pc = "updating"]
           es == [events EXCEPT ![i] = d]
           w == Webhook(r, "edited", TRUE, FALSE)
<1>1. events[i] \in Event /\ events \in Seq(Event) /\ i \in 1..Len(events)
  BY IndexFacts DEF EventsSound, EventTypes, Index
<1>2. d \in Event /\ w \in Event
  BY <1>1 DEF Event, Stages, Kinds, Webhook, Repository
<1>3. Alike(d, events[i]) /\ d.pc = "updating" /\ d.number = events[i].number
  BY <1>1 DEF Event, Alike
<1>4. events' = Append(es, w)
  BY DEF Links
<1>5. w.pc = "sent"
  BY DEF Webhook
<1> HIDE DEF d, w
<1>6. es \in Seq(Event) /\ Len(es) = Len(events)
  BY <1>1, <1>2, ExceptSeq
<1>7. \A j \in Index : es[j] = IF j = i THEN d ELSE events[j]
  BY <1>1, IndexFacts DEF EventsSound
<1> HIDE DEF es
<1>8. /\ Evolves(i) /\ Index' = Index \cup {Len(events) + 1} /\ Len(events) + 1 \notin Index
      /\ events'[i] = d /\ events'[Len(events) + 1] = w
  <2>1. PICK fs : fs = es
    OBVIOUS
  <2>2. PICK c \in Event : c = d
    BY <1>2
  <2>3. /\ fs \in Seq(Event) /\ Len(fs) = Len(events)
        /\ \A j \in Index : fs[j] = IF j = i THEN c ELSE events[j]
        /\ events' = Append(fs, w)
    BY <1>4, <1>6, <1>7, <2>1, <2>2
  <2>4. PICK gs : gs = events'
    OBVIOUS
  <2>5. /\ gs \in Seq(Event) /\ Len(gs) = Len(fs) + 1 /\ gs[Len(fs) + 1] = w
        /\ \A j \in 1..Len(fs) : gs[j] = fs[j]
    BY <1>2, <2>3, <2>4, AppendFacts
  <2>6. /\ events' \in Seq(Event) /\ Len(events') = Len(events) + 1
        /\ \A j \in Index : events'[j] = IF j = i THEN c ELSE events[j]
        /\ events'[Len(events) + 1] = w
    BY <2>3, <2>4, <2>5 DEF Index
  <2>7. EventTypes
    BY DEF EventsSound
  <2>8. /\ Evolves(i) /\ Index' = Index \cup {Len(events) + 1} /\ Len(events) + 1 \notin Index
        /\ events'[i] = c /\ events'[Len(events) + 1] = w
    BY <1>2, <1>5, <2>6, <2>7, Appending
  <2> QED
    BY <2>2, <2>8
<1> QED
  BY <1>3, <1>8 DEF w

LEMMA InitSound == PullRequestsInit => EventsSound
<1> SUFFICES ASSUME PullRequestsInit
             PROVE  EventsSound
  OBVIOUS
<1>1. events = <<>> /\ clock = 0 /\ Index = {}
  BY DEF PullRequestsInit, Index
<1>2. repo \in Repository /\ shown \in Shown /\ shown.branch.number = 0 /\ shown.pr.number = 0
                           /\ (repo.pr = "none" => ~repo.title /\ repo.body = "plain")
                           /\ (~repo.branch => repo.pr = "none")
  <2>1. PICK named \in BOOLEAN :
          \/ /\ repo = NoRepo(named)
             /\ shown = [branch |-> Numbered(0, FALSE), pr |-> Numbered(0, "none")]
          \/ \E title \in BOOLEAN, body \in {"plain", "linked"} :
               /\ repo = [branch |-> TRUE, named |-> named, pr |-> "OPEN",
                          title |-> title, body |-> body]
               /\ shown = [branch |-> Numbered(0, IsKeyed(repo)),
                           pr |-> Numbered(0, IF IsKeyed(repo) THEN "OPEN" ELSE "none")]
    BY DEF PullRequestsInit
  <2>2. CASE /\ repo = NoRepo(named)
             /\ shown = [branch |-> Numbered(0, FALSE), pr |-> Numbered(0, "none")]
    BY <2>2 DEF Repository, Shown, NoRepo, Numbered, PullRequestStates, Bodies
  <2>3. CASE \E title \in BOOLEAN, body \in {"plain", "linked"} :
               /\ repo = [branch |-> TRUE, named |-> named, pr |-> "OPEN",
                          title |-> title, body |-> body]
               /\ shown = [branch |-> Numbered(0, IsKeyed(repo)),
                           pr |-> Numbered(0, IF IsKeyed(repo) THEN "OPEN" ELSE "none")]
    <3>1. PICK title \in BOOLEAN, body \in {"plain", "linked"} :
               /\ repo = [branch |-> TRUE, named |-> named, pr |-> "OPEN",
                          title |-> title, body |-> body]
               /\ shown = [branch |-> Numbered(0, IsKeyed(repo)),
                           pr |-> Numbered(0, IF IsKeyed(repo) THEN "OPEN" ELSE "none")]
      BY <2>3
    <3>2. repo \in Repository /\ repo.branch /\ repo.pr = "OPEN"
      BY <3>1 DEF Repository, PullRequestStates, Bodies
    <3>3. IsKeyed(repo) \in BOOLEAN
      BY <3>2 DEF IsKeyed, Repository
    <3>4. shown \in Shown /\ shown.branch.number = 0 /\ shown.pr.number = 0
      BY <3>1, <3>3 DEF Shown, Numbered, PullRequestStates
    <3> QED
      BY <3>2, <3>4
  <2> QED
    BY <2>1, <2>2, <2>3
<1> QED
  BY <1>1, <1>2 DEF EventsSound, EventTypes, EventsOK, RepoOK

LEMMA GitHubSound == EventsSound /\ GitHubChanges => EventsSound'
<1> SUFFICES ASSUME EventsSound, GitHubChanges
             PROVE  EventsSound'
  OBVIOUS
<1>1. PICK r \in Repository, kinds \in Seq(Kinds), left \in BOOLEAN :
        Changes(r, kinds, left) /\ Tells(r, kinds, left) /\ r.named = repo.named
  BY Telling DEF EventsSound, RepoOK
<1>2. PICK bot \in BOOLEAN :
        News(r, kinds, left, bot) /\ happened' = Excuses(r, kinds, bot)
  BY <1>1, Changing DEF EventsSound
<1>3. DeletionIgnored => DeletionIgnored'
  BY <1>2 DEF DeletionIgnored, Excuses
<1>4. ASSUME bot, NEW j \in 1..Len(kinds), kinds[j] = "delete"
      PROVE  DeletionIgnored'
  <2>1. IsIgnored(kinds[j], bot)
    BY <1>4 DEF IsIgnored
  <2> QED
    BY <1>2, <1>4, <2>1 DEF DeletionIgnored, Excuses
<1> QED
  BY <1>1, <1>2, <1>3, <1>4, ChangesSound

\* One webhook is handled, or a request of its.
EventStep(i) ==
  \/ Ignore(i) \/ EnqueueBranch(i) \/ HandleDeleted(i) \/ HandlePullRequest(i)
  \/ UpdateGithubIssues(i) \/ LoseWebhook(i)
  \/ FindNoRef(i) \/ NothingToSubmit(i) \/ GetRef(i) \/ TransformBranch(i) \/ RetryBranch(i)
  \/ UpdateBranch(i) \/ UpdatePullRequest(i) \/ DeleteAtJira(i)

LEMMA ShownStays == EventsSound => /\ shown \in Shown /\ shown.branch.number <= clock
                                   /\ shown.pr.number <= clock /\ clock \in Nat
BY DEF EventsSound, EventTypes, RepoOK

\* Jira keeps one of the two.
LEMMA KeepsFacts ==
  ASSUME NEW S, NEW old \in [number : Nat, is : S], NEW number \in Nat, NEW is \in S
  PROVE  /\ Keeps(old, number, is) \in [number : Nat, is : S]
         /\ number > old.number => /\ Keeps(old, number, is).number = number
                                   /\ Keeps(old, number, is).is = is
         /\ ~(number > old.number) => Keeps(old, number, is) = old
BY DEF Keeps, Numbered

LEMMA IgnoreSound ==
  EventsSound /\ (\E i \in Index : Ignore(i) \/ NothingToSubmit(i)) => EventsSound'
<1> SUFFICES ASSUME EventsSound, NEW i \in Index, Ignore(i) \/ NothingToSubmit(i)
             PROVE  EventsSound'
  OBVIOUS
<1>1. Finishes(i) /\ UNCHANGED <<repo, shown, clock, happened>>
  BY DEF Ignore, NothingToSubmit
<1> QED
  BY <1>1, FinishedSound, ShownStays DEF DeletionIgnored

LEMMA LoseSound == EventsSound /\ (\E i \in Index : LoseWebhook(i) \/ FindNoRef(i)) => EventsSound'
<1> SUFFICES ASSUME EventsSound, NEW i \in Index, LoseWebhook(i) \/ FindNoRef(i)
             PROVE  EventsSound'
  OBVIOUS
<1>1. Finishes(i) /\ UNCHANGED <<repo, shown, clock>>
  BY DEF LoseWebhook, FindNoRef
<1>2. DeletionIgnored => DeletionIgnored'
  BY DEF DeletionIgnored, LoseWebhook, FindNoRef
<1> QED
  BY <1>1, <1>2, FinishedSound, ShownStays

\* A webhook of a created branch that goes on.
LEMMA ProceedSound ==
  ASSUME EventsSound, NEW i \in Index, NEW to \in {"queued", "fetching"}, Proceeds(i, to),
         UNCHANGED <<repo, shown, clock, happened>>, events[i].kind = "create",
         ~IsIgnored(events[i].kind, events[i].bot)
  PROVE  EventsSound'
<1>1. to \in Stages
  BY DEF Stages
<1>2. PICK d \in Event : d = events[i]
  BY IndexFacts DEF EventsSound
<1>3. /\ Evolves(i) /\ Index' = Index /\ Alike(events'[i], d) /\ events'[i].pc = to
      /\ events'[i].number = d.number
  BY <1>1, <1>2, Proceeding DEF EventsSound
<1>4. PICK e \in Event : e = events'[i]
  BY <1>3, IndexFacts DEF Evolves, Index
<1>5. EventOK(d)
  BY <1>2 DEF EventsSound, EventsOK
<1>6. e.number <= clock
  BY <1>3, <1>4, <1>5 DEF EventOK
<1>7. DeletionIgnored => DeletionIgnored'
  BY DEF DeletionIgnored
<1> QED
  BY <1>2, <1>3, <1>4, <1>6, <1>7, FurtherSound, ShownStays

LEMMA QueueSound == EventsSound /\ (\E i \in Index : EnqueueBranch(i) \/ GetRef(i)) => EventsSound'
<1>1. ASSUME EventsSound, NEW i \in Index, EnqueueBranch(i)
      PROVE  EventsSound'
  <2>1. /\ Proceeds(i, "queued") /\ UNCHANGED <<repo, shown, clock, happened>>
        /\ events[i].kind = "create" /\ ~IsIgnored(events[i].kind, events[i].bot)
    BY <1>1 DEF EnqueueBranch, IsTaken
  <2> QED
    BY <1>1, <2>1, ProceedSound
<1>2. ASSUME EventsSound, NEW i \in Index, GetRef(i)
      PROVE  EventsSound'
  <2>1. EventOK(events[i]) /\ events[i].pc = "queued"
    BY <1>2 DEF EventsSound, EventsOK, GetRef
  <2>2. events[i].kind = "create" /\ ~IsIgnored(events[i].kind, events[i].bot)
    BY <2>1 DEF EventOK
  <2>3. Proceeds(i, "fetching") /\ UNCHANGED <<repo, shown, clock, happened>>
    BY <1>2 DEF GetRef
  <2> QED
    BY <1>2, <2>2, <2>3, ProceedSound
<1> QED
  BY <1>1, <1>2

\* A request that gets its number.
LEMMA NumberedSound ==
  ASSUME EventsSound, NEW i \in Index, NEW to \in Stages, ProceedsNumbered(i, to),
         UNCHANGED <<repo, shown>>, DeletionIgnored => DeletionIgnored',
         NEW d \in Event, d = events[i], ~IsIgnored(d.kind, d.bot),
         \/ to = "updating" /\ d.kind = "create"
         \/ to = "deletingBranch" /\ d.kind = "delete"
         \/ to = "linking" /\ IsOfPullRequest(d) /\ NamesIssues(d)
         \/ to = "deletingPullRequest" /\ IsOfPullRequest(d) /\ ~NamesIssues(d)
  PROVE  EventsSound'
<1>1. /\ Evolves(i) /\ Index' = Index /\ Alike(events'[i], d) /\ events'[i].pc = to
      /\ events'[i].number = clock + 1 /\ clock' = clock + 1
  BY ProceedingNumbered DEF EventsSound
<1>2. PICK e \in Event : e = events'[i]
  BY <1>1, IndexFacts DEF Evolves, Index
<1>3. clock' \in Nat /\ clock <= clock'
  BY <1>1, ShownStays
<1>4. Alike(e, d) /\ e.pc = to /\ e.number <= clock'
  BY <1>1, <1>2, <1>3
<1> QED
  BY <1>1, <1>2, <1>3, <1>4, FurtherSound

LEMMA DeletedSound == EventsSound /\ (\E i \in Index : HandleDeleted(i)) => EventsSound'
<1> SUFFICES ASSUME EventsSound, NEW i \in Index, HandleDeleted(i)
             PROVE  EventsSound'
  OBVIOUS
<1>1. PICK d \in Event : d = events[i]
  BY IndexFacts DEF EventsSound
<1>2. d.kind = "delete" /\ ~IsIgnored(d.kind, d.bot) /\ UNCHANGED <<repo, shown>>
  BY <1>1 DEF HandleDeleted, IsTaken
<1>3. DeletionIgnored => DeletionIgnored'
  BY DEF HandleDeleted, DeletionIgnored
<1>4. CASE ProceedsNumbered(i, "deletingBranch")
  BY <1>1, <1>2, <1>3, <1>4, NumberedSound DEF Stages
<1>5. CASE Finishes(i) /\ clock' = clock
  BY <1>2, <1>3, <1>5, FinishedSound, ShownStays
<1> QED
  BY <1>4, <1>5 DEF HandleDeleted

LEMMA PullRequestSound == EventsSound /\ (\E i \in Index : HandlePullRequest(i)) => EventsSound'
<1> SUFFICES ASSUME EventsSound, NEW i \in Index, HandlePullRequest(i)
             PROVE  EventsSound'
  OBVIOUS
<1>1. PICK d \in Event : d = events[i]
  BY IndexFacts DEF EventsSound
<1>2. IsOfPullRequest(d) /\ ~IsIgnored(d.kind, d.bot) /\ UNCHANGED <<repo, shown>>
  BY <1>1 DEF HandlePullRequest, IsTaken
<1>3. DeletionIgnored => DeletionIgnored'
  BY DEF HandlePullRequest, DeletionIgnored
<1>4. \/ NamesIssues(d) /\ ProceedsNumbered(i, "linking")
      \/ ~NamesIssues(d) /\ ProceedsNumbered(i, "deletingPullRequest")
      \/ Finishes(i) /\ clock' = clock
  BY <1>1 DEF HandlePullRequest
<1>5. CASE NamesIssues(d) /\ ProceedsNumbered(i, "linking")
  BY <1>1, <1>2, <1>3, <1>5, NumberedSound DEF Stages
<1>6. CASE ~NamesIssues(d) /\ ProceedsNumbered(i, "deletingPullRequest")
  BY <1>1, <1>2, <1>3, <1>6, NumberedSound DEF Stages
<1>7. CASE Finishes(i) /\ clock' = clock
  BY <1>2, <1>3, <1>7, FinishedSound, ShownStays
<1> QED
  BY <1>4, <1>5, <1>6, <1>7

LEMMA TransformSound == EventsSound /\ (\E i \in Index : TransformBranch(i)) => EventsSound'
<1> SUFFICES ASSUME EventsSound, NEW i \in Index, TransformBranch(i)
             PROVE  EventsSound'
  OBVIOUS
<1>1. PICK d \in Event : d = events[i]
  BY IndexFacts DEF EventsSound
<1>2. EventOK(d) /\ d.pc = "fetching"
  BY <1>1 DEF TransformBranch, EventsSound, EventsOK
<1>3. d.kind = "create" /\ ~IsIgnored(d.kind, d.bot)
  BY <1>2 DEF EventOK
<1>4. ProceedsNumbered(i, "updating") /\ UNCHANGED <<repo, shown>>
  BY DEF TransformBranch
<1>5. DeletionIgnored => DeletionIgnored'
  BY DEF TransformBranch, DeletionIgnored
<1> QED
  BY <1>1, <1>3, <1>4, <1>5, NumberedSound DEF Stages

LEMMA RetrySound == EventsSound /\ (\E i \in Index : RetryBranch(i)) => EventsSound'
<1> SUFFICES ASSUME EventsSound, NEW i \in Index, RetryBranch(i)
             PROVE  EventsSound'
  OBVIOUS
<1>1. PICK d \in Event : d = events[i]
  BY IndexFacts DEF EventsSound
<1>2. EventOK(d) /\ d.kind = "create" /\ d.pc \notin {"sent", "done"}
  BY <1>1 DEF RetryBranch, EventsSound, EventsOK
<1>3. ~IsIgnored(d.kind, d.bot) /\ d.number <= clock
  BY <1>2 DEF EventOK
<1>4. UNCHANGED <<repo, shown, clock>>
  BY DEF RetryBranch
<1>5. DeletionIgnored => DeletionIgnored'
  BY DEF RetryBranch, DeletionIgnored
<1>6. CASE events' = [events EXCEPT ![i].pc = "queued", ![i].attempt = @ + 1]
  <2>1. /\ Evolves(i) /\ Index' = Index /\ Alike(events'[i], d) /\ events'[i].pc = "queued"
        /\ events'[i].number = d.number
    BY <1>1, <1>6, Retrying DEF EventsSound
  <2> HIDE <1>6
  <2>2. PICK e \in Event : e = events'[i]
    BY <2>1, IndexFacts DEF Evolves, Index
  <2> QED
    BY <1>1, <1>2, <1>3, <1>4, <1>5, <2>1, <2>2, FurtherSound, ShownStays
<1>7. CASE Finishes(i)
  BY <1>4, <1>5, <1>7, FinishedSound, ShownStays
<1> QED
  BY <1>6, <1>7 DEF RetryBranch

LEMMA WrittenSound ==
  EventsSound /\ (\E i \in Index : UpdateBranch(i) \/ UpdatePullRequest(i) \/ DeleteAtJira(i))
    => EventsSound'
<1> SUFFICES ASSUME EventsSound,
                    NEW i \in Index, UpdateBranch(i) \/ UpdatePullRequest(i) \/ DeleteAtJira(i)
             PROVE  EventsSound'
  OBVIOUS
<1>1. PICK d \in Event : d = events[i]
  BY IndexFacts DEF EventsSound
<1>2. Finishes(i) /\ UNCHANGED <<repo, clock, happened>>
  BY DEF UpdateBranch, UpdatePullRequest, DeleteAtJira
<1>3. EventOK(d)
  BY <1>1 DEF EventsSound, EventsOK
<1>4. d.number \in Nat /\ d.number <= clock /\ d.pr \in PullRequestStates
  BY <1>3 DEF EventOK, Event
<1>5. PICK b \in [number : Nat, is : BOOLEAN] : b = shown.branch /\ b.number <= clock
  BY ShownStays DEF Shown
<1>6. PICK p \in [number : Nat, is : PullRequestStates] : p = shown.pr /\ p.number <= clock
  BY ShownStays DEF Shown
<1>7. PICK c \in {b, Keeps(b, d.number, TRUE), Keeps(b, d.number, FALSE)},
           q \in {p, Keeps(p, d.number, d.pr), Keeps(p, d.number, "none")} :
        shown' = [branch |-> c, pr |-> q]
  <2>1. shown = [branch |-> b, pr |-> p]
    BY <1>5, <1>6, ShownStays DEF Shown
  <2>2. CASE UpdateBranch(i)
    <3>1. shown' = [branch |-> Keeps(b, d.number, TRUE), pr |-> p]
      BY <1>1, <2>1, <2>2 DEF UpdateBranch, NumberOf
    <3> QED
      BY <3>1
  <2>3. CASE UpdatePullRequest(i)
    <3>1. \/ shown' = [branch |-> b, pr |-> Keeps(p, d.number, d.pr)]
          \/ shown' = [branch |-> Keeps(b, d.number, TRUE), pr |-> Keeps(p, d.number, d.pr)]
      BY <1>1, <1>5, <1>6, <2>3 DEF UpdatePullRequest, NumberOf
    <3> QED
      BY <3>1
  <2>4. CASE DeleteAtJira(i)
    <3>1. \/ shown' = [branch |-> Keeps(b, d.number, FALSE), pr |-> p]
          \/ shown' = [branch |-> b, pr |-> Keeps(p, d.number, "none")]
      BY <1>1, <2>1, <2>4 DEF DeleteAtJira, NumberOf
    <3> QED
      BY <3>1
  <2> QED
    BY <2>2, <2>3, <2>4
<1>8. "none" \in PullRequestStates
  BY DEF PullRequestStates
<1>9. c \in [number : Nat, is : BOOLEAN] /\ c.number <= clock
  <2>1. ASSUME NEW is \in BOOLEAN
        PROVE  /\ Keeps(b, d.number, is) \in [number : Nat, is : BOOLEAN]
               /\ Keeps(b, d.number, is).number <= clock
    BY <1>4, <1>5, KeepsFacts
  <2>2. TRUE \in BOOLEAN /\ FALSE \in BOOLEAN
    OBVIOUS
  <2>3. CASE c = b
    BY <1>5, <2>3
  <2>4. CASE c = Keeps(b, d.number, TRUE)
    BY <2>1, <2>2, <2>4
  <2>5. CASE c = Keeps(b, d.number, FALSE)
    BY <2>1, <2>2, <2>5
  <2> QED
    BY <1>7, <2>3, <2>4, <2>5
<1>10. q \in [number : Nat, is : PullRequestStates] /\ q.number <= clock
  BY <1>4, <1>6, <1>7, <1>8, KeepsFacts
<1>11. shown' \in Shown /\ shown'.branch = c /\ shown'.pr = q
  BY <1>7, <1>9, <1>10 DEF Shown
<1> QED
  BY <1>2, <1>9, <1>10, <1>11, FinishedSound DEF DeletionIgnored

LEMMA LinksSound == EventsSound /\ (\E i \in Index : UpdateGithubIssues(i)) => EventsSound'
<1> SUFFICES ASSUME EventsSound, NEW i \in Index, UpdateGithubIssues(i)
             PROVE  EventsSound'
  OBVIOUS
<1>1. PICK d \in Event : d = events[i]
  BY IndexFacts DEF EventsSound
<1>2. EventOK(d) /\ d.pc = "linking" /\ UNCHANGED <<shown, clock>>
  BY <1>1 DEF UpdateGithubIssues, EventsSound, EventsOK
<1>3. ~IsIgnored(d.kind, d.bot) /\ d.number <= clock /\ IsOfPullRequest(d) /\ NamesIssues(d)
  BY <1>2 DEF EventOK
<1>4. DeletionIgnored => DeletionIgnored'
  BY DEF UpdateGithubIssues, DeletionIgnored
<1>5. CASE Proceeds(i, "updating") /\ UNCHANGED <<repo, happened>>
  <2>1. /\ Evolves(i) /\ Index' = Index /\ Alike(events'[i], d) /\ events'[i].pc = "updating"
        /\ events'[i].number = d.number
    BY <1>1, <1>5, Proceeding DEF EventsSound, Stages
  <2>2. PICK e \in Event : e = events'[i]
    BY <2>1, IndexFacts DEF Evolves, Index
  <2> QED
    BY <1>1, <1>2, <1>3, <1>4, <1>5, <2>1, <2>2, FurtherSound, ShownStays
<1>6. CASE repo' = [repo EXCEPT !.body = "linked"] /\ Links(i, repo')
  <2>1. PICK r \in Repository : r = repo'
    BY <1>6 DEF EventsSound, EventTypes, Repository, Bodies
  <2>2. /\ r.branch = repo.branch /\ r.named = repo.named /\ r.pr = repo.pr
        /\ r.title = repo.title /\ r.body = "linked"
    BY <1>6, <2>1 DEF EventsSound, EventTypes, Repository
  <2>3. Links(i, r)
    BY <1>6, <2>1
  <2>4. /\ Evolves(i) /\ Index' = Index \cup {Len(events) + 1} /\ Len(events) + 1 \notin Index
        /\ Alike(events'[i], d) /\ events'[i].pc = "updating" /\ events'[i].number = d.number
        /\ events'[Len(events) + 1] = Webhook(r, "edited", TRUE, FALSE)
    BY <1>1, <2>3, Linking
  <2>5. PICK e \in Event : e = events'[i]
    BY <2>4, IndexFacts DEF Evolves, Index
  <2>6. EventTypes'
    BY <1>2, <2>1, <2>4 DEF EventsSound, EventTypes, Evolves
  <2>7. EventOK(e)'
    <3>1. IsIgnored(e.kind, e.bot) = IsIgnored(d.kind, d.bot) /\ IsOfPullRequest(e)
      BY <1>3, <2>4, <2>5 DEF Alike, IsIgnored, IsOfPullRequest
    <3>2. NamesIssues(e)'
      BY <1>3, <2>1, <2>2, <2>4, <2>5 DEF Alike, NamesIssues
    <3>3. e.kind # "delete"
      BY <3>1 DEF IsOfPullRequest
    <3> QED
      BY <1>2, <1>3, <2>4, <2>5, <3>1, <3>2, <3>3 DEF EventOK
  <2>8. EventOK(events[i])'
    BY <2>5, <2>7 DEF EventOK, NamesIssues
  <2>9. PICK w : w = events'[Len(events) + 1] /\ w = Webhook(r, "edited", TRUE, FALSE)
    BY <2>4
  <2>10. EventOK(w)' /\ w.kind = "edited"
    BY <1>2, <2>9, ShownStays DEF EventOK, Webhook
  <2>11. \A j \in Index' \ Index : EventOK(events[j])'
    BY <2>4, <2>9, <2>10 DEF EventOK, NamesIssues
  <2>12. EventsOK'
    BY <1>2, <1>4, <2>1, <2>2, <2>4, <2>8, <2>11, EventsStay, ShownStays DEF EventsSound
  <2>13. \A j \in Index : events'[j].kind = events[j].kind
    BY <1>1, <2>4 DEF Evolves, Alike
  <2>14. repo.pr # "none"
    BY <1>1, <1>3 DEF EventsSound, RepoOK
  <2>15. RepoOK'
    <3>1. shown'.branch.number <= clock' /\ shown'.pr.number <= clock'
      BY <1>2, ShownStays
    <3>2. repo'.pr # "none"
      BY <2>1, <2>2, <2>14
    <3>3. ~repo'.branch => \E j \in Index' : events'[j].kind = "delete"
      <4>1. ~repo.branch => \E j \in Index : events[j].kind = "delete"
        BY <2>14 DEF EventsSound, RepoOK
      <4> QED
        BY <2>1, <2>2, <2>4, <2>13, <4>1
    <3> QED
      BY <3>1, <3>2, <3>3 DEF RepoOK
  <2> QED
    BY <2>6, <2>12, <2>15 DEF EventsSound
<1> QED
  BY <1>5, <1>6 DEF UpdateGithubIssues, Links

LEMMA EventsStep == EventsSound /\ [PullRequestsNext]_pullRequests => EventsSound'
<1> SUFFICES ASSUME EventsSound, [PullRequestsNext]_pullRequests
             PROVE  EventsSound'
  OBVIOUS
<1>1. CASE GitHubChanges
  BY <1>1, GitHubSound
<1>2. CASE \E i \in Index : EventStep(i)
  BY <1>2, IgnoreSound, LoseSound, QueueSound, DeletedSound, PullRequestSound, LinksSound,
     TransformSound, RetrySound, WrittenSound DEF EventStep
<1>3. CASE UNCHANGED pullRequests
  BY <1>3 DEF pullRequests, EventsSound, EventTypes, EventsOK, EventOK, NamesIssues,
     DeletionIgnored, RepoOK, Index
<1> QED
  BY <1>1, <1>2, <1>3 DEF PullRequestsNext, EventStep, Index

-----------------------------------------------------------------------------
(* The branch. *)

BranchSpoiled == happened \cap {"raced", "branch lost", "not yet there", "branch ignored"} # {}

Deletes(e) == e.pc = "deletingBranch"
Shows(e) == \/ e.pc = "updating" /\ (e.kind = "create" \/ e.pr # "MERGED")
            \/ e.pc = "linking" /\ e.pr # "MERGED"

OverDeletions(n) == \A j \in Index : Deletes(events[j]) => events[j].number < n
OverShows(n) == \A j \in Index : Shows(events[j]) => events[j].number < n

\* The webhook of a created branch that is on its way, and will not be in vain.
IsAhead(e) == e.kind = "create" /\ e.pc \in {"sent", "queued", "fetching"}
Comes(e) == /\ e.kind = "create" /\ e.pc = "updating" /\ OverDeletions(e.number)
            /\ shown.branch.is \/ shown.branch.number < e.number
BranchComes ==
  \/ \E i \in Index : IsAhead(events[i]) \/ Comes(events[i])
  \/ shown.branch.is /\ OverDeletions(shown.branch.number)

\* The webhook of a deleted one.
IsToDelete(e) == e.kind = "delete" /\ e.pc = "sent"
Vanishes(e) == /\ Deletes(e) /\ OverShows(e.number)
               /\ shown.branch.is => shown.branch.number < e.number
BranchGoes ==
  \/ events = <<>> /\ ~shown.branch.is
  \/ \E i \in Index : IsToDelete(events[i]) \/ Vanishes(events[i])
  \/ ~shown.branch.is /\ OverShows(shown.branch.number + 1)

BranchInv == repo.named /\ ~BranchSpoiled => IF repo.branch THEN BranchComes ELSE BranchGoes

\* Deletions and updates that are under way are those that were.
LEMMA OverDeletionsStays ==
  ASSUME NEW i \in Index \cup {0}, Evolves(i), NEW n, OverDeletions(n),
         i \in Index /\ Deletes(events'[i]) =>
           Deletes(events[i]) /\ events'[i].number = events[i].number
  PROVE  OverDeletions(n)'
<1> SUFFICES ASSUME NEW j \in Index', Deletes(events'[j])
             PROVE  events'[j].number < n
  BY DEF OverDeletions
<1>1. j \in Index
  BY DEF Evolves, Deletes
<1>2. Deletes(events[j]) /\ events'[j].number = events[j].number
  BY <1>1 DEF Evolves
<1> QED
  BY <1>1, <1>2 DEF OverDeletions

LEMMA OverShowsStays ==
  ASSUME NEW i \in Index \cup {0}, Evolves(i), NEW n, OverShows(n),
         i \in Index /\ Shows(events'[i]) =>
           Shows(events[i]) /\ events'[i].number = events[i].number
  PROVE  OverShows(n)'
<1> SUFFICES ASSUME NEW j \in Index', Shows(events'[j])
             PROVE  events'[j].number < n
  BY DEF OverShows
<1>1. j \in Index
  BY DEF Evolves, Shows
<1>2. Shows(events[j]) /\ events'[j].number = events[j].number
  BY <1>1 DEF Evolves
<1> QED
  BY <1>1, <1>2 DEF OverShows

LEMMA ComesStays ==
  ASSUME EventsSound, NEW i \in Index \cup {0}, Evolves(i), Index \subseteq Index',
         shown'.branch = shown.branch, BranchComes,
         i \in Index /\ Deletes(events'[i]) =>
           Deletes(events[i]) /\ events'[i].number = events[i].number,
         i \in Index /\ (IsAhead(events[i]) \/ Comes(events[i])) => IsAhead(events'[i])
  PROVE  BranchComes'
<1>1. CASE shown.branch.is /\ OverDeletions(shown.branch.number)
  <2>1. PICK n : n = shown.branch.number
    OBVIOUS
  <2>2. OverDeletions(n)'
    BY <1>1, <2>1, OverDeletionsStays
  <2>3. OverDeletions(shown.branch.number)'
    BY <2>1, <2>2 DEF OverDeletions
  <2> QED
    BY <1>1, <2>3 DEF BranchComes
<1>2. CASE \E k \in Index : IsAhead(events[k]) \/ Comes(events[k])
  <2>1. PICK k \in Index : IsAhead(events[k]) \/ Comes(events[k])
    BY <1>2
  <2>2. CASE k = i
    <3>1. IsAhead(events'[k])
      BY <2>1, <2>2
    <3> QED
      BY <2>1, <3>1 DEF BranchComes
  <2>3. CASE k # i
    <3>1. PICK e \in Event : e = events[k]
      BY <2>1, IndexFacts DEF EventsSound
    <3>2. e = events'[k]
      BY <2>3, <3>1 DEF Evolves
    <3>3. OverDeletions(e.number) => OverDeletions(e.number)'
      BY OverDeletionsStays
    <3>4. IsAhead(e) \/ Comes(e)'
      BY <2>1, <3>1, <3>3 DEF Comes
    <3>5. IsAhead(events'[k]) \/ Comes(events[k])'
      BY <3>2, <3>4 DEF Comes, OverDeletions
    <3> QED
      BY <3>5 DEF BranchComes
  <2> QED
    BY <2>2, <2>3
<1> QED
  BY <1>1, <1>2 DEF BranchComes

LEMMA GoesStays ==
  ASSUME EventsSound, NEW i \in Index \cup {0}, Evolves(i), Index \subseteq Index',
         shown'.branch = shown.branch, BranchGoes, events # <<>>,
         i \in Index => ~Deletes(events[i]) /\ ~IsToDelete(events[i]),
         i \in Index /\ Shows(events'[i]) =>
           Shows(events[i]) /\ events'[i].number = events[i].number
  PROVE  BranchGoes'
<1>1. CASE ~shown.branch.is /\ OverShows(shown.branch.number + 1)
  <2>1. PICK n : n = shown.branch.number + 1
    OBVIOUS
  <2>2. OverShows(n)'
    BY <1>1, <2>1, OverShowsStays
  <2>3. OverShows(shown.branch.number + 1)'
    BY <2>1, <2>2 DEF OverShows
  <2> QED
    BY <1>1, <2>3 DEF BranchGoes
<1>2. CASE \E k \in Index : IsToDelete(events[k]) \/ Vanishes(events[k])
  <2>1. PICK k \in Index : IsToDelete(events[k]) \/ Vanishes(events[k])
    BY <1>2
  <2>2. k # i
    BY <2>1 DEF Vanishes
  <2>3. PICK e \in Event : e = events[k]
    BY <2>1, IndexFacts DEF EventsSound
  <2>4. e = events'[k]
    BY <2>2, <2>3 DEF Evolves
  <2>5. OverShows(e.number) => OverShows(e.number)'
    BY OverShowsStays
  <2>6. IsToDelete(e) \/ Vanishes(e)'
    BY <2>1, <2>3, <2>5 DEF Vanishes
  <2>7. IsToDelete(events'[k]) \/ Vanishes(events[k])'
    BY <2>4, <2>6 DEF Vanishes, OverShows
  <2> QED
    BY <2>7 DEF BranchGoes
<1> QED
  BY <1>1, <1>2 DEF BranchGoes

\* What neither submits nor deletes the branch.
LEMMA BranchRests ==
  ASSUME EventsSound, BranchInv, NEW i \in Index, Evolves(i), Index \subseteq Index',
         repo'.named = repo.named, repo'.branch = repo.branch, shown'.branch = shown.branch,
         ~BranchSpoiled', ~BranchSpoiled, ~Deletes(events[i]), ~IsToDelete(events[i]),
         Deletes(events'[i]) => FALSE,
         repo.branch /\ (IsAhead(events[i]) \/ Comes(events[i])) => IsAhead(events'[i]),
         ~repo.branch /\ Shows(events'[i]) =>
           Shows(events[i]) /\ events'[i].number = events[i].number
  PROVE  BranchInv'
<1> SUFFICES ASSUME repo.named
             PROVE  IF repo.branch THEN BranchComes' ELSE BranchGoes'
  BY DEF BranchInv
<1>1. CASE repo.branch
  BY <1>1, ComesStays DEF BranchInv
<1>2. CASE ~repo.branch
  <2>1. events # <<>>
    BY DEF Index, EventsSound, EventTypes
  <2> QED
    BY <1>2, <2>1, GoesStays DEF BranchInv
<1> QED
  BY <1>1, <1>2

LEMMA SpoiledStays ==
  ASSUME NEW s, happened' = happened \cup s
  PROVE  ~BranchSpoiled' => ~BranchSpoiled
BY DEF BranchSpoiled

LEMMA BranchFinished ==
  ASSUME EventsSound, BranchInv, NEW i \in Index, Finishes(i), UNCHANGED repo,
         shown'.branch = shown.branch, ~BranchSpoiled' => ~BranchSpoiled,
         repo.named /\ ~BranchSpoiled' =>
           events[i].kind # "delete" /\ (events[i].kind = "create" => ~repo.branch)
  PROVE  BranchInv'
<1> SUFFICES ASSUME repo.named, ~BranchSpoiled'
             PROVE  BranchInv'
  BY DEF BranchInv
<1>1. PICK d \in Event : d = events[i] /\ EventOK(d)
  BY IndexFacts DEF EventsSound, EventsOK
<1>2. Evolves(i) /\ Index' = Index /\ events'[i].pc = "done"
  BY Finishing DEF EventsSound
<1>3. PICK e \in Event : e = events'[i] /\ e.pc = "done"
  BY <1>2, IndexFacts DEF Evolves, Index
<1>4. ~Deletes(e) /\ ~Shows(e) /\ ~Deletes(d) /\ ~IsToDelete(d)
  BY <1>1, <1>3 DEF Deletes, Shows, IsToDelete, EventOK
<1>5. repo.branch => ~(IsAhead(d) \/ Comes(d))
  BY <1>1 DEF IsAhead, Comes
<1> QED
  BY <1>1, <1>2, <1>3, <1>4, <1>5, BranchRests

LEMMA BranchIgnored ==
  EventsSound /\ BranchInv /\ (\E i \in Index : Ignore(i) \/ NothingToSubmit(i)) => BranchInv'
<1> SUFFICES ASSUME EventsSound, BranchInv, NEW i \in Index, Ignore(i) \/ NothingToSubmit(i)
             PROVE  BranchInv'
  OBVIOUS
<1>1. Finishes(i) /\ UNCHANGED <<repo, shown, clock, happened>>
  BY DEF Ignore, NothingToSubmit
<1>2. PICK d \in Event : d = events[i] /\ EventOK(d)
  BY IndexFacts DEF EventsSound, EventsOK
<1>3. BranchSpoiled' = BranchSpoiled
  BY <1>1 DEF BranchSpoiled
<1>4. CASE Ignore(i)
  <2>1. d.bot /\ d.kind # "create"
    BY <1>2, <1>4 DEF Ignore, IsIgnored
  <2>2. DeletionIgnored => BranchSpoiled
    BY DEF DeletionIgnored, BranchSpoiled
  <2>3. ~BranchSpoiled => d.kind # "delete"
    BY <1>2, <2>1, <2>2 DEF EventOK
  <2> QED
    BY <1>1, <1>2, <1>3, <2>1, <2>3, BranchFinished
<1>5. CASE NothingToSubmit(i)
  BY <1>1, <1>3, <1>5 DEF NothingToSubmit, BranchInv
<1> QED
  BY <1>4, <1>5

LEMMA BranchLost ==
  EventsSound /\ BranchInv /\ (\E i \in Index : LoseWebhook(i) \/ FindNoRef(i)) => BranchInv'
<1> SUFFICES ASSUME EventsSound, BranchInv, NEW i \in Index, LoseWebhook(i) \/ FindNoRef(i)
             PROVE  BranchInv'
  OBVIOUS
<1>1. Finishes(i) /\ UNCHANGED <<repo, shown, clock>>
  BY DEF LoseWebhook, FindNoRef
<1>2. PICK d \in Event : d = events[i] /\ EventOK(d)
  BY IndexFacts DEF EventsSound, EventsOK
<1>3. ~BranchSpoiled' => ~BranchSpoiled
  BY SpoiledStays DEF LoseWebhook, FindNoRef
<1>4. CASE LoseWebhook(i)
  <2>1. ~BranchSpoiled' => IsOfPullRequest(d)
    BY <1>2, <1>4 DEF LoseWebhook, BranchSpoiled
  <2>2. ~BranchSpoiled' => d.kind # "create" /\ d.kind # "delete"
    BY <2>1 DEF IsOfPullRequest
  <2> QED
    BY <1>1, <1>2, <1>3, <2>2, BranchFinished
<1>5. CASE FindNoRef(i)
  <2>1. d.kind = "create"
    BY <1>2, <1>5 DEF FindNoRef, EventOK
  <2>2. ~BranchSpoiled' => ~repo.branch
    BY <1>5 DEF FindNoRef, BranchSpoiled
  <2> QED
    BY <1>1, <1>2, <1>3, <2>1, <2>2, BranchFinished
<1> QED
  BY <1>4, <1>5

LEMMA BranchProceeds ==
  EventsSound /\ BranchInv /\ (\E i \in Index : EnqueueBranch(i) \/ GetRef(i)) => BranchInv'
<1> SUFFICES ASSUME EventsSound, BranchInv, NEW i \in Index, EnqueueBranch(i) \/ GetRef(i)
             PROVE  BranchInv'
  OBVIOUS
<1>1. PICK to \in {"queued", "fetching"} :
        Proceeds(i, to) /\ UNCHANGED <<repo, shown, clock, happened>>
  BY DEF EnqueueBranch, GetRef
<1>2. PICK d \in Event : d = events[i] /\ EventOK(d)
  BY IndexFacts DEF EventsSound, EventsOK
<1>3. d.kind = "create" /\ d.pc \in {"sent", "queued"}
  BY <1>2 DEF EnqueueBranch, IsTaken, GetRef, EventOK
<1>4. /\ Evolves(i) /\ Index' = Index /\ Alike(events'[i], d) /\ events'[i].pc = to
      /\ to \in Stages
  BY <1>1, <1>2, Proceeding DEF EventsSound, Stages
<1>5. PICK e \in Event : e = events'[i]
  BY <1>4, IndexFacts DEF Evolves, Index
<1>6. IsAhead(e) /\ ~Deletes(e) /\ ~Shows(e) /\ ~Deletes(d) /\ ~IsToDelete(d)
  BY <1>3, <1>4, <1>5 DEF IsAhead, Deletes, Shows, Alike, IsToDelete
<1>7. BranchSpoiled' = BranchSpoiled
  BY <1>1 DEF BranchSpoiled
<1> SUFFICES ASSUME ~BranchSpoiled
             PROVE  BranchInv'
  BY <1>7 DEF BranchInv
<1> QED
  BY <1>1, <1>2, <1>4, <1>5, <1>6, <1>7, BranchRests

LEMMA BranchRetried ==
  EventsSound /\ BranchInv /\ (\E i \in Index : RetryBranch(i)) => BranchInv'
<1> SUFFICES ASSUME EventsSound, BranchInv, NEW i \in Index, RetryBranch(i)
             PROVE  BranchInv'
  OBVIOUS
<1>1. CASE Finishes(i) /\ happened' = happened \cup {"branch lost"}
  BY <1>1 DEF BranchInv, BranchSpoiled
<1>2. CASE /\ events' = [events EXCEPT ![i].pc = "queued", ![i].attempt = @ + 1]
           /\ UNCHANGED happened
  <2>1. PICK d \in Event : d = events[i] /\ EventOK(d)
    BY IndexFacts DEF EventsSound, EventsOK
  <2>2. d.kind = "create" /\ UNCHANGED <<repo, shown, clock>>
    BY <2>1 DEF RetryBranch
  <2>3. /\ Evolves(i) /\ Index' = Index /\ Alike(events'[i], d) /\ events'[i].pc = "queued"
    BY <1>2, <2>1, Retrying DEF EventsSound
  <2>4. BranchSpoiled' = BranchSpoiled
    BY <1>2 DEF BranchSpoiled
  <2> HIDE <1>2
  <2>5. PICK e \in Event : e = events'[i]
    BY <2>3, IndexFacts DEF Evolves, Index
  <2>6. IsAhead(e) /\ ~Deletes(e) /\ ~Shows(e) /\ ~Deletes(d) /\ ~IsToDelete(d)
    BY <2>1, <2>2, <2>3, <2>5 DEF IsAhead, Deletes, Shows, Alike, IsToDelete, EventOK
  <2> SUFFICES ASSUME ~BranchSpoiled
               PROVE  BranchInv'
    BY <2>4 DEF BranchInv
  <2> QED
    BY <2>1, <2>2, <2>3, <2>4, <2>5, <2>6, BranchRests
<1> QED
  BY <1>1, <1>2 DEF RetryBranch

\* A pull request is a matter of its own.
LEMMA BranchLinked ==
  EventsSound /\ BranchInv /\ (\E i \in Index : UpdateGithubIssues(i)) => BranchInv'
<1> SUFFICES ASSUME EventsSound, BranchInv, NEW i \in Index, UpdateGithubIssues(i)
             PROVE  BranchInv'
  OBVIOUS
<1>1. PICK d \in Event : d = events[i] /\ EventOK(d)
  BY IndexFacts DEF EventsSound, EventsOK
<1>2. d.pc = "linking" /\ IsOfPullRequest(d) /\ UNCHANGED <<shown, clock>>
  BY <1>1 DEF UpdateGithubIssues, EventOK
<1>3. /\ Evolves(i) /\ Index \subseteq Index' /\ Alike(events'[i], d)
      /\ events'[i].pc = "updating" /\ events'[i].number = d.number
      /\ repo'.named = repo.named /\ repo'.branch = repo.branch
  <2>1. CASE Proceeds(i, "updating") /\ UNCHANGED <<repo, happened>>
    BY <1>1, <2>1, Proceeding DEF EventsSound, Stages
  <2>2. CASE repo' = [repo EXCEPT !.body = "linked"] /\ Links(i, repo')
    <3>1. PICK r \in Repository : r = repo' /\ r.branch = repo.branch /\ r.named = repo.named
      BY <2>2 DEF EventsSound, EventTypes, Repository, Bodies
    <3>2. Links(i, r)
      BY <2>2, <3>1
    <3> QED
      BY <1>1, <3>1, <3>2, Linking
  <2> QED
    BY <2>1, <2>2 DEF UpdateGithubIssues, Links
<1>4. PICK e \in Event : e = events'[i]
  BY <1>3, IndexFacts DEF Evolves, Index
<1>5. ~Deletes(e) /\ ~Deletes(d) /\ ~IsToDelete(d) /\ ~IsAhead(d) /\ ~Comes(d)
  BY <1>2, <1>3, <1>4 DEF Deletes, IsToDelete, IsAhead, Comes, IsOfPullRequest
<1>6. Shows(e) => Shows(d) /\ e.number = d.number
  BY <1>2, <1>3, <1>4 DEF Shows, Alike, IsOfPullRequest
<1>7. ~BranchSpoiled' => ~BranchSpoiled
  BY DEF UpdateGithubIssues, BranchSpoiled
<1> SUFFICES ASSUME ~BranchSpoiled'
             PROVE  BranchInv'
  BY DEF BranchInv
<1> QED
  BY <1>1, <1>2, <1>3, <1>4, <1>5, <1>6, <1>7, BranchRests

LEMMA BranchDeleted ==
  EventsSound /\ BranchInv /\ (\E i \in Index : HandleDeleted(i)) => BranchInv'
<1> SUFFICES ASSUME EventsSound, BranchInv, NEW i \in Index, HandleDeleted(i),
                    repo.named, ~BranchSpoiled'
             PROVE  BranchGoes' /\ ~repo'.branch
  BY DEF HandleDeleted, BranchInv
<1>1. ProceedsNumbered(i, "deletingBranch") /\ UNCHANGED <<repo, shown>>
  BY DEF HandleDeleted
<1>2. ~repo.branch
  BY DEF HandleDeleted, BranchSpoiled
<1>3. /\ Evolves(i) /\ Index' = Index /\ events'[i].pc = "deletingBranch"
      /\ events'[i].number = clock + 1
  BY <1>1, ProceedingNumbered DEF EventsSound, Stages
<1>4. PICK e \in Event : e = events'[i]
  BY <1>3, IndexFacts DEF Evolves, Index
<1>5. \A j \in Index : j # i => events'[j].number < e.number
  <2> SUFFICES ASSUME NEW j \in Index, j # i
               PROVE  events'[j].number < e.number
    OBVIOUS
  <2>1. PICK d \in Event : d = events[j] /\ EventOK(d) /\ d = events'[j]
    BY <1>3, IndexFacts DEF EventsSound, EventsOK, Evolves
  <2> QED
    BY <1>3, <1>4, <2>1, ShownStays DEF EventOK, Event
<1>6. OverShows(e.number)'
  BY <1>3, <1>4, <1>5 DEF OverShows, Shows
<1>7. Vanishes(e)'
  BY <1>1, <1>3, <1>4, <1>6, ShownStays DEF Vanishes, Deletes, Shown
<1>8. Vanishes(events[i])'
  BY <1>4, <1>7 DEF Vanishes, OverShows
<1> QED
  BY <1>1, <1>2, <1>3, <1>8 DEF BranchGoes

\* As long as no deletion has been handled, one is to come.
LEMMA DeletionIsToCome ==
  ASSUME EventsSound, ~repo.branch, ~WasDeleted, NEW i \in Index, Evolves(i),
         Index \subseteq Index', events[i].kind # "delete"
  PROVE  BranchGoes'
<1>1. events # <<>>
  BY DEF Index, EventsSound, EventTypes
<1>2. PICK k \in Index : events[k].kind = "delete"
  BY <1>1 DEF EventsSound, RepoOK
<1>3. events[k].pc = "sent"
  BY <1>2 DEF WasDeleted, Index
<1>4. events'[k] = events[k] /\ k \in Index'
  BY <1>2 DEF Evolves
<1> QED
  BY <1>2, <1>3, <1>4 DEF BranchGoes, IsToDelete

LEMMA BranchOfPullRequest ==
  EventsSound /\ BranchInv /\ (\E i \in Index : HandlePullRequest(i)) => BranchInv'
<1> SUFFICES ASSUME EventsSound, BranchInv, NEW i \in Index, HandlePullRequest(i)
             PROVE  BranchInv'
  OBVIOUS
<1>1. PICK d \in Event : d = events[i] /\ EventOK(d)
  BY IndexFacts DEF EventsSound, EventsOK
<1>2. IsOfPullRequest(d) /\ d.pc = "sent" /\ UNCHANGED <<repo, shown>>
  BY <1>1 DEF HandlePullRequest, IsTaken
<1>3. ~BranchSpoiled' => ~BranchSpoiled
  BY SpoiledStays DEF HandlePullRequest
<1>4. ~BranchSpoiled' => ~WasDeleted \/ d.pr = "MERGED"
  BY <1>1 DEF HandlePullRequest, Mishaps, BranchSpoiled
<1>5. d.kind # "delete" /\ d.kind # "create"
  BY <1>2 DEF IsOfPullRequest
<1>6. CASE Finishes(i)
  BY <1>1, <1>2, <1>3, <1>5, <1>6, BranchFinished
<1>7. ASSUME NEW to \in {"linking", "deletingPullRequest"}, ProceedsNumbered(i, to)
      PROVE  BranchInv'
  <2>1. /\ Evolves(i) /\ Index' = Index /\ Alike(events'[i], d) /\ events'[i].pc = to
    BY <1>1, <1>7, ProceedingNumbered DEF EventsSound, Stages
  <2>2. PICK e \in Event : e = events'[i]
    BY <2>1, IndexFacts DEF Evolves, Index
  <2>3. ~Deletes(e) /\ ~Deletes(d) /\ ~IsToDelete(d) /\ ~IsAhead(d) /\ ~Comes(d)
    BY <1>2, <1>5, <2>1, <2>2 DEF Deletes, IsToDelete, IsAhead, Comes
  <2>4. d.pr = "MERGED" => ~Shows(e)
    BY <2>1, <2>2 DEF Shows, Alike
  <2> SUFFICES ASSUME ~BranchSpoiled'
               PROVE  BranchInv'
    BY DEF BranchInv
  <2>5. CASE repo.branch \/ d.pr = "MERGED"
    BY <1>1, <1>2, <1>3, <2>1, <2>2, <2>3, <2>4, <2>5, BranchRests
  <2>6. CASE ~repo.branch /\ ~WasDeleted
    BY <1>1, <1>2, <1>5, <2>1, <2>6, DeletionIsToCome DEF BranchInv
  <2> QED
    BY <1>4, <2>5, <2>6
<1> QED
  BY <1>6, <1>7 DEF HandlePullRequest

LEMMA BranchTransformed ==
  EventsSound /\ BranchInv /\ (\E i \in Index : TransformBranch(i)) => BranchInv'
<1> SUFFICES ASSUME EventsSound, BranchInv, NEW i \in Index, TransformBranch(i), ~BranchSpoiled'
             PROVE  BranchInv'
  BY DEF BranchInv
<1>1. PICK d \in Event : d = events[i] /\ EventOK(d)
  BY IndexFacts DEF EventsSound, EventsOK
<1>2. d.kind = "create" /\ UNCHANGED <<repo, shown>> /\ ProceedsNumbered(i, "updating")
  BY <1>1 DEF TransformBranch, EventOK
<1>3. /\ Evolves(i) /\ Index' = Index /\ Alike(events'[i], d) /\ events'[i].pc = "updating"
      /\ events'[i].number = clock + 1
  BY <1>1, <1>2, ProceedingNumbered DEF EventsSound, Stages
<1>4. PICK e \in Event : e = events'[i]
  BY <1>3, IndexFacts DEF Evolves, Index
<1>5. CASE repo.branch
  <2>1. \A j \in Index : j # i => events'[j].number < e.number
    <3> SUFFICES ASSUME NEW j \in Index, j # i
                 PROVE  events'[j].number < e.number
      OBVIOUS
    <3>1. PICK c \in Event : c = events[j] /\ EventOK(c) /\ c = events'[j]
      BY <1>3, IndexFacts DEF EventsSound, EventsOK, Evolves
    <3> QED
      BY <1>3, <1>4, <3>1, ShownStays DEF EventOK, Event
  <2>2. OverDeletions(e.number)'
    BY <1>3, <1>4, <2>1 DEF OverDeletions, Deletes
  <2>3. Comes(e)'
    BY <1>2, <1>3, <1>4, <2>2, ShownStays DEF Comes, Alike, Shown
  <2>4. Comes(events[i])'
    BY <1>4, <2>3 DEF Comes, OverDeletions
  <2> QED
    BY <1>2, <1>3, <1>5, <2>4 DEF BranchComes, BranchInv
<1>6. CASE ~repo.branch
  <2>1. ~WasDeleted
    BY DEF TransformBranch, BranchSpoiled
  <2> QED
    BY <1>1, <1>2, <1>3, <1>6, <2>1, DeletionIsToCome DEF BranchInv
<1> QED
  BY <1>5, <1>6

LEMMA OverDeletionsMore ==
  ASSUME events' \in Seq(Event), NEW n \in Nat, NEW m \in Nat, n <= m, OverDeletions(n)'
  PROVE  OverDeletions(m)'
<1> SUFFICES ASSUME NEW j \in Index', Deletes(events'[j])
             PROVE  events'[j].number < m
  BY DEF OverDeletions
<1>1. events'[j] \in Event
  BY DEF Index
<1>2. events'[j].number \in Nat /\ events'[j].number < n
  BY <1>1 DEF OverDeletions, Event
<1> QED
  BY <1>2

LEMMA OverShowsMore ==
  ASSUME events' \in Seq(Event), NEW n \in Nat, NEW m \in Nat, n <= m, OverShows(n)'
  PROVE  OverShows(m)'
<1> SUFFICES ASSUME NEW j \in Index', Shows(events'[j])
             PROVE  events'[j].number < m
  BY DEF OverShows
<1>1. events'[j] \in Event
  BY DEF Index
<1>2. events'[j].number \in Nat /\ events'[j].number < n
  BY <1>1 DEF OverShows, Event
<1> QED
  BY <1>2

\* What Jira keeps of the branch.
Standing == [number : Nat, is : BOOLEAN]

\* Jira shows the branch.
LEMMA BranchShown ==
  ASSUME EventsSound, BranchInv, NEW i \in Index, Finishes(i), UNCHANGED <<repo, happened>>,
         NEW d \in Event, d = events[i], Shows(d), ~IsToDelete(d), ~IsAhead(d),
         NEW b \in Standing, b = shown.branch,
         NEW c \in Standing, c = shown'.branch,
         d.number > b.number => c.number = d.number /\ c.is, ~(d.number > b.number) => c = b
  PROVE  BranchInv'
<1> SUFFICES ASSUME repo.named, ~BranchSpoiled
             PROVE  IF repo.branch THEN BranchComes' ELSE BranchGoes'
  BY DEF BranchInv, BranchSpoiled
<1>1. Evolves(i) /\ Index' = Index /\ events'[i].pc = "done"
  BY Finishing DEF EventsSound
<1>2. ~Deletes(events'[i]) /\ ~Shows(events'[i]) /\ ~Deletes(d)
  BY <1>1 DEF Deletes, Shows
<1>3. events' \in Seq(Event)
  BY <1>1 DEF Evolves
<1>4. d.number \in Nat /\ b.number \in Nat /\ c.number \in Nat
  BY DEF Event, Standing
<1>5. CASE repo.branch
  <2>1. \A n : OverDeletions(n) => OverDeletions(n)'
    BY <1>1, <1>2, OverDeletionsStays
  <2>2. CASE shown.branch.is /\ OverDeletions(shown.branch.number)
    <3>1. c.is /\ OverDeletions(b.number)' /\ b.number <= c.number
      BY <1>4, <2>1, <2>2
    <3>2. OverDeletions(c.number)'
      BY <1>3, <1>4, <3>1, OverDeletionsMore
    <3>3. OverDeletions(shown.branch.number)'
      BY <3>2 DEF OverDeletions
    <3> QED
      BY <1>5, <3>1, <3>3 DEF BranchComes
  <2>3. CASE \E k \in Index : IsAhead(events[k]) \/ Comes(events[k])
    <3>1. PICK k \in Index : IsAhead(events[k]) \/ Comes(events[k])
      BY <2>3
    <3>2. CASE k = i
      <4>1. OverDeletions(d.number)' /\ (b.is \/ b.number < d.number)
        BY <2>1, <3>1, <3>2 DEF Comes
      <4>2. c.is /\ d.number <= c.number
        BY <1>4, <4>1
      <4>3. OverDeletions(c.number)'
        BY <1>3, <1>4, <4>1, <4>2, OverDeletionsMore
      <4>4. OverDeletions(shown.branch.number)'
        BY <4>3 DEF OverDeletions
      <4> QED
        BY <1>5, <4>2, <4>4 DEF BranchComes
    <3>3. CASE k # i
      <4>1. PICK e \in Event : e = events[k] /\ e = events'[k]
        BY <1>1, <3>3, IndexFacts DEF EventsSound, Evolves
      <4>2. IsAhead(e) \/ Comes(e)'
        BY <2>1, <3>1, <4>1 DEF Comes
      <4>3. IsAhead(events'[k]) \/ Comes(events[k])'
        BY <4>1, <4>2 DEF Comes, OverDeletions
      <4> QED
        BY <1>1, <1>5, <4>3 DEF BranchComes
    <3> QED
      BY <3>2, <3>3
  <2> QED
    BY <1>5, <2>2, <2>3 DEF BranchInv, BranchComes
<1>6. CASE ~repo.branch
  <2>1. \A n : OverShows(n) => OverShows(n)' /\ d.number < n
    BY <1>1, <1>2, OverShowsStays DEF OverShows
  <2>2. CASE ~shown.branch.is /\ OverShows(shown.branch.number + 1)
    <3>1. PICK n \in Nat : n = b.number + 1
      BY <1>4
    <3>2. OverShows(n)' /\ d.number < n
      BY <2>1, <2>2, <3>1
    <3>3. c = b
      BY <1>4, <3>1, <3>2
    <3>4. OverShows(shown.branch.number + 1)'
      BY <3>1, <3>2, <3>3 DEF OverShows
    <3> QED
      BY <1>6, <2>2, <3>3, <3>4 DEF BranchGoes
  <2>3. CASE \E k \in Index : IsToDelete(events[k]) \/ Vanishes(events[k])
    <3>1. PICK k \in Index : IsToDelete(events[k]) \/ Vanishes(events[k])
      BY <2>3
    <3>2. k # i
      BY <1>2, <3>1 DEF Vanishes
    <3>3. PICK e \in Event : e = events[k] /\ e = events'[k]
      BY <1>1, <3>2, IndexFacts DEF EventsSound, Evolves
    <3>4. IsToDelete(e) \/ Vanishes(e)'
      BY <1>4, <2>1, <3>1, <3>3 DEF Vanishes, Event
    <3>5. IsToDelete(events'[k]) \/ Vanishes(events[k])'
      BY <3>3, <3>4 DEF Vanishes, OverShows
    <3> QED
      BY <1>1, <1>6, <3>5 DEF BranchGoes
  <2>4. events # <<>>
    BY DEF Index, EventsSound, EventTypes
  <2> QED
    BY <1>6, <2>2, <2>3, <2>4 DEF BranchInv, BranchGoes
<1> QED
  BY <1>5, <1>6


LEMMA KeepsOne ==
  ASSUME NEW b \in Standing, NEW n \in Nat, NEW v \in BOOLEAN, NEW c, c = Keeps(b, n, v)
  PROVE  c \in Standing /\ (n > b.number => c = Numbered(n, v)) /\ (~(n > b.number) => c = b)
<1>1. CASE n > b.number
  <2>1. c = Numbered(n, v)
    BY <1>1 DEF Keeps
  <2> QED
    BY <1>1, <2>1 DEF Standing, Numbered
<1>2. CASE ~(n > b.number)
  <2>1. c = b
    BY <1>2 DEF Keeps
  <2> QED
    BY <1>2, <2>1
<1> QED
  BY <1>1, <1>2

LEMMA NumberedOne ==
  ASSUME NEW n, NEW v, NEW c, c = Numbered(n, v)
  PROVE  c.number = n /\ c.is = v
BY DEF Numbered

LEMMA KeepsTrue ==
  ASSUME NEW b \in Standing, NEW n \in Nat, NEW c, c = Keeps(b, n, TRUE)
  PROVE  c \in Standing /\ (n > b.number => c.number = n /\ c.is) /\ (~(n > b.number) => c = b)
<1>1. c \in Standing /\ (n > b.number => c = Numbered(n, TRUE)) /\ (~(n > b.number) => c = b)
  BY KeepsOne
<1>2. ASSUME n > b.number
      PROVE  c.number = n /\ c.is
  <2>1. c = Numbered(n, TRUE)
    BY <1>1, <1>2
  <2>2. c.is = TRUE /\ c.number = n
    BY <2>1, NumberedOne
  <2> QED
    BY <2>2
<1> QED
  BY <1>1, <1>2

LEMMA KeepsFalse ==
  ASSUME NEW b \in Standing, NEW n \in Nat, NEW c, c = Keeps(b, n, FALSE)
  PROVE  c \in Standing /\ (n > b.number => c.number = n /\ ~c.is) /\ (~(n > b.number) => c = b)
<1>1. c \in Standing /\ (n > b.number => c = Numbered(n, FALSE)) /\ (~(n > b.number) => c = b)
  BY KeepsOne
<1>2. ASSUME n > b.number
      PROVE  c.number = n /\ ~c.is
  <2>1. c = Numbered(n, FALSE)
    BY <1>1, <1>2
  <2>2. c.is = FALSE /\ c.number = n
    BY <2>1, NumberedOne
  <2> QED
    BY <2>2
<1> QED
  BY <1>1, <1>2

\* Jira does not show the branch any more.
LEMMA BranchHidden ==
  ASSUME EventsSound, BranchInv, NEW i \in Index, Finishes(i), UNCHANGED <<repo, happened>>,
         NEW d \in Event, d = events[i], Deletes(d), EventOK(d),
         NEW b \in Standing, b = shown.branch,
         NEW c \in Standing, c = shown'.branch,
         d.number > b.number => c.number = d.number /\ ~c.is, ~(d.number > b.number) => c = b
  PROVE  BranchInv'
<1> SUFFICES ASSUME repo.named, ~BranchSpoiled
             PROVE  IF repo.branch THEN BranchComes' ELSE BranchGoes'
  BY DEF BranchInv, BranchSpoiled
<1>1. Evolves(i) /\ Index' = Index /\ events'[i].pc = "done"
  BY Finishing DEF EventsSound
<1>2. ~Deletes(events'[i]) /\ ~Shows(events'[i]) /\ ~Shows(d) /\ ~IsAhead(d) /\ ~IsToDelete(d)
  BY <1>1 DEF Deletes, Shows, IsAhead, IsToDelete
<1>3. /\ events' \in Seq(Event) /\ d.number \in Nat
      /\ b.number \in Nat /\ c.number \in Nat
  BY <1>1 DEF Evolves, Event, Standing
<1>4. CASE repo.branch
  <2>1. \A n : OverDeletions(n) => OverDeletions(n)' /\ d.number < n
    BY <1>1, <1>2, OverDeletionsStays DEF OverDeletions
  <2>2. CASE shown.branch.is /\ OverDeletions(shown.branch.number)
    <3>1. OverDeletions(b.number)' /\ d.number < b.number /\ b.is
      BY <2>1, <2>2
    <3>2. c = b
      BY <1>3, <3>1
    <3>3. OverDeletions(shown.branch.number)'
      BY <3>1, <3>2 DEF OverDeletions
    <3> QED
      BY <1>4, <3>1, <3>2, <3>3 DEF BranchComes
  <2>3. CASE \E k \in Index : IsAhead(events[k]) \/ Comes(events[k])
    <3>1. PICK k \in Index : IsAhead(events[k]) \/ Comes(events[k])
      BY <2>3
    <3>2. k # i
      BY <1>2, <3>1 DEF Comes, Deletes
    <3>3. PICK e \in Event : e = events[k] /\ e = events'[k]
      BY <1>1, <3>2, IndexFacts DEF EventsSound, Evolves
    <3>4. IsAhead(e) \/ Comes(e)'
      <4>1. CASE IsAhead(e)
        BY <4>1
      <4>2. CASE Comes(e)
        <5>1. OverDeletions(e.number)' /\ d.number < e.number /\ (b.is \/ b.number < e.number)
          BY <2>1, <4>2 DEF Comes
        <5>2. c.is \/ c.number < e.number
          BY <1>3, <5>1
        <5> QED
          BY <4>2, <5>1, <5>2 DEF Comes
      <4> QED
        BY <3>1, <3>3, <4>1, <4>2
    <3>5. IsAhead(events'[k]) \/ Comes(events[k])'
      BY <3>3, <3>4 DEF Comes, OverDeletions
    <3> QED
      BY <1>1, <1>4, <3>5 DEF BranchComes
  <2> QED
    BY <1>4, <2>2, <2>3 DEF BranchInv, BranchComes
<1>5. CASE ~repo.branch
  <2>1. \A n : OverShows(n) => OverShows(n)'
    BY <1>1, <1>2, OverShowsStays
  <2>2. b.number + 1 \in Nat /\ c.number + 1 \in Nat /\ b.number + 1 <= c.number + 1
    BY <1>3
  <2>3. CASE ~shown.branch.is /\ OverShows(shown.branch.number + 1)
    <3>1. OverShows(b.number + 1)'
      <4>1. PICK n : n = b.number + 1
        OBVIOUS
      <4>2. OverShows(n)'
        BY <2>1, <2>3, <4>1
      <4> QED
        BY <4>1, <4>2
    <3>2. OverShows(c.number + 1)'
      BY <1>3, <2>2, <3>1, OverShowsMore
    <3>3. OverShows(shown.branch.number + 1)'
      BY <3>2 DEF OverShows
    <3>4. ~c.is
      BY <1>3, <2>3
    <3> QED
      BY <1>5, <3>3, <3>4 DEF BranchGoes
  <2>4. CASE \E k \in Index : IsToDelete(events[k]) \/ Vanishes(events[k])
    <3>1. PICK k \in Index : IsToDelete(events[k]) \/ Vanishes(events[k])
      BY <2>4
    <3>2. CASE k = i
      <4>1. OverShows(d.number)' /\ (b.is => b.number < d.number)
        BY <1>2, <2>1, <3>1, <3>2 DEF Vanishes
      <4>2. ~c.is /\ d.number <= c.number + 1
        BY <1>3, <4>1
      <4>3. OverShows(c.number + 1)'
        BY <1>3, <2>2, <4>1, <4>2, OverShowsMore
      <4>4. OverShows(shown.branch.number + 1)'
        BY <4>3 DEF OverShows
      <4> QED
        BY <1>5, <4>2, <4>4 DEF BranchGoes
    <3>3. CASE k # i
      <4>1. PICK e \in Event : e = events[k] /\ e = events'[k]
        BY <1>1, <3>3, IndexFacts DEF EventsSound, Evolves
      <4>2. IsToDelete(e) \/ Vanishes(e)'
        <5>1. CASE IsToDelete(e)
          BY <5>1
        <5>2. CASE Vanishes(e)
          <6>1. OverShows(e.number)' /\ (b.is => b.number < e.number)
            BY <2>1, <5>2 DEF Vanishes
          <6>2. c.is => c.number < e.number
            BY <1>3, <6>1
          <6> QED
            BY <5>2, <6>1, <6>2 DEF Vanishes
        <5> QED
          BY <3>1, <4>1, <5>1, <5>2
      <4>3. IsToDelete(events'[k]) \/ Vanishes(events[k])'
        BY <4>1, <4>2 DEF Vanishes, OverShows
      <4> QED
        BY <1>1, <1>5, <4>3 DEF BranchGoes
    <3> QED
      BY <3>2, <3>3
  <2>5. events # <<>>
    BY DEF Index, EventsSound, EventTypes
  <2> QED
    BY <1>5, <2>3, <2>4, <2>5 DEF BranchInv, BranchGoes
<1> QED
  BY <1>4, <1>5

LEMMA BranchWritten ==
  EventsSound /\ BranchInv
    /\ (\E i \in Index : UpdateBranch(i) \/ UpdatePullRequest(i) \/ DeleteAtJira(i)) => BranchInv'
<1> SUFFICES ASSUME EventsSound, BranchInv,
                    NEW i \in Index, UpdateBranch(i) \/ UpdatePullRequest(i) \/ DeleteAtJira(i)
             PROVE  BranchInv'
  OBVIOUS
<1>1. PICK d \in Event : d = events[i] /\ EventOK(d)
  BY IndexFacts DEF EventsSound, EventsOK
<1>2. Finishes(i) /\ UNCHANGED <<repo, clock, happened>>
  BY DEF UpdateBranch, UpdatePullRequest, DeleteAtJira
<1>3. BranchSpoiled' = BranchSpoiled
  BY <1>2 DEF BranchSpoiled
<1>4. PICK b \in Standing : b = shown.branch
  BY ShownStays DEF Shown, Standing
<1>5. PICK c : c = shown'.branch
  OBVIOUS
<1>6. d.number \in Nat
  BY DEF Event
<1>7. CASE c = Keeps(b, d.number, TRUE) /\ Shows(d)
  <2>1. ~IsToDelete(d) /\ ~IsAhead(d)
    BY <1>7 DEF Shows, IsToDelete, IsAhead
  <2>2. /\ c \in Standing
        /\ d.number > b.number => c.number = d.number /\ c.is
        /\ ~(d.number > b.number) => c = b
    BY <1>6, <1>7, KeepsTrue
  <2> QED
    BY <1>1, <1>2, <1>4, <1>5, <1>7, <2>1, <2>2, BranchShown
<1>8. CASE c = Keeps(b, d.number, FALSE) /\ Deletes(d)
  <2>1. /\ c \in Standing
        /\ d.number > b.number => c.number = d.number /\ ~c.is
        /\ ~(d.number > b.number) => c = b
    BY <1>6, <1>8, KeepsFalse
  <2> QED
    BY <1>1, <1>2, <1>4, <1>5, <1>8, <2>1, BranchHidden
<1>9. CASE c = b /\ IsOfPullRequest(d)
  <2>1. d.kind # "delete" /\ d.kind # "create"
    BY <1>9 DEF IsOfPullRequest
  <2> QED
    BY <1>1, <1>2, <1>3, <1>4, <1>5, <1>9, <2>1, BranchFinished
<1>10. CASE UpdateBranch(i)
  <2>1. shown'.branch = Keeps(shown.branch, d.number, TRUE)
    BY <1>1, <1>10, ShownStays DEF UpdateBranch, NumberOf, Shown
  <2>2. Shows(d)
    BY <1>1, <1>10 DEF UpdateBranch, Shows
  <2> QED
    BY <1>4, <1>5, <1>7, <2>1, <2>2
<1>11. CASE UpdatePullRequest(i)
  <2>1. shown'.branch = IF SendsBranch(d) THEN Keeps(shown.branch, d.number, TRUE) ELSE shown.branch
    BY <1>1, <1>11 DEF UpdatePullRequest, NumberOf
  <2>2. IsOfPullRequest(d) /\ (SendsBranch(d) => Shows(d))
    BY <1>1, <1>11 DEF UpdatePullRequest, SendsBranch, Shows
  <2> QED
    BY <1>4, <1>5, <1>7, <1>9, <2>1, <2>2
<1>12. CASE DeleteAtJira(i)
  <2>1. CASE /\ d.pc = "deletingBranch"
             /\ shown' = [shown EXCEPT !.branch = Keeps(@, d.number, FALSE)]
    <3>1. shown'.branch = Keeps(shown.branch, d.number, FALSE)
      BY <2>1, ShownStays DEF Shown
    <3> QED
      BY <1>4, <1>5, <1>8, <2>1, <3>1 DEF Deletes
  <2>2. CASE /\ d.pc = "deletingPullRequest"
             /\ shown' = [shown EXCEPT !.pr = Keeps(@, d.number, "none")]
    <3>1. shown'.branch = shown.branch
      BY <2>2, ShownStays DEF Shown
    <3>2. IsOfPullRequest(d)
      BY <1>1, <2>2 DEF EventOK
    <3> QED
      BY <1>4, <1>5, <1>9, <3>1, <3>2
  <2> QED
    BY <1>1, <1>12, <2>1, <2>2 DEF DeleteAtJira, NumberOf
<1> QED
  BY <1>10, <1>11, <1>12

LEMMA BranchChanges == EventsSound /\ BranchInv /\ GitHubChanges => BranchInv'
<1> SUFFICES ASSUME EventsSound, BranchInv, GitHubChanges
             PROVE  BranchInv'
  OBVIOUS
<1>1. PICK r \in Repository, kinds \in Seq(Kinds), left \in BOOLEAN :
        Changes(r, kinds, left) /\ Tells(r, kinds, left) /\ r.named = repo.named
  BY Telling DEF EventsSound, RepoOK
<1>2. PICK bot \in BOOLEAN :
        News(r, kinds, left, bot) /\ happened' = Excuses(r, kinds, bot)
  BY <1>1, Changing DEF EventsSound
<1> SUFFICES ASSUME repo.named, ~BranchSpoiled'
             PROVE  IF repo'.branch THEN BranchComes' ELSE BranchGoes'
  BY <1>1, <1>2 DEF BranchInv, News
<1>3. ~BranchSpoiled
  BY <1>2 DEF BranchSpoiled, Excuses
<1>4. Len(events) \in Nat
  BY IndexFacts DEF EventsSound
<1>5. ASSUME NEW k \in 1..Len(kinds), k \in Nat
      PROVE  /\ Len(events) + k \in Index'
             /\ events'[Len(events) + k].pc = "sent" /\ events'[Len(events) + k].kind = kinds[k]
  <2>1. events'[Len(events) + k] = Webhook(r, kinds[k], bot, left)
    BY <1>2, <1>5 DEF News
  <2>2. Len(kinds) \in Nat /\ k <= Len(kinds) /\ k >= 1
    BY <1>5
  <2>3. Len(events) + k \in Index'
    BY <1>2, <1>4, <1>5, <2>2 DEF News
  <2> QED
    BY <2>1, <2>3 DEF Webhook
<1>6. CASE kinds = <<"create">>
  <2>1. 1 \in 1..Len(kinds) /\ kinds[1] = "create" /\ 1 \in Nat
    BY <1>6
  <2>2. IsAhead(events'[Len(events) + 1]) /\ Len(events) + 1 \in Index'
    BY <1>5, <2>1 DEF IsAhead
  <2>3. repo'.branch
    BY <1>1, <1>2, <1>6, <2>1 DEF Tells, News, PullRequestKinds
  <2> QED
    BY <2>2, <2>3 DEF BranchComes
<1>7. CASE kinds = <<"delete">> \/ kinds = <<"closed", "delete">>
  <2>1. PICK k \in 1..Len(kinds) : kinds[k] = "delete" /\ k \in Nat
    <3>1. CASE kinds = <<"delete">>
      <4>1. 1 \in 1..Len(kinds) /\ kinds[1] = "delete"
        BY <3>1
      <4> QED
        BY <4>1
    <3>2. CASE kinds = <<"closed", "delete">>
      <4>1. 2 \in 1..Len(kinds) /\ kinds[2] = "delete"
        BY <3>2
      <4> QED
        BY <4>1
    <3> QED
      BY <1>7, <3>1, <3>2
  <2>2. IsToDelete(events'[Len(events) + k]) /\ Len(events) + k \in Index'
    BY <1>5, <2>1 DEF IsToDelete
  <2>3. ~repo'.branch
    <3>1. kinds # <<"create">>
      BY <1>7
    <3>2. CASE \E kind \in PullRequestKinds : kinds = <<kind>>
      BY <1>7, <3>2 DEF PullRequestKinds
    <3> QED
      BY <1>1, <1>2, <3>1, <3>2 DEF Tells, News
  <2> QED
    BY <2>2, <2>3 DEF BranchGoes
<1>8. CASE r.branch = repo.branch /\ (repo.branch \/ repo.pr # "none")
  <2>1. /\ Evolves(0) /\ 0 \notin Index /\ Index \subseteq Index' /\ shown' = shown
        /\ repo'.branch = repo.branch
    BY <1>2, <1>8 DEF News, Index
  <2>2. CASE repo.branch
    BY <1>3, <2>1, <2>2, ComesStays DEF BranchInv
  <2>3. CASE ~repo.branch
    <3>1. events # <<>>
      BY <1>8, <2>3 DEF EventsSound, RepoOK, Index
    <3> QED
      BY <1>3, <2>1, <2>3, <3>1, GoesStays DEF BranchInv
  <2> QED
    BY <2>2, <2>3
<1> QED
  BY <1>1, <1>6, <1>7, <1>8 DEF Tells

LEMMA BranchStep == EventsSound /\ BranchInv /\ [PullRequestsNext]_pullRequests => BranchInv'
<1> SUFFICES ASSUME EventsSound, BranchInv, [PullRequestsNext]_pullRequests
             PROVE  BranchInv'
  OBVIOUS
<1>1. CASE GitHubChanges
  BY <1>1, BranchChanges
<1>2. CASE \E i \in Index : EventStep(i)
  BY <1>2, BranchIgnored, BranchLost, BranchProceeds, BranchRetried, BranchLinked, BranchDeleted,
     BranchOfPullRequest, BranchTransformed, BranchWritten DEF EventStep
<1>3. CASE UNCHANGED pullRequests
  BY <1>3 DEF pullRequests, BranchInv, BranchSpoiled, BranchComes, BranchGoes, Comes, Vanishes,
     OverShows, OverDeletions, Index
<1> QED
  BY <1>1, <1>2, <1>3 DEF PullRequestsNext, EventStep, Index

LEMMA NumberedFalse ==
  ASSUME NEW n, NEW c, c = Numbered(n, FALSE)
  PROVE  c.is = FALSE
BY DEF Numbered

LEMMA BranchInit == PullRequestsInit => BranchInv
<1> SUFFICES ASSUME PullRequestsInit, repo.named
             PROVE  IF repo.branch THEN BranchComes ELSE BranchGoes
  BY DEF BranchInv
<1>1. events = <<>> /\ Index = {}
  BY DEF PullRequestsInit, Index
<1>2. CASE /\ repo = NoRepo(TRUE)
           /\ shown = [branch |-> Numbered(0, FALSE), pr |-> Numbered(0, "none")]
  <2>1. ~repo.branch /\ shown.branch = Numbered(0, FALSE)
    BY <1>2 DEF NoRepo
  <2>2. shown.branch.is = FALSE
    <3>1. PICK c : c = shown.branch /\ c = Numbered(0, FALSE)
      BY <2>1
    <3>2. c.is = FALSE
      BY <3>1, NumberedFalse
    <3> QED
      BY <3>1, <3>2
  <2> QED
    BY <1>1, <2>1, <2>2 DEF BranchGoes
<1>3. CASE repo.branch /\ shown.branch = Numbered(0, IsKeyed(repo))
  <2>1. IsKeyed(repo)
    BY DEF IsKeyed
  <2>2. shown.branch.is
    BY <1>3, <2>1, NumberedOne
  <2> QED
    BY <1>1, <1>3, <2>2 DEF BranchComes, OverDeletions
<1> QED
  <2>1. PICK named \in BOOLEAN :
          \/ /\ repo = NoRepo(named)
             /\ shown = [branch |-> Numbered(0, FALSE), pr |-> Numbered(0, "none")]
          \/ \E title \in BOOLEAN, body \in {"plain", "linked"} :
               /\ repo = [branch |-> TRUE, named |-> named, pr |-> "OPEN",
                          title |-> title, body |-> body]
               /\ shown = [branch |-> Numbered(0, IsKeyed(repo)),
                           pr |-> Numbered(0, IF IsKeyed(repo) THEN "OPEN" ELSE "none")]
    BY DEF PullRequestsInit
  <2>2. CASE \E title \in BOOLEAN, body \in {"plain", "linked"} :
               /\ repo = [branch |-> TRUE, named |-> named, pr |-> "OPEN",
                          title |-> title, body |-> body]
               /\ shown = [branch |-> Numbered(0, IsKeyed(repo)),
                           pr |-> Numbered(0, IF IsKeyed(repo) THEN "OPEN" ELSE "none")]
    BY <1>3, <2>2
  <2>3. CASE /\ repo = NoRepo(named)
             /\ shown = [branch |-> Numbered(0, FALSE), pr |-> Numbered(0, "none")]
    <3>1. named = repo.named
      BY <2>3 DEF NoRepo
    <3>2. NoRepo(named) = NoRepo(TRUE)
      BY <3>1 DEF NoRepo
    <3> QED
      BY <1>2, <2>3, <3>2
  <2> QED
    BY <2>1, <2>2, <2>3

-----------------------------------------------------------------------------
(* The pull request. *)

PullRequestSpoiled == happened \cap {"reordered", "lost", "ignored", "overwritten"} # {}
Unseen == "unnoticed" \in happened

Taken(e) == IsOfPullRequest(e) /\ ~IsIgnored(e.kind, e.bot)
Writes(e) ==
  e.pc \in {"linking", "deletingPullRequest"} \/ (e.pc = "updating" /\ IsOfPullRequest(e))

\* What Jira is going to be told of the pull request, and whether it is going to keep that.
Says(e) == IF NamesIssues(e) THEN e.pr ELSE "none"
Matters(e) == \/ e.pc = "sent" /\ Taken(e) /\ (NamesIssues(e) \/ e.left)
              \/ Writes(e) /\ e.number > shown.pr.number
Goal == IF IsKeyed(repo) THEN repo.pr ELSE "none"

InOrder ==
  \A j, k \in Index :
    j < k /\ Taken(events[j]) /\ Taken(events[k]) /\ events[k].pc # "sent" => events[j].pc # "sent"
Ascend ==
  \A j, k \in Index :
    j < k /\ Writes(events[j]) /\ Writes(events[k]) => events[j].number < events[k].number

\* The last that Jira is going to be told, or what it has been told, is what GitHub has.
PullRequestComes ==
  \/ \E k \in Index : /\ Matters(events[k]) /\ Says(events[k]) = Goal
                      /\ \A j \in Index : Matters(events[j]) => j <= k
  \/ (\A j \in Index : ~Matters(events[j])) /\ shown.pr.is = Goal

PullRequestInv ==
  ~PullRequestSpoiled => /\ Ascend
                         /\ Unseen => ~IsKeyed(repo)
                         /\ ~Unseen /\ InOrder => PullRequestComes

LEMMA MattersSame ==
  ASSUME NEW e, shown'.pr = shown.pr, repo'.named = repo.named
  PROVE  (Matters(e)' <=> Matters(e)) /\ Says(e)' = Says(e)
BY DEF Matters, Says, NamesIssues

LEMMA AscendStays ==
  ASSUME NEW i \in Index \cup {0}, Evolves(i), Ascend,
         i \in Index /\ Writes(events'[i]) =>
           Writes(events[i]) /\ events'[i].number = events[i].number
  PROVE  Ascend'
<1>1. \A j \in Index' : Writes(events'[j]) =>
        j \in Index /\ Writes(events[j]) /\ events'[j].number = events[j].number
  <2> SUFFICES ASSUME NEW j \in Index', Writes(events'[j])
               PROVE  j \in Index /\ Writes(events[j]) /\ events'[j].number = events[j].number
    OBVIOUS
  <2>1. j \in Index
    BY DEF Evolves, Writes
  <2> QED
    BY <2>1 DEF Evolves
<1> QED
  BY <1>1 DEF Ascend

LEMMA InOrderBefore ==
  ASSUME NEW i \in Index \cup {0}, Evolves(i), Index \subseteq Index', InOrder',
         i \in Index /\ Taken(events[i]) =>
           /\ Taken(events'[i])
           /\ events[i].pc # "sent" => events'[i].pc # "sent"
           /\ events[i].pc = "sent" => events'[i].pc = "sent" \/ ~IsLate(i)
  PROVE  InOrder
<1> SUFFICES ASSUME NEW j \in Index, NEW k \in Index, j < k, Taken(events[j]), Taken(events[k]),
                    events[k].pc # "sent", events[j].pc = "sent"
             PROVE  FALSE
  BY DEF InOrder
<1>1. Taken(events'[j]) /\ Taken(events'[k]) /\ events'[k].pc # "sent"
  BY DEF Evolves
<1>2. CASE events'[j].pc = "sent"
  BY <1>1, <1>2 DEF InOrder
<1>3. CASE events'[j].pc # "sent"
  <2>1. j = i
    BY <1>3 DEF Evolves
  <2>2. ~IsLate(j)
    BY <1>3, <2>1
  <2>3. k \in j + 1..Len(events)
    BY DEF Index
  <2> QED
    BY <2>2, <2>3 DEF IsLate, Taken
<1> QED
  BY <1>2, <1>3

LEMMA ComesOn ==
  ASSUME EventsSound, NEW i \in Index \cup {0}, Evolves(i), Index \subseteq Index',
         repo'.named = repo.named, shown'.pr = shown.pr, Goal' = Goal, PullRequestComes,
         i \in Index => /\ Matters(events'[i]) <=> Matters(events[i])
                        /\ Matters(events[i]) => Says(events'[i]) = Says(events[i]),
         \A j \in Index' \ Index : ~Matters(events'[j])
  PROVE  PullRequestComes'
<1>1. \A j \in Index' : Matters(events[j])' <=> Matters(events'[j])
  BY DEF Matters, NamesIssues
<1>2. \A j \in Index : Matters(events'[j]) <=> Matters(events[j])
  BY DEF Evolves
<1>3. \A j \in Index' : Matters(events[j])' => j \in Index /\ Matters(events[j])
  BY <1>1, <1>2
<1>4. CASE (\A j \in Index : ~Matters(events[j])) /\ shown.pr.is = Goal
  BY <1>3, <1>4 DEF PullRequestComes
<1>5. CASE \E k \in Index : /\ Matters(events[k]) /\ Says(events[k]) = Goal
                            /\ \A j \in Index : Matters(events[j]) => j <= k
  <2>1. PICK k \in Index : /\ Matters(events[k]) /\ Says(events[k]) = Goal
                           /\ \A j \in Index : Matters(events[j]) => j <= k
    BY <1>5
  <2>2. Says(events'[k]) = Says(events[k])
    BY <2>1 DEF Evolves
  <2>3. Says(events[k])' = Goal'
    BY <2>1, <2>2 DEF Says, NamesIssues
  <2>4. Matters(events[k])'
    BY <1>1, <1>2, <2>1
  <2> QED
    BY <1>3, <2>1, <2>3, <2>4 DEF PullRequestComes
<1> QED
  BY <1>4, <1>5 DEF PullRequestComes

\* What changes nothing of what Jira is going to be told.
LEMMA PullRequestRests ==
  ASSUME EventsSound, PullRequestInv, NEW i \in Index, Evolves(i), Index \subseteq Index',
         repo'.named = repo.named, shown'.pr = shown.pr, (Unseen' <=> Unseen),
         ~PullRequestSpoiled', ~PullRequestSpoiled, Goal' = Goal,
         Unseen => (IsKeyed(repo') <=> IsKeyed(repo)),
         Matters(events'[i]) <=> Matters(events[i]),
         Matters(events[i]) => Says(events'[i]) = Says(events[i]),
         \A j \in Index' \ Index : ~Matters(events'[j]),
         Ascend', InOrder' => InOrder
  PROVE  PullRequestInv'
<1>1. Unseen' => ~IsKeyed(repo)'
  BY DEF PullRequestInv, IsKeyed
<1>2. ~Unseen' /\ InOrder' => PullRequestComes'
  BY ComesOn DEF PullRequestInv
<1> QED
  BY <1>1, <1>2 DEF PullRequestInv

\* A webhook that is not handled as one of the pull request.
LEMMA PullRequestAside ==
  ASSUME EventsSound, PullRequestInv, NEW i \in Index, Evolves(i), Index' = Index,
         UNCHANGED repo, shown'.pr = shown.pr, (Unseen' <=> Unseen),
         ~PullRequestSpoiled' => ~PullRequestSpoiled,
         ~Taken(events[i]), ~Taken(events'[i]), ~Writes(events'[i]), ~Writes(events[i])
  PROVE  PullRequestInv'
<1> SUFFICES ASSUME ~PullRequestSpoiled'
             PROVE  PullRequestInv'
  BY DEF PullRequestInv
<1>1. ~Matters(events[i]) /\ ~Matters(events'[i])
  BY DEF Matters
<1>2. Ascend'
  BY AscendStays DEF PullRequestInv
<1>3. InOrder' => InOrder
  BY InOrderBefore
<1>4. Goal' = Goal /\ (IsKeyed(repo') <=> IsKeyed(repo))
  BY DEF Goal, IsKeyed
<1> QED
  BY <1>1, <1>2, <1>3, <1>4, PullRequestRests

\* What is handled for the branch.
LEMMA PullRequestOfBranch ==
  ASSUME EventsSound, PullRequestInv, NEW i \in Index, Evolves(i), Index' = Index,
         UNCHANGED repo, shown'.pr = shown.pr, (Unseen' <=> Unseen),
         ~PullRequestSpoiled' => ~PullRequestSpoiled,
         NEW d \in Event, d = events[i], EventOK(d), ~IsOfPullRequest(d),
         NEW e \in Event, e = events'[i], e.kind = d.kind,
         e.pc \notin {"linking", "deletingPullRequest"}
  PROVE  PullRequestInv'
<1>1. ~IsOfPullRequest(e)
  BY DEF IsOfPullRequest
<1>2. ~Taken(d) /\ ~Taken(e) /\ ~Writes(e) /\ ~Writes(d)
  BY <1>1 DEF Taken, Writes, EventOK
<1> QED
  BY <1>2, PullRequestAside

LEMMA PullRequestFinished ==
  ASSUME EventsSound, PullRequestInv, NEW i \in Index, Finishes(i),
         UNCHANGED repo, shown'.pr = shown.pr, (Unseen' <=> Unseen),
         ~PullRequestSpoiled' => ~PullRequestSpoiled,
         NEW d \in Event, d = events[i], EventOK(d), ~Taken(d)
  PROVE  PullRequestInv'
<1>1. /\ Evolves(i) /\ Index' = Index /\ events'[i].pc = "done"
      /\ events'[i].kind = d.kind /\ events'[i].bot = d.bot
  BY Finishing DEF EventsSound
<1>2. PICK e \in Event : e = events'[i]
  BY <1>1, IndexFacts DEF Evolves, Index
<1>3. ~Taken(e) /\ ~Writes(e)
  BY <1>1, <1>2 DEF Taken, Writes, IsOfPullRequest, IsIgnored
<1>4. ~Writes(d)
  BY DEF Writes, Taken, EventOK
<1> QED
  BY <1>1, <1>2, <1>3, <1>4, PullRequestAside

LEMMA PullRequestIgnored ==
  EventsSound /\ PullRequestInv /\ (\E i \in Index : Ignore(i) \/ NothingToSubmit(i))
    => PullRequestInv'
<1> SUFFICES ASSUME EventsSound, PullRequestInv, NEW i \in Index, Ignore(i) \/ NothingToSubmit(i)
             PROVE  PullRequestInv'
  OBVIOUS
<1>1. Finishes(i) /\ UNCHANGED <<repo, shown, clock, happened>>
  BY DEF Ignore, NothingToSubmit
<1>2. PICK d \in Event : d = events[i] /\ EventOK(d)
  BY IndexFacts DEF EventsSound, EventsOK
<1>3. ~Taken(d)
  BY <1>2 DEF Ignore, NothingToSubmit, Taken, EventOK, IsOfPullRequest
<1>4. PullRequestSpoiled' = PullRequestSpoiled /\ (Unseen' <=> Unseen)
  BY <1>1 DEF PullRequestSpoiled, Unseen
<1> QED
  BY <1>1, <1>2, <1>3, <1>4, PullRequestFinished

LEMMA PullRequestLost ==
  EventsSound /\ PullRequestInv /\ (\E i \in Index : LoseWebhook(i) \/ FindNoRef(i))
    => PullRequestInv'
<1> SUFFICES ASSUME EventsSound, PullRequestInv, NEW i \in Index, LoseWebhook(i) \/ FindNoRef(i),
                    ~PullRequestSpoiled'
             PROVE  PullRequestInv'
  BY DEF PullRequestInv
<1>1. Finishes(i) /\ UNCHANGED <<repo, shown, clock>>
  BY DEF LoseWebhook, FindNoRef
<1>2. PICK d \in Event : d = events[i] /\ EventOK(d)
  BY IndexFacts DEF EventsSound, EventsOK
<1>3. PICK x \in {"lost", "branch lost", "not yet there"} :
        happened' = happened \/ happened' = happened \cup {x}
  BY DEF LoseWebhook, FindNoRef
<1>4. ~PullRequestSpoiled /\ (Unseen' <=> Unseen)
  BY <1>3 DEF PullRequestSpoiled, Unseen
<1>5. ~IsOfPullRequest(d)
  <2>1. CASE LoseWebhook(i)
    BY <1>2, <2>1 DEF LoseWebhook, PullRequestSpoiled
  <2>2. CASE FindNoRef(i)
    BY <1>2, <2>2 DEF FindNoRef, EventOK, IsOfPullRequest
  <2> QED
    BY <2>1, <2>2
<1> QED
  BY <1>1, <1>2, <1>4, <1>5, PullRequestFinished DEF Taken

LEMMA PullRequestProceeds ==
  EventsSound /\ PullRequestInv
    /\ (\E i \in Index : EnqueueBranch(i) \/ GetRef(i) \/ TransformBranch(i) \/ HandleDeleted(i))
    => PullRequestInv'
<1> SUFFICES ASSUME EventsSound, PullRequestInv, NEW i \in Index,
                    EnqueueBranch(i) \/ GetRef(i) \/ TransformBranch(i) \/ HandleDeleted(i)
             PROVE  PullRequestInv'
  OBVIOUS
<1>1. PICK d \in Event : d = events[i] /\ EventOK(d)
  BY IndexFacts DEF EventsSound, EventsOK
<1>2. UNCHANGED <<repo, shown>> /\ ~IsOfPullRequest(d)
  BY <1>1 DEF EnqueueBranch, GetRef, TransformBranch, HandleDeleted, IsTaken, EventOK,
     IsOfPullRequest
<1>3. (Unseen' <=> Unseen) /\ (~PullRequestSpoiled' => ~PullRequestSpoiled)
  BY DEF EnqueueBranch, GetRef, TransformBranch, HandleDeleted, Unseen, PullRequestSpoiled
<1>4. CASE Finishes(i)
  BY <1>1, <1>2, <1>3, <1>4, PullRequestFinished DEF Taken
<1>5. ASSUME NEW to \in {"queued", "fetching", "updating", "deletingBranch"},
             Proceeds(i, to) \/ ProceedsNumbered(i, to)
      PROVE  PullRequestInv'
  <2>1. Evolves(i) /\ Index' = Index /\ Alike(events'[i], d) /\ events'[i].pc = to
    BY <1>1, <1>5, Proceeding, ProceedingNumbered DEF EventsSound, Stages
  <2>2. PICK e \in Event : e = events'[i]
    BY <2>1, IndexFacts DEF Evolves, Index
  <2> QED
    BY <1>1, <1>2, <1>3, <2>1, <2>2, PullRequestOfBranch DEF Alike
<1> QED
  BY <1>4, <1>5 DEF EnqueueBranch, GetRef, TransformBranch, HandleDeleted

LEMMA PullRequestRetried ==
  EventsSound /\ PullRequestInv /\ (\E i \in Index : RetryBranch(i)) => PullRequestInv'
<1> SUFFICES ASSUME EventsSound, PullRequestInv, NEW i \in Index, RetryBranch(i)
             PROVE  PullRequestInv'
  OBVIOUS
<1>1. PICK d \in Event : d = events[i] /\ EventOK(d)
  BY IndexFacts DEF EventsSound, EventsOK
<1>2. UNCHANGED <<repo, shown>> /\ ~IsOfPullRequest(d)
  BY <1>1 DEF RetryBranch, IsOfPullRequest
<1>3. (Unseen' <=> Unseen) /\ (~PullRequestSpoiled' => ~PullRequestSpoiled)
  <2>1. happened' = happened \/ happened' = happened \cup {"branch lost"}
    BY DEF RetryBranch
  <2> QED
    BY <2>1 DEF Unseen, PullRequestSpoiled
<1>4. CASE Finishes(i)
  BY <1>1, <1>2, <1>3, <1>4, PullRequestFinished DEF Taken
<1>5. CASE events' = [events EXCEPT ![i].pc = "queued", ![i].attempt = @ + 1]
  <2>1. /\ Evolves(i) /\ Index' = Index /\ Alike(events'[i], d) /\ events'[i].pc = "queued"
    BY <1>1, <1>5, Retrying DEF EventsSound
  <2> HIDE <1>5
  <2>2. PICK e \in Event : e = events'[i]
    BY <2>1, IndexFacts DEF Evolves, Index
  <2> QED
    BY <1>1, <1>2, <1>3, <2>1, <2>2, PullRequestOfBranch DEF Alike
<1> QED
  BY <1>4, <1>5 DEF RetryBranch

LEMMA PullRequestHandled ==
  EventsSound /\ PullRequestInv /\ (\E i \in Index : HandlePullRequest(i)) => PullRequestInv'
<1> SUFFICES ASSUME EventsSound, PullRequestInv, NEW i \in Index, HandlePullRequest(i),
                    ~PullRequestSpoiled'
             PROVE  PullRequestInv'
  BY DEF PullRequestInv
<1>1. PICK d \in Event : d = events[i] /\ EventOK(d)
  BY IndexFacts DEF EventsSound, EventsOK
<1>2. d.pc = "sent" /\ Taken(d) /\ UNCHANGED <<repo, shown>>
  BY <1>1 DEF HandlePullRequest, IsTaken, Taken
<1>3. ~PullRequestSpoiled /\ ~IsLate(i)
  BY DEF HandlePullRequest, Mishaps, PullRequestSpoiled
<1>4. Unseen' <=> Unseen
  BY DEF HandlePullRequest, Mishaps, Unseen
<1>5. \/ NamesIssues(d) /\ ProceedsNumbered(i, "linking")
      \/ ~NamesIssues(d) /\ d.left /\ ProceedsNumbered(i, "deletingPullRequest")
      \/ ~NamesIssues(d) /\ ~d.left /\ Finishes(i)
  BY <1>1 DEF HandlePullRequest, LosesPullRequest
<1>6. Goal' = Goal /\ (IsKeyed(repo') <=> IsKeyed(repo))
  BY <1>2 DEF Goal, IsKeyed
<1>7. ~Writes(d)
  BY <1>2 DEF Writes
<1>8. CASE ~NamesIssues(d) /\ ~d.left /\ Finishes(i)
  <2>1. /\ Evolves(i) /\ Index' = Index /\ events'[i].pc = "done"
        /\ events'[i].kind = d.kind /\ events'[i].bot = d.bot
    BY <1>1, <1>8, Finishing DEF EventsSound
  <2>2. PICK e \in Event : e = events'[i]
    BY <2>1, IndexFacts DEF Evolves, Index
  <2>3. Taken(e) /\ ~Writes(e) /\ ~Matters(e) /\ ~Matters(d)
    BY <1>2, <1>7, <1>8, <2>1, <2>2 DEF Taken, Writes, Matters, IsOfPullRequest, IsIgnored
  <2>4. Ascend'
    BY <1>3, <2>1, <2>2, <2>3, AscendStays DEF PullRequestInv
  <2>5. InOrder' => InOrder
    BY <1>1, <1>2, <1>3, <2>1, <2>2, <2>3, InOrderBefore
  <2> QED
    BY <1>1, <1>2, <1>3, <1>4, <1>6, <2>1, <2>2, <2>3, <2>4, <2>5, PullRequestRests
<1>9. ASSUME NEW to \in {"linking", "deletingPullRequest"}, ProceedsNumbered(i, to),
             NamesIssues(d) \/ d.left
      PROVE  PullRequestInv'
  <2>1. /\ Evolves(i) /\ Index' = Index /\ Alike(events'[i], d) /\ events'[i].pc = to
        /\ events'[i].number = clock + 1
    BY <1>1, <1>9, ProceedingNumbered DEF EventsSound, Stages
  <2>2. PICK e \in Event : e = events'[i]
    BY <2>1, IndexFacts DEF Evolves, Index
  <2>3. Taken(e) /\ Says(e) = Says(d)
    BY <1>2, <2>1, <2>2 DEF Taken, IsOfPullRequest, Alike, IsIgnored, Says, NamesIssues
  <2>4. Matters(d) /\ Matters(e)
    BY <1>2, <1>9, <2>1, <2>2, ShownStays DEF Matters, Writes, Shown
  <2>5. Ascend'
    <3> SUFFICES ASSUME NEW j \in Index, NEW k \in Index, j < k,
                        Writes(events'[j]), Writes(events'[k])
                 PROVE  events'[j].number < events'[k].number
      BY <2>1 DEF Ascend
    <3>1. j \in Nat /\ k \in Nat
      BY DEF Index
    <3>2. CASE k = i
      <4>1. PICK c \in Event : c = events[j] /\ EventOK(c) /\ c = events'[j]
        BY <2>1, <3>1, <3>2, IndexFacts DEF EventsSound, EventsOK, Evolves
      <4> QED
        BY <2>1, <3>2, <4>1, ShownStays DEF EventOK, Event
    <3>3. CASE j = i
      <4>1. PICK c \in Event : c = events[k] /\ EventOK(c) /\ c = events'[k]
        BY <2>1, <3>1, <3>3, IndexFacts DEF EventsSound, EventsOK, Evolves
      <4>2. Taken(c) /\ c.pc # "sent"
        BY <4>1 DEF Writes, Taken, EventOK
      <4>3. k \in i + 1..Len(events)
        BY <3>3 DEF Index
      <4> QED
        BY <1>3, <4>1, <4>2, <4>3 DEF IsLate, Taken
    <3>4. CASE j # i /\ k # i
      BY <1>3, <2>1, <3>4 DEF Evolves, PullRequestInv, Ascend
    <3> QED
      BY <3>2, <3>3, <3>4
  <2>6. InOrder' => InOrder
    BY <1>1, <1>2, <1>3, <2>1, <2>2, <2>3, InOrderBefore
  <2> QED
    BY <1>1, <1>2, <1>3, <1>4, <1>6, <2>1, <2>2, <2>3, <2>4, <2>5, <2>6, PullRequestRests
<1> QED
  BY <1>5, <1>8, <1>9

LEMMA PullRequestLinked ==
  EventsSound /\ PullRequestInv /\ (\E i \in Index : UpdateGithubIssues(i)) => PullRequestInv'
<1> SUFFICES ASSUME EventsSound, PullRequestInv, NEW i \in Index, UpdateGithubIssues(i),
                    ~PullRequestSpoiled'
             PROVE  PullRequestInv'
  BY DEF PullRequestInv
<1>1. PICK d \in Event : d = events[i] /\ EventOK(d)
  BY IndexFacts DEF EventsSound, EventsOK
<1>2. d.pc = "linking" /\ IsOfPullRequest(d) /\ UNCHANGED <<shown, clock>>
  BY <1>1 DEF UpdateGithubIssues, EventOK
<1>3. /\ Evolves(i) /\ Index \subseteq Index' /\ Alike(events'[i], d)
      /\ events'[i].pc = "updating" /\ events'[i].number = d.number
      /\ repo'.named = repo.named /\ repo'.pr = repo.pr
      /\ repo' = repo \/ (repo'.title = repo.title /\ repo'.body = "linked")
      /\ \A j \in Index' \ Index : events'[j].kind = "edited" /\ events'[j].bot
                                   /\ events'[j].pc = "sent"
  <2>1. CASE Proceeds(i, "updating") /\ UNCHANGED <<repo, happened>>
    BY <1>1, <2>1, Proceeding DEF EventsSound, Stages
  <2>2. CASE repo' = [repo EXCEPT !.body = "linked"] /\ Links(i, repo')
    <3>1. PICK r \in Repository : /\ r = repo' /\ r.pr = repo.pr /\ r.named = repo.named
                                  /\ r.title = repo.title /\ r.body = "linked"
      BY <2>2 DEF EventsSound, EventTypes, Repository, Bodies
    <3>2. Links(i, r)
      BY <2>2, <3>1
    <3>3. /\ Evolves(i) /\ Index' = Index \cup {Len(events) + 1}
          /\ Alike(events'[i], d)
          /\ events'[i].pc = "updating" /\ events'[i].number = d.number
          /\ events'[Len(events) + 1] = Webhook(r, "edited", TRUE, FALSE)
      BY <1>1, <3>2, Linking
    <3>4. \A j \in Index' \ Index : events'[j] = Webhook(r, "edited", TRUE, FALSE)
      BY <3>3
    <3>5. \A j \in Index' \ Index : events'[j].kind = "edited" /\ events'[j].bot
                                    /\ events'[j].pc = "sent"
      BY <3>4 DEF Webhook
    <3> QED
      BY <3>1, <3>3, <3>5
  <2> QED
    BY <2>1, <2>2 DEF UpdateGithubIssues, Links
<1>4. PICK x \in {"overwritten"} : happened' = happened \/ happened' = happened \cup {x}
  BY DEF UpdateGithubIssues
<1>5. ~PullRequestSpoiled /\ (Unseen' <=> Unseen)
  BY <1>4 DEF PullRequestSpoiled, Unseen
<1>6. repo' = repo \/ repo.body # "plain"
  BY DEF UpdateGithubIssues, PullRequestSpoiled
<1>7. Goal' = Goal /\ (IsKeyed(repo') <=> IsKeyed(repo))
  <2>1. IsKeyed(repo') <=> IsKeyed(repo)
    BY <1>3, <1>6 DEF IsKeyed
  <2> QED
    BY <1>3, <2>1 DEF Goal
<1>8. PICK e \in Event : e = events'[i]
  BY <1>3, IndexFacts DEF Evolves, Index
<1>9. /\ Writes(d) /\ Writes(e) /\ (Taken(d) => Taken(e)) /\ e.number = d.number
      /\ (Matters(e) <=> Matters(d)) /\ Says(e) = Says(d)
  BY <1>2, <1>3, <1>8 DEF Writes, Taken, IsOfPullRequest, IsIgnored, Alike, Matters, Says,
     NamesIssues
<1>10. \A j \in Index' \ Index : ~Matters(events'[j])
  BY <1>3 DEF Matters, Writes, Taken, IsIgnored
<1>11. Ascend'
  BY <1>1, <1>3, <1>5, <1>8, <1>9, AscendStays DEF PullRequestInv
<1>12. InOrder' => InOrder
  BY <1>1, <1>2, <1>3, <1>8, <1>9, InOrderBefore
<1> QED
  BY <1>1, <1>2, <1>3, <1>5, <1>7, <1>8, <1>9, <1>10, <1>11, <1>12, PullRequestRests

\* Jira is told of the pull request.
LEMMA PullRequestTold ==
  ASSUME EventsSound, PullRequestInv, NEW i \in Index, Finishes(i), UNCHANGED <<repo, happened>>,
         NEW d \in Event, d = events[i], EventOK(d), Writes(d),
         d.number > shown.pr.number => /\ shown'.pr.number = d.number
                                       /\ shown'.pr.is = Says(d),
         ~(d.number > shown.pr.number) => shown'.pr = shown.pr
  PROVE  PullRequestInv'
<1> SUFFICES ASSUME ~PullRequestSpoiled
             PROVE  PullRequestInv'
  BY DEF PullRequestInv, PullRequestSpoiled
<1>1. /\ Evolves(i) /\ Index' = Index /\ events'[i].pc = "done"
      /\ events'[i].kind = d.kind /\ events'[i].bot = d.bot
  BY Finishing DEF EventsSound
<1>2. PICK e \in Event : e = events'[i]
  BY <1>1, IndexFacts DEF Evolves, Index
<1>3. d.pc # "sent" /\ Taken(d)
  BY DEF Writes, Taken, EventOK
<1>4. ~Writes(e) /\ ~Matters(e) /\ Taken(e) /\ e.pc # "sent"
  BY <1>1, <1>2, <1>3 DEF Writes, Matters, Taken, IsOfPullRequest, IsIgnored
<1>5. Goal' = Goal /\ (IsKeyed(repo') <=> IsKeyed(repo)) /\ (Unseen' <=> Unseen)
      /\ ~PullRequestSpoiled'
  BY DEF Goal, IsKeyed, Unseen, PullRequestSpoiled
<1>6. Ascend'
  BY <1>1, <1>2, <1>4, AscendStays DEF PullRequestInv
<1>7. InOrder' => InOrder
  BY <1>1, <1>2, <1>3, <1>4, InOrderBefore
<1>8. CASE ~(d.number > shown.pr.number)
  <2>1. ~Matters(d)
    BY <1>3, <1>8 DEF Matters
  <2> QED
    BY <1>1, <1>2, <1>4, <1>5, <1>6, <1>7, <1>8, <2>1, PullRequestRests
<1>9. CASE d.number > shown.pr.number
  <2>1. Matters(d)
    BY <1>9 DEF Matters
  <2>2. /\ d.number \in Nat /\ shown.pr.number \in Nat /\ shown'.pr.number = d.number
        /\ shown'.pr.is = Says(d)
    BY <1>9, ShownStays DEF Event, Shown
  <2>3. ASSUME NEW j \in Index
        PROVE  Matters(events[j])' =>
                 j # i /\ Matters(events[j]) /\ (Writes(events[j]) => events[j].number > d.number)
    <3>1. CASE j = i
      <4>1. events'[j].pc = "done"
        BY <1>1, <3>1
      <4> QED
        BY <4>1 DEF Matters, Writes
    <3>2. CASE j # i
      <4>1. PICK c \in Event : c = events[j] /\ c = events'[j]
        BY <1>1, <3>2, IndexFacts DEF EventsSound, Evolves
      <4>2. Matters(c)' => Matters(c) /\ (Writes(c) => c.number > d.number)
        BY <2>2 DEF Matters, NamesIssues, Event, Writes
      <4>3. Matters(events[j])' <=> Matters(c)'
        BY <4>1 DEF Matters, NamesIssues
      <4> QED
        BY <3>2, <4>1, <4>2, <4>3
    <3> QED
      BY <3>1, <3>2
  <2> SUFFICES ASSUME ~Unseen, InOrder, InOrder'
               PROVE  PullRequestComes'
    BY <1>5, <1>6, <1>7 DEF PullRequestInv
  <2>4. PICK k \in Index : /\ Matters(events[k]) /\ Says(events[k]) = Goal
                           /\ \A j \in Index : Matters(events[j]) => j <= k
    BY <2>1 DEF PullRequestInv, PullRequestComes
  <2>5. i \in Nat /\ k \in Nat /\ i <= k
    BY <2>1, <2>4 DEF Index
  <2>6. CASE k = i
    <3>1. ASSUME NEW j \in Index, Matters(events[j])'
          PROVE  FALSE
      <4>1. j < i /\ Matters(events[j]) /\ (Writes(events[j]) => events[j].number > d.number)
        BY <2>3, <2>4, <2>6, <3>1 DEF Index
      <4>2. PICK c \in Event : c = events[j]
        BY IndexFacts DEF EventsSound
      <4>3. ~Writes(c)
        BY <1>1, <2>2, <4>1, <4>2 DEF PullRequestInv, Ascend, Event
      <4>4. c.pc = "sent" /\ Taken(c)
        BY <4>1, <4>2, <4>3 DEF Matters
      <4> QED
        BY <1>3, <4>1, <4>2, <4>4 DEF InOrder
    <3>2. shown'.pr.is = Goal'
      BY <1>5, <2>2, <2>4, <2>6
    <3> QED
      BY <1>1, <3>1, <3>2 DEF PullRequestComes
  <2>7. CASE k # i
    <3>1. PICK c \in Event : c = events[k] /\ c = events'[k]
      BY <1>1, <2>7, IndexFacts DEF EventsSound, Evolves
    <3>2. i < k
      BY <2>5, <2>7
    <3>3. Writes(c) => c.number > d.number
      BY <2>2, <3>1, <3>2 DEF PullRequestInv, Ascend, Event
    <3>4. Matters(c)'
      BY <2>2, <2>4, <3>1, <3>3 DEF Matters, NamesIssues
    <3>5. Says(c)' = Goal'
      BY <1>5, <2>4, <3>1 DEF Says, NamesIssues
    <3>6. Matters(events[k])' /\ Says(events[k])' = Goal'
      BY <3>1, <3>4, <3>5 DEF Matters, Says, NamesIssues
    <3>7. \A j \in Index' : Matters(events[j])' => j <= k
      BY <1>1, <2>3, <2>4
    <3> QED
      BY <1>1, <3>6, <3>7 DEF PullRequestComes
  <2> QED
    BY <2>6, <2>7
<1> QED
  BY <1>8, <1>9

LEMMA KeepsWhat ==
  ASSUME NEW b, NEW n, NEW v, NEW c, c = Keeps(b, n, v)
  PROVE  (n > b.number => c.number = n /\ c.is = v) /\ (~(n > b.number) => c = b)
<1>1. CASE n > b.number
  <2>1. c = Numbered(n, v)
    BY <1>1 DEF Keeps
  <2> QED
    BY <1>1, <2>1, NumberedOne
<1>2. CASE ~(n > b.number)
  BY <1>2 DEF Keeps
<1> QED
  BY <1>1, <1>2

LEMMA PullRequestWritten ==
  EventsSound /\ PullRequestInv
    /\ (\E i \in Index : UpdateBranch(i) \/ UpdatePullRequest(i) \/ DeleteAtJira(i))
    => PullRequestInv'
<1> SUFFICES ASSUME EventsSound, PullRequestInv,
                    NEW i \in Index, UpdateBranch(i) \/ UpdatePullRequest(i) \/ DeleteAtJira(i)
             PROVE  PullRequestInv'
  OBVIOUS
<1>1. PICK d \in Event : d = events[i] /\ EventOK(d)
  BY IndexFacts DEF EventsSound, EventsOK
<1>2. Finishes(i) /\ UNCHANGED <<repo, clock, happened>>
  BY DEF UpdateBranch, UpdatePullRequest, DeleteAtJira
<1>3. (Unseen' <=> Unseen) /\ (PullRequestSpoiled' <=> PullRequestSpoiled)
  BY <1>2 DEF Unseen, PullRequestSpoiled
<1>4. CASE ~IsOfPullRequest(d) /\ shown'.pr = shown.pr
  BY <1>1, <1>2, <1>3, <1>4, PullRequestFinished DEF Taken
<1>5. CASE Writes(d) /\ shown'.pr = Keeps(shown.pr, d.number, Says(d))
  <2>1. PICK c : c = shown'.pr
    OBVIOUS
  <2>2. PICK b : b = shown.pr
    OBVIOUS
  <2>3. PICK v : v = Says(d)
    OBVIOUS
  <2>4. /\ d.number > b.number => c.number = d.number /\ c.is = v
        /\ ~(d.number > b.number) => c = b
    BY <1>5, <2>1, <2>2, <2>3, KeepsWhat
  <2> QED
    BY <1>1, <1>2, <1>5, <2>1, <2>2, <2>3, <2>4, PullRequestTold
<1>6. CASE UpdateBranch(i)
  <2>1. shown'.pr = shown.pr
    BY <1>6, ShownStays DEF UpdateBranch, Shown
  <2>2. ~IsOfPullRequest(d)
    BY <1>1, <1>6 DEF UpdateBranch, IsOfPullRequest
  <2> QED
    BY <1>4, <2>1, <2>2
<1>7. CASE UpdatePullRequest(i)
  <2>1. shown'.pr = Keeps(shown.pr, d.number, d.pr)
    BY <1>1, <1>7 DEF UpdatePullRequest, NumberOf
  <2>2. Writes(d) /\ NamesIssues(d)
    BY <1>1, <1>7 DEF UpdatePullRequest, Writes, EventOK
  <2> QED
    BY <1>5, <2>1, <2>2 DEF Says
<1>8. CASE DeleteAtJira(i)
  <2>1. CASE /\ d.pc = "deletingBranch"
             /\ shown' = [shown EXCEPT !.branch = Keeps(@, d.number, FALSE)]
    <3>1. shown'.pr = shown.pr
      BY <2>1, ShownStays DEF Shown
    <3>2. ~IsOfPullRequest(d)
      BY <1>1, <2>1 DEF EventOK, IsOfPullRequest
    <3> QED
      BY <1>4, <3>1, <3>2
  <2>2. CASE /\ d.pc = "deletingPullRequest"
             /\ shown' = [shown EXCEPT !.pr = Keeps(@, d.number, "none")]
    <3>1. shown'.pr = Keeps(shown.pr, d.number, "none")
      BY <2>2, ShownStays DEF Shown
    <3>2. Writes(d) /\ ~NamesIssues(d)
      BY <1>1, <2>2 DEF Writes, EventOK
    <3> QED
      BY <1>5, <3>1, <3>2 DEF Says
  <2> QED
    BY <1>1, <1>8, <2>1, <2>2 DEF DeleteAtJira, NumberOf
<1> QED
  BY <1>6, <1>7, <1>8

\* GitHub says what it has, unless it was an edit of the body that took the last key away.
LEMMA PullRequestChanges == EventsSound /\ PullRequestInv /\ GitHubChanges => PullRequestInv'
<1> SUFFICES ASSUME EventsSound, PullRequestInv, GitHubChanges, ~PullRequestSpoiled'
             PROVE  PullRequestInv'
  BY DEF PullRequestInv
<1>1. PICK r \in Repository, kinds \in Seq(Kinds), left \in BOOLEAN :
        Changes(r, kinds, left) /\ Tells(r, kinds, left) /\ r.named = repo.named
  BY Telling DEF EventsSound, RepoOK
<1>2. PICK bot \in BOOLEAN :
        News(r, kinds, left, bot) /\ happened' = Excuses(r, kinds, bot)
  BY <1>1, Changing DEF EventsSound
<1>3. ~PullRequestSpoiled
  BY <1>2 DEF PullRequestSpoiled, Excuses
<1>4. /\ IsKeyed(r) => ~Unseen'
      /\ ~IsKeyed(r) /\ IsKeyed(repo) /\ r.title = repo.title => Unseen'
      /\ ~IsKeyed(r) /\ ~IsKeyed(repo) => (Unseen' <=> Unseen)
  <2>1. Unseen' <=> "unnoticed" \in Unnoticed(r)
    BY <1>2 DEF Unseen, Excuses
  <2> QED
    BY <2>1 DEF Unnoticed, Unseen
<1>5. ASSUME NEW k \in 1..Len(kinds), kinds[k] # "delete"
      PROVE  ~IsIgnored(kinds[k], bot)
  <2> SUFFICES ASSUME IsIgnored(kinds[k], bot)
               PROVE  "ignored" \in happened'
    BY DEF PullRequestSpoiled
  <2> QED
    BY <1>2, <1>5 DEF Excuses
<1>6. /\ Evolves(0) /\ Index \subseteq Index' /\ 0 \notin Index
      /\ UNCHANGED <<shown, clock>> /\ repo' = r
  BY <1>2 DEF News, Index
<1>7. Len(events) \in Nat /\ Len(kinds) \in Nat
  BY IndexFacts DEF EventsSound
<1>8. ASSUME NEW j \in Index' \ Index
      PROVE  \E k \in 1..Len(kinds) : j = Len(events) + k
                                      /\ events'[j] = Webhook(r, kinds[k], bot, left)
  <2>1. j \in Nat /\ j > Len(events) /\ j <= Len(events) + Len(kinds)
    BY <1>2, <1>7 DEF News, Index
  <2>2. PICK k \in 1..Len(kinds) : j = Len(events) + k
    <3>1. j - Len(events) \in 1..Len(kinds) /\ j = Len(events) + (j - Len(events))
      BY <1>7, <2>1
    <3> QED
      BY <3>1
  <2> QED
    BY <1>2, <2>2 DEF News
<1>9. Ascend'
  BY <1>3, <1>6, AscendStays DEF PullRequestInv
<1>10. Unseen' => ~IsKeyed(repo)'
  BY <1>4, <1>6 DEF IsKeyed
<1>11. InOrder' => InOrder
  BY <1>6, InOrderBefore
<1> SUFFICES ASSUME ~Unseen', InOrder
             PROVE  PullRequestComes'
  BY <1>9, <1>10, <1>11 DEF PullRequestInv
\* Nothing to tell.
<1>12. ASSUME \A k \in 1..Len(kinds) : kinds[k] \in {"create", "delete"} \/ (~IsKeyed(r) /\ ~left),
              Goal' = Goal, ~Unseen
       PROVE  PullRequestComes'
  <2>1. PullRequestComes
    BY <1>3, <1>12 DEF PullRequestInv
  <2>2. ASSUME NEW j \in Index' \ Index
        PROVE  ~Matters(events'[j])
    <3>1. PICK k \in 1..Len(kinds) : events'[j] = Webhook(r, kinds[k], bot, left)
      BY <1>8
    <3>2. PICK e : e = events'[j] /\ e = Webhook(r, kinds[k], bot, left)
      BY <3>1
    <3>3. /\ e.pc = "sent" /\ e.kind = kinds[k] /\ e.left = left
          /\ e.title = r.title /\ e.body = r.body
      BY <3>2 DEF Webhook
    <3>4. IsOfPullRequest(e) => ~NamesIssues(e) /\ ~e.left
      BY <1>1, <1>12, <3>3 DEF IsOfPullRequest, NamesIssues, IsKeyed
    <3> QED
      BY <3>2, <3>3, <3>4 DEF Matters, Taken, Writes
  <2> QED
    BY <1>1, <1>6, <1>12, <2>1, <2>2, ComesOn
\* The last word.
<1>13. ASSUME kinds[1] \in PullRequestKinds, 1 \in 1..Len(kinds), IsKeyed(r) \/ left,
              \A k \in 1..Len(kinds) : k > 1 => kinds[k] = "delete"
       PROVE  PullRequestComes'
  <2>1. PICK n : n = Len(events) + 1 /\ n \in Index' /\ n \in Nat
    BY <1>2, <1>7, <1>13 DEF News
  <2>2. events'[n] = Webhook(r, kinds[1], bot, left)
    BY <1>2, <1>13, <2>1 DEF News
  <2>3. PICK e : e = events'[n]
    OBVIOUS
  <2>4. /\ e.pc = "sent" /\ e.kind = kinds[1] /\ e.bot = bot /\ e.left = left /\ e.pr = r.pr
        /\ e.title = r.title /\ e.body = r.body
    BY <2>2, <2>3 DEF Webhook
  <2>5. NamesIssues(e)' <=> IsKeyed(r)
    BY <1>6, <2>4 DEF NamesIssues, IsKeyed
  <2>6. Taken(e)
    BY <1>5, <1>13, <2>4 DEF Taken, IsOfPullRequest, PullRequestKinds
  <2>7. Matters(e)'
    BY <1>13, <2>4, <2>5, <2>6 DEF Matters
  <2>8. Says(e)' = Goal'
    BY <1>6, <2>4, <2>5 DEF Says, Goal, IsKeyed
  <2>9. Matters(events[n])' /\ Says(events[n])' = Goal'
    BY <2>3, <2>7, <2>8 DEF Matters, Says, NamesIssues
  <2>10. ASSUME NEW j \in Index', Matters(events[j])'
         PROVE  j <= n
    <3>1. CASE j \in Index
      BY <1>7, <2>1, <3>1 DEF Index
    <3>2. CASE j \notin Index
      <4>1. PICK k \in 1..Len(kinds) : j = Len(events) + k
                                       /\ events'[j] = Webhook(r, kinds[k], bot, left)
        BY <1>8, <3>2
      <4>2. PICK f : f = events'[j] /\ f = Webhook(r, kinds[k], bot, left)
        BY <4>1
      <4>3. f.pc = "sent" /\ f.kind = kinds[k]
        BY <4>2 DEF Webhook
      <4>4. IsOfPullRequest(f)
        BY <2>10, <4>2, <4>3 DEF Matters, Taken, Writes
      <4>5. kinds[k] # "delete"
        BY <4>3, <4>4 DEF IsOfPullRequest
      <4>6. k \in Nat /\ ~(k > 1)
        BY <1>13, <4>5
      <4> QED
        BY <1>7, <2>1, <4>1, <4>6
    <3> QED
      BY <3>1, <3>2
  <2> QED
    BY <2>1, <2>9, <2>10 DEF PullRequestComes
<1>14. CASE r.pr = repo.pr /\ r.title = repo.title /\ r.body = repo.body
            /\ (kinds = <<"create">> \/ kinds = <<"delete">>)
  <2>1. IsKeyed(r) <=> IsKeyed(repo)
    BY <1>1, <1>14 DEF IsKeyed
  <2>2. ~Unseen
    BY <1>3, <1>4, <2>1 DEF PullRequestInv
  <2>3. Goal' = Goal
    BY <1>6, <1>14, <2>1 DEF Goal, IsKeyed
  <2>4. \A k \in 1..Len(kinds) : kinds[k] \in {"create", "delete"}
    BY <1>14
  <2> QED
    BY <1>12, <2>2, <2>3, <2>4
<1>15. ASSUME kinds[1] \in PullRequestKinds, 1 \in 1..Len(kinds),
              \A k \in 1..Len(kinds) : k > 1 => kinds[k] = "delete",
              IsKeyed(repo) /\ ~IsKeyed(r) /\ r.title # repo.title => left
       PROVE  PullRequestComes'
  <2>1. CASE IsKeyed(r) \/ left
    BY <1>13, <1>15, <2>1
  <2>2. CASE ~IsKeyed(r) /\ ~left
    <3>1. ~IsKeyed(repo)
      BY <1>4, <1>15, <2>2
    <3>2. ~Unseen
      BY <1>4, <2>2, <3>1
    <3>3. Goal' = Goal
      BY <1>6, <2>2, <3>1 DEF Goal, IsKeyed
    <3> QED
      BY <1>12, <2>2, <3>2, <3>3
  <2> QED
    BY <2>1, <2>2
<1>16. CASE kinds = <<"closed", "delete">> /\ r.title = repo.title
  <2>1. /\ kinds[1] = "closed" /\ 1 \in 1..Len(kinds)
        /\ \A k \in 1..Len(kinds) : k > 1 => kinds[k] = "delete"
    BY <1>16
  <2>2. kinds[1] \in PullRequestKinds
    BY <2>1 DEF PullRequestKinds, Kinds
  <2> QED
    BY <1>15, <1>16, <2>1, <2>2
<1>17. CASE /\ \E kind \in PullRequestKinds : kinds = <<kind>>
            /\ IsKeyed(repo) /\ ~IsKeyed(r) /\ r.title # repo.title => left
  <2>1. /\ kinds[1] \in PullRequestKinds /\ 1 \in 1..Len(kinds)
        /\ \A k \in 1..Len(kinds) : k > 1 => kinds[k] = "delete"
    BY <1>17
  <2> QED
    BY <1>15, <1>17, <2>1
<1> QED
  BY <1>1, <1>14, <1>16, <1>17 DEF Tells

LEMMA PullRequestStep ==
  EventsSound /\ PullRequestInv /\ [PullRequestsNext]_pullRequests => PullRequestInv'
<1> SUFFICES ASSUME EventsSound, PullRequestInv, [PullRequestsNext]_pullRequests
             PROVE  PullRequestInv'
  OBVIOUS
<1>1. CASE GitHubChanges
  BY <1>1, PullRequestChanges
<1>2. CASE \E i \in Index : EventStep(i)
  BY <1>2, PullRequestIgnored, PullRequestLost, PullRequestProceeds, PullRequestRetried,
     PullRequestLinked, PullRequestHandled, PullRequestWritten DEF EventStep
<1>3. CASE UNCHANGED pullRequests
  <2>1. (Unseen' <=> Unseen) /\ (PullRequestSpoiled' <=> PullRequestSpoiled)
    BY <1>3 DEF pullRequests, Unseen, PullRequestSpoiled
  <2>2. (Ascend => Ascend') /\ (InOrder' => InOrder) /\ (PullRequestComes => PullRequestComes')
        /\ (IsKeyed(repo)' <=> IsKeyed(repo))
    BY <1>3 DEF pullRequests, Ascend, InOrder, PullRequestComes, Matters, Says, Goal, NamesIssues,
       IsKeyed, Index
  <2> QED
    BY <2>1, <2>2 DEF PullRequestInv
<1> QED
  BY <1>1, <1>2, <1>3 DEF PullRequestsNext, EventStep, Index

LEMMA PullRequestInit == PullRequestsInit => PullRequestInv
<1> SUFFICES ASSUME PullRequestsInit
             PROVE  PullRequestInv
  OBVIOUS
<1>1. Index = {} /\ ~Unseen
  BY DEF PullRequestsInit, Index, Unseen
<1>2. PICK b, v : shown = [branch |-> b, pr |-> Numbered(0, v)] /\ v = Goal
  <2>1. PICK named \in BOOLEAN :
          \/ /\ repo = NoRepo(named)
             /\ shown = [branch |-> Numbered(0, FALSE), pr |-> Numbered(0, "none")]
          \/ \E title \in BOOLEAN, body \in {"plain", "linked"} :
               /\ repo = [branch |-> TRUE, named |-> named, pr |-> "OPEN",
                          title |-> title, body |-> body]
               /\ shown = [branch |-> Numbered(0, IsKeyed(repo)),
                           pr |-> Numbered(0, IF IsKeyed(repo) THEN "OPEN" ELSE "none")]
    BY DEF PullRequestsInit
  <2>2. repo = NoRepo(named) => Goal = "none"
    BY DEF Goal, NoRepo
  <2>3. repo.pr = "OPEN" => Goal = IF IsKeyed(repo) THEN "OPEN" ELSE "none"
    BY DEF Goal
  <2>4. CASE /\ repo = NoRepo(named)
             /\ shown = [branch |-> Numbered(0, FALSE), pr |-> Numbered(0, "none")]
    BY <2>2, <2>4
  <2>5. CASE \E title \in BOOLEAN, body \in {"plain", "linked"} :
               /\ repo = [branch |-> TRUE, named |-> named, pr |-> "OPEN",
                          title |-> title, body |-> body]
               /\ shown = [branch |-> Numbered(0, IsKeyed(repo)),
                           pr |-> Numbered(0, IF IsKeyed(repo) THEN "OPEN" ELSE "none")]
    <3>1. repo.pr = "OPEN"
      BY <2>5
    <3> QED
      BY <2>3, <2>5, <3>1
  <2> QED
    BY <2>1, <2>4, <2>5
<1>3. shown.pr.is = Goal
  BY <1>2, NumberedOne
<1> QED
  BY <1>1, <1>3 DEF PullRequestInv, PullRequestComes, Ascend

-----------------------------------------------------------------------------
\* When every webhook of a branch and its pull request has been handled, Jira shows what
\* GitHub has, unless one of the listed mishaps has come between (transform-pull-request.ts,
\* branch.ts, delete.ts), however many changes, webhooks and attempts there were.
THEOREM PullRequestsEndRight == PullRequestsSpec => []JiraEndsLikeGitHub
<1>1. PullRequestsInit => EventsSound /\ BranchInv /\ PullRequestInv
  BY InitSound, BranchInit, PullRequestInit
<1>2. EventsSound /\ BranchInv /\ PullRequestInv /\ [PullRequestsNext]_pullRequests
        => EventsSound' /\ BranchInv' /\ PullRequestInv'
  BY EventsStep, BranchStep, PullRequestStep
<1>3. EventsSound /\ BranchInv /\ PullRequestInv => JiraEndsLikeGitHub
  <2> SUFFICES ASSUME EventsSound, BranchInv, PullRequestInv, IsQuiet
               PROVE  /\ \/ ~repo.named
                         \/ BranchSpoiled
                         \/ shown.branch.is = repo.branch
                      /\ \/ PullRequestSpoiled \/ Unseen
                         \/ shown.pr.is = Goal
    BY DEF JiraEndsLikeGitHub, BranchSpoiled, PullRequestSpoiled, Unseen, Goal
  <2>1. \A j \in Index : events[j].pc = "done"
    BY DEF IsQuiet, Index
  <2>2. \A j \in Index : /\ ~IsAhead(events[j]) /\ ~Comes(events[j])
                         /\ ~IsToDelete(events[j]) /\ ~Vanishes(events[j])
                         /\ ~Matters(events[j])
    BY <2>1 DEF IsAhead, Comes, IsToDelete, Vanishes, Deletes, Matters, Writes
  <2>3. shown.branch.is \in BOOLEAN /\ repo.branch \in BOOLEAN
    BY DEF EventsSound, EventTypes, Shown, Repository
  <2>4. ~repo.named \/ BranchSpoiled \/ shown.branch.is = repo.branch
    BY <2>2, <2>3 DEF BranchInv, BranchComes, BranchGoes
  <2>5. InOrder
    BY <2>1 DEF InOrder
  <2>6. PullRequestSpoiled \/ Unseen \/ shown.pr.is = Goal
    BY <2>2, <2>5 DEF PullRequestInv, PullRequestComes
  <2> QED
    BY <2>4, <2>6
<1> QED
  BY <1>1, <1>2, <1>3, PTL DEF PullRequestsSpec

=============================================================================
