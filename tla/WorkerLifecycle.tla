--------------------------- MODULE WorkerLifecycle ---------------------------
(***************************************************************************)
(* One worker process: it starts and stops its queues (src/worker/         *)
(* startup.ts, src/sqs/queues.ts) on commands of the master process        *)
(* (src/services/cluster), which follow the lifecycle events of the node   *)
(* (src/worker.ts, src/services/micros/lifecycle.ts).  A queue polls SQS   *)
(* in a loop that looks at its listener context once a round and may still *)
(* be handling a message long after it was stopped (src/sqs/sqs.ts).       *)
(***************************************************************************)
EXTENDS Naturals, Sequences

CONSTANTS
  Queue,      \* the queues of sqsQueues
  MaxEvents,  \* bound: lifecycle events
  MaxCrashes  \* bound: deaths of the process

ASSUME BoundsAssumption == MaxEvents \in Nat /\ MaxCrashes \in Nat

VARIABLES
  wanted,     \* what the last lifecycle event asks for
  pipe,       \* commands on their way from the master process
  running,    \* running of startup.ts
  listeners,  \* the listener contexts of each queue; the last is listenerContext
  stops,      \* calls of stop that wait, each with the listener it awaits in each queue
  spent,      \* events and crashes so far, for the bounds
  excuse      \* history: what keeps the queues from doing as they are told

vars == <<wanted, pipe, running, listeners, stops, spent, excuse>>

Command == {"start", "stop"}

Init ==
  /\ wanted = "stop"
  /\ pipe = <<>>
  /\ running = FALSE
  /\ listeners = [q \in Queue |-> <<>>]
  /\ stops = <<>>
  /\ spent = [events |-> 0, crashes |-> 0]
  /\ excuse = [overlapped |-> FALSE, rejected |-> FALSE, respawned |-> FALSE]

-----------------------------------------------------------------------------
(* SqsQueue: one queue, of which ls are the listeners. *)

IsStopped(ls) == ls = <<>> \/ ls[Len(ls)].stopped

\* Mutant: nothing is checked.
StartedAgain(ls) == Append(ls, [stopped |-> FALSE, at |-> "receiving"])

\* start: not if a listener is there that is not stopped.
Started(ls) ==
  IF IsStopped(ls) THEN Append(ls, [stopped |-> FALSE, at |-> "receiving"]) ELSE ls

\* stop, and the listener its promise waits for (0: it is already stopped).
Stopped(ls) == IF IsStopped(ls) THEN ls ELSE [ls EXCEPT ![Len(ls)].stopped = TRUE]
Awaited(ls) == IF IsStopped(ls) THEN 0 ELSE Len(ls)

\* listen, from the top: receive the next message or end.
NextRound(l) == [l EXCEPT !.at = IF l.stopped THEN "ended" ELSE "receiving"]

Listens(q, i, l) == listeners' = [listeners EXCEPT ![q][i] = l]

\* Whatever a round comes to: a message (listeners see stopped only in the next round),
\* none, or an error of SQS or of the message's JSON, which is followed by a wait.
ListenerStep(q, i) ==
  /\ LET l == listeners[q][i] IN
       \/ l.at = "receiving" /\ Listens(q, i, [l EXCEPT !.at = "handling"])
       \/ l.at \in {"receiving", "handling", "waiting"} /\ Listens(q, i, NextRound(l))
       \/ l.at \in {"receiving", "handling"} /\ Listens(q, i, [l EXCEPT !.at = "waiting"])
  /\ UNCHANGED <<wanted, pipe, running, stops, spent, excuse>>

-----------------------------------------------------------------------------
(* The worker process. *)

\* An active or inactive event, and the command for it.
LifecycleEvent(command) ==
  /\ spent.events < MaxEvents
  /\ spent' = [spent EXCEPT !.events = @ + 1]
  /\ wanted' = command
  /\ pipe' = Append(pipe, command)
  /\ UNCHANGED <<running, listeners, stops, excuse>>

Handles(command) ==
  /\ pipe # <<>> /\ Head(pipe) = command
  /\ pipe' = Tail(pipe)
  /\ excuse' = [excuse EXCEPT !.overlapped = @ \/ stops # <<>>, !.respawned = FALSE]

\* Mutants: one queue is forgotten; the flag is left as it is.
StartAllButOne ==
  /\ Handles("start")
  /\ IF running THEN UNCHANGED <<running, listeners>>
     ELSE /\ listeners' = [q \in Queue |->
                 IF q = CHOOSE x \in Queue : TRUE THEN listeners[q] ELSE Started(listeners[q])]
          /\ running' = TRUE
  /\ UNCHANGED <<wanted, stops, spent>>
StartSilently ==
  /\ Handles("start")
  /\ IF running THEN UNCHANGED listeners
     ELSE listeners' = [q \in Queue |-> Started(listeners[q])]
  /\ UNCHANGED <<wanted, running, stops, spent>>

\* start of startup.ts, with all queues.
Start ==
  /\ Handles("start")
  /\ IF running THEN UNCHANGED <<running, listeners>>
     ELSE /\ listeners' = [q \in Queue |-> Started(listeners[q])]
          /\ running' = TRUE
  /\ UNCHANGED <<wanted, stops, spent>>

\* stop of startup.ts until it waits for all queues.
Stop ==
  /\ Handles("stop")
  /\ IF running
     THEN /\ listeners' = [q \in Queue |-> Stopped(listeners[q])]
          /\ stops' = Append(stops, [q \in Queue |-> Awaited(listeners[q])])
     ELSE UNCHANGED <<listeners, stops>>
  /\ UNCHANGED <<wanted, running, spent>>

HasEnded(q, i) == listeners[q][i].at = "ended"
Without(k) == SubSeq(stops, 1, k - 1) \o SubSeq(stops, k + 1, Len(stops))

\* Mutant: one queue that has stopped is enough.
StopOnFirst(k) ==
  /\ \E q \in Queue : stops[k][q] # 0 => HasEnded(q, stops[k][q])
  /\ stops' = Without(k)
  /\ running' = FALSE
  /\ excuse' = [excuse EXCEPT !.rejected = FALSE]
  /\ UNCHANGED <<wanted, pipe, listeners, spent>>

\* All awaited listeners have ended (waitUntilListenerStopped).
StopResolves(k) ==
  /\ \A q \in Queue : stops[k][q] # 0 => HasEnded(q, stops[k][q])
  /\ stops' = Without(k)
  /\ running' = FALSE
  /\ excuse' = [excuse EXCEPT !.rejected = FALSE]
  /\ UNCHANGED <<wanted, pipe, listeners, spent>>

\* A listener takes more than a minute to end: the error is logged, running stays.
StopRejects(k) ==
  /\ \E q \in Queue : stops[k][q] # 0 /\ ~HasEnded(q, stops[k][q])
  /\ stops' = Without(k)
  /\ excuse' = [excuse EXCEPT !.rejected = TRUE]
  /\ UNCHANGED <<wanted, pipe, running, listeners, spent>>

\* The process dies and throng forks another, which has no commands.
Respawn ==
  /\ spent.crashes < MaxCrashes
  /\ spent' = [spent EXCEPT !.crashes = @ + 1]
  /\ pipe' = <<>>
  /\ running' = FALSE
  /\ listeners' = [q \in Queue |-> <<>>]
  /\ stops' = <<>>
  /\ excuse' = [overlapped |-> FALSE, rejected |-> FALSE, respawned |-> TRUE]
  /\ UNCHANGED wanted

StopIsAnswered == \E k \in 1..Len(stops) : StopResolves(k) \/ StopRejects(k)

Next ==
  \/ \E command \in Command : LifecycleEvent(command)
  \/ Start
  \/ Stop
  \/ StopIsAnswered
  \/ \E q \in Queue : \E i \in 1..Len(listeners[q]) : ListenerStep(q, i)
  \/ Respawn

Spec == Init /\ [][Next]_vars

Listeners == 1..MaxEvents   \* no queue has more of them

\* Polls return, handlers end (executeMessage times them out) and commands are handled.
Fairness ==
  /\ WF_vars(Start) /\ WF_vars(Stop) /\ WF_vars(StopIsAnswered)
  /\ \A q \in Queue, i \in Listeners :
       WF_vars(i <= Len(listeners[q]) /\ ListenerStep(q, i))

FairSpec == Spec /\ Fairness

-----------------------------------------------------------------------------
(* Properties. *)

Listener == [stopped : BOOLEAN, at : {"receiving", "handling", "waiting", "ended"}]

TypeOK ==
  /\ wanted \in Command
  /\ pipe \in Seq(Command)
  /\ running \in BOOLEAN
  /\ listeners \in [Queue -> Seq(Listener)]
  /\ \A q \in Queue : \A i \in 1..Len(listeners[q]) :
       listeners[q][i].at = "ended" => listeners[q][i].stopped
  /\ stops \in Seq([Queue -> Nat])
  /\ \A k \in 1..Len(stops) : \A q \in Queue : stops[k][q] <= Len(listeners[q])
  /\ spent \in [events : 0..MaxEvents, crashes : 0..MaxCrashes]
  /\ excuse \in [overlapped : BOOLEAN, rejected : BOOLEAN, respawned : BOOLEAN]

Listening(q) == ~IsStopped(listeners[q])

\* At most one listener of a queue is not stopped, and it is the one stop would stop
\* (sqs.ts:96): no queue is left polling with nothing to stop it.
OneListens ==
  \A q \in Queue : \A i \in 1..(Len(listeners[q]) - 1) : listeners[q][i].stopped

\* Between commands the flag tells what the queues do: all of them listen, or none --
\* unless a command came while a stop was waiting, or a stop has given up (startup.ts).
FlagTellsTheTruth ==
  stops = <<>> /\ ~excuse.overlapped /\ ~excuse.rejected =>
    \A q \in Queue : running <=> Listening(q)

\* When stop says that the queues are stopped, no message is being handled any more by the
\* listeners it stopped, the last of each queue, with the same exceptions (startup.ts:34).
QuietOnceStopped ==
  [][running /\ ~running' /\ ~excuse.overlapped /\ ~excuse.rejected /\ ~excuse'.respawned =>
       \A q \in Queue : HasEnded(q, Len(listeners[q]))]_vars

\* The last event wins (worker.ts:36), with the same exceptions
\* and that of a process that has had no command since it was forked.
LastEventWins ==
  <>[](\/ excuse.overlapped \/ excuse.rejected \/ excuse.respawned
       \/ \A q \in Queue : Listening(q) <=> wanted = "start")

=============================================================================
