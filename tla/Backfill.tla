------------------------------ MODULE Backfill ------------------------------
(***************************************************************************)
(* The backfill of one subscription: findOrStartSync (src/sync/            *)
(* sync-utils.ts) puts a message on the backfill queue; a worker that      *)
(* receives it runs the tasks the scheduler picks (src/sync/installation.ts*)
(* and discovery.ts), stores their progress in the Subscriptions and       *)
(* RepoSyncStates tables and sends the message again, until a message      *)
(* finds nothing left to do.  Errors go through src/sqs/                   *)
(* backfill-error-handler.ts; messages through src/sqs/sqs.ts.             *)
(*                                                                         *)
(* A worker stands for one execution of the message handler, from receive  *)
(* to delete.  Each action ends at an await at which others may step in.   *)
(* The in-progress flag is the one of module Deduplicator, reduced to who  *)
(* is between set and unlink (claim) and whether a dead flag is left.      *)
(***************************************************************************)
EXTENDS Scheduler

CONSTANTS
  Worker,          \* executions of the backfill queue's message handler
  Msg,             \* bound: identities of SQS messages that exist at a time
  Repo,            \* 1..n: repositories of the installation; page k lists repository k
  PAGES,           \* pages of data each task of a repository has
  TargetChoices,   \* targetTasks a sync may be started with ({} is all tasks)
  SyncTypes,       \* syncTypes a sync may be started with
  MaxSubtasks,     \* bound on the subtasks the quota allows
  MAX_RECEIVE,     \* maxAttempts of the queue and maxReceiveCount of its redrive policy
  DELETE_WHEN_OTHERS_WORK,  \* DELETE_MESSAGE_ON_BACKFILL_WHEN_OTHERS_WORKING_ON_IT
  FLAG_RACES,      \* two checks of the in-progress flag may overlap (see Deduplicator)
  FaultKinds,      \* what may go wrong
  MaxFaults,       \* bound on how often
  MaxSyncs,        \* bound on the syncs started
  MaxRows,         \* bound on the RepoSyncStates of the subscription
  None             \* no message

ASSUME BackfillAssumption ==
  /\ MAX_RECEIVE \in Nat \ {0}
  /\ IsFiniteSet(Repo) /\ Repo = 1..Cardinality(Repo)
  /\ PAGES \in Nat /\ MaxRows \in Nat /\ MaxFaults \in Nat /\ MaxSyncs \in Nat
  /\ None \notin Msg
  /\ TargetChoices \subseteq SUBSET (TaskTypes \cup {"repository"})
  /\ SyncTypes \subseteq {"full", "partial"}

VARIABLES
  sub,       \* the Subscription: syncStatus, repositoryStatus, repositoryCursor
  rows,      \* its RepoSyncStates
  queue,     \* each message: where it is, its receive count, its targetTasks
  worker,    \* each execution of the handler
  claim,     \* workers whose in-progress flag is in Redis and being refreshed
  deadFlag,  \* a flag nobody refreshes may be in Redis
  starter,   \* the call of findOrStartSync under way
  budget,    \* faults and syncs so far, for the bounds
  ghost      \* history: what was sent to Jira, and what went wrong on the way

vars == <<sub, rows, queue, worker, claim, deadFlag, starter, budget, ghost>>

SyncStatus == {"NONE", "PENDING", "ACTIVE", "COMPLETE", "FAILED"}
RepositoryPages == Cardinality(Repo)
PagesOf(task) == IF task = "repository" THEN RepositoryPages ELSE PAGES

\* A task a worker runs, with the cursor it read from the database.
Run(task, cursor) == [task |-> task.task, repo |-> task.repo, id |-> task.id, cursor |-> cursor]
NoRun == Run(NoTask, 0)

NewSubscription == [syncStatus |-> "NONE", repositoryStatus |-> "null", repositoryCursor |-> 0]

\* What a handler or findOrStartSync holds is forgotten once it is of no more use.
Idle == [pc |-> "idle", msg |-> None, received |-> 0, targets |-> {},
         timedOut |-> FALSE, seen |-> NewSubscription,
         main |-> NoRun, todo |-> {}, got |-> {}, outcome |-> "none"]

NoStart == [pc |-> "idle", type |-> "full", targets |-> {}, seen |-> NewSubscription]

Absent == [where |-> "absent", received |-> 0, targets |-> {}]

Init ==
  /\ sub = NewSubscription
  /\ rows = {}
  /\ queue = [m \in Msg |-> Absent]
  /\ worker = [w \in Worker |-> Idle]
  /\ claim = {}
  /\ deadFlag = FALSE
  /\ starter = NoStart
  /\ budget = [faults |-> 0, syncs |-> 0]
  /\ ghost = [sent |-> {}, overlapped |-> FALSE, raced |-> FALSE, met |-> FALSE, twice |-> FALSE,
              startLost |-> FALSE, dropped |-> FALSE, orphaned |-> FALSE]

-----------------------------------------------------------------------------
(* The queue. *)

Held == {worker[w].msg : w \in Worker}
FreeMsgs == {m \in Msg : queue[m].where = "absent" /\ m \notin Held}

\* sendMessage (sqs.ts); messages wait in no particular order, and a delay is only waiting.
SendMessage(targets) ==
  /\ FreeMsgs # {}
  /\ LET m == CHOOSE x \in FreeMsgs : TRUE
     IN  queue' = [queue EXCEPT ![m] =
                     [where |-> "visible", received |-> 0, targets |-> targets]]

Fault(kind) ==
  /\ kind \in FaultKinds
  /\ budget.faults < MaxFaults
  /\ budget' = [budget EXCEPT !.faults = @ + 1]

Becomes(w, state) == worker' = [worker EXCEPT ![w] = state]
Move(w, label) == Becomes(w, [worker[w] EXCEPT !.pc = label])
Leave(w, label) == Becomes(w, [worker[w] EXCEPT !.pc = label, !.main = NoRun])

\* listen and executeMessage: the message becomes invisible to other workers.
ReceiveMessage(w, m) ==
  /\ worker[w].pc = "idle"
  /\ queue[m].where = "visible"
  /\ queue[m].received < MAX_RECEIVE
  /\ queue' = [queue EXCEPT ![m] = [where |-> "inFlight", received |-> @.received + 1,
                                    targets |-> @.targets]]
  /\ Becomes(w, [Idle EXCEPT !.pc = "received", !.msg = m,
                             !.received = queue[m].received + 1,
                             !.targets = queue[m].targets])
  /\ UNCHANGED <<sub, rows, claim, deadFlag, starter, budget, ghost>>

LastAttempt(w) == worker[w].received >= MAX_RECEIVE

\* SQS moves a message received too often to the dead letter queue.
RedriveToDlq(m) ==
  /\ queue[m].where = "visible"
  /\ queue[m].received >= MAX_RECEIVE
  /\ queue' = [queue EXCEPT ![m].where = "dlq"]
  /\ UNCHANGED <<sub, rows, worker, claim, deadFlag, starter, budget, ghost>>

\* The visibility timeout passes: nobody works on the message any more, or (a
\* fault) the change of the timeout failed and somebody still does.
VisibilityLapses(m) ==
  /\ queue[m].where = "inFlight"
  /\ queue' = [queue EXCEPT ![m].where = "visible"]
  /\ IF m \in Held
     THEN Fault("lapse") /\ ghost' = [ghost EXCEPT !.orphaned = TRUE]
     ELSE UNCHANGED <<budget, ghost>>
  /\ UNCHANGED <<sub, rows, worker, claim, deadFlag, starter>>

\* preemptiveRateLimitCheck: a copy replaces the message; the delete follows.
PostponeMessage(w) ==
  /\ worker[w].pc = "received"
  /\ ~worker[w].timedOut
  /\ Fault("rateLimit")
  /\ SendMessage(worker[w].targets)
  /\ Move(w, "deleting")
  /\ UNCHANGED <<sub, rows, claim, deadFlag, starter, ghost>>

\* deleteMessage; an error is only logged.  With the receipt of a receive that is
\* not the last one SQS may leave the message where it is.
DeleteMessage(w) ==
  /\ worker[w].pc = "deleting"
  /\ LET m == worker[w].msg
         stale == queue[m].where # "inFlight" \/ queue[m].received # worker[w].received
     IN  \/ /\ queue[m].where # "dlq"
            /\ queue' = [queue EXCEPT ![m] = Absent]
            /\ UNCHANGED budget
         \/ stale /\ UNCHANGED <<queue, budget>>
         \/ Fault("delete") /\ UNCHANGED queue
  /\ Becomes(w, Idle)
  /\ UNCHANGED <<sub, rows, claim, deadFlag, starter, ghost>>

\* The message is sent again: as the next step of the sync, after a rate limit, or
\* because another worker is or may be at it.
SendBackfillMessage(w) ==
  /\ worker[w].pc = "sending"
  /\ SendMessage(worker[w].targets)
  /\ IF worker[w].timedOut THEN Becomes(w, Idle) ELSE Move(w, "deleting")
  /\ UNCHANGED <<sub, rows, claim, deadFlag, starter, budget, ghost>>

\* handleSqsMessageExecutionError for a retryable failure: the message becomes
\* visible again after the delay.
Retried(m) ==
  IF m # None /\ queue[m].where = "inFlight"
  THEN [queue EXCEPT ![m].where = "visible"] ELSE queue

\* The worker is in its error handler, after the race with the timeout is over.
HandlesError(w) ==
  \/ worker[w].pc = "failing"
  \/ worker[w].pc = "sending" /\ worker[w].outcome \notin {"none", "next"}

\* Promise.race in executeMessage: after the timeout the message is retried while
\* the handler goes on as a zombie whose outcome nobody waits for.
HandlerTimesOut(w) ==
  /\ worker[w].pc \notin {"idle", "deleting"}
  /\ ~HandlesError(w)
  /\ ~worker[w].timedOut
  /\ Fault("timeout")
  /\ queue' = Retried(worker[w].msg)
  /\ Becomes(w, [worker[w] EXCEPT !.timedOut = TRUE, !.msg = None])
  /\ UNCHANGED <<sub, rows, claim, deadFlag, starter, ghost>>

\* The worker's process dies.
Crash(w) ==
  /\ worker[w].pc # "idle"
  /\ Fault("crash")
  /\ Becomes(w, Idle)
  /\ claim' = claim \ {w}
  /\ deadFlag' = (deadFlag \/ w \in claim)
  /\ UNCHANGED <<sub, rows, queue, starter, ghost>>

-----------------------------------------------------------------------------
(* processInstallation and the in-progress flag. *)

Busy(w) == worker[w].pc \notin {"idle", "received", "sending", "deleting"}

\* findOrStartSync is about to forget the state of the last sync, or has read what it will
\* compare with.
Resetting == starter.type = "full" /\ starter.pc \notin {"idle", "sending"}

\* The flag does not keep a job from another one, or from the error handler of one
\* that failed, which runs when its flag is gone.
Meets == claim # {} \/ \E w \in Worker : worker[w].pc = "failing"

\* Mutant: the job starts whoever else is at it.
ClaimsAnyway(w) ==
  /\ worker[w].pc = "received"
  /\ claim' = claim \cup {w}
  /\ deadFlag' = FALSE
  /\ Move(w, "claimed")
  /\ ghost' = [ghost EXCEPT !.overlapped = @ \/ Resetting, !.met = @ \/ Meets]
  /\ UNCHANGED <<sub, rows, queue, starter, budget>>

\* E_OK: the job starts.
ClaimSync(w) ==
  /\ worker[w].pc = "received"
  /\ claim = {} \/ FLAG_RACES
  /\ claim' = claim \cup {w}
  /\ deadFlag' = FALSE
  /\ Move(w, "claimed")
  /\ ghost' = [ghost EXCEPT !.overlapped = @ \/ Resetting, !.met = @ \/ Meets]
  /\ UNCHANGED <<sub, rows, queue, starter, budget>>

\* E_NOT_SURE_TRY_AGAIN_LATER: some flag is there.
NotSure(w) ==
  /\ worker[w].pc = "received"
  /\ claim # {} \/ deadFlag
  /\ Move(w, "sending")
  /\ UNCHANGED <<sub, rows, queue, claim, deadFlag, starter, budget, ghost>>

\* Mutant: the message of a duplicate job is always deleted.
DropsDuplicate(w) ==
  /\ worker[w].pc = "received"
  /\ claim # {}
  /\ IF worker[w].timedOut THEN Becomes(w, Idle) ELSE Move(w, "deleting")
  /\ UNCHANGED <<sub, rows, queue, claim, deadFlag, starter, budget, ghost>>

\* E_OTHER_WORKER_DOING_THIS_JOB: the flag is being refreshed.
OtherWorkerDoingThisJob(w) ==
  /\ worker[w].pc = "received"
  /\ claim # {}
  /\ IF DELETE_WHEN_OTHERS_WORK
     THEN /\ IF worker[w].timedOut THEN Becomes(w, Idle) ELSE Move(w, "deleting")
          /\ ghost' = [ghost EXCEPT !.dropped = TRUE]
     ELSE Move(w, "sending") /\ UNCHANGED ghost
  /\ UNCHANGED <<sub, rows, queue, claim, deadFlag, starter, budget>>

\* RedisInProgressStorageWithTimeout: a flag nobody refreshes goes stale.
FlagGoesStale ==
  /\ deadFlag
  /\ deadFlag' = FALSE
  /\ UNCHANGED <<sub, rows, queue, worker, claim, starter, budget, ghost>>

\* The job is over: unlink the flag, then send what the main task asked for, or
\* delete the message, or hand the error to the error handler.
ReleaseClaim(w) ==
  /\ worker[w].pc = "settled"
  /\ claim' = claim \ {w}
  /\ deadFlag' = FALSE
  /\ LET next == CASE worker[w].outcome = "next" -> "sending"
                   [] worker[w].outcome = "none" -> "deleting"
                   [] OTHER -> "failing"
     IN  IF worker[w].timedOut /\ next # "sending" THEN Becomes(w, Idle)
         ELSE IF next = "failing" THEN Move(w, next) ELSE Leave(w, next)
  /\ UNCHANGED <<sub, rows, queue, starter, budget, ghost>>

\* The database, Redis or SQS fails.  In the job that is an error which is not a
\* TaskError and takes the place of whatever the job had come to; in the error handler
\* it is logged, and the message waits for its visibility timeout.
InfrastructureFails(w) ==
  /\ worker[w].pc \in {"received", "claimed", "planning", "starting", "stopping",
                       "settled", "sending", "failing"}
  /\ Fault("infrastructure")
  /\ claim' = claim \ {w}
  /\ deadFlag' \in {deadFlag, deadFlag \/ worker[w].pc = "settled"}
  /\ IF worker[w].timedOut \/ HandlesError(w) THEN Becomes(w, Idle)
     ELSE Becomes(w, [Idle EXCEPT !.pc = "failing", !.outcome = "infrastructure",
                                  !.msg = worker[w].msg, !.received = worker[w].received])
  /\ UNCHANGED <<sub, rows, queue, starter, ghost>>

-----------------------------------------------------------------------------
(* doProcessInstallation. *)

\* findSubscriptionForMessage: a snapshot of the subscription.
ReadSubscription(w) ==
  /\ worker[w].pc = "claimed"
  /\ Becomes(w, [worker[w] EXCEPT !.pc = "planning", !.seen = sub])
  /\ UNCHANGED <<sub, rows, queue, claim, deadFlag, starter, budget, ghost>>

\* The run of a scheduled task, with the cursor of its row.
RunOf(task, repositoryCursor) ==
  IF task.task = "repository" THEN Run(task, repositoryCursor)
  ELSE LET row == CHOOSE r \in rows : r.id = task.id
       IN  Run(task, row.cursor[task.task])

\* getNextTasks, with the rows as they are now and the subscription as it was read.
PlanTasks(w) ==
  /\ worker[w].pc = "planning"
  /\ \E n \in 0..MaxSubtasks :
       \E answer \in NextTasks(worker[w].seen.repositoryStatus, rows,
                               EligibleTasks(worker[w].targets, TRUE), n) :
         IF answer.main = NoTask THEN Move(w, "stopping")
         ELSE LET run(task) == RunOf(task, worker[w].seen.repositoryCursor)
              IN  Becomes(w, [worker[w] EXCEPT !.pc = "starting",
                    !.main = run(answer.main),
                    !.todo = {run(t) : t \in answer.others \cup {answer.main}}])
  /\ UNCHANGED <<sub, rows, queue, claim, deadFlag, starter, budget, ghost>>

\* Sequelize's update of an instance that was read earlier writes a field only where
\* the new value differs from the one that was read.
Saved(seen, field, value) ==
  IF seen[field] # value THEN [sub EXCEPT ![field] = value] ELSE sub

MarkSyncAsCompleteAndStop(w) ==
  /\ worker[w].pc = "stopping"
  /\ sub' = Saved(worker[w].seen, "syncStatus", "COMPLETE")
  /\ Becomes(w, [worker[w] EXCEPT !.pc = "settled", !.seen = Idle.seen])
  /\ UNCHANGED <<rows, queue, claim, deadFlag, starter, budget, ghost>>

SetActive(w) ==
  /\ worker[w].pc = "starting"
  /\ sub' = Saved(worker[w].seen, "syncStatus", "ACTIVE")
  /\ Becomes(w, [worker[w] EXCEPT !.pc = "working", !.seen = Idle.seen])
  /\ ghost' = [ghost EXCEPT !.orphaned = @ \/ worker[w].timedOut]
  /\ UNCHANGED <<rows, queue, claim, deadFlag, starter, budget>>

NewRow(repo) ==
  [id |-> 1 + Max({0} \cup {r.id : r \in rows}), repo |-> repo,
   status |-> [t \in TaskTypes |-> "null"], cursor |-> [t \in TaskTypes |-> 0]]

\* The task's processor fetches the page after the cursor, and what it holds goes
\* to Jira (sendPayloadToJira) or, for "repository", into new RepoSyncStates:
\* nothing stops bulkCreate from adding a repository a second time.
FetchPage(w, run) ==
  /\ worker[w].pc = "working"
  /\ run \in worker[w].todo
  /\ LET page == run.cursor + 1
         more == page <= PagesOf(run.task)
     IN  /\ Becomes(w, [worker[w] EXCEPT !.todo = @ \ {run},
                          !.got = @ \cup {[run |-> run, more |-> more]}])
         /\ IF more /\ run.task = "repository"
            THEN rows' = rows \cup {NewRow(page)} /\ Cardinality(rows') <= MaxRows
            ELSE UNCHANGED rows
         /\ ghost' = IF ~more THEN ghost
                     ELSE IF run.task = "repository"
                     THEN [ghost EXCEPT !.twice = @ \/ \E r \in rows : r.repo = page]
                     ELSE [ghost EXCEPT !.sent = @ \cup {<<run.task, run.repo, page>>}]
  /\ UNCHANGED <<sub, queue, claim, deadFlag, starter, budget>>

\* updateRepo: repositoryStatus and repositoryCursor belong to the subscription,
\* everything else to the rows of the repository, if they are still there.  cursor
\* maps the cursor that is stored to the new one.
StoreRepo(run, status, cursor) ==
  IF run.task = "repository"
  THEN /\ sub' = [sub EXCEPT !.repositoryStatus = status, !.repositoryCursor = cursor[@]]
       /\ UNCHANGED rows
  ELSE /\ rows' = {IF r.repo = run.repo
                   THEN [r EXCEPT !.status[run.task] = status, !.cursor[run.task] = cursor[@]]
                   ELSE r : r \in rows}
       /\ UNCHANGED sub

\* Mutants: a page is skipped; the cursor is moved on from where it is by now.
SkipsAPage(run, status, moved) ==
  StoreRepo(run, status, [old \in Nat |-> IF moved THEN run.cursor + 2 ELSE old])
CountsPages(run, status, moved) ==
  StoreRepo(run, status, [old \in Nat |-> IF moved THEN old + 1 ELSE old])

UpdateRepo(run, status, moved) ==
  StoreRepo(run, status, [old \in Nat |-> IF moved THEN run.cursor + 1 ELSE old])

\* updateTaskStatusAndContinue: a page with edges moves the cursor, one without ends
\* the task.  The send of a task that is not the main one does nothing.
UpdateTaskStatus(w, got) ==
  /\ worker[w].pc = "working"
  /\ got \in worker[w].got
  /\ UpdateRepo(got.run, IF got.more THEN "pending" ELSE "complete", got.more)
  /\ Becomes(w, [worker[w] EXCEPT !.got = @ \ {got},
       !.outcome = IF got.run = worker[w].main THEN "next" ELSE @])
  /\ UNCHANGED <<queue, claim, deadFlag, starter, budget, ghost>>

\* The main task rejects; its error is what the job rejects with.  Errors of the
\* other tasks are ignored.
TaskErrors == {"permission", "rateLimit", "notFound", "unknown"}

TaskFails(w, run, error) ==
  /\ worker[w].pc = "working"
  /\ run \in worker[w].todo
  /\ Fault(error)
  /\ Becomes(w, [worker[w] EXCEPT !.todo = @ \ {run},
       !.outcome = IF run = worker[w].main THEN error ELSE @])
  /\ UNCHANGED <<sub, rows, queue, claim, deadFlag, starter, ghost>>

\* The page has been sent to Jira but the status of the task cannot be stored.
TaskStatusIsNotStored(w, got) ==
  /\ worker[w].pc = "working"
  /\ got \in worker[w].got
  /\ Fault("unknown")
  /\ Becomes(w, [worker[w] EXCEPT !.got = @ \ {got},
       !.outcome = IF got.run = worker[w].main THEN "unknown" ELSE @])
  /\ UNCHANGED <<sub, rows, queue, claim, deadFlag, starter, ghost>>

\* Promise.allSettled
TasksSettle(w) ==
  /\ worker[w].pc = "working"
  /\ worker[w].todo = {} /\ worker[w].got = {}
  /\ Move(w, "settled")
  /\ UNCHANGED <<sub, rows, queue, claim, deadFlag, starter, budget, ghost>>

-----------------------------------------------------------------------------
(* backfillErrorHandler. *)

\* A TaskError on the last attempt, or one a retry cannot help, gives the task up
\* (markCurrentTaskAsFailedAndContinue); discovery takes the whole sync with it.
GivesUp(w) ==
  \/ worker[w].outcome = "permission"
  \/ worker[w].outcome = "unknown" /\ LastAttempt(w)

MarksAs(w, status, syncStatus, next) ==
  /\ worker[w].pc = "failing"
  /\ GivesUp(w)
  /\ IF worker[w].main.task = "repository"
     THEN /\ sub' = [sub EXCEPT !.repositoryStatus = status, !.syncStatus = syncStatus]
          /\ UNCHANGED rows
          /\ Leave(w, "deleting")
     ELSE UpdateRepo(worker[w].main, status, FALSE) /\ Leave(w, next)
  /\ ghost' = [ghost EXCEPT !.raced = @ \/ claim # {}]
  /\ UNCHANGED <<queue, claim, deadFlag, starter, budget>>

\* Mutants: no message for the next task; the sync is not marked as failed; the task
\* that failed is left out of the sync as if it were complete.
FailsAndStops(w) == MarksAs(w, "failed", "FAILED", "deleting")
FailsQuietly(w) == MarksAs(w, "failed", sub.syncStatus, "sending")
FailsAsComplete(w) == MarksAs(w, "complete", "FAILED", "sending")

MarkCurrentTaskAsFailed(w) == MarksAs(w, "failed", "FAILED", "sending")

\* The repository is gone from GitHub: the task counts as complete.
MarkTaskAsComplete(w) ==
  /\ worker[w].pc = "failing"
  /\ worker[w].outcome = "notFound"
  /\ UpdateRepo(worker[w].main, "complete", FALSE)
  /\ Leave(w, "sending")
  /\ ghost' = [ghost EXCEPT !.raced = @ \/ claim # {}, !.sent = @ \cup
       {<<worker[w].main.task, worker[w].main.repo, p>> : p \in 1..PagesOf(worker[w].main.task)}]
  /\ UNCHANGED <<queue, claim, deadFlag, starter, budget>>

RescheduleRateLimited(w) ==
  /\ worker[w].pc = "failing"
  /\ worker[w].outcome = "rateLimit"
  /\ Leave(w, "sending")
  /\ UNCHANGED <<sub, rows, queue, claim, deadFlag, starter, budget, ghost>>

\* handleUnknownError: whatever is not a TaskError is retried, whichever attempt
\* this was.
RetryMessage(w) ==
  /\ worker[w].pc = "failing"
  /\ worker[w].outcome \in {"unknown", "infrastructure"}
  /\ ~GivesUp(w)
  /\ queue' = Retried(worker[w].msg)
  /\ Becomes(w, Idle)
  /\ UNCHANGED <<sub, rows, claim, deadFlag, starter, budget, ghost>>

-----------------------------------------------------------------------------
(* findOrStartSync. *)

AnyoneBusy == \E w \in Worker : Busy(w)

\* A caller reads the subscription and later, at once or after requests of its own, calls
\* findOrStartSync with that instance.
BeginSync(type, targets) ==
  /\ starter.pc = "idle"
  /\ budget.syncs < MaxSyncs
  /\ budget' = [budget EXCEPT !.syncs = @ + 1]
  /\ starter' = [pc |-> "starting", type |-> type, targets |-> targets, seen |-> sub]
  /\ ghost' = [ghost EXCEPT !.overlapped = @ \/ (type = "full" /\ AnyoneBusy)]
  /\ UNCHANGED <<sub, rows, queue, worker, claim, deadFlag>>

\* The first update: a status that was PENDING when it was read is not written again.
SetPending ==
  /\ starter.pc = "starting"
  /\ sub' = Saved(starter.seen, "syncStatus", "PENDING")
  /\ starter' =
       IF starter.targets = {} /\ starter.type = "partial" THEN [NoStart EXCEPT !.pc = "sending"]
       ELSE [starter EXCEPT !.pc = IF starter.targets # {} THEN "resettingTasks"
                                                          ELSE "resettingSubscription"]
  /\ UNCHANGED <<rows, queue, worker, claim, deadFlag, budget, ghost>>

StarterSends == starter' = [NoStart EXCEPT !.pc = "sending", !.targets = starter.targets]

\* Mutant: the cursors of the targeted tasks are forgotten but not their status.
ResetsCursorsOnly ==
  /\ starter.pc = "resettingTasks"
  /\ rows' = {[r EXCEPT !.cursor = [t \in TaskTypes |->
                 IF t \in starter.targets THEN 0 ELSE @[t]]] : r \in rows}
  /\ ghost' = [ghost EXCEPT !.sent = {s \in @ : s[1] \notin starter.targets \cap TaskTypes}]
  /\ StarterSends
  /\ UNCHANGED <<sub, queue, worker, claim, deadFlag, budget>>

\* resetTargetedTasks: a full sync also forgets the cursors.
ResetTargetedTasks ==
  /\ starter.pc = "resettingTasks"
  /\ LET targets == starter.targets
         full == starter.type = "full"
     IN  /\ rows' = {[r EXCEPT
              !.status = [t \in TaskTypes |-> IF t \in targets THEN "null" ELSE @[t]],
              !.cursor = [t \in TaskTypes |-> IF full /\ t \in targets THEN 0 ELSE @[t]]] : r \in rows}
         /\ ghost' = IF full THEN [ghost EXCEPT !.sent = {s \in @ : s[1] \notin targets \cap TaskTypes}]
                     ELSE ghost
         /\ IF "repository" \in targets
            THEN starter' = [starter EXCEPT !.pc = "resettingRepository"] ELSE StarterSends
  /\ UNCHANGED <<sub, queue, worker, claim, deadFlag, budget>>

\* ... and its second half, the discovery of repositories.
ResetDiscovery(forgetCursor) ==
  sub' = [Saved(starter.seen, "repositoryStatus", "null") EXCEPT
           !.repositoryCursor =
              IF forgetCursor /\ starter.seen.repositoryCursor # 0 THEN 0 ELSE @]

ResetTargetedRepository ==
  /\ starter.pc = "resettingRepository"
  /\ ResetDiscovery(starter.type = "full")
  /\ StarterSends
  /\ UNCHANGED <<rows, queue, worker, claim, deadFlag, budget, ghost>>

ResetSubscription ==
  /\ starter.pc = "resettingSubscription"
  /\ ResetDiscovery(TRUE)
  /\ starter' = [starter EXCEPT !.pc = "deletingRows"]
  /\ UNCHANGED <<rows, queue, worker, claim, deadFlag, budget, ghost>>

\* RepoSyncState.deleteFromSubscription: from here on everything is to be sent anew.
DeleteFromSubscription ==
  /\ starter.pc = "deletingRows"
  /\ rows' = {}
  /\ ghost' = [ghost EXCEPT !.sent = {}]
  /\ StarterSends
  /\ UNCHANGED <<sub, queue, worker, claim, deadFlag, budget>>

SendFirstMessage ==
  /\ starter.pc = "sending"
  /\ SendMessage(starter.targets)
  /\ starter' = NoStart
  /\ UNCHANGED <<sub, rows, worker, claim, deadFlag, budget, ghost>>

\* The process dies, or a call on the way to sendMessage throws.
StartIsLost ==
  /\ starter.pc # "idle"
  /\ Fault("startLost")
  /\ starter' = NoStart
  /\ ghost' = [ghost EXCEPT !.startLost = TRUE]
  /\ UNCHANGED <<sub, rows, queue, worker, claim, deadFlag>>

-----------------------------------------------------------------------------
HandlerStep(w) ==
  \/ \E m \in Msg : ReceiveMessage(w, m)
  \/ ClaimSync(w) \/ NotSure(w) \/ OtherWorkerDoingThisJob(w)
  \/ ReadSubscription(w) \/ PlanTasks(w)
  \/ MarkSyncAsCompleteAndStop(w) \/ SetActive(w)
  \/ \E run \in worker[w].todo : FetchPage(w, run)
  \/ \E got \in worker[w].got : UpdateTaskStatus(w, got)
  \/ TasksSettle(w) \/ ReleaseClaim(w)
  \/ MarkCurrentTaskAsFailed(w) \/ MarkTaskAsComplete(w)
  \/ RescheduleRateLimited(w) \/ RetryMessage(w)
  \/ SendBackfillMessage(w) \/ DeleteMessage(w)

HandlerFault(w) ==
  \/ PostponeMessage(w) \/ HandlerTimesOut(w) \/ Crash(w) \/ InfrastructureFails(w)
  \/ \E run \in worker[w].todo, error \in TaskErrors : TaskFails(w, run, error)
  \/ \E got \in worker[w].got : TaskStatusIsNotStored(w, got)

StarterStep ==
  \/ SetPending
  \/ ResetTargetedTasks \/ ResetTargetedRepository
  \/ ResetSubscription \/ DeleteFromSubscription
  \/ SendFirstMessage

Next ==
  \/ \E w \in Worker : HandlerStep(w) \/ HandlerFault(w)
  \/ \E m \in Msg : RedriveToDlq(m) \/ VisibilityLapses(m)
  \/ \E type \in SyncTypes, targets \in TargetChoices : BeginSync(type, targets)
  \/ StarterStep
  \/ StartIsLost
  \/ FlagGoesStale

Spec == Init /\ [][Next]_vars

\* Handlers, the queue and the calls of findOrStartSync go on; nothing is assumed of
\* faults or of users who start syncs.
Fairness ==
  /\ \A w \in Worker : WF_vars(HandlerStep(w))
  /\ \A m \in Msg : WF_vars(RedriveToDlq(m)) /\ WF_vars(VisibilityLapses(m) /\ m \notin Held)
  /\ WF_vars(StarterStep) /\ WF_vars(FlagGoesStale)

FairSpec == Spec /\ Fairness

-----------------------------------------------------------------------------
(* Properties. *)

TaskRuns ==
  {Run(RepositoryTask, c) : c \in 0..RepositoryPages}
    \cup [task : TaskTypes, repo : Repo, id : 1..MaxRows, cursor : 0..PAGES]

Subscriptions ==
  [syncStatus : SyncStatus, repositoryStatus : Status, repositoryCursor : 0..RepositoryPages]

RowOK(r) ==
  /\ r.id \in 1..MaxRows /\ r.repo \in Repo
  /\ r.status \in [TaskTypes -> Status]
  /\ r.cursor \in [TaskTypes -> 0..PAGES]

Labels == {"idle", "received", "claimed", "planning", "starting", "stopping", "working",
           "settled", "failing", "sending", "deleting"}

WorkerOK(s) ==
  /\ s.pc \in Labels
  /\ s.msg \in Msg \cup {None}
  /\ s.received \in 0..MAX_RECEIVE
  /\ s.targets \in TargetChoices \cup {{}}
  /\ s.timedOut \in BOOLEAN
  /\ s.seen \in Subscriptions
  /\ s.main \in TaskRuns \cup {NoRun}
  /\ s.todo \subseteq TaskRuns
  /\ \A got \in s.got : got.run \in TaskRuns /\ got.more \in BOOLEAN
  /\ s.outcome \in TaskErrors \cup {"none", "next", "infrastructure"}

\* The type invariant.  It bounds the cursors: none ever passes the end of its data.
TypeOK ==
  /\ sub \in Subscriptions
  /\ \A r \in rows : RowOK(r)
  /\ queue \in [Msg -> [where : {"absent", "visible", "inFlight", "dlq"},
                       received : 0..MAX_RECEIVE, targets : TargetChoices \cup {{}}]]
  /\ DOMAIN worker = Worker /\ \A w \in Worker : WorkerOK(worker[w])
  /\ claim \subseteq Worker
  /\ deadFlag \in BOOLEAN
  /\ starter \in [pc : {"idle", "starting", "resettingTasks", "resettingRepository",
                        "resettingSubscription", "deletingRows", "sending"},
                   type : {"full", "partial"}, targets : TargetChoices \cup {{}},
                   seen : Subscriptions]
  /\ budget \in [faults : 0..MaxFaults, syncs : 0..MaxSyncs]

Carried ==
  \/ starter.pc # "idle"
  \/ \E m \in Msg : queue[m].where \in {"visible", "inFlight"}
  \/ \E w \in Worker : worker[w].pc # "idle"    \* it may still send the next message
InProgress == sub.syncStatus \in {"PENDING", "ACTIVE"}
Dead == \E m \in Msg : queue[m].where = "dlq"

\* "Otherwise the sync will be "stuck", not something we want" (backfill-error-
\* handler.ts:76).  What gets a sync stuck all the same: a message in the dead letter queue; a
\* findOrStartSync that did not get to its sendMessage; a message deleted because another
\* worker was at it (installation.ts:519); or a handler without a message of its own,
\* which another handler received while it ran (sqs.ts:341) or which timed out before it
\* marked the sync ACTIVE (installation.ts:305).
Lost == Dead \/ ghost.startLost \/ ghost.dropped \/ ghost.orphaned

\* A task is marked complete (installation.ts:99) only when every one of its pages has
\* been sent to Jira since the last full reset, and discovery only when every repository
\* of the installation has a row -- for as long as no full reset, from the read of the
\* subscription that it compares with, met a running worker, which "Remove all state as
\* we're starting anew" (sync-utils.ts:38) does not allow for.
Ingested(t, repo) == \A page \in 1..PAGES : <<t, repo, page>> \in ghost.sent
Discovered(repo) ==
  \/ \E r \in rows : r.repo = repo
  \/ <<"repository", 0, repo>> \in ghost.sent

CompleteMeansIngested ==
  ghost.overlapped \/
    /\ \A r \in rows, t \in TaskTypes : r.status[t] = "complete" => Ingested(t, r.repo)
    /\ sub.repositoryStatus = "complete" => \A repo \in Repo : Discovered(repo)

\* Progress in the tables is undone by findOrStartSync alone (installation.ts:153): no
\* worker or zombie moves a cursor back or reopens a complete task.  The exceptions are
\* an error handler, which runs after its flag is gone, that has met another worker, and
\* a repository with two rows, whose tasks run side by side and write to both.  It relies
\* on the in-progress flag: it is checked, and holds, where no two checks overlap
\* (~FLAG_RACES), for two jobs at once may each store over what the other has stored.
Keeps(status, cursor, status2, cursor2) ==
  cursor2 >= cursor /\ (status = "complete" => status2 \notin Pending)
IsOnlyRow(r) == \A q \in rows : q.repo = r.repo => q = r
ProgressIsKept ==
  [][starter' # starter \/ ghost.raced \/
       /\ Keeps(sub.repositoryStatus, sub.repositoryCursor,
                sub'.repositoryStatus, sub'.repositoryCursor)
       /\ \A r \in rows : IsOnlyRow(r) => \E r2 \in rows' : r2.id = r.id /\
            \A t \in TaskTypes : Keeps(r.status[t], r.cursor[t], r2.status[t], r2.cursor[t])]_vars

-----------------------------------------------------------------------------
(* The abstract sync.  A task of a repository is complete or open when one of its rows
   says so; the units of the discovery are the repositories that have a row. *)

Tasks == (TaskTypes \X Repo) \cup {<<"repository", 0>>}
UnitsOfTask(t) == {<<t[1], t[2], p>> : p \in IF t[1] = "repository" THEN Repo ELSE 1..PAGES}
TasksWith(statuses) ==
  {t \in Tasks : IF t[1] = "repository" THEN sub.repositoryStatus \in statuses
                 ELSE \E r \in rows : r.repo = t[2] /\ r.status[t[1]] \in statuses}

CompleteTasks == TasksWith({"complete"})

\* A sync that asks for some types of tasks is COMPLETE when those are done, whatever else is
\* open (installation.ts:300): what counts is what every sync asks for.
AskedTypes == {t \in TaskTypes : \A targets \in TargetChoices : t \in TargetTasks(targets)}
OpenTasks == {t \in TasksWith(Pending) : t[1] \in AskedTypes \cup {"repository"}}

SentUnits == ghost.sent \cup {<<"repository", 0, r.repo>> : r \in rows}
Carrier == IF Carried THEN "held" ELSE IF Lost THEN "lost" ELSE "none"
Disturbed == ghost.overlapped \/ ghost.raced \/ ghost.met \/ ghost.twice

Sync == INSTANCE SyncLifecycle WITH
  Tasks <- Tasks,
  Units <- UNION {UnitsOfTask(t) : t \in Tasks},
  UnitsOf <- UnitsOfTask,
  status <- sub.syncStatus,
  requested <- starter.pc # "idle",
  delivered <- SentUnits,
  complete <- CompleteTasks,
  open <- OpenTasks,
  carrier <- Carrier,
  disturbed <- Disturbed

\* Whatever becomes of messages, handlers and flags, the subscription's status and the
\* statuses of its tasks (installation.ts:59) change only as module SyncLifecycle says: a
\* sync in progress is carried by a message, a handler or findOrStartSync, or was lost in
\* one of the ways above; one shown as COMPLETE hides no work; what is complete went to
\* Jira (the theorems of SyncLifecycleProofs).  Its exceptions are a reset under a running
\* worker, workers that met, and a repository with two rows, which discovery makes when it
\* reads a page again (discovery.ts:68).
KeepsTheSyncPromise == Sync!Spec

\* Every sync that is started ends, or is lost in one of the ways above.
EverySyncEnds == InProgress ~> (sub.syncStatus \in {"COMPLETE", "FAILED"} \/ Lost)
=============================================================================
