# A formal model of GitHub for Jira

GitHub for Jira copies commits, branches, pull requests, builds, deployments and security alerts of
GitHub repositories to Jira. Two flows do it: webhooks, one entity at a time, and the *backfill*,
which walks through the history of every repository of an installation. The backfill is the
program's hardest part: a long computation cut into queue messages, run by many worker processes,
kept in two database tables and guarded by a flag in Redis, in which anything may be repeated,
delayed, overtaken or lost. Around the two stand the requests that connect Jira sites with GitHub
organisations, the credentials all of it needs, and the processes it runs in. This directory holds
TLA+ modules that model it, the TLC runs that check them, and proofs that hold for every size of the
system.

Paths below are relative to the repository; line numbers are in PROJECT.json, under `map`.

## 1. Inventory

| Component | State it keeps | Operations | What is hard | What makes it correct |
|---|---|---|---|---|
| Backfill (`src/sync/installation.ts`, `sync-utils.ts`, `discovery.ts`, `src/sqs/backfill*.ts`) | `Subscriptions`: syncStatus, repositoryStatus, repositoryCursor; `RepoSyncStates`: a status and a cursor per task | findOrStartSync, processInstallation, updateTaskStatusAndContinue, the error handler | reads and writes far apart, handlers that outlive their message, a reset under a running worker | no page is skipped, COMPLETE means nothing waits, a sync always goes on or ends |
| Deduplicator (`src/sync/deduplicator.ts`) | one flag per subscription in Redis: runner and timestamp | executeWithDeduplication, its timer, isJobRunnerLive | check and set are two commands; liveness is guessed from two reads | at most one job per subscription; a dead runner blocks nobody for good |
| Scheduler (`src/sync/scheduler.ts`) | none; reads the rows | getNextTasks | limits, order and random choice | the main task is the same on every retry; "nothing left" is true |
| SQS queues (`src/sqs/sqs.ts`, `queues.ts`) | listener contexts; messages in SQS | send, receive, time out, delete, change visibility, start, stop | at-least-once delivery, a timeout that does not stop the handler | a message is deleted only after its work is done or given up |
| Error handlers (`src/sqs/error-handlers.ts`, `backfill-error-handler.ts`, `src/github/client/github-client*.ts`) | none | error to {delete, retry after a delay, dead letter queue} | last attempts, rate limits | a task that cannot succeed does not stop the sync |
| Task processors (`src/sync/commits.ts`, `deployment.ts`, ...) | none | fetch a page, send it, say where the next begins | the list changes between pages; a look ahead for deployments; errors at any page | what is wanted and stays there is sent, a task ends |
| Page cursors (`src/sync/page-counter-cursor.ts`) | page number and page size in the row's cursor | construct, scale, serialise | rounding when the page size changes | no item is skipped by a change of page size |
| Worker lifecycle (`src/worker/startup.ts`, `src/services/cluster`) | `running` of each process | start, stop on cluster commands | stop waits for the listeners and may reject | an active node ends up with running queues |
| Health monitor (`src/util/workers-health-monitor.ts`) | registered and live workers, when the check began | keep-alive, register, remove the dead, shut down | one poll acts on what earlier ones saw; new pids | a node is given up when too few work, and only then |
| Installations (`src/models/installation.ts`, Jira events) | one row per Jira site: clientKey, host, secret | installed, enabled, uninstalled; a site moves to another URL | callbacks come while users connect | every subscription belongs to an installation under the same host |
| Subscriptions (`src/models/subscription.ts`, `src/services/subscription-*.ts`, `src/util/jira-utils.ts`) | one row per GitHub and Jira installation; at Jira an app property, development information, a security workspace | connect, remove, permissions webhook | check, then act; several systems without a transaction | Jira, GitHub and the table agree once all is quiet |
| Token caches (`src/github/client/*token*.ts`) | LRU caches of JWTs and tokens with expiry | get, set, expire | checked now and used later; keys are replaced | nothing expired is used, nothing revoked is used for long |
| OAuth and sessions (`src/routes/github/github-oauth.ts`) | a session in the browser's cookie | login, callback, check, renew | overlapping responses overwrite each other; refresh tokens are good once | a login in progress is not forgotten, renewal does not end the session |
| Jira client and transforms (`src/jira/client`, `src/transforms`) | none | map, limit, deduplicate, chunk | limits on keys, commits and associations | all is sent that fits, and a warning says so if it does not |
| Webhooks (`src/middleware/github-webhook-middleware.ts`, `src/github/*.ts`) | none but Redis's memory of missing issues | verify, find subscriptions, handle at once or send to a queue, number and send updates | one event, many subscriptions; any order; errors that are only logged | each subscription gets the event, Jira ends up with what GitHub has |
| Deployment cache (`src/services/deployment-cache-service.ts`) | DynamoDB rows per environment | save, last successful | out-of-order webhooks | the commits of a deployment start at the last successful one |
| Maintenance API (`src/routes/api`) | none | resync, reset failed tasks | runs beside the backfill | as the backfill |

Components interact so: a trigger (a new subscription, a resync from Jira's pages, the maintenance
API) calls `findOrStartSync`, which writes both tables and sends a message to the backfill queue. A
worker's listener receives it, `executeMessage` calls the backfill handler through the deduplicator,
the handler asks the scheduler for tasks, runs them against GitHub, sends what they find to Jira,
stores their status, and lets the main task send the next message. Errors go to the error handler,
which may write to the same tables. All of this state is shared by all worker processes; nothing is
transactional beyond one row.

`hazards` of PROJECT.json lists what can go wrong in this, at the line where it would, and the
properties that would notice.

## 2. Modules

| Module | Models | Extended or run by |
|---|---|---|
| `Deduplicator` | `src/sync/deduplicator.ts`, one action per await | `MCDeduplicator`, `BackfillJobProofs` |
| `Scheduler` | `src/sync/scheduler.ts`, as operators | `Backfill`, `ScheduledTasks` |
| `ScheduledTasks` | the scheduler while its tasks run and are reset, and repositories come and go | `MCAlgorithms`, `BackfillJobProofs` |
| `JiraPayloads` | what the Jira client sends of a page, a push and a deployment | `MCAlgorithms`, which has `ScheduledTasks`, `TaskPages`, `PullRequests` and `Pushes` with it; `BackfillJobProofs` |
| `PullRequests` | a branch and its pull request: webhooks, the branch queue, what Jira shows | `MCAlgorithms`, `WebhookProofs` |
| `Pushes` | pushes: webhook, queue, the memory of missing issues, commits | `MCAlgorithms`, `WebhookProofs` |
| `GitHubErrors` | how GitHub's errors are told and what becomes of them, as operators | `TaskPages` |
| `TaskPages` | the tasks other than builds, page after page, with errors and attempts | `MCAlgorithms`, `BuildPagesProofs` |
| `Backfill` | the backfill of one subscription, over an at-least-once queue | `MCBackfill`, `BackfillProofs` |
| `SyncLifecycle` | what a sync promises, without queue, workers or flag | implemented by `Backfill`; `SyncLifecycleProofs` |
| `PageCursor` | `src/sync/page-counter-cursor.ts`, as operators | `BuildPages`, `TaskPages` |
| `BuildPages` | the build task of one repository, over a list that changes meanwhile | `MCBuildPages`, `BuildPagesProofs` |
| `WorkerLifecycle` | a worker process that starts and stops its queues on command | `MCWorkerLifecycle`, `WorkerLifecycleProofs` |
| `WorkerHealth` | the primary process that watches the workers of the front end | `MCWorkerHealth`, `WorkerLifecycleProofs` |
| `DeploymentWebhooks` | a webhook's way: DynamoDB, the queue, the handlers, Jira | `MCDeploymentWebhooks`, `WebhookProofs` |
| `GitHubTokens` | the caches of JWTs and installation tokens, over time | `MCGitHubTokens`, `GitHubTokensProofs` |
| `OAuthSession` | the session cookie of a browser with several tabs | `MCOAuthSession`, `GitHubTokensProofs` |
| `Connections` | installations, subscriptions and what Jira has of them, under overlapping requests | `MCConnections`, `ConnectionsProofs` |

Definitions under the comment "Mutant" are not part of a specification: each is what a definition
next to it would be with a plausible bug, and PROJECT.json (`mutants`) says which property notices.

### Deduplicator

A *runner* is one call of `executeWithDeduplication` for a given job key. `pc` says at which await it
is, `flag` is the value in Redis with its age instead of a timestamp, `timer` is the runner's
`setInterval`, `watch` what `isJobRunnerLive` remembers between its two reads. `Tick` is the only
action that moves time; `UPDATE` is the refresh period, and the flag is stale at ten of them and
watched over two, as in the code. Redis may fail at any command, after the command took effect or
before, and a process may die at any point. `raced` and `late` are history: two runners were between
check and set at once; the flag of a live runner reached the stale age.

### Scheduler

`NextTasks` gives every answer `getNextTasks` may give, as a main task and a set of others: the
rows by descending id, the first pending task of the first row, and a choice from the pool.
`EligibleTasks` filters by target tasks and by the security permission. Rows are records with an
id, a repository and a status for each task.

`ScheduledTasks` is a state machine over these rows: webhooks of repositories add a row with the
highest id or delete all rows of a repository (`src/github/repository.ts`), a task of some answer is
stored as pending, complete or failed in every row of its repository, and a sync of one task resets it.
Here tasks may be stored by anyone at any time, which allows more than the backfill does.

### Jira payloads

`call` is one call of the client: what GitHub reported, then the payload made of it and what was sent.
`TransformBranches`, `PushPayload` and `Associations` make the payload, `Update` the requests.
An issue key list is what `jiraIssueKeyParser` returns, without duplicates (`KeyList`).

### Backfill

`sub` and `rows` are the two tables. `queue` maps messages to where they are (visible, in flight,
dead letter queue, absent) and how often they were received. A *worker* is one execution of the
message handler, from receive to delete, with its position `pc`, the snapshot it read (`seen`), its
main task, the runs still to fetch (`todo`), those fetched but not yet stored (`got`) and what the
main task came to (`outcome`). `claim` and `deadFlag` abstract the deduplicator: who is between set
and unlink, and whether a flag of a dead runner may still be found. `starter` is a call of
`findOrStartSync` under way, with the instance its caller read. `BeginSync` is that read: callers
look up permissions, submit a workspace or check a request before they call. `SetPending` is the
first update, then come the resets and `SendFirstMessage`.

A handler's way through the actions, with the function each stands for:

1. `ReceiveMessage` (`executeMessage`), then `ClaimSync`, `NotSure` or `OtherWorkerDoingThisJob`
   (the three results of the deduplicator) or `PostponeMessage` (preemptive rate limit);
2. `ReadSubscription`, `PlanTasks` (`getNextTasks`), then `MarkSyncAsCompleteAndStop` when nothing is
   left, or `SetActive`;
3. for each task in any order `FetchPage`, then `UpdateTaskStatus` (`updateTaskStatusAndContinue`),
   or `TaskFails`, or `TaskStatusIsNotStored`; then `TasksSettle`;
4. `ReleaseClaim` (unlink), then `SendBackfillMessage` and `DeleteMessage`, or the error handler:
   `MarkCurrentTaskAsFailed`, `MarkTaskAsComplete`, `RescheduleRateLimited`, `RetryMessage`.

`HandlerTimesOut`, `Crash` and `InfrastructureFails` may strike between any two steps. After a
timeout the handler goes on as a zombie, without a message.

What deserves to be said about the abstraction:

* Sequelize's `instance.update` writes only the fields that differ from what the instance last saw.
  `Saved` and `ResetDiscovery` model this; a sync whose caller read the subscription as PENDING does
  not set it to PENDING again, whatever it has become since, and a full sync whose caller read it
  before discovery moved on does not reset discovery.
* `updateRepo` finds the subscription and updates it without anything that depends on what it
  found, so read and write are one step.
* Page k of discovery holds repository k; page k of a task is one member of `ghost.sent` once it has
  gone to Jira. A page after the last one has no edges, which is how a task ends.
* The subscription exists throughout, and no subscription is blocked.
* `ghost` is history, read by properties only: what was sent since the last full reset, and how the
  system was defeated (`overlapped`: a full reset, from the read of the subscription on, met a busy worker; `raced`: the error handler wrote
  while another worker had the flag; `startLost`; `dropped`: a message deleted because another worker
  was at it; `orphaned`: a handler went on without a message of its own).
* A message's delay is waiting; the queue has no order.

### SyncLifecycle, and how Backfill implements it

`SyncLifecycle` is what users and other code may rely on. It knows the status of the subscription,
which tasks are complete or open, which units (pages, repositories) went to Jira, and a `carrier`:
whether anything at all still holds the sync, or it was lost, or it is over. A `Request` starts it,
`Forget` is what the reset of a request may take back, and otherwise the sync moves by `Deliver`,
`Complete`, `Progress` and ends by `Release`, which requires that it failed or nothing is open.
`Backfill` maps its state to this at its end (`Sync`), and the property `KeepsTheSyncPromise` is
`Sync!Spec`. A message in the queue, a handler that has timed out and a `findOrStartSync` under way
are carriers; the causes of a lost sync are named in `Lost`; `disturbed` gathers the ways in which
handlers and resets may undo each other's work. Open are the tasks of the types that every sync asks
for (`AskedTypes`): a sync with targets is COMPLETE when those are done, whatever else is open. That
the mapping is a refinement is a theorem (`SyncIsImplemented`, section 4), with which the theorems
about `SyncLifecycle` hold of the backfill.

### PageCursor and BuildPages

`PageCursor` translates the cursor that holds a page number and a page size. `Scale` rounds down, so
that a page of the new size starts no later than the old page did.

`BuildPages` is `getBuildTask` with the code around it: `list` is what GitHub has, newest first;
`StartFetch` scales the stored cursor to a page size and asks for some pages at once, both of which
are flags that may change before every fetch; `FetchOnePage` is the answer to one request, in any
order; `StoreCursor` puts the edges together, sends their builds and stores the cursor of the last
one. A page without a build that is recent enough has no edges. `FetchFails` is a failure of any part,
after which the backfill repeats the task from the stored cursor. Meanwhile builds are added at the
front and deleted anywhere. Pages are numbered, so both move others across page boundaries.
`disturbed` is history: it names the two changes that a walk by page numbers cannot bear, a deletion,
and an addition after one of the parallel pages has come back before one ahead of it.

### GitHubErrors and TaskPages

`GitHubErrors` starts from what may be the matter (`Situations`), says how GitHub tells of it by REST and
by GraphQL, which is outside the repository, and then what the code makes of that answer: the
class of error (`HandleFailedRequest`, `GraphQLErrorOf`), whether the query is put again for less,
whether an alert task takes it for an empty page, and the outcome of `HandleTaskError`. A message that
GitHub words is taken to be worded as the code expects.

`TaskPages` walks through the pages of one `task`. An item is a number, greater for a newer one (for
branches: in order of name). `FetchPage` is one call of the task and of `updateTaskStatusAndContinue`:
the query, what it keeps as `Edges` for the date `from`, for deployments the successes of this page and
the next that are saved (`SaveDeployments`, some of which may fail), and the cursor of the last
edge. The page size changes freely, items come and go between pages. `QueryFails` is any error,
followed to its outcome. `ghost` is history: what was there throughout (`lasting`), whether something
went away (`shifted`), was gone or refused, the failures since the last page (`strikes`), and the
deployments sent before their predecessor was known (`blind`).

### WorkerLifecycle

`running` is the variable of `startup.ts`. A queue's `listeners` are the contexts that `listen` was
called with, each with its flag and what its loop is doing; the last is the `listenerContext` of the
queue, the others are loops that have not seen their flag yet. A call of `stop` that waits is a
member of `stops` and holds the listener it awaits in each queue. It resolves when all have ended or
rejects after a minute, which is logged and leaves `running` as it is. `pipe` are commands of the
master process, in order. `Respawn` is a death of the process: the cluster forks another one, which
runs nothing and gets no command until the next event. `excuse` is history: a command came while a
stop was waiting, the last stop rejected, the process has had no command since it was forked.

### DeploymentWebhooks

Statuses of deployments in one environment, in the order GitHub made them. A status is its id, which
is what `updateSequenceNumber` is in the code, and stands for its `created_at`, by which the cache is
keyed and searched; statuses that were created at the very same time, of which the cache would keep
one, are left out. `updated_at` is sent to Jira and orders nothing. `web` is where each webhook is: a success is first put into DynamoDB
(`cached`), then a message is sent. `queue` and `worker` are as in Backfill, with the steps of
`executeMessage`: too old, postponed by the preemptive rate limit, handled. The handler asks the
cache for the last success before its status (`FindBase`), then submits to Jira. Three things are
outside the repository and assumed from how it uses them: Jira keeps the update of the highest
`updateSequenceNumber`; DynamoDB reads what was written; the list of deployments that GitHub gives
when the cache has none is data, `from = "github"`. A handler that timed out goes on without its
message. `ghost.before` remembers which older successes were cached when a webhook came in,
`ghost.fate` what became of each status.

### JiraPayloads

An entity is an id with its issue keys. `MapBranch` to `TransformBranches` is a backfilled page,
`PushPayload` a push; `Update` is `devinfo.repository.update`: unique keys, the limit on them with
its warning, unique commits, chunks of commits. `Requests` says what is really sent: the code puts
each chunk into the one `data` object inside an `async` function that is mapped over the chunks,
and the object is turned into text only later, behind interceptors. `Associations` is the
arithmetic of a deployment's limit, with `slice` as it is for negative ends.

### PullRequests

`repo` is what GitHub has: one branch, whose name may have an issue key, and one pull request with its
status, whether its title has a key, and its body: plain, with a key, or with a key and its link. Every
change of it (`Changes`) adds to `events` the webhooks that tell of it, as GitHub sends them; a bot
makes the changes whose webhooks are ignored. A webhook carries what was so when it was sent. It is
taken in any order: a creation goes through the branch queue (`GetRef`, `TransformBranch`,
`RetryBranch`, `FindNoRef`), a deletion to Jira at once, a pull request by `HandlePullRequest`, which
puts the update together, `UpdateGithubIssues`, which may write links into the body, and
`UpdatePullRequest`. `clock` counts the readings of `Date.now()`: `shown` has, for the branch and for the
pull request, the number and the state that Jira has kept. The stamps of one update, which are
taken one after another, are one number; the getters of reviewers and authors before them are
part of `HandlePullRequest`. A webhook that has been handled is forgotten but for its kind.
`happened` is history: it names what keeps Jira from showing what GitHub has (a later webhook was
handled before, a creation raced a deletion, a webhook was lost or ignored, a body was overwritten or
lost its key unnoticed). There is one Jira host, and `shouldSendAll` is off. Not modelled of
these handlers: reviews (the same handler, with nothing changed), pull requests from a fork that is gone,
duplicates and timeouts in the branch queue (which `DeploymentWebhooks` has for its own).

### Pushes

A `push` is at a step of its handler with the keys still to look up, those found `invalid`, and the
commits fetched. `issues` are those Jira has, `remembered` what Redis says of each key until it
forgets, `gone` the commits GitHub has no more. `LookUp` is one turn of the loop in
`tryGetInvalidIssueKeys`: Jira's answer and the write to Redis are one step. The commits are asked for
side by side; the first that is not found ends the attempt (`CommitNotFound`), on the last attempt it is
left out (`FetchCommits`). `doubted` and `excused` are history: the keys that are missing, or were when
Redis was told what it still says. The flags `SKIP_PROCESS_QUEUE_IF_ISSUE_NOT_FOUND` and
`SKIP_COMMIT_IF_SHA_NOT_FOUND_ON_LAST_TRY` are on, `shouldSendAll` is off, the subscription and the
Jira client exist, the rate limit is not reached, and no handler times out.

### GitHubTokens

A credential has the time it has `left`, and which key or which grant it is `of`. `job` is a call of a
client: it takes a token of the cache, or a JWT, or reads the key (`KeyLocator`), signs
(`GetAppToken`), exchanges (`CreateInstallationToken`) and uses it (`SendRequest`). Between any two
steps time may pass, entries may be evicted, the key may be replaced at GitHub and later here, tokens
may be revoked. Nothing in the code drops a cached credential when it is refused; time does.

### OAuthSession

`cookie` is the session, and the only copy of it: `cookie-session` keeps nothing on the server. A
request in a `tab` reads it when it begins and its response replaces all of it if the session
changed. `github` says which token pairs are good; a refresh token is spent by being used. There are
two servers, cloud and Enterprise, and the session has room for the token of one. `overlapped`,
`lost`, `contended` and `denied` are history, and the exceptions of the properties.

### WorkerHealth

`proc` is what a process does, `live` the age of the message the primary has of it, `registered` the
pids it listens to, `ready` the time since it has known enough workers. `Poll` is one callback of
`setInterval`, which runs its five parts without interruption. Frozen workers send nothing, new pids
are heard once a poll has registered them. `answered` is history.

### Connections

`installation` and `subscription` are the tables by row id; `isConfigured`, `devInfo` and `linked` what
Jira has, `permitted` and `deliveries` what GitHub knows and has yet to tell. A request in a slot is
where it is (`at`) and what it took along when it began: the installation of its token (`inst`, with
the `key` and `host` the row had then), a subscription, a list still to do. Each await is a step.
A URL belongs to one site (`SiteOf`). Requests run side by side, and a site may change its URL, be
uninstalled and installed again under them. Six sets name what the code cannot keep: `strays` (rows made or left behind with an outdated
installation), `doubtful` (the property was last written too late or not at all, as when the last
subscription goes on GitHub's page), `leftovers` and
`orphans` (data that no removal took away), `missed` and `broken` (permissions nobody was told of, a
setup cut short). Each is entered where the cause is, so that the properties fail for any other.

## 3. Runs

| Run | Question | Bounds |
|---|---|---|
| `dedup` | What does the flag guarantee, what defeats it, is every call answered? | 2 runners, a refresh every 2 ticks, sleeps of up to 5 |
| `algorithms` | Is the main task fixed and quota used? Does what is sent fit, and is all of it sent? Does a task's walk miss an item or give up too early? Does Jira end up with the branch and the pull request GitHub has, and with the commits of a push? | 3 rows of 2 repositories, 2 task types, up to 2 subtasks; 3 commits, 2 branches, limits of 2 or 3; 7 tasks, 5 items, pages of 1 to 3, 3 errors, 2 changes, 2 attempts; 3 webhooks of changes, 2 attempts; pushes of 3 and 1 commits, 2 issues, 2 attempts, 1 commit gone |
| `backfill_safety` | Safety and the refinement under one fault of any kind | 2 repositories, 2 syncs of either type, 2 handlers |
| `backfill_races` | The flag lets two handlers in, duplicates are deleted, syncs of chosen tasks | 1 repository, 2 pages, 2 partial syncs, a crash |
| `backfill_liveness` | Does every sync end, under up to two faults? | 1 repository, 1 sync, 5 messages |
| `build_pages` | Is a build ever skipped, does the task end? | 5 builds, page sizes 1 to 3, 1 or 2 pages at once, a failure, a deletion |
| `workers` | Do the queues do as they are told? | 2 queues, 5 events, 1 death |
| `health` | Is a node given up when, and only when, too few of its workers answer? | 2 workers, a third pid, ages up to 4 |
| `deployments` | Are webhooks lost, does Jira show the newest, do commits start at the last success, does every message end? | 2 of 3 statuses, 2 handlers, 2 messages, any errors, 1 fault of another kind |
| `tokens` | Is anything expired or outdated ever presented, and for how long? | 2 calls, 1 installation, lives of 2 and 3 ticks, 1 change of key and of grant |
| `session` | What do tabs that share a cookie lose? | 2 tabs, 2 servers, 2 visits, 1 fault, up to the first overlap |
| `connections` | Do the tables, Jira and GitHub agree in the end? | 1 site, 2 URLs, 2 organisations, 3 requests, 2 at a time, 1 fault |

Each run checks what a plausible bug would break: PROJECT.json has, for every property, a changed
definition under which TLC finds it violated. The modules of the state machines also have a type
invariant; all of them are theorems (section 4).

Two handlers are enough for a page done twice, a zombie beside its retry, an error handler beside a
new claim, and a reset beside a worker. Two syncs make one start on top of another. `PAGES = 2` and
two repositories make a page that is not the last one and rows to choose between. `MAX_RECEIVE = 2`
has a first and a last attempt (3 in production). `MaxRows` bounds how often discovery can be done
again; `Msg` must exceed the number of chains of messages that can exist at a time, and in the
liveness run it does, so that no handler waits for a free identity. Where a run leaves a fault kind
out, another has it. `CHECK_DEADLOCK` is off for Backfill: a finished sync has nothing left to do.

A build task needs one build more than a page, one older than `fromDate` and one that comes late.
Five events are start, stop and start again with two to spare, which is enough for two stops that
wait at once. Two webhooks at a time out of three statuses of two deployments give each pair its turn:
the same deployment or another, a success before or after; the third status would only add
handlers. `MaxMsgs = 2` is a message for each, and the fault may make one come again.
`CHECK_DEADLOCK` is off for these modules too, as builds, events and webhooks run out.

In `tokens` the margin is one tick, so that a credential can be held for less and for longer than it; a
second installation only repeats the first. In `session` two visits are what it takes for two tabs to
overlap, four pairs and three states are more than can be in use. Nothing is claimed after the first overlap,
and the run looks no further (`UntilOverlap`). In `health` three pids are the two
workers and one forked after a death; periods are as small as their order allows. In `connections` a
third request comes while two overlap; one site is enough since a URL belongs to one site (`SiteOf`) and
requests of two sites share nothing else, and the site's second URL stands for one it has moved to.
Hosts and organisations are symmetric.
In `algorithms` limits of 2 are passed by one and by more; a walk through three items with pages of one to three
has pages that are full, short and empty, and three errors are the two attempts and one more, so that a
limit may come before, between and after them. Three webhooks are two that overtake one another and
one more, or a creation, a pull request and the deletion of both; each may add one of its own when a
body is given links. Two pushes share a key, and the limit on commits cuts the first off. The
five parts of this run share no variable: each behaviour has one of them. It has about 2.2
million states and takes two minutes, the longest of all runs.

In Backfill workers and messages are symmetric; the one `CHOOSE` over messages picks among absent ones, which
are all alike.

### Fairness

Handlers go on as long as their process lives, the queue delivers and redrives, the visibility of
an unheld message lapses, `findOrStartSync` goes on, a flag that nobody refreshes goes stale: each
of these is weakly fair, because nothing in the code can hold it up for good. In BuildPages messages
keep coming, so fetches go on. In WorkerLifecycle commands are handled, a stop is answered (it has a
timeout of its own), and each loop of a listener goes on: polls return within their wait time and
`executeMessage` times its handler out. In DeploymentWebhooks time passes, so that a message grows
old in the end, even one that the rate limit postpones again and again. In GitHubTokens time
passes and calls end; in OAuthSession requests are answered and the browser follows redirects; in
WorkerHealth timers of processes that are up fire in time. `Connections` is checked for safety only:
its properties speak of moments when no request is under way. Nothing is assumed of
faults, of users who start syncs, of builds, events and webhooks, or (in the Deduplicator) of
refreshes.

### Where the code does less than its comments say

Each of these is a named exception of a property that holds:

* "if and only if it can determine that there's no other worker running the job"
  (`src/sync/deduplicator.ts:165`): check and set are two commands, so two callers may both run it.
  `ExclusiveUnlessRacedOrLate`, `raced`.
* "Otherwise the sync will be "stuck"" (`src/sqs/backfill-error-handler.ts:76`) is prevented for task
  errors only. A timeout or database error on the last attempt sends the message to the dead
  letter queue with the subscription still PENDING or ACTIVE. `KeepsTheSyncPromise`, `Lost`.
* "Remove all state as we're starting anew" (`src/sync/sync-utils.ts:38`): a worker that runs stores
  its old cursor over the reset, and what it stored after the subscription was read for the reset may
  not be reset at all: the rows go and discovery stays complete. `CompleteMeansIngested`, `overlapped`.
* "When 'active' event is triggered, start queue processing" (`src/worker.ts:38`): not while a stop is
  waiting, or after one rejected, since `running` is still true. `LastEventWins`, `excuse`.
* "Splits commits in data payload into chunks of 400 and makes separate requests"
  (`src/jira/client/jira-client.ts:570`): with more than 400 commits every request carries the last
  chunk. `LimitsLoseNothing` holds up to one chunk.
* The room for a deployment's commits is counted with services that were not sent, so that more than
  500 issue keys and services together let commits through or cut too many. `LimitsLoseNothing`.
* A page of discovery that is read again makes second rows of its repositories, whose tasks run side
  by side. `ProgressIsKept`, `IsOnlyRow`.
* A login that comes back with an error leaves its state in the session (`src/routes/github/github-oauth.ts:151`).
  `StatesFollowLogins`, `denied`.
* "Could not get latest commit from branch as the branch is not available yet on the API. Retrying
  later." (`src/transforms/transform-branch.ts:58`): GitHub answers 404, which the error handler takes for
  unretryable, so the message is deleted. `JiraEndsLikeGitHub`, `not yet there`.
* "Deletes PR link to jira if ticket id is removed from PR title" (`src/github/pull-request.ts:44`): not
  when the last issue key goes with an edit of the body; and what the app writes into a body
  replaces what a user has written since the webhook. `JiraEndsLikeGitHub`, `unnoticed`, `overwritten`.
* "Do not send the branch on the payload when the Pull Request Merged event is called"
  (`src/transforms/transform-pull-request.ts:170`), since the branch would be created again: the creation
  of a branch or any other event of the pull request does so when it is handled after the deletion.
  `JiraEndsLikeGitHub`, `raced`. A branch without a key in its name is shown with its pull request and
  never deleted; the property speaks of branches with one.
* Pull request updates are numbered when they are put together, not by what they say: a webhook that is
  handled after a later one wins. `JiraEndsLikeGitHub`, `reordered`.
* The property that tells Jira whether the app is configured is set and unset by who saw the table
  some awaits ago, and GitHub's page deletes a site's last subscription without unsetting it.
  `IsConfiguredTellsTheTruth`, `doubtful`.

## 4. Proofs

`BackfillJobProofs` proves, for any set of runners, any refresh period and any bound on a sleep:

* `TypeCorrect`: `Spec => []TypeOK`;
* `ExclusionUnlessRacedOrLate`: `Spec => []ExclusiveUnlessRacedOrLate`. The invariant itself is not
  inductive. `AloneInv` adds why the runner that is live is alone: while nothing has raced or come
  late, at most one runner is past the check, and if one is live the flag is its own and not stale,
  so that no other passes the check. `Tick` keeps it because `late` turns true with the age.
* `NoOrphanFlagEver`: inductive with `TypeOK`; the proof goes action by action.
* `StoppedRunnersNotReported`: the strengthening relates the age remembered at the first read to the
  flag's present age for a watched runner that was not running: a flag that nobody refreshes never
  becomes younger.

The assumptions are those of the module: the period is positive, a sleep lasts at least two periods
and less than ten.

It also proves, for any rows and repositories, any task types, any `POOL_COEF` and any number of
subtasks:

* `RetriesTheSame`: `ScheduleSpec => SameMainTaskOnRetry`. `RowsOK` is the invariant: ids are unique
  and every row is as its id says. From it the main task is the first pending type of the newest
  waiting row (`MainTaskIs`), and of all unfinished tasks none is newer (`MainTaskComesFirst`). A step
  after which fewer are left, and this one is, leaves it the first (`MainTaskStays`).
* `QuotaIsAlwaysUsed`: `ScheduleSpec => []QuotaIsUsed`. Rows that wait have a task each, so `k` of them have
  `k - 1` tasks beside the main one at least (`AsManyTasksAsRows`). Take the newest row that the limit or
  the early break has left out: the rows before it have all been found or pooled, and they are enough
  (`QueryFindsEnough`, `PoolIsLargeEnough`).

and, for any issue keys, ids, limits, branches, commits and numbers of associations:

* `LimitsNeverLoseUnnoticed`: `CallsSpec => []LimitsLoseNothing`. The payload of any page or push is
  made of key lists without duplicates, and the last commit of a branch has no key that its branch
  lacks (`IsPayload`). So the client's own deduplication changes nothing (`PayloadStays`), and to measure
  the branch is to measure its last commit too (`MeasuredBranchesFit`, which `NoLonger` makes an
  injection between lists). One commit of each id is left (`DedupFacts`), and so many as fit a request
  are one chunk, which is the whole list (`ChunksFacts`).

`filter` is defined by the rank of a place among the kept ones instead of by recursion, so that what
is kept follows from facts about cardinalities (`RankFacts`, `KeptFacts`) and needs no induction; that
`flatMap` has a value is shown by its least counterexample (`FlattenExists`).

`BackfillProofs` proves, for any workers, messages, repositories, pages, task types and quotas, any
number of syncs and faults, and, but for the last three theorems, whether or not two checks of the flag
may overlap:

* `Types` and `TypeCorrect`. `TypeInv` adds to the types that rows have ids of their own, that a
  snapshot is of rows that exist, and that a worker has runs and results in hand only at the steps
  that deal with them;
* `CompleteIsIngested`: `Spec => []CompleteMeansIngested`. The tables alone do not explain it, since what
  a task has stored says nothing of what is in the hands of workers that will store it later.
  `Progress` therefore has three parts: what the tables count as done was delivered (`TablesOK`);
  what a worker has fetched but not stored was delivered, and continues a cursor that was
  (`HandOK`); and while a full reset is under way no worker is at work (`ResetOK`), or else
  `overlapped` holds and nothing is claimed. Crashes and timeouts only take from the hands;
* `ProgressIsNeverUndone`: `~FLAG_RACES => (Spec => ProgressIsKept)`. What a job stores is computed from what
  it read, so the invariant says that its hand is ahead of the tables until it stores (`Kept`): the
  snapshot it plans with (`SnapshotOK`) and each run (`RunOK`) have a cursor that is not behind the
  stored one, of a task that is not complete; no two runs write to one cursor (`Apart`), because
  discovery runs alone and a row has one run of a task; and a page stays in hand once (`OnceOK`).
  findOrStartSync only lowers the tables (`StarterLowers`). A second job would break it, hence `OneJob`:
  who is at a job has the flag, and nobody else has it. With checks of the flag that overlap
  (`FLAG_RACES`) it is false, as the mutant `ClaimsAnyway` shows. TLC checked `OneJob` and `Kept` as
  invariants of the instance of `backfill_safety` before they were proved;
* `SyncIsImplemented`: `~FLAG_RACES => (Spec => KeepsTheSyncPromise)`, the refinement of `SyncLifecycle`, and
  from its invariant `SyncIsNeverStuck`, which says the same of the code's own state. The hard step of
  the simulation is `Release`: when the last carrier goes, why is the sync over? The message goes, or
  is deleted by a handler whose job ended long ago, and the tables say nothing of handlers. The
  invariant (`PromiseInv`, checked by TLC on three instances first) is that of the theorems above and

  * `MessagesOK`: who has a message has it alone, and it is in flight, until a visibility timeout lapsed
    under a handler (`orphaned`); who has none has timed out, and its message was given back;
  * `OutcomesOK`: what the outcome of a job says of its main task at each step;
  * `JobsOK`: what a job knows about the end. Who has found nothing to run, or has read that the sync
    is over, is right as long as nothing was started since; if something was, or if the handler
    is a zombie, the sync does not depend on it: another message or request holds the sync (`Backed`);
  * `Over`: the sync has ended, or was lost, or a request is under way, or there is a message that is not
    about to be deleted (`SafeIn`). A deletion is thus never of the last message of a sync that goes on;
  * `Alone`: until something was disturbed, one handler at a time is at a job or at its error, no
    repository has two rows, and the main task that failed is not complete, so that giving it up
    (`Progress`) takes nothing back;
  * `SentOK`: only units of existing tasks are sent.

  The simulation has one lemma for each abstract action (`IsRelease`, `IsDeliver`, ...) that says what a step
  has to show for it, and one for each action of the code that writes to the tables. The hypothesis is
  needed: with checks of the flag that overlap, subtasks, and two faults, TLC finds a job which times
  out, and whose task beside the main one is stored as pending when another job, which it met, has
  marked the sync COMPLETE. The run `backfill_races` has one fault and no subtasks, with which the refinement holds.

`BuildPagesProofs` proves, for any finite set of builds, any page sizes and any numbers of pages:

* `ScaleNeverSkips`: scaling a cursor never counts an item as processed that was not, and repeats less
  than one page of the new size;
* `TypeCorrect`, and from it and `ScaleInv` (a fetch starts within a page of the stored cursor)
  `CursorAlwaysMovesOn`: a stored cursor is always further on than the one before;
* `NothingIsLost` and `CompleteTaskHasSentAll`. The invariant about the stored cursor says nothing of
  the pages under way, so `LostInv` adds that a page which has come back is collected, and that what
  comes after a page without recent builds needs no sending. An added build moves every place by
  one (`PlaceBeforeAdding`); this is harmless while all pages that are back are at the front.

The same module proves of `TaskPages`, for any items, dates, page sizes, attempts, changes and errors:

* `GivesUpForAReasonEver`: every attempt after the first was paid for with a failure since the last
  page (`AttemptsInv`), and of all that may be the matter a rate limit alone is rescheduled, by
  either API (`OutcomeFacts`);
* `WalksAreWholeEver`. `WalkInv` says that whatever the cursor has passed was sent: for a cursor that
  is a place, all items as new as that; for one that is a page number, all with fewer items ahead
  of them than it counts as processed, while nothing went away. That a page without edges means
  that nothing is left needs a fact about the pages: there is no gap before an item that is
  still to come (`EdgesByItem`, `EdgesByNumber`, from `PlacesAreTaken`: if `n` items are ahead of an
  item, each smaller number is that of some newer item). `SuccessIsFound` is the look ahead of
  deployments: the success before a deployment is on its own page or on the next.

`WebhookProofs` proves of three modules that share no variable:

* `DeploymentWebhooks`, for any deployments and statuses, handlers, messages and faults:
  `NothingIsLost`, by what keeps a message (`Kept`: it is in the queue and no handler that postponed it
  is about to delete it, or its copy is on the way); `NewestShown`, by what the number of a status
  says of its place; `CommitsStartRight`, an invariant with the types; `TypeCorrect`.
* `Pushes`, for any pushes, commits, keys and attempts: `CommitsReachJira`. What is missing in Redis'
  view is doubted (`WhatIsMissingIsDoubted`), the keys a push found invalid are among those that
  excuse it, and each of its commits is accounted for: still to be asked for, fetched, or gone.
* `PullRequests`, for any number of changes, attempts and webhooks: `PullRequestsEndRight`. The
  property speaks of the moment when all webhooks are handled; the invariants say who will
  make it true. For the branch (`BranchInv`): the creation that is ahead of every deletion
  (`IsAhead`), or the deletion that is ahead of every update (`IsToDelete`), is on its way, or Jira is
  right already with a number over all that is to come. For the pull request (`PullRequestInv`):
  numbers ascend in the order of the webhooks (`Ascend`), and in that order the last webhook that
  matters says what is so at GitHub, or none matters and Jira shows it. `EventsSound` holds the
  rest together: a webhook carries what GitHub had when it was sent.

`ConnectionsProofs` proves, for any sites, URLs, organisations, requests, failed calls and crashes, with
any number of requests at a time. All four properties speak of quiet moments, and each invariant
says what a request under way is about to put right:

* `TypeCorrect`, with what a request may rely on about the rows it has read while others change them
  (`RequestsOK`, `Keeps`);
* `EverySubscriptionHasAHome` (`Homed`: when a URL moves or an uninstall settles which subscriptions
  go, whatever else is found there is a stray or on a list);
* `ConfiguredIsTrue` (`Told`: who changed the rows is about to write; `OwnWorks`: who is about to write
  what the rows contradict is the one who changed them, or the site is doubtful);
* `NothingStaysAtJira` (`NothingLeft`: a removal deletes the row last);
* `PermissionsAreSetUp` (`Known`, `HoldsAccepted`, `SetUp`, `LinkedFirst`: who has not noticed yet is on a
  list; who is accepted is linked and synced, or a request is about to do both).

`SyncLifecycleProofs` proves of the abstract sync, for any tasks and units: `SyncIsCarried` (a sync in
progress is carried by something or was lost), `CompleteHidesNothing` (COMPLETE with nothing under way
means nothing is open) and `CompleteWasDelivered`. The three are inductive together with
`RequestHolds`: while a request is carried out, it is what carries the sync. Whatever implements
`SyncLifecycle` has these properties, and so has the backfill, by `SyncIsImplemented`.

`WorkerLifecycleProofs` proves, for any set of queues and any number of events and deaths:

* `TypeCorrect`, with which a listener has ended only if it was stopped and a stop waits only for
  listeners that exist; `OneListenerAtATime`, inductive with it;
* `FlagIsRight` and `StoppedIsQuiet`. Between commands the flag is right, but a stop that waits makes
  it wrong on purpose, so `FlagInv` says what is true during the wait: there is one stop, `running`
  is still true, the last listener of each queue is stopped, and it is that one the stop awaits.
  When the stop resolves, the flag goes down and all of them have ended.

The only assumption is that the bounds are numbers.

The same module proves of `WorkerHealth`, for any pids, periods and threshold below the number of
workers: `HealthIsTyped`, and `ShutdownOnlyWhenFewEver`. `HeardInv` ties the two views of a worker
together: the message that the primary has of one that has been at work since it was answered is no
older than the time since the last was sent, so at a poll it is younger than what counts as dead.

`GitHubTokensProofs` proves, for any calls and installations, any margin and lives, and any number of
new keys and revocations:

* `TypeCorrect` and `ExpiredOnlyIfHeldEver`, from one invariant: what a call has in hand had the
  margin left when it came by it, and what it lost since, the call held (`CallOK`). `Tick` keeps the
  sum, the caches only offer what has the margin left, and a new credential lives longer than that;
* `OldCredentialsDieOutEver`. `AgeInv` adds up instead: what an outdated credential has left and the
  time since it was outdated are a life at most. A token on its way from GitHub may be
  revoked before it is cached, so the invariant speaks of the calls that receive one, too.

The same module proves of `OAuthSession`, for any tabs, servers, pairs and states, and any number of
visits and faults: `SessionsAreTyped`, `StatesFollowLoginsEver` and `RenewalKeepsSessionEver`.

* `StatesInv` holds until two requests overlap. `StateOf` says what the session that a request is to
  answer with has to do with the one it read; no two tabs have one state (`OwnStates`); a state that is
  awaited is in the cookie (`Awaited`), and what the cookie has somebody awaits (`Remembered`).
* `PairsInv` says of a pair that is not in the cookie yet that the request which got it is about to
  answer, that it is not spent, and that nobody else has it (`FreshOK`); and of a pair that is spent,
  that its successor is such a pair, or one of the exceptions holds (`Replaced`).

### Assumptions

All theorems rest on the named assumptions of their modules, which TLC evaluates in the runs. They
say what the constants are (the bounds are numbers, sets to count are finite, `FirstItems` are sets of
items), and beyond this only:

* `GitHubTokens`: both lives are longer than the margin, which is not nothing;
* `WorkerHealth`: `PeriodsAssumption`, the order of the code's constants; the identities of processes
  are finitely many;
* `Connections`: every URL belongs to one site (`SiteOf`). Two sites that exchange a URL would write
  each other's app property, and `IsConfiguredTellsTheTruth` would be false;
* `DeploymentWebhooks`: statuses are created in the order of their ids, no two at the same time;
* `ScheduledTasks`: repositories are numbers (`RowsAssumption`);
* `JiraPayloads`: a key list has no duplicates (`InputsAssumption`), since `jiraIssueKeyParser` ends in
  `uniq`, and a request takes at least one commit;
* `PullRequests`: a webhook may be tried at least once, and the bounds are numbers.

### Model-checked only

Liveness (fairness and ENABLED are out of the prover's reach): `EveryCallIsAnswered`, `EverySyncEnds`,
`TaskEnds`, `LastEventWins`, `EveryMessageSettles`, `RefusalsEnd`, `EveryVisitEnds` and `NodeIsReplaced`.
Every invariant and every action property that a run checks is a theorem.

## 5. Not modelled

* The front ends, links in issues and comments, analytics, metrics, logging, heap dumps: no state that
  anything else acts on.
* JWTs, signatures, encryption and CSRF tokens: whether a request is genuine is data here. In
  `Connections` a request whose installation is outdated may be refused by Jira, and that is all that
  is known of secrets.
* Transforms and clients beyond what `JiraPayloads` has: field by field conversion and I/O.
* What GraphQL cursors mean is up to GitHub: `TaskPages` takes one for the place of an item, which it
  keeps when the item goes. Within the backfill a task is its contract: a page of edges and a
  cursor, no edges at the end. A failure to send to Jira is in `Backfill`, not in `TaskPages`.
* Webhooks of issues, comments, reviews, workflow runs and security alerts: their handlers keep no state, and
  their updates are numbered like those of `PullRequests`. Webhooks of
  repositories add and delete rows in `ScheduledTasks`; they, the maintenance API's resets and deletion of
  a subscription are not composed with a running backfill.
* Database failures in `Connections` where no handler looks at them: they end the request like `Crash`.

## 6. Plan

Done: all modules above, the proofs of all state machines' safety invariants, and of the refinement.
Left, in this order:

1. Repository webhooks and the deletion of a subscription, beside the backfill.
