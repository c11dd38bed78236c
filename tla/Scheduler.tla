------------------------------ MODULE Scheduler -----------------------------
(***************************************************************************)
(* src/sync/scheduler.ts: which tasks of a subscription the next backfill  *)
(* message runs.  The main task decides how the message ends; the other    *)
(* tasks use up spare GitHub quota and are best effort.                    *)
(*                                                                         *)
(* The RepoSyncStates of a subscription are a set of rows, each with its   *)
(* id, its repository and the status of each of its tasks.  Nothing keeps  *)
(* two rows from naming one repository.                                    *)
(***************************************************************************)
EXTENDS Integers, Sequences, FiniteSets, SequencesExt, FiniteSetsExt

CONSTANTS
  AllTaskTypes,       \* allTaskTypes of installation.ts, without "repository"
  SecurityTaskTypes,  \* the three alert tasks
  POOL_COEF           \* SUBTASKS_POOL_COEF

RESERVE == 500        \* RATE_LIMIT_QUOTA_PER_TASK_RESERVE
MAX_SUBTASKS == 100

TaskTypes == ToSet(AllTaskTypes)

ASSUME TaskTypesAssumption ==
  /\ AllTaskTypes \in Seq(STRING) /\ IsInjective(AllTaskTypes)
  /\ "repository" \notin TaskTypes
ASSUME PoolAssumption == POOL_COEF \in Nat \ {0}

\* The subset of a repository row the scheduler reads.
Status == {"null", "pending", "complete", "failed"}
Pending == {"null", "pending"}

Lesser(a, b) == IF a <= b THEN a ELSE b
Greater(a, b) == IF a >= b THEN a ELSE b

\* estimateNumberOfSubtasks, from what is left of the two GitHub quotas.
NumberOfSubtasks(core, graphql) ==
  LET availQuota == Lesser(core, graphql)
      availQuotaForSubtasks == Greater(0, availQuota - RESERVE)
  IN  Lesser(availQuotaForSubtasks \div RESERVE, MAX_SUBTASKS)

\* getTargetTasks; no targets means all of them.  The types are kept as a set: wherever
\* their order counts it is that of AllTaskTypes.
TargetTasks(targets) == IF targets = {} THEN TaskTypes ELSE TaskTypes \cap targets

\* ... less the alert tasks while the flag is off or the permission not accepted.
EligibleTasks(targets, securityAccepted) ==
  IF securityAccepted THEN TargetTasks(targets) ELSE TargetTasks(targets) \ SecurityTaskTypes

\* Mutant: a task that has been started is not taken up again.
NeverStartedTypes(row, types) == {t \in types : row.status[t] = "null"}

\* mapSyncStateToTasks: the task types of a row that are still to do.
PendingTypes(row, types) == {t \in types : row.status[t] \in Pending}

FirstType(types) ==
  AllTaskTypes[Min({i \in DOMAIN AllTaskTypes : AllTaskTypes[i] \in types})]

Task(type, row) == [task |-> type, repo |-> row.repo, id |-> row.id]
RepositoryTask == [task |-> "repository", repo |-> 0, id |-> 0]
NoTask == [task |-> "none", repo |-> 0, id |-> 0]

PendingTasks(row, types) == {Task(t, row) : t \in PendingTypes(row, types)}
TasksOfRows(rows, types) == UNION {PendingTasks(row, types) : row \in rows}

Waiting(rows, types) == {row \in rows : PendingTypes(row, types) # {}}

\* Mutant: the rows in the order of what is left to do in them.
BusierRows(row, rows) ==
  LET left(r) == Cardinality({t \in TaskTypes : r.status[t] \in Pending})
  IN  {r \in rows : left(r) > left(row) \/ (left(r) = left(row) /\ r.id > row.id)}

\* The rows that come before this one in the order of descending ids.
NewerRows(row, rows) == {r \in rows : r.id > row.id}

\* fetchPendingRepoSyncStates: rows with something to do, newest id first.
PendingRows(rows, types, limit) ==
  LET waiting == Waiting(rows, types)
  IN  {row \in waiting : Cardinality(NewerRows(row, waiting)) < limit}

\* Mutant: the first task of the first row that has not been started.
FirstUntouchedTask(found, types) ==
  IF found = {} THEN NoTask
  ELSE LET first == CHOOSE row \in found : NewerRows(row, found) = {}
           untouched == NeverStartedTypes(first, types)
       IN  IF untouched = {} THEN NoTask ELSE Task(FirstType(untouched), first)

FirstTask(found, types) ==
  IF found = {} THEN NoTask
  ELSE LET first == CHOOSE row \in found : NewerRows(row, found) = {}
       IN  Task(FirstType(PendingTypes(first, types)), first)

(***************************************************************************)
(* calculateNextTasksWithSubtasks.  Rows are pooled one by one until more  *)
(* than n * POOL_COEF tasks wait beside the main one; n of the pool are    *)
(* picked at random.                                                       *)
(***************************************************************************)
\* Mutant: rows are pooled only while the pool is smaller than n by two.
PoolTooSmall(found, types, n) ==
  LET main == FirstTask(found, types)
      before(row) == TasksOfRows(NewerRows(row, found), types) \ {main}
  IN  TasksOfRows({row \in found : Cardinality(before(row)) <= n - 2}, types) \ {main}

Pool(found, types, n) ==
  LET main == FirstTask(found, types)
      before(row) == TasksOfRows(NewerRows(row, found), types) \ {main}
      reached == {row \in found : Cardinality(before(row)) <= n * POOL_COEF}
  IN  TasksOfRows(reached, types) \ {main}

\* (The singletons below make TLC evaluate what they bind only once.)
OtherTasks(found, types, n) ==
  UNION {kSubset(Lesser(n, Cardinality(pool)), pool) : pool \in {Pool(found, types, n)}}

(***************************************************************************)
(* getNextTasks: every answer it may give, as [main, others].              *)
(***************************************************************************)
Answers(found, types, n) ==
  {[main |-> FirstTask(found, types), others |-> o] :
     o \in IF n > 0 THEN OtherTasks(found, types, n) ELSE {{}}}

\* Mutant: without subtasks the rows that are under way come first.
StartedRowsFirst(repositoryStatus, rows, types, n) ==
  LET started == {row \in rows : \E t \in types : row.status[t] = "pending"}
  IN  UNION {Answers(found, types, n) : found \in
        {IF n = 0 /\ started # {} THEN PendingRows(started, types, 1)
         ELSE PendingRows(rows, types, (n + 1) * POOL_COEF)}}

NextTasks(repositoryStatus, rows, types, n) ==
  IF repositoryStatus # "complete"
  THEN {[main |-> RepositoryTask, others |-> {}]}
  ELSE UNION {Answers(found, types, n) : found \in
         {PendingRows(rows, types, IF n > 0 THEN (n + 1) * POOL_COEF ELSE 1)}}
=============================================================================
