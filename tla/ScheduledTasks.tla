--------------------------- MODULE ScheduledTasks ---------------------------
(***************************************************************************)
(* The scheduler while the tasks it picks run and are reset, and while     *)
(* GitHub says that repositories come and go (src/github/repository.ts).   *)
(***************************************************************************)
EXTENDS Scheduler

CONSTANTS
  RepoOf,        \* the repository of each row, by its id
  MaxSubtasks    \* bound on the subtasks a message may add

ASSUME RowsAssumption == RepoOf \in Seq(Nat) /\ MaxSubtasks \in Nat

VARIABLE rows

Row(id, status) == [id |-> id, repo |-> RepoOf[id], status |-> status]

EligibleChoices ==
  {EligibleTasks(targets, accepted) : targets \in SUBSET TaskTypes, accepted \in BOOLEAN}

\* The reference: every task that is neither complete nor failed.
Unfinished(row, types) == {t \in types : row.status[t] \notin {"complete", "failed"}}
AllPending(types) == UNION {{Task(t, row) : t \in Unfinished(row, types)} : row \in rows}

AnyAnswer(types) == UNION {NextTasks("complete", rows, types, n) : n \in 0..MaxSubtasks}
MainTask(types) == (CHOOSE a \in AnyAnswer(types) : TRUE).main

\* updateRepo writes to every row of the repository.
SetStatus(task, status) ==
  {IF row.repo = task.repo THEN [row EXCEPT !.status[task.task] = status] ELSE row :
     row \in rows}

ScheduleInit == rows = {}

\* A repository of its own webhook: the new row has the highest id.
RepositoryIsCreated ==
  \E id \in DOMAIN RepoOf :
    /\ \A row \in rows : row.id < id
    /\ rows' = rows \cup {Row(id, [t \in TaskTypes |-> "null"])}

\* Every row of the repository goes.
RepositoryIsDeleted == \E row \in rows : rows' = {r \in rows : r.repo # row.repo}

\* One task of an answer is done with for this message.
RunTask(isMain) ==
  \E types \in EligibleChoices : \E answer \in AnyAnswer(types) :
    \E task \in IF isMain THEN {answer.main} \ {NoTask} ELSE answer.others :
      \E status \in {"pending", "complete", "failed"} : rows' = SetStatus(task, status)

\* A sync that targets one task resets it everywhere.
Reset ==
  \E t \in TaskTypes : rows' = {[row EXCEPT !.status[t] = "null"] : row \in rows}

ScheduleNext ==
  RepositoryIsCreated \/ RepositoryIsDeleted \/ RunTask(TRUE) \/ RunTask(FALSE) \/ Reset

ScheduleSpec == ScheduleInit /\ [][ScheduleNext]_rows

-----------------------------------------------------------------------------
\* "expect to receive exactly same main task as during the previous call": as long
\* as the main task is still to do, the progress and the removal of other tasks do
\* not put another in its place, so a retry retries the same thing.
SameMainTaskOnRetry ==
  [][rows # {} => \A types \in EligibleChoices :
       LET main == MainTask(types)
       IN  (main \in AllPending(types)' /\ AllPending(types)' \subseteq AllPending(types))
             => MainTask(types)' = main]_rows

\* "the mainTask is always same/deterministic" (scheduler.ts:146): whatever quota is left
\* and whatever is picked beside it, the main task is the same one, and there is one as
\* long as anything is left.  With quota for n subtasks a message takes n of them, or all
\* there are: the limit on the rows fetched and the early break never leave quota unused,
\* and no task is taken twice or beside itself.
QuotaIsUsed ==
  rows # {} => \A types \in EligibleChoices :
    /\ Cardinality({a.main : a \in AnyAnswer(types)}) = 1
    /\ MainTask(types) = NoTask <=> AllPending(types) = {}
    /\ \A n \in 0..MaxSubtasks : \A a \in NextTasks("complete", rows, types, n) :
         /\ a.others \subseteq AllPending(types) \ {a.main}
         /\ Cardinality(a.others) =
              Lesser(n, Greater(0, Cardinality(AllPending(types)) - 1))
=============================================================================
