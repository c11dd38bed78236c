--------------------------- MODULE BackfillProofs ---------------------------
(***************************************************************************)
(* Proofs about Backfill, for any workers, messages, repositories, pages,  *)
(* task types and quotas, any faults and any number of syncs: what is      *)
(* complete went to Jira; progress is never undone; and the backfill       *)
(* implements SyncLifecycle.                                               *)
(***************************************************************************)
EXTENDS Backfill, FiniteSetTheorems, WellFoundedInduction, TLAPS

-----------------------------------------------------------------------------
(* Types. *)

Got == [run : TaskRuns, more : BOOLEAN]

Execution ==
  [pc : Labels, msg : Msg \cup {None}, received : 0..MAX_RECEIVE,
   targets : TargetChoices \cup {{}}, timedOut : BOOLEAN, seen : Subscriptions,
   main : TaskRuns \cup {NoRun}, todo : SUBSET TaskRuns, got : SUBSET Got,
   outcome : TaskErrors \cup {"none", "next", "infrastructure"}]

Row == [id : 1..MaxRows, repo : Repo, status : [TaskTypes -> Status],
        cursor : [TaskTypes -> 0..PAGES]]

QueueOK == queue \in [Msg -> [where : {"absent", "visible", "inFlight", "dlq"},
                              received : 0..MAX_RECEIVE, targets : TargetChoices \cup {{}}]]

StarterOK == starter \in [pc : {"idle", "starting", "resettingTasks", "resettingRepository",
                                "resettingSubscription", "deletingRows", "sending"},
                          type : {"full", "partial"}, targets : TargetChoices \cup {{}},
                          seen : Subscriptions]

GhostOK ==
  /\ ghost = [sent |-> ghost.sent, overlapped |-> ghost.overlapped, raced |-> ghost.raced,
              met |-> ghost.met, twice |-> ghost.twice, startLost |-> ghost.startLost,
              dropped |-> ghost.dropped, orphaned |-> ghost.orphaned]
  /\ ghost.overlapped \in BOOLEAN

\* A row is known by its id; ids are given out one after another.
IdsOK ==
  /\ \E n \in 0..MaxRows : {r.id : r \in rows} = 1..n
  /\ \A r, q \in rows : r.id = q.id => r = q

\* Work is under way only while the worker is working on it, and a page in hand is there.
WorkOK(s) ==
  /\ s.pc \notin {"starting", "working"} => s.todo = {} /\ s.got = {}
  /\ \A got \in s.got : got.more <=> got.run.cursor < PagesOf(got.run.task)

TypeInv ==
  /\ sub \in Subscriptions /\ rows \subseteq Row /\ IdsOK
  /\ QueueOK /\ StarterOK /\ GhostOK
  /\ worker \in [Worker -> Execution] /\ \A w \in Worker : WorkOK(worker[w])
  /\ claim \subseteq Worker /\ deadFlag \in BOOLEAN
  /\ budget \in [faults : 0..MaxFaults, syncs : 0..MaxSyncs]

-----------------------------------------------------------------------------
(* What is in the tables, and what workers hold, has been delivered. *)

Delivered(task, repo, page) ==
  IF task = "repository" THEN Discovered(page) ELSE <<task, repo, page>> \in ghost.sent

\* Every page of a task up to the cursor.
Through(task, repo, cursor) ==
  \A page \in 1..PagesOf(task) : page <= cursor => Delivered(task, repo, page)

\* A task and its cursor, and a task that is complete.
StoredOK(task, repo, status, cursor) ==
  /\ Through(task, repo, cursor)
  /\ status = "complete" => Through(task, repo, PagesOf(task))

TablesOK ==
  /\ StoredOK("repository", 0, sub.repositoryStatus, sub.repositoryCursor)
  /\ \A r \in rows, t \in TaskTypes : StoredOK(t, r.repo, r.status[t], r.cursor[t])

HandOK(s) ==
  /\ s.pc = "planning" => Through("repository", 0, s.seen.repositoryCursor)
  /\ \A run \in s.todo : Through(run.task, run.repo, run.cursor)
  /\ \A got \in s.got : Through(got.run.task, got.run.repo, got.run.cursor + 1)

\* No job runs while a full sync resets the tables; an error handler there is at most one of
\* a job that had not begun.
QuietWorker(s) ==
  \/ s.pc \in {"idle", "received", "sending", "deleting"}
  \/ s.pc = "failing" /\ s.outcome = "infrastructure"

\* Nothing has changed in what the starter of a full sync read until it resets it.
ResetOK ==
  /\ starter.pc \in {"resettingSubscription", "deletingRows"} => starter.type = "full"
  /\ Resetting => \A w \in Worker : QuietWorker(worker[w])
  /\ starter.pc = "resettingSubscription" \/ (starter.pc = "starting" /\ starter.type = "full") =>
       /\ starter.seen.repositoryStatus = sub.repositoryStatus
       /\ starter.seen.repositoryCursor = sub.repositoryCursor
  /\ starter.pc = "deletingRows" => sub.repositoryStatus = "null" /\ sub.repositoryCursor = 0

Progress ==
  ghost.overlapped \/ (TablesOK /\ ResetOK /\ \A w \in Worker : HandOK(worker[w]))

-----------------------------------------------------------------------------
(* Numbers. *)

LEMMA MinFacts ==
  ASSUME NEW S \in SUBSET Nat, S # {}
  PROVE  Min(S) \in S /\ \A y \in S : Min(S) <= y
<1> DEFINE Less == OpToRel(<, Nat)
<1>1. IsWellFoundedOn(Less, Nat)
  BY NatLessThanWellFounded
<1>2. PICK x \in S : \A y \in S : ~(<<y, x>> \in Less)
  <2> HIDE DEF Less
  <2> QED BY <1>1, WFMin
<1>3. ASSUME NEW y \in S PROVE x <= y
  <2>1. ~(<<y, x>> \in Less)
    BY <1>2
  <2>2. ~(y < x)
    BY <2>1 DEF OpToRel
  <2> QED BY <2>2
<1> QED BY <1>2, <1>3 DEF Min

\* The greatest of numbers with a bound.
LEMMA GreatestExists ==
  ASSUME NEW n \in Nat, NEW S \in SUBSET (0..n), S # {}
  PROVE  \E x \in S : \A y \in S : x >= y
<1> DEFINE T == {n - x : x \in S}
<1>1. T \in SUBSET Nat /\ T # {}
  <2>1. \A x \in S : n - x \in Nat
    OBVIOUS
  <2> QED BY <2>1
<1>2. Min(T) \in T /\ \A y \in T : Min(T) <= y
  <2> HIDE DEF T
  <2> QED BY <1>1, MinFacts
<1>3. PICK x \in S : Min(T) = n - x
  BY <1>2
<1>4. \A y \in S : n - x <= n - y
  BY <1>2, <1>3
<1> QED BY <1>4

LEMMA PagesFacts ==
  /\ RepositoryPages \in Nat /\ Repo = 1..RepositoryPages /\ Repo \subseteq Nat \ {0}
  /\ \A task : PagesOf(task) \in Nat
  /\ PagesOf("repository") = RepositoryPages
  /\ \A t \in TaskTypes : t # "repository" /\ PagesOf(t) = PAGES
<1>1. RepositoryPages \in Nat /\ Repo = 1..RepositoryPages
  BY BackfillAssumption, FS_CardinalityType DEF RepositoryPages
<1>2. \A t \in TaskTypes : t # "repository"
  BY TaskTypesAssumption
<1> QED BY <1>1, <1>2, BackfillAssumption DEF PagesOf

-----------------------------------------------------------------------------
(* The scheduler. *)

LEMMA FirstTypeFacts ==
  ASSUME NEW types \in SUBSET TaskTypes, types # {}
  PROVE  FirstType(types) \in types
<1> DEFINE I == {i \in DOMAIN AllTaskTypes : AllTaskTypes[i] \in types}
<1>1. DOMAIN AllTaskTypes \subseteq Nat
  BY TaskTypesAssumption
<1>2. I \in SUBSET Nat /\ I # {}
  BY <1>1 DEF TaskTypes, ToSet
<1>3. Min(I) \in I
  <2> HIDE DEF I
  <2> QED BY <1>2, MinFacts
<1> QED BY <1>3 DEF FirstType

\* Among some rows there is one with the greatest id.
LEMMA NewestRow ==
  ASSUME rows \subseteq Row, NEW found \in SUBSET rows, found # {}
  PROVE  \E row \in found : NewerRows(row, found) = {}
<1> DEFINE ids == {r.id : r \in found}
<1>1. ids \in SUBSET (0..MaxRows) /\ ids # {} /\ MaxRows \in Nat
  BY BackfillAssumption DEF Row
<1>2. PICK x \in ids : \A y \in ids : x >= y
  <2> HIDE DEF ids
  <2> QED BY <1>1, GreatestExists
<1>3. PICK row \in found : row.id = x
  BY <1>2
<1>4. \A r \in found : ~(r.id > row.id)
  BY <1>1, <1>2, <1>3
<1> QED BY <1>4 DEF NewerRows

\* A task of some row that is still to do.
IsTaskOfRow(task) ==
  \E r \in rows, t \in TaskTypes : r.status[t] \in Pending /\ task = Task(t, r)

LEMMA TasksOfRowsFacts ==
  ASSUME NEW found \in SUBSET rows, NEW types \in SUBSET TaskTypes, NEW task \in TasksOfRows(found, types)
  PROVE  IsTaskOfRow(task)
BY DEF TasksOfRows, PendingTasks, PendingTypes, IsTaskOfRow

LEMMA FirstTaskFacts ==
  ASSUME rows \subseteq Row, NEW types \in SUBSET TaskTypes,
         NEW found \in SUBSET Waiting(rows, types), FirstTask(found, types) # NoTask
  PROVE  IsTaskOfRow(FirstTask(found, types))
<1> DEFINE first == CHOOSE row \in found : NewerRows(row, found) = {}
<1>1. found # {} /\ FirstTask(found, types) = Task(FirstType(PendingTypes(first, types)), first)
  BY DEF FirstTask
<1>2. first \in found
  <2>1. found \in SUBSET rows
    BY DEF Waiting
  <2> QED BY <1>1, <2>1, NewestRow
<1>3. first \in rows /\ PendingTypes(first, types) \in SUBSET TaskTypes /\ PendingTypes(first, types) # {}
  BY <1>2 DEF Waiting, PendingTypes
<1>4. FirstType(PendingTypes(first, types)) \in PendingTypes(first, types)
  BY <1>3, FirstTypeFacts
<1>5. PICK t : t = FirstType(PendingTypes(first, types))
  OBVIOUS
<1>6. t \in TaskTypes /\ first.status[t] \in Pending
  BY <1>3, <1>4, <1>5 DEF PendingTypes
<1> HIDE DEF first
<1> QED BY <1>1, <1>3, <1>5, <1>6 DEF IsTaskOfRow

\* What is picked is the discovery alone, while it is not complete, or tasks of rows.
LEMMA AnswerFacts ==
  ASSUME rows \subseteq Row, NEW types \in SUBSET TaskTypes, NEW status, NEW n \in Nat,
         NEW answer \in NextTasks(status, rows, types, n), answer.main # NoTask
  PROVE  \/ status # "complete" /\ answer.main = RepositoryTask /\ answer.others = {}
         \/ \A task \in answer.others \cup {answer.main} : IsTaskOfRow(task)
<1>1. CASE status # "complete" /\ answer = [main |-> RepositoryTask, others |-> {}]
  BY <1>1
<1>2. ASSUME NEW limit, answer \in Answers(PendingRows(rows, types, limit), types, n),
             NEW task \in answer.others \cup {answer.main}
      PROVE  IsTaskOfRow(task)
  <2> DEFINE found == PendingRows(rows, types, limit)
  <2>1. found \in SUBSET Waiting(rows, types) /\ found \in SUBSET rows
    BY DEF PendingRows, Waiting
  <2> HIDE DEF found
  <2>2. /\ answer.main = FirstTask(found, types)
        /\ answer.others \in OtherTasks(found, types, n) \/ answer.others = {}
    BY <1>2 DEF Answers, found
  <2>3. answer.others \subseteq Pool(found, types, n)
    BY <2>2 DEF OtherTasks, kSubset
  <2>4. Pool(found, types, n) \subseteq TasksOfRows(found, types)
    BY DEF Pool, TasksOfRows
  <2> QED BY <2>1, <2>2, <2>3, <2>4, TasksOfRowsFacts, FirstTaskFacts
<1> QED BY <1>1, <1>2 DEF NextTasks

-----------------------------------------------------------------------------
(* Rows. *)

\* Rows with the ids 1 to n are n rows.
LEMMA CountRows ==
  ASSUME NEW R, NEW n \in Nat, {r.id : r \in R} = 1..n, \A r, q \in R : r.id = q.id => r = q
  PROVE  Cardinality(R) = n
<1> DEFINE g == [i \in 1..n |-> CHOOSE r \in R : r.id = i]
<1>1. \A i \in 1..n : \E r \in R : r.id = i
  OBVIOUS
<1>2. \A i \in 1..n : g[i] \in R /\ g[i].id = i
  BY <1>1
<1>3. g \in [1..n -> R]
  BY <1>2
<1>4. \A i, j \in 1..n : g[i] = g[j] => i = j
  <2>1. SUFFICES ASSUME NEW i \in 1..n, NEW j \in 1..n, g[i] = g[j] PROVE i = j
    OBVIOUS
  <2>2. g[i].id = i /\ g[j].id = j
    BY <1>2
  <2> HIDE DEF g
  <2> QED BY <2>1, <2>2
<1>5. \A r \in R : \E i \in 1..n : g[i] = r
  <2>1. SUFFICES ASSUME NEW r \in R PROVE g[r.id] = r /\ r.id \in 1..n
    OBVIOUS
  <2>2. r.id \in 1..n
    OBVIOUS
  <2>3. g[r.id] \in R /\ g[r.id].id = r.id
    BY <1>2, <2>2
  <2> HIDE DEF g
  <2> QED BY <2>2, <2>3
<1>6. ExistsBijection(1..n, R)
  <2> HIDE DEF g
  <2>1. g \in Bijection(1..n, R)
    BY <1>3, <1>4, <1>5 DEF Bijection, Injection, Surjection, IsInjective
  <2> QED BY <2>1 DEF ExistsBijection
<1>7. IsFiniteSet(1..n) /\ Cardinality(1..n) = n
  BY FS_Interval
<1> QED BY <1>6, <1>7, FS_Bijection

\* The row of a repository that is discovered gets the next id.
LEMMA NewRowFacts ==
  ASSUME rows \subseteq Row, IdsOK, NEW repo \in Repo,
         rows' = rows \cup {NewRow(repo)}, Cardinality(rows') <= MaxRows
  PROVE  /\ rows' \subseteq Row /\ IdsOK'
         /\ NewRow(repo).repo = repo
         /\ \A t \in TaskTypes : NewRow(repo).status[t] = "null" /\ NewRow(repo).cursor[t] = 0
<1> DEFINE ids == {r.id : r \in rows}
           new == NewRow(repo)
<1>1. PICK n \in 0..MaxRows : ids = 1..n
  BY DEF IdsOK
<1>2. n \in Nat /\ MaxRows \in Nat
  BY BackfillAssumption
<1>3. Max({0} \cup ids) = n
  <2>1. n \in {0} \cup ids /\ \A y \in {0} \cup ids : n >= y
    BY <1>1, <1>2
  <2>2. \A x \in {0} \cup ids : (\A y \in {0} \cup ids : x >= y) => x = n
    BY <1>1, <1>2, <2>1
  <2> HIDE DEF ids
  <2> QED BY <2>1, <2>2 DEF Max
<1>4. /\ new = [id |-> n + 1, repo |-> repo, status |-> [t \in TaskTypes |-> "null"],
                cursor |-> [t \in TaskTypes |-> 0]]
  BY <1>2, <1>3 DEF NewRow
<1>5. new.id = n + 1 /\ new.repo = repo /\ new.status = [t \in TaskTypes |-> "null"]
      /\ new.cursor = [t \in TaskTypes |-> 0]
  BY <1>4
<1> HIDE DEF new
<1>6. {r.id : r \in rows'} = 1..(n + 1)
  BY <1>1, <1>2, <1>5 DEF new
<1>7. \A r, q \in rows' : r.id = q.id => r = q
  BY <1>1, <1>2, <1>5 DEF IdsOK, new
<1>8. Cardinality(rows') = n + 1
  BY <1>2, <1>6, <1>7, CountRows
<1>9. n + 1 \in 0..MaxRows /\ n + 1 \in 1..MaxRows
  BY <1>2, <1>8
<1>10. new \in Row
  BY <1>4, <1>9, BackfillAssumption DEF Row, Status
<1>11. IdsOK'
  BY <1>6, <1>7, <1>9 DEF IdsOK
<1> QED BY <1>5, <1>10, <1>11 DEF new

\* A write to the rows changes neither which there are nor their repositories.
LEMMA RewrittenRows ==
  ASSUME rows \subseteq Row, IdsOK, NEW f \in [rows -> Row], rows' = {f[r] : r \in rows},
         \A r \in rows : f[r].id = r.id
  PROVE  rows' \subseteq Row /\ IdsOK'
<1>1. {r.id : r \in rows'} = {r.id : r \in rows}
  OBVIOUS
<1>2. \A r, q \in rows' : r.id = q.id => r = q
  BY DEF IdsOK
<1> QED BY <1>1, <1>2 DEF IdsOK

-----------------------------------------------------------------------------
(* What steps do to the queue and the bounds. *)

\* What a step of one worker may do to the queue.
LEMMA SendTypes ==
  ASSUME QueueOK, NEW targets \in TargetChoices \cup {{}}, SendMessage(targets)
  PROVE  QueueOK'
<1>1. PICK m \in FreeMsgs : queue' = [queue EXCEPT ![m] =
                                 [where |-> "visible", received |-> 0, targets |-> targets]]
  BY DEF SendMessage
<1>2. 0 \in 0..MAX_RECEIVE
  BY BackfillAssumption
<1> QED BY <1>1, <1>2 DEF QueueOK, FreeMsgs

LEMMA DeletedTypes ==
  ASSUME QueueOK, NEW m \in Msg, queue' = [queue EXCEPT ![m] = Absent]
  PROVE  QueueOK'
<1>1. Absent \in [where : {"absent", "visible", "inFlight", "dlq"},
                  received : 0..MAX_RECEIVE, targets : TargetChoices \cup {{}}]
  BY BackfillAssumption DEF Absent
<1> QED BY <1>1 DEF QueueOK

LEMMA RetriedTypes ==
  ASSUME QueueOK, NEW m \in Msg \cup {None}, queue' = Retried(m)
  PROVE  QueueOK'
<1>1. CASE queue' = queue
  BY <1>1 DEF QueueOK
<1>2. CASE m \in Msg /\ queue' = [queue EXCEPT ![m].where = "visible"]
  BY <1>2 DEF QueueOK
<1> QED BY <1>1, <1>2 DEF Retried

LEMMA FaultTypes ==
  ASSUME budget \in [faults : 0..MaxFaults, syncs : 0..MaxSyncs], NEW kind, Fault(kind)
  PROVE  budget' \in [faults : 0..MaxFaults, syncs : 0..MaxSyncs]
BY BackfillAssumption DEF Fault

LEMMA NewSubscriptionTypes == NewSubscription \in Subscriptions
BY PagesFacts DEF NewSubscription, Subscriptions, SyncStatus, Status

LEMMA IdleTypes == Idle \in Execution /\ WorkOK(Idle) /\ HandOK(Idle) /\ QuietWorker(Idle)
<1>1. Idle \in Execution
  BY NewSubscriptionTypes, BackfillAssumption DEF Idle, Execution, Labels
<1> QED BY <1>1 DEF Idle, WorkOK, HandOK, QuietWorker

LEMMA InitTypes == Init => TypeInv
<1> SUFFICES ASSUME Init PROVE TypeInv
  OBVIOUS
<1>1. worker \in [Worker -> Execution] /\ \A w \in Worker : WorkOK(worker[w])
  BY IdleTypes DEF Init
<1>2. QueueOK
  BY BackfillAssumption DEF Init, QueueOK, Absent
<1>3. StarterOK /\ sub \in Subscriptions
  BY NewSubscriptionTypes DEF Init, StarterOK, NoStart
<1>4. rows \subseteq Row /\ IdsOK
  <2>1. rows = {} /\ 0 \in 0..MaxRows
    BY BackfillAssumption DEF Init
  <2>2. {r.id : r \in rows} = 1..0
    BY <2>1
  <2> QED BY <2>1, <2>2 DEF IdsOK
<1>5. GhostOK
  BY DEF Init, GhostOK
<1>6. budget \in [faults : 0..MaxFaults, syncs : 0..MaxSyncs]
  BY BackfillAssumption DEF Init
<1> QED BY <1>1, <1>2, <1>3, <1>4, <1>5, <1>6 DEF Init, TypeInv

\* The record of a worker, changed in the ways the steps change it.
LEMMA MovedRecord ==
  ASSUME NEW s \in Execution, NEW label \in Labels
  PROVE  LET x == [s EXCEPT !.pc = label]
         IN  /\ x \in Execution /\ x.pc = label /\ x.outcome = s.outcome /\ x.seen = s.seen
             /\ x.main = s.main /\ x.todo = s.todo /\ x.got = s.got
BY DEF Execution

LEMMA LeftRecord ==
  ASSUME NEW s \in Execution, NEW label \in Labels
  PROVE  LET x == [s EXCEPT !.pc = label, !.main = NoRun]
         IN  /\ x \in Execution /\ x.pc = label /\ x.outcome = s.outcome /\ x.seen = s.seen
             /\ x.todo = s.todo /\ x.got = s.got
BY DEF Execution

LEMMA FailedRecord ==
  ASSUME NEW s \in Execution
  PROVE  LET x == [Idle EXCEPT !.pc = "failing", !.outcome = "infrastructure",
                               !.msg = s.msg, !.received = s.received]
         IN  /\ x \in Execution /\ x.pc = "failing" /\ x.outcome = "infrastructure"
             /\ x.todo = {} /\ x.got = {}
<1>1. Idle \in Execution /\ Idle.todo = {} /\ Idle.got = {}
  BY IdleTypes DEF Idle
<1> QED BY <1>1 DEF Execution, Labels

LEMMA TimedOutRecord ==
  ASSUME NEW s \in Execution
  PROVE  LET x == [s EXCEPT !.timedOut = TRUE, !.msg = None]
         IN  /\ x \in Execution /\ x.pc = s.pc /\ x.todo = s.todo /\ x.got = s.got
             /\ x.main = s.main /\ x.outcome = s.outcome /\ x.seen = s.seen
BY DEF Execution

-----------------------------------------------------------------------------
(* Runs, and the writes to the tables. *)

LEMMA TaskRunFacts ==
  ASSUME NEW run \in TaskRuns
  PROVE  /\ run.cursor \in Nat /\ run.cursor <= PagesOf(run.task)
         /\ run.task \in TaskTypes \cup {"repository"}
         /\ run.task = "repository" => run.repo = 0
         /\ run.task # "repository" => run.repo \in Repo
<1>1. CASE \E c \in 0..RepositoryPages : run = Run(RepositoryTask, c)
  <2>1. PICK c \in 0..RepositoryPages : run = Run(RepositoryTask, c)
    BY <1>1
  <2>2. run.cursor = c /\ run.task = "repository" /\ run.repo = 0
    BY <2>1 DEF Run, RepositoryTask
  <2> QED BY <2>2, PagesFacts
<1>2. CASE run \in [task : TaskTypes, repo : Repo, id : 1..MaxRows, cursor : 0..PAGES]
  <2>1. run.task \in TaskTypes /\ run.repo \in Repo /\ run.cursor \in 0..PAGES
    BY <1>2
  <2> QED BY <2>1, PagesFacts, BackfillAssumption
<1> QED BY <1>1, <1>2 DEF TaskRuns

\* The run of a task that was picked has the cursor of the row it is of.
RunOfRow(run) ==
  \E r \in rows, t \in TaskTypes :
    /\ r.status[t] \in Pending
    /\ run = [task |-> t, repo |-> r.repo, id |-> r.id, cursor |-> r.cursor[t]]

LEMMA RunOfFacts ==
  ASSUME rows \subseteq Row, IdsOK, NEW c \in 0..RepositoryPages, NEW task,
         task = RepositoryTask \/ IsTaskOfRow(task)
  PROVE  /\ RunOf(task, c) \in TaskRuns
         /\ task = RepositoryTask => RunOf(task, c) = Run(RepositoryTask, c)
         /\ IsTaskOfRow(task) => RunOfRow(RunOf(task, c))
<1>1. CASE task = RepositoryTask
  <2>1. ~IsTaskOfRow(task)
    BY <1>1, TaskTypesAssumption DEF IsTaskOfRow, Task, RepositoryTask
  <2> QED BY <1>1, <2>1 DEF RunOf, RepositoryTask, TaskRuns
<1>2. CASE IsTaskOfRow(task)
  <2>1. PICK r \in rows, t \in TaskTypes : r.status[t] \in Pending /\ task = Task(t, r)
    BY <1>2 DEF IsTaskOfRow
  <2>2. task.id = r.id /\ task.task = t /\ task.repo = r.repo /\ t # "repository"
    BY <2>1, TaskTypesAssumption DEF Task
  <2>3. (CHOOSE q \in rows : q.id = task.id) = r
    BY <2>2 DEF IdsOK
  <2>4. RunOf(task, c) = [task |-> t, repo |-> r.repo, id |-> r.id, cursor |-> r.cursor[t]]
    BY <2>2, <2>3 DEF RunOf, Run
  <2>5. r \in Row
    OBVIOUS
  <2>6. r.repo \in Repo /\ r.id \in 1..MaxRows /\ r.cursor[t] \in 0..PAGES
    BY <2>5 DEF Row
  <2>7. task # RepositoryTask
    BY <2>2 DEF RepositoryTask
  <2> QED BY <2>1, <2>4, <2>6, <2>7 DEF TaskRuns, RunOfRow
<1> QED BY <1>1, <1>2

\* What updateRepo does to every row of the repository, and to no other.
Rewrites(f, run, status, moved) ==
  /\ f \in [rows -> Row] /\ rows' = {f[r] : r \in rows}
  /\ \A r \in rows :
       /\ f[r].id = r.id /\ f[r].repo = r.repo
       /\ \A t \in TaskTypes :
            IF r.repo = run.repo /\ t = run.task
            THEN /\ f[r].status[t] = status
                 /\ f[r].cursor[t] = IF moved THEN run.cursor + 1 ELSE r.cursor[t]
            ELSE f[r].status[t] = r.status[t] /\ f[r].cursor[t] = r.cursor[t]

LEMMA UpdateRepoFacts ==
  ASSUME sub \in Subscriptions, rows \subseteq Row, IdsOK,
         NEW run \in TaskRuns \cup {NoRun}, NEW status \in Status, NEW moved \in BOOLEAN,
         moved => run \in TaskRuns /\ run.cursor < PagesOf(run.task), UpdateRepo(run, status, moved)
  PROVE  /\ sub' \in Subscriptions /\ rows' \subseteq Row /\ IdsOK'
         /\ sub'.syncStatus = sub.syncStatus
         /\ run.task = "repository" =>
              /\ rows' = rows /\ sub'.repositoryStatus = status
              /\ sub'.repositoryCursor = IF moved THEN run.cursor + 1 ELSE sub.repositoryCursor
         /\ run.task # "repository" => sub' = sub /\ \E f : Rewrites(f, run, status, moved)
<1> DEFINE cursor == [old \in Nat |-> IF moved THEN run.cursor + 1 ELSE old]
<1>1. StoreRepo(run, status, cursor)
  BY DEF UpdateRepo
<1>2. \A old \in Nat : cursor[old] = IF moved THEN run.cursor + 1 ELSE old
  OBVIOUS
<1>3. moved => run.cursor + 1 \in 0..PagesOf(run.task) /\ run.task \in TaskTypes \cup {"repository"}
  <2>1. ASSUME moved PROVE run.cursor \in Nat /\ PagesOf(run.task) \in Nat
                           /\ run.task \in TaskTypes \cup {"repository"}
    BY <2>1, TaskRunFacts, PagesFacts
  <2> QED BY <2>1
<1> HIDE DEF cursor
<1>4. CASE run.task = "repository"
  <2>1. sub.repositoryCursor \in 0..RepositoryPages /\ sub.repositoryCursor \in Nat
    BY PagesFacts DEF Subscriptions
  <2>2. sub' = [sub EXCEPT !.repositoryStatus = status,
                           !.repositoryCursor = IF moved THEN run.cursor + 1 ELSE sub.repositoryCursor]
    BY <1>1, <1>2, <1>4, <2>1 DEF StoreRepo
  <2>3. (IF moved THEN run.cursor + 1 ELSE sub.repositoryCursor) \in 0..RepositoryPages
    BY <1>3, <1>4, <2>1, PagesFacts
  <2>4. rows' = rows
    BY <1>1, <1>4 DEF StoreRepo
  <2>5. /\ sub' \in Subscriptions /\ sub'.syncStatus = sub.syncStatus
        /\ sub'.repositoryStatus = status
        /\ sub'.repositoryCursor = IF moved THEN run.cursor + 1 ELSE sub.repositoryCursor
    BY <2>2, <2>3 DEF Subscriptions
  <2> QED BY <1>4, <2>4, <2>5 DEF IdsOK
<1>5. CASE run.task # "repository"
  <2> DEFINE t == run.task
             new(r) == [r EXCEPT !.status[t] = status, !.cursor[t] = cursor[r.cursor[t]]]
             f == [r \in rows |-> IF r.repo = run.repo THEN new(r) ELSE r]
  <2>1. sub' = sub /\ rows' = {IF r.repo = run.repo THEN new(r) ELSE r : r \in rows}
    BY <1>1, <1>5 DEF StoreRepo
  <2>2. ASSUME NEW r \in rows
        PROVE  /\ new(r) \in Row /\ new(r).id = r.id /\ new(r).repo = r.repo
               /\ \A u \in TaskTypes :
                    /\ new(r).status[u] = IF u = t THEN status ELSE r.status[u]
                    /\ new(r).cursor[u] = IF u # t THEN r.cursor[u]
                                          ELSE IF moved THEN run.cursor + 1 ELSE r.cursor[u]
    <3>1. r \in Row
      OBVIOUS
    <3>2. t \in TaskTypes => r.cursor[t] \in 0..PAGES /\ r.cursor[t] \in Nat
      BY <3>1, BackfillAssumption DEF Row
    <3>3. t \in TaskTypes => /\ cursor[r.cursor[t]] = (IF moved THEN run.cursor + 1 ELSE r.cursor[t])
                             /\ cursor[r.cursor[t]] \in 0..PAGES
      BY <1>2, <1>3, <3>2, PagesFacts
    <3>4. /\ new(r) \in Row /\ new(r).id = r.id /\ new(r).repo = r.repo
          /\ \A u \in TaskTypes :
               /\ new(r).status[u] = IF u = t THEN status ELSE r.status[u]
               /\ new(r).cursor[u] = IF u = t THEN cursor[r.cursor[t]] ELSE r.cursor[u]
      BY <3>1, <3>3 DEF Row
    <3> QED BY <3>3, <3>4
  <2> HIDE DEF new
  <2>3. f \in [rows -> Row] /\ rows' = {f[r] : r \in rows}
    BY <2>1, <2>2
  <2>4. \A r \in rows : f[r] = IF r.repo = run.repo THEN new(r) ELSE r
    OBVIOUS
  <2> HIDE DEF f
  <2>5. Rewrites(f, run, status, moved)
    BY <2>2, <2>3, <2>4 DEF Rewrites
  <2>6. rows' \subseteq Row /\ IdsOK'
    BY <2>3, <2>5, RewrittenRows DEF Rewrites
  <2> QED BY <1>5, <2>1, <2>5, <2>6
<1> QED BY <1>4, <1>5

-----------------------------------------------------------------------------
(* Steps of a job. *)

\* A worker's record that takes on no work: what it holds it held before.
Carries(s, x) ==
  /\ x.todo \subseteq s.todo /\ x.got \subseteq s.got
  /\ x.pc = "planning" => s.pc = "planning" /\ x.seen = s.seen
  /\ QuietWorker(s) => QuietWorker(x)

GoesOn(w) == \E x \in Execution : Becomes(w, x) /\ WorkOK(x) /\ Carries(worker[w], x)

LEMMA WorkOfExecution ==
  ASSUME TypeInv, NEW w \in Worker
  PROVE  /\ worker[w] \in Execution /\ WorkOK(worker[w])
         /\ worker[w].todo \subseteq TaskRuns /\ worker[w].got \subseteq Got
         /\ worker[w].main \in TaskRuns \cup {NoRun} /\ worker[w].seen \in Subscriptions
         /\ worker[w].msg \in Msg \cup {None} /\ worker[w].targets \in TargetChoices \cup {{}}
         /\ worker[w].outcome \in TaskErrors \cup {"none", "next", "infrastructure"}
         /\ worker[w].pc \in Labels /\ worker[w].received \in 0..MAX_RECEIVE
BY DEF TypeInv, Execution

LEMMA IdleGoesOn ==
  ASSUME TypeInv, NEW w \in Worker, Becomes(w, Idle)
  PROVE  GoesOn(w)
<1>1. Idle \in Execution /\ WorkOK(Idle) /\ QuietWorker(Idle)
  BY IdleTypes
<1>2. Idle.todo = {} /\ Idle.got = {} /\ Idle.pc = "idle"
  BY DEF Idle
<1> QED BY <1>1, <1>2 DEF GoesOn, Carries

LEMMA MovesOn ==
  ASSUME TypeInv, NEW w \in Worker, NEW label \in Labels \ {"planning"},
         worker[w].pc \in {"starting", "working"} => worker[w].todo = {} /\ worker[w].got = {},
         QuietWorker(worker[w]) => label \in {"idle", "received", "sending", "deleting"},
         Move(w, label) \/ Leave(w, label)
  PROVE  GoesOn(w)
<1> DEFINE s == worker[w]
<1>1. s \in Execution /\ WorkOK(s)
  BY WorkOfExecution
<1>2. PICK x : /\ x \in Execution /\ x.pc = label /\ x.todo = s.todo /\ x.got = s.got
               /\ x.outcome = s.outcome /\ Becomes(w, x)
  <2>1. CASE Move(w, label)
    BY <1>1, <2>1, MovedRecord DEF Move
  <2>2. CASE Leave(w, label)
    BY <1>1, <2>2, LeftRecord DEF Leave
  <2> QED BY <2>1, <2>2
<1>3. WorkOK(x)
  BY <1>1, <1>2 DEF WorkOK
<1>4. Carries(s, x)
  BY <1>2 DEF Carries, QuietWorker
<1> QED BY <1>2, <1>3, <1>4 DEF GoesOn

LEMMA MessagesGoOn ==
  ASSUME TypeInv, NEW w \in Worker,
         \/ \E m \in Msg : ReceiveMessage(w, m)
         \/ NotSure(w) \/ OtherWorkerDoingThisJob(w) \/ PostponeMessage(w) \/ DeleteMessage(w)
         \/ SendBackfillMessage(w) \/ HandlerTimesOut(w) \/ Crash(w)
  PROVE  GoesOn(w)
<1> DEFINE s == worker[w]
<1>1. s \in Execution /\ WorkOK(s)
  BY WorkOfExecution
<1>2. {"sending", "deleting"} \subseteq Labels \ {"planning"}
  BY DEF Labels
<1>3. ASSUME NEW m \in Msg, ReceiveMessage(w, m) PROVE GoesOn(w)
  <2> DEFINE x == [Idle EXCEPT !.pc = "received", !.msg = m, !.received = queue[m].received + 1,
                               !.targets = queue[m].targets]
  <2>1. queue[m].received + 1 \in 0..MAX_RECEIVE /\ queue[m].targets \in TargetChoices \cup {{}}
    <3>1. /\ queue[m].received \in 0..MAX_RECEIVE
          /\ queue[m].targets \in TargetChoices \cup {{}}
      BY DEF TypeInv, QueueOK
    <3>2. queue[m].received < MAX_RECEIVE /\ MAX_RECEIVE \in Nat
      BY <1>3, BackfillAssumption DEF ReceiveMessage
    <3> QED BY <3>1, <3>2
  <2>2. x \in Execution /\ x.todo = {} /\ x.got = {} /\ x.pc = "received"
    <3>1. Idle \in Execution /\ Idle.todo = {} /\ Idle.got = {}
      BY IdleTypes DEF Idle
    <3> QED BY <2>1, <3>1 DEF Execution, Labels
  <2>3. Becomes(w, x)
    BY <1>3 DEF ReceiveMessage
  <2> HIDE DEF x
  <2>4. WorkOK(x) /\ Carries(s, x)
    BY <2>2 DEF WorkOK, Carries, QuietWorker
  <2> QED BY <2>2, <2>3, <2>4 DEF GoesOn
<1>4. CASE NotSure(w) \/ OtherWorkerDoingThisJob(w) \/ PostponeMessage(w) \/ SendBackfillMessage(w)
  <2>1. s.pc \in {"received", "sending"}
    BY <1>4 DEF NotSure, OtherWorkerDoingThisJob, PostponeMessage, SendBackfillMessage
  <2>2. Becomes(w, Idle) \/ Move(w, "sending") \/ Move(w, "deleting")
    BY <1>4 DEF NotSure, OtherWorkerDoingThisJob, PostponeMessage, SendBackfillMessage
  <2> QED BY <1>2, <2>1, <2>2, IdleGoesOn, MovesOn
<1>5. CASE DeleteMessage(w) \/ Crash(w)
  BY <1>5, IdleGoesOn DEF DeleteMessage, Crash
<1>6. CASE HandlerTimesOut(w)
  <2> DEFINE x == [s EXCEPT !.timedOut = TRUE, !.msg = None]
  <2>1. x \in Execution /\ x.pc = s.pc /\ x.todo = s.todo /\ x.got = s.got
        /\ x.outcome = s.outcome /\ x.seen = s.seen
    BY <1>1, TimedOutRecord
  <2>2. Becomes(w, x)
    BY <1>6 DEF HandlerTimesOut
  <2> HIDE DEF x
  <2>3. WorkOK(x) /\ Carries(s, x)
    BY <1>1, <2>1 DEF WorkOK, Carries, QuietWorker
  <2> QED BY <2>1, <2>2, <2>3 DEF GoesOn
<1> QED BY <1>3, <1>4, <1>5, <1>6

\* A page in hand is done with.
LEMMA PageDone ==
  ASSUME TypeInv, NEW w \in Worker, NEW got \in worker[w].got,
         TaskStatusIsNotStored(w, got) \/ UpdateTaskStatus(w, got)
  PROVE  \E x \in Execution :
           /\ Becomes(w, x) /\ WorkOK(x) /\ x.pc = "working" /\ worker[w].pc = "working"
           /\ x.todo = worker[w].todo /\ x.got = worker[w].got \ {got}
<1> DEFINE s == worker[w]
<1>1. /\ s \in Execution /\ WorkOK(s) /\ s.got \subseteq Got
      /\ s.outcome \in TaskErrors \cup {"none", "next", "infrastructure"}
  BY WorkOfExecution
<1>2. PICK other \in {"unknown", "next"} :
        Becomes(w, [s EXCEPT !.got = @ \ {got}, !.outcome = IF got.run = s.main THEN other ELSE @])
  BY DEF TaskStatusIsNotStored, UpdateTaskStatus
<1> DEFINE outcome == IF got.run = s.main THEN other ELSE s.outcome
           x == [s EXCEPT !.got = s.got \ {got}, !.outcome = outcome]
<1>3. outcome \in TaskErrors \cup {"none", "next", "infrastructure"}
  BY <1>1 DEF TaskErrors
<1>4. x \in Execution /\ x.pc = s.pc /\ x.todo = s.todo /\ x.got = s.got \ {got}
  BY <1>1, <1>3 DEF Execution
<1>5. Becomes(w, x)
  BY <1>1, <1>2 DEF Becomes, Execution
<1>6. s.pc = "working"
  BY DEF TaskStatusIsNotStored, UpdateTaskStatus
<1> HIDE DEF x
<1>7. WorkOK(x)
  BY <1>1, <1>4, <1>6 DEF WorkOK
<1> QED BY <1>4, <1>5, <1>6, <1>7

\* What a job and an error handler do to the worker's record, beside the tables.
LEMMA JobsGoOn ==
  ASSUME TypeInv, NEW w \in Worker,
         \/ MarkSyncAsCompleteAndStop(w) \/ SetActive(w) \/ TasksSettle(w) \/ ReleaseClaim(w)
         \/ InfrastructureFails(w) \/ RescheduleRateLimited(w) \/ RetryMessage(w)
         \/ MarkCurrentTaskAsFailed(w) \/ MarkTaskAsComplete(w)
         \/ \E run \in worker[w].todo, error \in TaskErrors : TaskFails(w, run, error)
         \/ \E got \in worker[w].got : TaskStatusIsNotStored(w, got) \/ UpdateTaskStatus(w, got)
  PROVE  GoesOn(w)
<1> DEFINE s == worker[w]
<1>1. /\ s \in Execution /\ WorkOK(s) /\ s.todo \subseteq TaskRuns /\ s.got \subseteq Got
      /\ s.outcome \in TaskErrors \cup {"none", "next", "infrastructure"}
  BY WorkOfExecution
<1>2. {"sending", "deleting", "settled", "failing"} \subseteq Labels \ {"planning"}
      /\ "working" \in Labels
  BY DEF Labels
<1>3. CASE MarkSyncAsCompleteAndStop(w) \/ SetActive(w)
  <2>1. PICK label \in {"settled", "working"} :
          /\ Becomes(w, [s EXCEPT !.pc = label, !.seen = Idle.seen])
          /\ label = "settled" => s.pc = "stopping"
          /\ s.pc \in {"stopping", "starting"}
    BY <1>3 DEF MarkSyncAsCompleteAndStop, SetActive
  <2> DEFINE x == [s EXCEPT !.pc = label, !.seen = Idle.seen]
  <2>2. label \in Labels /\ Idle.seen \in Subscriptions
    BY <1>2, NewSubscriptionTypes DEF Idle
  <2>3. x \in Execution /\ x.pc = label /\ x.todo = s.todo /\ x.got = s.got
    BY <1>1, <2>2 DEF Execution
  <2> HIDE DEF x
  <2>4. WorkOK(x) /\ Carries(s, x)
    BY <1>1, <2>1, <2>3 DEF WorkOK, Carries, QuietWorker
  <2> QED BY <2>1, <2>3, <2>4 DEF GoesOn, x
<1>4. CASE TasksSettle(w)
  BY <1>2, <1>4, MovesOn DEF TasksSettle, QuietWorker
<1>5. CASE ReleaseClaim(w)
  <2>1. Becomes(w, Idle) \/ \E next \in {"sending", "deleting", "failing"} : Move(w, next) \/ Leave(w, next)
    BY <1>5 DEF ReleaseClaim
  <2> QED BY <1>2, <1>5, <2>1, IdleGoesOn, MovesOn DEF ReleaseClaim, QuietWorker
<1>6. CASE InfrastructureFails(w)
  <2> DEFINE x == [Idle EXCEPT !.pc = "failing", !.outcome = "infrastructure",
                               !.msg = s.msg, !.received = s.received]
  <2>1. x \in Execution /\ x.pc = "failing" /\ x.outcome = "infrastructure" /\ x.todo = {} /\ x.got = {}
    BY <1>1, FailedRecord
  <2>2. Becomes(w, Idle) \/ Becomes(w, x)
    BY <1>6 DEF InfrastructureFails
  <2> HIDE DEF x
  <2>3. WorkOK(x) /\ Carries(s, x)
    BY <2>1 DEF WorkOK, Carries, QuietWorker
  <2> QED BY <2>1, <2>2, <2>3, IdleGoesOn DEF GoesOn
<1>7. CASE RescheduleRateLimited(w)
  BY <1>2, <1>7, MovesOn DEF RescheduleRateLimited, QuietWorker
<1>8. CASE RetryMessage(w)
  BY <1>8, IdleGoesOn DEF RetryMessage
<1>9. CASE MarkCurrentTaskAsFailed(w)
  <2>1. s.pc = "failing" /\ (Leave(w, "deleting") \/ Leave(w, "sending"))
    BY <1>9 DEF MarkCurrentTaskAsFailed, MarksAs
  <2> QED BY <1>2, <2>1, MovesOn
<1>10. CASE MarkTaskAsComplete(w)
  <2>1. s.pc = "failing" /\ Leave(w, "sending")
    BY <1>10 DEF MarkTaskAsComplete
  <2> QED BY <1>2, <2>1, MovesOn
<1>11. ASSUME NEW run \in s.todo, NEW error \in TaskErrors, TaskFails(w, run, error) PROVE GoesOn(w)
  <2> DEFINE todo == s.todo \ {run}
             outcome == IF run = s.main THEN error ELSE s.outcome
             x == [s EXCEPT !.todo = todo, !.outcome = outcome]
  <2>1. /\ todo \in SUBSET TaskRuns
        /\ outcome \in TaskErrors \cup {"none", "next", "infrastructure"}
    BY <1>1
  <2>2. Becomes(w, [s EXCEPT !.todo = @ \ {run}, !.outcome = IF run = s.main THEN error ELSE @])
        /\ s.pc = "working"
    BY <1>11 DEF TaskFails
  <2>3. x \in Execution /\ x.pc = s.pc /\ x.todo = s.todo \ {run} /\ x.got = s.got /\ x.seen = s.seen
    BY <1>1, <2>1 DEF Execution
  <2>4. Becomes(w, x)
    BY <1>1, <2>2 DEF Becomes, Execution
  <2> HIDE DEF x
  <2>5. WorkOK(x) /\ Carries(s, x)
    BY <1>1, <2>2, <2>3 DEF WorkOK, Carries, QuietWorker
  <2> QED BY <2>3, <2>4, <2>5 DEF GoesOn
<1>12. ASSUME NEW got \in s.got, TaskStatusIsNotStored(w, got) \/ UpdateTaskStatus(w, got)
       PROVE  GoesOn(w)
  <2>1. PICK x \in Execution :
          /\ Becomes(w, x) /\ WorkOK(x) /\ x.pc = "working" /\ s.pc = "working"
          /\ x.todo = s.todo /\ x.got = s.got \ {got}
    BY <1>12, PageDone
  <2>2. Carries(s, x)
    BY <2>1 DEF Carries, QuietWorker
  <2> QED BY <2>1, <2>2 DEF GoesOn
<1> QED BY <1>3, <1>4, <1>5, <1>6, <1>7, <1>8, <1>9, <1>10, <1>11, <1>12

-----------------------------------------------------------------------------
(* Types are kept. *)

\* Whatever else a step does, it keeps what the rest of the state is.
RestOK ==
  /\ sub \in Subscriptions /\ rows \subseteq Row /\ IdsOK
  /\ QueueOK /\ StarterOK /\ GhostOK
  /\ claim \subseteq Worker /\ deadFlag \in BOOLEAN
  /\ budget \in [faults : 0..MaxFaults, syncs : 0..MaxSyncs]

WorkersOK == worker \in [Worker -> Execution] /\ \A w \in Worker : WorkOK(worker[w])

LEMMA WorkersGoOn ==
  ASSUME TypeInv, NEW w \in Worker, NEW x \in Execution, WorkOK(x), Becomes(w, x)
  PROVE  WorkersOK' /\ worker'[w] = x /\ \A v \in Worker \ {w} : worker'[v] = worker[v]
BY DEF TypeInv, WorkersOK, Becomes

LEMMA GoingOnTypes ==
  ASSUME TypeInv, NEW w \in Worker, GoesOn(w)
  PROVE  WorkersOK'
BY WorkersGoOn DEF GoesOn

LEMMA SameRest ==
  ASSUME TypeInv
  PROVE  /\ UNCHANGED sub => sub' \in Subscriptions
         /\ UNCHANGED rows => rows' \subseteq Row /\ IdsOK'
         /\ UNCHANGED queue => QueueOK'
         /\ UNCHANGED starter => StarterOK'
         /\ UNCHANGED ghost => GhostOK'
         /\ UNCHANGED claim => claim' \subseteq Worker
         /\ UNCHANGED deadFlag => deadFlag' \in BOOLEAN
         /\ UNCHANGED budget => budget' \in [faults : 0..MaxFaults, syncs : 0..MaxSyncs]
         /\ UNCHANGED worker => WorkersOK'
BY DEF TypeInv, IdsOK, QueueOK, StarterOK, GhostOK, WorkersOK

\* The ghost is changed one field at a time.
LEMMA GhostTypes ==
  ASSUME GhostOK, NEW b \in BOOLEAN, NEW c, NEW d
  PROVE  /\ (ghost' = [ghost EXCEPT !.overlapped = b, !.met = c]) => GhostOK'
         /\ (ghost' = [ghost EXCEPT !.sent = c]) => GhostOK'
         /\ (ghost' = [ghost EXCEPT !.overlapped = b]) => GhostOK'
         /\ (ghost' = [ghost EXCEPT !.raced = c]) => GhostOK'
         /\ (ghost' = [ghost EXCEPT !.raced = c, !.sent = d]) => GhostOK'
         /\ (ghost' = [ghost EXCEPT !.twice = c]) => GhostOK'
         /\ (ghost' = [ghost EXCEPT !.dropped = c]) => GhostOK'
         /\ (ghost' = [ghost EXCEPT !.orphaned = c]) => GhostOK'
         /\ (ghost' = [ghost EXCEPT !.startLost = c]) => GhostOK'
BY DEF GhostOK

LEMMA MessageTypes ==
  ASSUME TypeInv, NEW w \in Worker,
         \/ \E m \in Msg : ReceiveMessage(w, m)
         \/ NotSure(w) \/ OtherWorkerDoingThisJob(w) \/ PostponeMessage(w) \/ DeleteMessage(w)
         \/ SendBackfillMessage(w) \/ HandlerTimesOut(w) \/ Crash(w)
  PROVE  RestOK'
<1> DEFINE s == worker[w]
<1> USE DEF RestOK
<1>1. QueueOK /\ GhostOK /\ budget \in [faults : 0..MaxFaults, syncs : 0..MaxSyncs]
  BY DEF TypeInv
<1>2. s.msg \in Msg \cup {None} /\ s.targets \in TargetChoices \cup {{}}
  BY WorkOfExecution
<1>3. ASSUME NEW m \in Msg, ReceiveMessage(w, m) PROVE RestOK'
  <2>1. queue[m].received \in 0..MAX_RECEIVE /\ queue[m].received < MAX_RECEIVE
        /\ MAX_RECEIVE \in Nat
    BY <1>1, <1>3, BackfillAssumption DEF ReceiveMessage, QueueOK
  <2> DEFINE y == [where |-> "inFlight", received |-> queue[m].received + 1,
                   targets |-> queue[m].targets]
  <2>2. queue' = [queue EXCEPT ![m] = y]
    BY <1>3 DEF ReceiveMessage
  <2>3. y \in [where : {"absent", "visible", "inFlight", "dlq"},
               received : 0..MAX_RECEIVE, targets : TargetChoices \cup {{}}]
    <3>1. queue[m].received + 1 \in 0..MAX_RECEIVE
      BY <2>1
    <3> QED BY <1>1, <3>1 DEF QueueOK
  <2> HIDE DEF y
  <2>4. QueueOK'
    BY <1>1, <2>2, <2>3 DEF QueueOK
  <2> QED BY <1>3, <2>4, SameRest DEF ReceiveMessage
<1>4. CASE NotSure(w)
  BY <1>4, SameRest DEF NotSure
<1>5. CASE OtherWorkerDoingThisJob(w)
  <2>1. ghost' = [ghost EXCEPT !.dropped = TRUE] \/ ghost' = ghost
    BY <1>5 DEF OtherWorkerDoingThisJob
  <2>2. GhostOK'
    BY <1>1, <2>1, GhostTypes, SameRest
  <2> QED BY <1>5, <2>2, SameRest DEF OtherWorkerDoingThisJob
<1>6. CASE PostponeMessage(w)
  BY <1>1, <1>2, <1>6, SendTypes, FaultTypes, SameRest DEF PostponeMessage
<1>7. CASE DeleteMessage(w)
  <2>1. queue' = queue \/ queue' = [queue EXCEPT ![s.msg] = Absent]
    BY <1>7 DEF DeleteMessage
  <2>2. CASE s.msg \in Msg
    BY <1>1, <1>7, <2>1, <2>2, DeletedTypes, FaultTypes, SameRest DEF DeleteMessage
  <2>3. CASE s.msg = None
    <3>1. QueueOK'
      BY <1>1, <2>1, <2>3, BackfillAssumption DEF QueueOK
    <3> QED BY <1>1, <1>7, <3>1, FaultTypes, SameRest DEF DeleteMessage
  <2> QED BY <1>2, <2>2, <2>3
<1>8. CASE SendBackfillMessage(w)
  BY <1>1, <1>2, <1>8, SendTypes, SameRest DEF SendBackfillMessage
<1>9. CASE HandlerTimesOut(w)
  BY <1>1, <1>2, <1>9, RetriedTypes, FaultTypes, SameRest DEF HandlerTimesOut
<1>10. CASE Crash(w)
  <2>1. claim' \subseteq Worker /\ deadFlag' \in BOOLEAN
    BY <1>10 DEF Crash, TypeInv
  <2> QED BY <1>1, <1>10, <2>1, FaultTypes, SameRest DEF Crash
<1> QED BY <1>3, <1>4, <1>5, <1>6, <1>7, <1>8, <1>9, <1>10

\* The job begins; and it takes a snapshot of the subscription.
LEMMA BegunWork ==
  ASSUME TypeInv, NEW w \in Worker, ClaimSync(w) \/ ReadSubscription(w)
  PROVE  \E x \in Execution :
           /\ Becomes(w, x) /\ WorkOK(x)
           /\ x.todo = {} /\ x.got = {}
           /\ ClaimSync(w) => x.pc = "claimed"
           /\ ReadSubscription(w) => x.pc = "planning" /\ x.seen = sub
<1> DEFINE s == worker[w]
<1>1. s \in Execution /\ WorkOK(s) /\ {"claimed", "planning"} \subseteq Labels /\ sub \in Subscriptions
  BY WorkOfExecution DEF Labels, TypeInv
<1>2. CASE ClaimSync(w)
  <2>1. s.pc = "received" /\ Move(w, "claimed") /\ ~ReadSubscription(w)
    BY <1>2 DEF ClaimSync, ReadSubscription
  <2> DEFINE x == [s EXCEPT !.pc = "claimed"]
  <2>2. x \in Execution /\ x.pc = "claimed" /\ x.todo = s.todo /\ x.got = s.got /\ Becomes(w, x)
    BY <1>1, <2>1, MovedRecord DEF Move
  <2> HIDE DEF x
  <2> QED BY <1>1, <2>1, <2>2 DEF WorkOK
<1>3. CASE ReadSubscription(w)
  <2> DEFINE x == [s EXCEPT !.pc = "planning", !.seen = sub]
  <2>1. s.pc = "claimed" /\ Becomes(w, x) /\ ~ClaimSync(w)
    BY <1>3 DEF ClaimSync, ReadSubscription
  <2>2. x \in Execution /\ x.pc = "planning" /\ x.todo = s.todo /\ x.got = s.got /\ x.seen = sub
    BY <1>1 DEF Execution
  <2> HIDE DEF x
  <2> QED BY <1>1, <2>1, <2>2 DEF WorkOK
<1> QED BY <1>2, <1>3

\* The runs of a job start at the cursors that were read.
Planned(s, runs) ==
  \/ s.seen.repositoryStatus # "complete" /\ runs = {Run(RepositoryTask, s.seen.repositoryCursor)}
  \/ \A run \in runs : RunOfRow(run)

LEMMA PlannedWork ==
  ASSUME TypeInv, NEW w \in Worker, PlanTasks(w)
  PROVE  \/ GoesOn(w)
         \/ \E x \in Execution :
              /\ Becomes(w, x) /\ WorkOK(x) /\ x.pc = "starting" /\ x.got = {}
              /\ Planned(worker[w], x.todo)
<1> DEFINE s == worker[w]
           types == EligibleTasks(s.targets, TRUE)
           run(task) == RunOf(task, s.seen.repositoryCursor)
<1>1. /\ s \in Execution /\ WorkOK(s) /\ s.seen.repositoryCursor \in 0..RepositoryPages
      /\ s.pc = "planning" /\ s.todo = {} /\ s.got = {}
  BY WorkOfExecution DEF PlanTasks, Subscriptions, WorkOK
<1>a. PICK n \in 0..MaxSubtasks :
        \E answer \in NextTasks(s.seen.repositoryStatus, rows, types, n) :
          IF answer.main = NoTask THEN Move(w, "stopping")
          ELSE Becomes(w, [s EXCEPT !.pc = "starting", !.main = run(answer.main),
                                    !.todo = {run(t) : t \in answer.others \cup {answer.main}}])
  BY DEF PlanTasks
<1>2. PICK answer \in NextTasks(s.seen.repositoryStatus, rows, types, n) :
        IF answer.main = NoTask THEN Move(w, "stopping")
        ELSE Becomes(w, [s EXCEPT !.pc = "starting", !.main = run(answer.main),
                                  !.todo = {run(t) : t \in answer.others \cup {answer.main}}])
  BY <1>a
<1>3. CASE answer.main = NoTask
  BY <1>1, <1>2, <1>3, MovesOn DEF Labels, QuietWorker
<1>4. CASE answer.main # NoTask
  <2> DEFINE tasks == answer.others \cup {answer.main}
             main == run(answer.main)
             todo == {run(t) : t \in tasks}
             x == [s EXCEPT !.pc = "starting", !.main = main, !.todo = todo]
  <2>1. types \in SUBSET TaskTypes
    BY DEF EligibleTasks, TargetTasks
  <2>2. \/ s.seen.repositoryStatus # "complete" /\ tasks = {RepositoryTask}
        \/ \A t \in tasks : IsTaskOfRow(t)
    <3>1. rows \subseteq Row /\ n \in Nat
      BY DEF TypeInv
    <3>2. \/ s.seen.repositoryStatus # "complete" /\ answer.main = RepositoryTask /\ answer.others = {}
          \/ \A t \in answer.others \cup {answer.main} : IsTaskOfRow(t)
      <4> HIDE DEF types
      <4> QED BY <1>2, <1>4, <2>1, <3>1, AnswerFacts
    <3> QED BY <3>2
  <2>3. \A t \in tasks :
          /\ run(t) \in TaskRuns
          /\ t = RepositoryTask => run(t) = Run(RepositoryTask, s.seen.repositoryCursor)
          /\ IsTaskOfRow(t) => RunOfRow(run(t))
    BY <1>1, <2>2, RunOfFacts DEF TypeInv
  <2>4. main \in TaskRuns /\ todo \in SUBSET TaskRuns /\ Planned(s, todo)
    <3>1. main \in TaskRuns /\ todo \in SUBSET TaskRuns
      BY <2>3
    <3>2. CASE s.seen.repositoryStatus # "complete" /\ tasks = {RepositoryTask}
      BY <2>3, <3>2 DEF Planned
    <3>3. CASE \A t \in tasks : IsTaskOfRow(t)
      BY <2>3, <3>3 DEF Planned
    <3> QED BY <2>2, <3>1, <3>2, <3>3
  <2>5. Becomes(w, x)
    BY <1>2, <1>4
  <2> HIDE DEF main, todo
  <2>6. x \in Execution /\ x.pc = "starting" /\ x.todo = todo /\ x.got = s.got
    BY <1>1, <2>4 DEF Execution, Labels
  <2> HIDE DEF x
  <2>7. WorkOK(x)
    BY <1>1, <2>6 DEF WorkOK
  <2> QED BY <1>1, <2>4, <2>5, <2>6, <2>7
<1> QED BY <1>3, <1>4

\* A page in hand.
LEMMA FetchedWork ==
  ASSUME TypeInv, NEW w \in Worker, NEW run \in worker[w].todo, FetchPage(w, run)
  PROVE  /\ run \in TaskRuns
         /\ \E x \in Execution :
              /\ Becomes(w, x) /\ WorkOK(x) /\ x.pc = "working"
              /\ x.todo = worker[w].todo \ {run}
              /\ \E more : x.got = worker[w].got \cup {[run |-> run, more |-> more]}
<1> DEFINE s == worker[w]
           more == run.cursor + 1 <= PagesOf(run.task)
           got == [run |-> run, more |-> more]
           x == [s EXCEPT !.todo = s.todo \ {run}, !.got = s.got \cup {got}]
<1>1. s \in Execution /\ WorkOK(s) /\ s.todo \subseteq TaskRuns /\ s.got \subseteq Got
      /\ s.pc = "working"
  BY WorkOfExecution DEF FetchPage
<1>2. run \in TaskRuns /\ (more <=> run.cursor < PagesOf(run.task)) /\ more \in BOOLEAN
  <2>1. run \in TaskRuns /\ run.cursor \in Nat /\ PagesOf(run.task) \in Nat
    BY <1>1, TaskRunFacts, PagesFacts
  <2> QED BY <2>1
<1>3. Becomes(w, x)
  BY <1>1 DEF FetchPage, Becomes, Execution
<1> HIDE DEF more
<1>4. s.todo \ {run} \in SUBSET TaskRuns /\ s.got \cup {got} \in SUBSET Got
  BY <1>1, <1>2 DEF Got
<1>5. x \in Execution /\ x.pc = s.pc /\ x.todo = s.todo \ {run} /\ x.got = s.got \cup {got}
  BY <1>1, <1>4 DEF Execution
<1> HIDE DEF x
<1>6. WorkOK(x)
  BY <1>1, <1>2, <1>5 DEF WorkOK
<1> QED BY <1>1, <1>2, <1>3, <1>5, <1>6

\* A field of the subscription is written.
LEMMA SavedTypes ==
  ASSUME sub \in Subscriptions, NEW seen, NEW status \in SyncStatus,
         sub' = Saved(seen, "syncStatus", status)
  PROVE  /\ sub' \in Subscriptions
         /\ sub'.repositoryStatus = sub.repositoryStatus
         /\ sub'.repositoryCursor = sub.repositoryCursor
BY DEF Saved, Subscriptions

\* The task of a worker whose job failed.
LEMMA StoredTypes ==
  ASSUME TypeInv, NEW w \in Worker,
         \/ MarkCurrentTaskAsFailed(w) \/ MarkTaskAsComplete(w)
         \/ \E got \in worker[w].got : UpdateTaskStatus(w, got)
  PROVE  sub' \in Subscriptions /\ rows' \subseteq Row /\ IdsOK'
<1> DEFINE s == worker[w]
<1>1. sub \in Subscriptions /\ rows \subseteq Row /\ IdsOK
  BY DEF TypeInv
<1>2. s.main \in TaskRuns \cup {NoRun} /\ s.got \subseteq Got
  BY WorkOfExecution
<1>3. {"failed", "complete", "pending"} \subseteq Status /\ "FAILED" \in SyncStatus
  BY DEF Status, SyncStatus
<1>4. CASE MarkCurrentTaskAsFailed(w)
  <2>1. CASE s.main.task = "repository"
    <3>1. sub' = [sub EXCEPT !.repositoryStatus = "failed", !.syncStatus = "FAILED"] /\ UNCHANGED rows
      BY <1>4, <2>1 DEF MarkCurrentTaskAsFailed, MarksAs
    <3> QED BY <1>1, <1>3, <3>1, SameRest DEF Subscriptions
  <2>2. CASE s.main.task # "repository"
    <3>1. UpdateRepo(s.main, "failed", FALSE)
      BY <1>4, <2>2 DEF MarkCurrentTaskAsFailed, MarksAs
    <3> QED BY <1>1, <1>2, <1>3, <3>1, UpdateRepoFacts
  <2> QED BY <2>1, <2>2
<1>5. CASE MarkTaskAsComplete(w)
  <2>1. UpdateRepo(s.main, "complete", FALSE)
    BY <1>5 DEF MarkTaskAsComplete
  <2> QED BY <1>1, <1>2, <1>3, <2>1, UpdateRepoFacts
<1>6. ASSUME NEW got \in s.got, UpdateTaskStatus(w, got)
      PROVE  sub' \in Subscriptions /\ rows' \subseteq Row /\ IdsOK'
  <2>1. got \in Got /\ (got.more <=> got.run.cursor < PagesOf(got.run.task))
    BY <1>2, WorkOfExecution DEF WorkOK
  <2>2. got.run \in TaskRuns /\ got.more \in BOOLEAN
    BY <2>1 DEF Got
  <2> DEFINE status == IF got.more THEN "pending" ELSE "complete"
  <2>3. status \in Status
    BY <1>3
  <2>4. UpdateRepo(got.run, status, got.more)
    BY <1>6 DEF UpdateTaskStatus
  <2> HIDE DEF status
  <2> QED BY <1>1, <2>1, <2>2, <2>3, <2>4, UpdateRepoFacts
<1> QED BY <1>4, <1>5, <1>6

LEMMA JobTypes ==
  ASSUME TypeInv, NEW w \in Worker,
         \/ ClaimSync(w) \/ ReadSubscription(w) \/ PlanTasks(w)
         \/ MarkSyncAsCompleteAndStop(w) \/ SetActive(w)
         \/ \E run \in worker[w].todo : FetchPage(w, run)
         \/ \E got \in worker[w].got : UpdateTaskStatus(w, got)
         \/ TasksSettle(w) \/ ReleaseClaim(w) \/ InfrastructureFails(w)
         \/ \E run \in worker[w].todo, error \in TaskErrors : TaskFails(w, run, error)
         \/ \E got \in worker[w].got : TaskStatusIsNotStored(w, got)
  PROVE  RestOK'
<1> DEFINE s == worker[w]
<1> USE DEF RestOK
<1>1. /\ sub \in Subscriptions /\ rows \subseteq Row /\ IdsOK /\ GhostOK
      /\ ghost.overlapped \in BOOLEAN /\ claim \subseteq Worker /\ deadFlag \in BOOLEAN
      /\ budget \in [faults : 0..MaxFaults, syncs : 0..MaxSyncs]
  BY DEF TypeInv, GhostOK
<1>2. CASE ClaimSync(w)
  <2>1. GhostOK'
    <3> DEFINE b == ghost.overlapped \/ Resetting
    <3>1. b \in BOOLEAN /\ ghost' = [ghost EXCEPT !.overlapped = b, !.met = ghost.met \/ Meets]
      BY <1>1, <1>2 DEF ClaimSync
    <3> HIDE DEF b
    <3> QED BY <1>1, <3>1, GhostTypes
  <2>2. claim' \subseteq Worker /\ deadFlag' \in BOOLEAN
    BY <1>1, <1>2 DEF ClaimSync
  <2> QED BY <1>2, <2>1, <2>2, SameRest DEF ClaimSync
<1>3. CASE ReadSubscription(w) \/ PlanTasks(w) \/ TasksSettle(w)
  BY <1>3, SameRest DEF ReadSubscription, PlanTasks, TasksSettle
<1>4. CASE MarkSyncAsCompleteAndStop(w)
  <2>1. sub' \in Subscriptions
    BY <1>1, <1>4, SavedTypes DEF MarkSyncAsCompleteAndStop, SyncStatus
  <2> QED BY <1>4, <2>1, SameRest DEF MarkSyncAsCompleteAndStop
<1>5. CASE SetActive(w)
  <2>1. sub' \in Subscriptions
    BY <1>1, <1>5, SavedTypes DEF SetActive, SyncStatus
  <2>2. ghost' = [ghost EXCEPT !.orphaned = ghost.orphaned \/ worker[w].timedOut]
    BY <1>5 DEF SetActive
  <2>3. GhostOK'
    BY <1>1, <2>2, GhostTypes
  <2> QED BY <1>5, <2>1, <2>3, SameRest DEF SetActive
<1>6. ASSUME NEW run \in s.todo, FetchPage(w, run) PROVE RestOK'
  <2>1. run \in TaskRuns
    BY <1>6, FetchedWork
  <2>2. rows' \subseteq Row /\ IdsOK'
    <3>1. CASE run.task = "repository" /\ run.cursor + 1 <= PagesOf(run.task)
      <4>1. run.cursor + 1 \in Repo
        BY <2>1, <3>1, TaskRunFacts, PagesFacts
      <4>2. rows' = rows \cup {NewRow(run.cursor + 1)} /\ Cardinality(rows') <= MaxRows
        BY <1>6, <3>1 DEF FetchPage
      <4> QED BY <1>1, <4>1, <4>2, NewRowFacts
    <3>2. CASE ~(run.task = "repository" /\ run.cursor + 1 <= PagesOf(run.task))
      BY <1>6, <3>2, SameRest DEF FetchPage
    <3> QED BY <3>1, <3>2
  <2>3. \/ ghost' = ghost
        \/ \E c : ghost' = [ghost EXCEPT !.twice = c]
        \/ \E c : ghost' = [ghost EXCEPT !.sent = c]
    BY <1>6 DEF FetchPage
  <2>4. GhostOK'
    BY <1>1, <2>3, GhostTypes, SameRest
  <2> QED BY <1>6, <2>2, <2>4, SameRest DEF FetchPage
<1>7. ASSUME NEW got \in s.got, UpdateTaskStatus(w, got) PROVE RestOK'
  <2>1. sub' \in Subscriptions /\ rows' \subseteq Row /\ IdsOK'
    BY <1>7, StoredTypes
  <2> QED BY <1>7, <2>1, SameRest DEF UpdateTaskStatus
<1>8. CASE ReleaseClaim(w)
  <2>1. claim' \subseteq Worker /\ deadFlag' \in BOOLEAN
    BY <1>1, <1>8 DEF ReleaseClaim
  <2> QED BY <1>8, <2>1, SameRest DEF ReleaseClaim
<1>9. CASE InfrastructureFails(w)
  <2>1. claim' \subseteq Worker /\ deadFlag' \in BOOLEAN
    BY <1>1, <1>9 DEF InfrastructureFails
  <2> QED BY <1>1, <1>9, <2>1, FaultTypes, SameRest DEF InfrastructureFails
<1>10. ASSUME NEW run \in s.todo, NEW error \in TaskErrors, TaskFails(w, run, error) PROVE RestOK'
  BY <1>1, <1>10, FaultTypes, SameRest DEF TaskFails
<1>11. ASSUME NEW got \in s.got, TaskStatusIsNotStored(w, got) PROVE RestOK'
  BY <1>1, <1>11, FaultTypes, SameRest DEF TaskStatusIsNotStored
<1> QED BY <1>2, <1>3, <1>4, <1>5, <1>6, <1>7, <1>8, <1>9, <1>10, <1>11

LEMMA ErrorHandlerTypes ==
  ASSUME TypeInv, NEW w \in Worker,
         \/ MarkCurrentTaskAsFailed(w) \/ MarkTaskAsComplete(w)
         \/ RescheduleRateLimited(w) \/ RetryMessage(w)
  PROVE  RestOK'
<1> USE DEF RestOK
<1>1. GhostOK /\ QueueOK /\ worker[w].msg \in Msg \cup {None}
  BY WorkOfExecution DEF TypeInv
<1>2. CASE MarkCurrentTaskAsFailed(w)
  <2>1. ghost' = [ghost EXCEPT !.raced = ghost.raced \/ claim # {}]
    BY <1>2 DEF MarkCurrentTaskAsFailed, MarksAs
  <2>2. GhostOK'
    BY <1>1, <2>1, GhostTypes
  <2> QED BY <1>2, <2>2, StoredTypes, SameRest DEF MarkCurrentTaskAsFailed, MarksAs
<1>3. CASE MarkTaskAsComplete(w)
  <2>1. \E c : ghost' = [ghost EXCEPT !.raced = ghost.raced \/ claim # {}, !.sent = c]
    BY <1>3 DEF MarkTaskAsComplete
  <2>2. GhostOK'
    BY <1>1, <2>1, GhostTypes
  <2> QED BY <1>3, <2>2, StoredTypes, SameRest DEF MarkTaskAsComplete
<1>4. CASE RescheduleRateLimited(w)
  BY <1>4, SameRest DEF RescheduleRateLimited
<1>5. CASE RetryMessage(w)
  BY <1>1, <1>5, RetriedTypes, SameRest DEF RetryMessage
<1> QED BY <1>2, <1>3, <1>4, <1>5

\* findOrStartSync.
LEMMA ResetTypes ==
  ASSUME sub \in Subscriptions, NEW seen, NEW forgetCursor \in BOOLEAN,
         seen = starter.seen, ResetDiscovery(forgetCursor)
  PROVE  /\ sub' \in Subscriptions /\ sub'.syncStatus = sub.syncStatus
         /\ sub'.repositoryStatus =
              IF seen.repositoryStatus # "null" THEN "null" ELSE sub.repositoryStatus
         /\ sub'.repositoryCursor =
              IF forgetCursor /\ seen.repositoryCursor # 0 THEN 0 ELSE sub.repositoryCursor
<1>1. "null" \in Status /\ 0 \in 0..RepositoryPages
  BY PagesFacts DEF Status
<1> DEFINE one == IF seen.repositoryStatus # "null" THEN [sub EXCEPT !.repositoryStatus = "null"] ELSE sub
           cursor == IF forgetCursor /\ seen.repositoryCursor # 0 THEN 0 ELSE one.repositoryCursor
<1>2. one \in Subscriptions /\ one.syncStatus = sub.syncStatus
      /\ one.repositoryCursor = sub.repositoryCursor
      /\ one.repositoryStatus = IF seen.repositoryStatus # "null" THEN "null" ELSE sub.repositoryStatus
  BY <1>1 DEF Subscriptions
<1>3. sub' = [one EXCEPT !.repositoryCursor = cursor]
  BY DEF ResetDiscovery, Saved
<1> HIDE DEF one
<1>4. cursor \in 0..RepositoryPages
  BY <1>1, <1>2 DEF Subscriptions
<1> HIDE DEF cursor
<1>5. /\ sub' \in Subscriptions /\ sub'.syncStatus = one.syncStatus
      /\ sub'.repositoryStatus = one.repositoryStatus /\ sub'.repositoryCursor = cursor
  BY <1>2, <1>3, <1>4 DEF Subscriptions
<1> QED BY <1>2, <1>5 DEF cursor

LEMMA ResetRows ==
  ASSUME TypeInv, ResetTargetedTasks
  PROVE  /\ rows' \subseteq Row /\ IdsOK'
         /\ \A q \in rows' : \E r \in rows :
              /\ q.id = r.id /\ q.repo = r.repo
              /\ \A t \in TaskTypes :
                   /\ q.status[t] = IF t \in starter.targets THEN "null" ELSE r.status[t]
                   /\ q.cursor[t] = IF starter.type = "full" /\ t \in starter.targets THEN 0
                                    ELSE r.cursor[t]
         /\ \A r \in rows : \E q \in rows' : q.id = r.id /\ q.repo = r.repo
<1> DEFINE full == starter.type = "full"
           status(r) == [t \in TaskTypes |-> IF t \in starter.targets THEN "null" ELSE r.status[t]]
           cursor(r) == [t \in TaskTypes |-> IF full /\ t \in starter.targets THEN 0 ELSE r.cursor[t]]
           new(r) == [r EXCEPT !.status = status(r), !.cursor = cursor(r)]
           f == [r \in rows |-> new(r)]
<1>1. rows \subseteq Row /\ IdsOK
  BY DEF TypeInv
<1>2. rows' = {new(r) : r \in rows}
  BY DEF ResetTargetedTasks
<1>3. ASSUME NEW r \in rows
      PROVE  /\ new(r) \in Row /\ new(r).id = r.id /\ new(r).repo = r.repo
             /\ new(r).status = status(r) /\ new(r).cursor = cursor(r)
  <2>1. r \in Row
    BY <1>1
  <2>2. status(r) \in [TaskTypes -> Status] /\ cursor(r) \in [TaskTypes -> 0..PAGES]
    BY <2>1, BackfillAssumption DEF Row, Status
  <2> HIDE DEF status, cursor
  <2> QED BY <2>1, <2>2 DEF Row
<1> HIDE DEF new
<1>4. f \in [rows -> Row] /\ rows' = {f[r] : r \in rows} /\ \A r \in rows : f[r].id = r.id
  BY <1>2, <1>3
<1>5. rows' \subseteq Row /\ IdsOK'
  <2> HIDE DEF f
  <2> QED BY <1>1, <1>4, RewrittenRows
<1>6. ASSUME NEW q \in rows'
      PROVE  \E r \in rows :
               /\ q.id = r.id /\ q.repo = r.repo
               /\ \A t \in TaskTypes :
                    /\ q.status[t] = IF t \in starter.targets THEN "null" ELSE r.status[t]
                    /\ q.cursor[t] = IF starter.type = "full" /\ t \in starter.targets THEN 0
                                     ELSE r.cursor[t]
  <2>1. PICK r \in rows : q = new(r)
    BY <1>2
  <2>2. q.id = r.id /\ q.repo = r.repo /\ q.status = status(r) /\ q.cursor = cursor(r)
    BY <1>3, <2>1
  <2> QED BY <2>2
<1>7. ASSUME NEW r \in rows PROVE \E q \in rows' : q.id = r.id /\ q.repo = r.repo
  <2>1. new(r) \in rows' /\ new(r).id = r.id /\ new(r).repo = r.repo
    BY <1>2, <1>3
  <2> QED BY <2>1
<1> QED BY <1>5, <1>6, <1>7

\* The starter's own record.
LEMMA StarterTypes ==
  ASSUME StarterOK,
         \/ \E pc \in {"resettingTasks", "resettingRepository", "resettingSubscription", "deletingRows"} :
              starter' = [starter EXCEPT !.pc = pc]
         \/ starter' = NoStart \/ starter' = [NoStart EXCEPT !.pc = "sending"]
         \/ StarterSends
  PROVE  StarterOK'
<1>1. NewSubscription \in Subscriptions
  BY NewSubscriptionTypes
<1>2. CASE starter' = NoStart \/ starter' = [NoStart EXCEPT !.pc = "sending"]
  BY <1>1, <1>2 DEF StarterOK, NoStart
<1>3. CASE StarterSends
  <2>1. starter' = [NoStart EXCEPT !.pc = "sending", !.targets = starter.targets]
    BY <1>3 DEF StarterSends
  <2>2. starter.targets \in TargetChoices \cup {{}}
    BY DEF StarterOK
  <2> QED BY <1>1, <2>1, <2>2 DEF StarterOK, NoStart
<1>4. CASE \E pc \in {"resettingTasks", "resettingRepository", "resettingSubscription", "deletingRows"} :
             starter' = [starter EXCEPT !.pc = pc]
  BY <1>4 DEF StarterOK
<1> QED BY <1>2, <1>3, <1>4

LEMMA BegunTypes ==
  ASSUME TypeInv, NEW type \in SyncTypes, NEW targets \in TargetChoices, BeginSync(type, targets)
  PROVE  RestOK' /\ WorkersOK'
<1>1. StarterOK'
  <2>1. type \in {"full", "partial"} /\ sub \in Subscriptions
    BY BackfillAssumption DEF TypeInv
  <2>2. starter' = [pc |-> "starting", type |-> type, targets |-> targets, seen |-> sub]
    BY DEF BeginSync
  <2> QED BY <2>1, <2>2 DEF StarterOK
<1>2. GhostOK'
  <2> DEFINE b == ghost.overlapped \/ (type = "full" /\ AnyoneBusy)
  <2>1. b \in BOOLEAN /\ ghost' = [ghost EXCEPT !.overlapped = b] /\ GhostOK
    BY DEF BeginSync, TypeInv, GhostOK
  <2> HIDE DEF b
  <2> QED BY <2>1, GhostTypes
<1>3. budget' \in [faults : 0..MaxFaults, syncs : 0..MaxSyncs]
  BY BackfillAssumption DEF BeginSync, TypeInv
<1> QED BY <1>1, <1>2, <1>3, SameRest DEF BeginSync, RestOK, TypeInv

\* The first update writes the status, or nothing.
LEMMA PendingWritten ==
  ASSUME sub \in Subscriptions, SetPending
  PROVE  /\ UNCHANGED <<rows, queue, worker, claim, deadFlag, budget, ghost>>
         /\ sub' \in Subscriptions /\ starter.pc = "starting"
         /\ sub'.syncStatus \in {sub.syncStatus, "PENDING"}
         /\ starter.seen.syncStatus = "NONE" => sub'.syncStatus = "PENDING"
         /\ UNCHANGED <<sub.repositoryStatus, sub.repositoryCursor>>
<1>1. sub' = Saved(starter.seen, "syncStatus", "PENDING") /\ "PENDING" \in SyncStatus
  BY DEF SetPending, SyncStatus
<1>2. \/ sub' = [sub EXCEPT !.syncStatus = "PENDING"]
      \/ sub' = sub /\ starter.seen.syncStatus = "PENDING"
  BY <1>1 DEF Saved
<1>3. /\ sub' \in Subscriptions
      /\ sub'.syncStatus = "PENDING" \/ (sub' = sub /\ starter.seen.syncStatus = "PENDING")
      /\ UNCHANGED <<sub.repositoryStatus, sub.repositoryCursor>>
  BY <1>1, <1>2 DEF Subscriptions
<1> QED BY <1>3 DEF SetPending

LEMMA PendingStarter ==
  ASSUME SetPending, StarterOK
  PROVE  \/ starter' = [NoStart EXCEPT !.pc = "sending"] /\ starter'.pc = "sending"
         \/ \E pc \in {"resettingTasks", "resettingSubscription"} :
              /\ starter' = [starter EXCEPT !.pc = pc]
              /\ starter'.pc = pc /\ starter'.type = starter.type /\ starter'.seen = starter.seen
              /\ pc = "resettingSubscription" => starter.type = "full"
<1>1. CASE starter.targets = {} /\ starter.type = "partial"
  BY <1>1 DEF SetPending, NoStart
<1>2. CASE ~(starter.targets = {} /\ starter.type = "partial")
  <2>1. PICK pc : pc = IF starter.targets # {} THEN "resettingTasks" ELSE "resettingSubscription"
    OBVIOUS
  <2>2. starter' = [starter EXCEPT !.pc = pc]
    BY <1>2, <2>1 DEF SetPending
  <2>3. pc = "resettingSubscription" => starter.type = "full"
    BY <1>2, <2>1 DEF StarterOK
  <2>4. starter'.pc = pc /\ starter'.type = starter.type /\ starter'.seen = starter.seen
    BY <2>2 DEF StarterOK
  <2>5. pc \in {"resettingTasks", "resettingSubscription"}
    BY <2>1
  <2> QED BY <2>2, <2>3, <2>4, <2>5
<1> QED BY <1>1, <1>2

LEMMA RemainingTypes ==
  ASSUME TypeInv,
         \/ StarterStep \/ StartIsLost \/ FlagGoesStale \/ UNCHANGED vars
         \/ \E m \in Msg : RedriveToDlq(m) \/ VisibilityLapses(m)
  PROVE  RestOK' /\ WorkersOK'
<1> USE DEF RestOK
<1>1. /\ sub \in Subscriptions /\ QueueOK /\ StarterOK /\ GhostOK
      /\ starter.targets \in TargetChoices \cup {{}}
      /\ budget \in [faults : 0..MaxFaults, syncs : 0..MaxSyncs]
  BY DEF TypeInv, StarterOK
<1>2. CASE ResetTargetedTasks
  <2>1. \/ ghost' = ghost
        \/ \E c : ghost' = [ghost EXCEPT !.sent = c]
    BY <1>2 DEF ResetTargetedTasks
  <2>2. GhostOK'
    BY <1>1, <2>1, GhostTypes, SameRest
  <2>3. StarterOK'
    BY <1>1, <1>2, StarterTypes DEF ResetTargetedTasks
  <2> QED BY <1>2, <2>2, <2>3, ResetRows, SameRest DEF ResetTargetedTasks
<1>3. CASE ResetTargetedRepository
  <2>1. (starter.type = "full") \in BOOLEAN /\ ResetDiscovery(starter.type = "full")
    BY <1>3 DEF ResetTargetedRepository
  <2>2. sub' \in Subscriptions
    BY <1>1, <2>1, ResetTypes
  <2> QED BY <1>1, <1>3, <2>2, StarterTypes, SameRest DEF ResetTargetedRepository
<1>4. CASE ResetSubscription
  <2>1. sub' \in Subscriptions
    BY <1>1, <1>4, ResetTypes DEF ResetSubscription
  <2> QED BY <1>1, <1>4, <2>1, StarterTypes, SameRest DEF ResetSubscription
<1>5. CASE DeleteFromSubscription
  <2>1. ghost' = [ghost EXCEPT !.sent = {}]
    BY <1>5 DEF DeleteFromSubscription
  <2>2. GhostOK'
    BY <1>1, <2>1, GhostTypes
  <2>3. rows' \subseteq Row /\ IdsOK'
    <3>1. rows' = {} /\ {r.id : r \in rows'} = 1..0 /\ 0 \in 0..MaxRows
      BY <1>5, BackfillAssumption DEF DeleteFromSubscription
    <3> QED BY <3>1 DEF IdsOK
  <2> QED BY <1>1, <1>5, <2>2, <2>3, StarterTypes, SameRest DEF DeleteFromSubscription
<1>6. CASE SendFirstMessage
  BY <1>1, <1>6, SendTypes, StarterTypes, SameRest DEF SendFirstMessage
<1>7. CASE StartIsLost
  <2>1. ghost' = [ghost EXCEPT !.startLost = TRUE]
    BY <1>7 DEF StartIsLost
  <2>2. GhostOK'
    BY <1>1, <2>1, GhostTypes
  <2> QED BY <1>1, <1>7, <2>2, FaultTypes, StarterTypes, SameRest DEF StartIsLost
<1>8. CASE FlagGoesStale
  BY <1>8, SameRest DEF FlagGoesStale
<1>9. CASE UNCHANGED vars
  BY <1>9, SameRest DEF vars
<1>10. ASSUME NEW m \in Msg, RedriveToDlq(m) \/ VisibilityLapses(m) PROVE RestOK' /\ WorkersOK'
  <2>1. \E where \in {"visible", "inFlight", "dlq"} : queue' = [queue EXCEPT ![m].where = where]
    BY <1>10 DEF RedriveToDlq, VisibilityLapses
  <2>2. QueueOK'
    BY <1>1, <2>1 DEF QueueOK
  <2>3. CASE RedriveToDlq(m)
    BY <2>2, <2>3, SameRest DEF RedriveToDlq
  <2>4. CASE VisibilityLapses(m)
    <3>1. ghost' = [ghost EXCEPT !.orphaned = TRUE] \/ ghost' = ghost
      BY <2>4 DEF VisibilityLapses
    <3>2. GhostOK'
      BY <1>1, <3>1, GhostTypes, SameRest
    <3>3. budget' \in [faults : 0..MaxFaults, syncs : 0..MaxSyncs]
      BY <1>1, <2>4, FaultTypes, SameRest DEF VisibilityLapses
    <3> QED BY <2>2, <2>4, <3>2, <3>3, SameRest DEF VisibilityLapses
  <2> QED BY <1>10, <2>3, <2>4
<1>11. CASE SetPending
  <2>1. StarterOK'
    BY <1>1, <1>11, PendingStarter, StarterTypes
  <2> QED BY <1>1, <1>11, <2>1, PendingWritten, SameRest
<1> QED BY <1>2, <1>3, <1>4, <1>5, <1>6, <1>7, <1>8, <1>9, <1>10, <1>11 DEF StarterStep

LEMMA WorkerTypes ==
  ASSUME TypeInv, NEW w \in Worker, HandlerStep(w) \/ HandlerFault(w)
  PROVE  RestOK' /\ WorkersOK'
<1>1. RestOK'
  BY MessageTypes, JobTypes, ErrorHandlerTypes DEF HandlerStep, HandlerFault
<1>2. CASE GoesOn(w)
  BY <1>1, <1>2, GoingOnTypes
<1>3. CASE ClaimSync(w) \/ ReadSubscription(w)
  BY <1>1, <1>3, BegunWork, WorkersGoOn
<1>4. CASE PlanTasks(w)
  BY <1>1, <1>4, PlannedWork, WorkersGoOn, GoingOnTypes
<1>5. CASE \E run \in worker[w].todo : FetchPage(w, run)
  BY <1>1, <1>5, FetchedWork, WorkersGoOn
<1>6. GoesOn(w) \/ ClaimSync(w) \/ ReadSubscription(w) \/ PlanTasks(w)
      \/ \E run \in worker[w].todo : FetchPage(w, run)
  BY MessagesGoOn, JobsGoOn DEF HandlerStep, HandlerFault
<1> QED BY <1>2, <1>3, <1>4, <1>5, <1>6

LEMMA StepTypes == TypeInv /\ [Next]_vars => TypeInv'
<1> SUFFICES ASSUME TypeInv, [Next]_vars PROVE RestOK' /\ WorkersOK'
  BY DEF RestOK, WorkersOK, TypeInv
<1>1. ASSUME NEW w \in Worker, HandlerStep(w) \/ HandlerFault(w) PROVE RestOK' /\ WorkersOK'
  BY <1>1, WorkerTypes
<1>2. ASSUME NEW type \in SyncTypes, NEW targets \in TargetChoices, BeginSync(type, targets)
      PROVE  RestOK' /\ WorkersOK'
  BY <1>2, BegunTypes
<1>3. CASE StarterStep \/ StartIsLost \/ FlagGoesStale \/ UNCHANGED vars
           \/ \E m \in Msg : RedriveToDlq(m) \/ VisibilityLapses(m)
  BY <1>3, RemainingTypes
<1> QED BY <1>1, <1>2, <1>3 DEF Next

\* At any time the state is of its types, rows have ids of their own, and a worker has work
\* in hand only while it is at work.
THEOREM Types == Spec => []TypeInv
<1>1. Init => TypeInv
  BY InitTypes
<1>2. TypeInv /\ [Next]_vars => TypeInv'
  BY StepTypes
<1> QED BY <1>1, <1>2, PTL DEF Spec

\* The type invariant of Backfill.
THEOREM TypeCorrect == Spec => []TypeOK
<1>1. TypeInv => TypeOK
  <2> SUFFICES ASSUME TypeInv PROVE TypeOK
    OBVIOUS
  <2>1. \A r \in rows : RowOK(r)
    BY DEF TypeInv, Row, RowOK
  <2>2. \A w \in Worker : WorkerOK(worker[w])
    BY WorkOfExecution DEF WorkerOK, Got, Execution
  <2> QED BY <2>1, <2>2 DEF TypeInv, TypeOK, QueueOK, StarterOK
<1> QED BY <1>1, Types, PTL

-----------------------------------------------------------------------------
(* Progress is kept. *)

DeliveredGrows ==
  \A task, repo, page : Delivered(task, repo, page) => Delivered(task, repo, page)'

LEMMA Growing ==
  ASSUME \A r \in rows : \E q \in rows' : q.repo = r.repo, ghost.sent \subseteq ghost'.sent
  PROVE  DeliveredGrows
BY DEF DeliveredGrows, Delivered, Discovered

LEMMA ThroughGrows ==
  ASSUME DeliveredGrows, NEW task, NEW repo, NEW cursor, Through(task, repo, cursor)
  PROVE  Through(task, repo, cursor)'
BY DEF DeliveredGrows, Through

LEMMA StoredGrows ==
  ASSUME DeliveredGrows, NEW task, NEW repo, NEW status, NEW cursor,
         StoredOK(task, repo, status, cursor)
  PROVE  StoredOK(task, repo, status, cursor)'
BY ThroughGrows DEF StoredOK

LEMMA HandGrows ==
  ASSUME DeliveredGrows, NEW s, HandOK(s)
  PROVE  HandOK(s)'
BY ThroughGrows DEF HandOK

\* A task that has not begun has nothing to show.
LEMMA NothingYet ==
  ASSUME NEW task, NEW repo
  PROVE  Through(task, repo, 0)
BY PagesFacts DEF Through

LEMMA QuietHand ==
  ASSUME NEW s, WorkOK(s), QuietWorker(s)
  PROVE  HandOK(s)'
BY DEF WorkOK, QuietWorker, HandOK

LEMMA SameTables ==
  ASSUME TablesOK, DeliveredGrows, UNCHANGED rows,
         sub'.repositoryStatus = sub.repositoryStatus, sub'.repositoryCursor = sub.repositoryCursor
  PROVE  TablesOK'
<1>1. StoredOK("repository", 0, sub.repositoryStatus, sub.repositoryCursor)'
  <2>1. PICK status, cursor : status = sub.repositoryStatus /\ cursor = sub.repositoryCursor
    OBVIOUS
  <2>2. StoredOK("repository", 0, status, cursor)'
    BY <2>1, StoredGrows DEF TablesOK
  <2> QED BY <2>1, <2>2 DEF StoredOK
<1>2. \A r \in rows, t \in TaskTypes : StoredOK(t, r.repo, r.status[t], r.cursor[t])'
  BY StoredGrows DEF TablesOK
<1> QED BY <1>1, <1>2 DEF TablesOK

\* A step of a worker after which its own hand, the tables and a reset are well.
LEMMA WorkerProgress ==
  ASSUME TypeInv, Progress, NEW w \in Worker, NEW x \in Execution, WorkOK(x), Becomes(w, x),
         DeliveredGrows, UNCHANGED starter, ghost.overlapped => ghost'.overlapped,
         ~ghost'.overlapped =>
           /\ HandOK(x)' /\ TablesOK'
           /\ Resetting => /\ QuietWorker(x)
                           /\ sub'.repositoryStatus = sub.repositoryStatus
                           /\ sub'.repositoryCursor = sub.repositoryCursor
  PROVE  Progress'
<1> SUFFICES ASSUME ~ghost'.overlapped PROVE (TablesOK /\ ResetOK /\ \A v \in Worker : HandOK(worker[v]))'
  BY DEF Progress
<1>1. TablesOK /\ ResetOK /\ \A v \in Worker : HandOK(worker[v])
  BY DEF Progress
<1>2. worker'[w] = x /\ \A v \in Worker \ {w} : worker'[v] = worker[v]
  BY WorkersGoOn
<1>3. ASSUME NEW v \in Worker PROVE HandOK(worker[v])'
  <2>1. PICK y : y = worker'[v]
    OBVIOUS
  <2>2. HandOK(y)'
    BY <1>1, <1>2, <2>1, HandGrows
  <2> QED BY <2>1, <2>2 DEF HandOK
<1>4. ResetOK'
  <2>1. Resetting' = Resetting
    BY DEF Resetting
  <2>2. Resetting => \A v \in Worker : QuietWorker(worker'[v])
    BY <1>1, <1>2 DEF ResetOK
  <2>3. /\ starter.pc \in {"resettingSubscription", "deletingRows"} => Resetting
        /\ starter.pc = "starting" /\ starter.type = "full" => Resetting
    BY <1>1 DEF ResetOK, Resetting
  <2>4. (\A v \in Worker : QuietWorker(worker[v]))' <=> \A v \in Worker : QuietWorker(worker'[v])
    BY DEF QuietWorker
  <2> QED BY <1>1, <2>1, <2>2, <2>3, <2>4 DEF ResetOK
<1> QED BY <1>3, <1>4

\* ... in particular one that takes on no work and leaves the tables alone.
LEMMA GoingOnProgress ==
  ASSUME TypeInv, Progress, NEW w \in Worker, GoesOn(w), UNCHANGED <<rows, starter>>,
         sub'.repositoryStatus = sub.repositoryStatus, sub'.repositoryCursor = sub.repositoryCursor,
         ghost'.sent = ghost.sent, ghost.overlapped => ghost'.overlapped
  PROVE  Progress'
<1>1. PICK x \in Execution : Becomes(w, x) /\ WorkOK(x) /\ Carries(worker[w], x)
  BY DEF GoesOn
<1>2. DeliveredGrows
  BY Growing
<1>3. ASSUME ~ghost.overlapped
      PROVE  HandOK(x)' /\ TablesOK' /\ (Resetting => QuietWorker(x))
  <2>1. HandOK(x)
    BY <1>1, <1>3 DEF Progress, HandOK, Carries
  <2> QED BY <1>1, <1>2, <1>3, <2>1, HandGrows, SameTables DEF Progress, ResetOK, Carries
<1> QED BY <1>1, <1>2, <1>3, WorkerProgress

\* The history's other fields leave what was sent, and whether a reset met a worker.
LEMMA GhostKeeps ==
  ASSUME GhostOK, NEW c
  PROVE  /\ \/ ghost' = ghost \/ ghost' = [ghost EXCEPT !.raced = c] \/ ghost' = [ghost EXCEPT !.twice = c]
            \/ ghost' = [ghost EXCEPT !.dropped = c] \/ ghost' = [ghost EXCEPT !.orphaned = c]
            \/ ghost' = [ghost EXCEPT !.startLost = c]
            => ghost'.sent = ghost.sent /\ ghost'.overlapped = ghost.overlapped
         /\ ghost' = [ghost EXCEPT !.sent = c]
            => ghost'.sent = c /\ ghost'.overlapped = ghost.overlapped
         /\ \A d : ghost' = [ghost EXCEPT !.raced = d, !.sent = c]
            => ghost'.sent = c /\ ghost'.overlapped = ghost.overlapped
         /\ \A d : ghost' = [ghost EXCEPT !.overlapped = c, !.met = d]
            => ghost'.sent = ghost.sent /\ ghost'.overlapped = c
         /\ ghost' = [ghost EXCEPT !.overlapped = c]
            => ghost'.sent = ghost.sent /\ ghost'.overlapped = c
BY DEF GhostOK

\* Messages, jobs and error handlers that leave tasks and cursors as they are.
LEMMA QuietProgress ==
  ASSUME TypeInv, Progress, NEW w \in Worker,
         \/ \E m \in Msg : ReceiveMessage(w, m)
         \/ NotSure(w) \/ OtherWorkerDoingThisJob(w) \/ PostponeMessage(w) \/ DeleteMessage(w)
         \/ SendBackfillMessage(w) \/ HandlerTimesOut(w) \/ Crash(w)
         \/ MarkSyncAsCompleteAndStop(w) \/ SetActive(w) \/ TasksSettle(w) \/ ReleaseClaim(w)
         \/ InfrastructureFails(w) \/ RescheduleRateLimited(w) \/ RetryMessage(w)
         \/ \E run \in worker[w].todo, error \in TaskErrors : TaskFails(w, run, error)
         \/ \E got \in worker[w].got : TaskStatusIsNotStored(w, got)
  PROVE  Progress'
<1>1. GoesOn(w)
  BY MessagesGoOn, JobsGoOn
<1>2. UNCHANGED <<rows, starter>>
  BY DEF ReceiveMessage, NotSure, OtherWorkerDoingThisJob, PostponeMessage, DeleteMessage,
         SendBackfillMessage, HandlerTimesOut, Crash, MarkSyncAsCompleteAndStop, SetActive,
         TasksSettle, ReleaseClaim, InfrastructureFails, RescheduleRateLimited, RetryMessage,
         TaskFails, TaskStatusIsNotStored
<1>3. \/ UNCHANGED sub
      \/ \E status \in SyncStatus : sub' = Saved(worker[w].seen, "syncStatus", status)
  BY DEF ReceiveMessage, NotSure, OtherWorkerDoingThisJob, PostponeMessage, DeleteMessage,
         SendBackfillMessage, HandlerTimesOut, Crash, MarkSyncAsCompleteAndStop, SetActive,
         TasksSettle, ReleaseClaim, InfrastructureFails, RescheduleRateLimited, RetryMessage,
         TaskFails, TaskStatusIsNotStored, SyncStatus
<1>4. sub'.repositoryStatus = sub.repositoryStatus /\ sub'.repositoryCursor = sub.repositoryCursor
  BY <1>3, SavedTypes DEF TypeInv
<1>5. \/ UNCHANGED ghost
      \/ \E c : ghost' = [ghost EXCEPT !.dropped = c] \/ ghost' = [ghost EXCEPT !.orphaned = c]
  BY DEF ReceiveMessage, NotSure, OtherWorkerDoingThisJob, PostponeMessage, DeleteMessage,
         SendBackfillMessage, HandlerTimesOut, Crash, MarkSyncAsCompleteAndStop, SetActive,
         TasksSettle, ReleaseClaim, InfrastructureFails, RescheduleRateLimited, RetryMessage,
         TaskFails, TaskStatusIsNotStored
<1>6. ghost'.sent = ghost.sent /\ ghost'.overlapped = ghost.overlapped
  BY <1>5, GhostKeeps DEF TypeInv
<1> QED BY <1>1, <1>2, <1>4, <1>6, GoingOnProgress

LEMMA BegunProgress ==
  ASSUME TypeInv, Progress, NEW w \in Worker, ClaimSync(w) \/ ReadSubscription(w)
  PROVE  Progress'
<1>1. PICK x \in Execution :
        /\ Becomes(w, x) /\ WorkOK(x) /\ x.todo = {} /\ x.got = {}
        /\ ClaimSync(w) => x.pc = "claimed"
        /\ ReadSubscription(w) => x.pc = "planning" /\ x.seen = sub
  BY BegunWork
<1>2. UNCHANGED <<sub, rows, starter>> /\ GhostOK
  BY DEF ClaimSync, ReadSubscription, TypeInv
<1>3. CASE ClaimSync(w)
  <2>1. ghost' = [ghost EXCEPT !.overlapped = ghost.overlapped \/ Resetting, !.met = ghost.met \/ Meets]
    BY <1>3 DEF ClaimSync
  <2>2. ghost'.sent = ghost.sent /\ ghost'.overlapped = (ghost.overlapped \/ Resetting)
    BY <1>2, <2>1, GhostKeeps
  <2>3. DeliveredGrows
    BY <1>2, <2>2, Growing
  <2>4. HandOK(x)'
    BY <1>1, <1>3 DEF HandOK
  <2>5. ~ghost.overlapped => TablesOK'
    BY <1>2, <2>3, SameTables DEF Progress
  <2> QED BY <1>1, <1>2, <2>2, <2>3, <2>4, <2>5, WorkerProgress
<1>4. CASE ReadSubscription(w)
  <2>1. ghost' = ghost /\ worker[w].pc = "claimed"
    BY <1>4 DEF ReadSubscription
  <2>2. DeliveredGrows
    BY <1>2, <2>1, Growing
  <2>3. ~ghost.overlapped => TablesOK' /\ ~Resetting
    BY <1>2, <2>1, <2>2, SameTables DEF Progress, ResetOK, QuietWorker
  <2>4. ASSUME ~ghost.overlapped PROVE HandOK(x)'
    <3>1. Through("repository", 0, x.seen.repositoryCursor)
      BY <1>1, <1>4, <2>4 DEF Progress, TablesOK, StoredOK
    <3>2. Through("repository", 0, x.seen.repositoryCursor)'
      BY <2>2, <3>1, ThroughGrows
    <3> QED BY <1>1, <3>2 DEF HandOK
  <2> QED BY <1>1, <1>2, <2>1, <2>2, <2>3, <2>4, WorkerProgress
<1> QED BY <1>3, <1>4

LEMMA PlanProgress ==
  ASSUME TypeInv, Progress, NEW w \in Worker, PlanTasks(w)
  PROVE  Progress'
<1>1. UNCHANGED <<sub, rows, starter, ghost>> /\ worker[w].pc = "planning"
  BY DEF PlanTasks
<1>2. CASE GoesOn(w)
  BY <1>1, <1>2, GoingOnProgress
<1>3. CASE ~GoesOn(w)
  <2>1. PICK x \in Execution :
          /\ Becomes(w, x) /\ WorkOK(x) /\ x.pc = "starting" /\ x.got = {}
          /\ Planned(worker[w], x.todo)
    BY <1>3, PlannedWork
  <2>2. DeliveredGrows
    BY <1>1, Growing
  <2>3. ASSUME ~ghost.overlapped PROVE TablesOK' /\ HandOK(x)' /\ ~Resetting
    <3>1. TablesOK /\ ResetOK /\ HandOK(worker[w])
      BY <2>3 DEF Progress
    <3>2. ASSUME NEW run \in x.todo PROVE Through(run.task, run.repo, run.cursor)
      <4>1. CASE run = Run(RepositoryTask, worker[w].seen.repositoryCursor)
        BY <1>1, <3>1, <4>1 DEF HandOK, Run, RepositoryTask
      <4>2. ASSUME NEW r \in rows, NEW t \in TaskTypes,
                   run = [task |-> t, repo |-> r.repo, id |-> r.id, cursor |-> r.cursor[t]]
            PROVE  Through(run.task, run.repo, run.cursor)
        BY <3>1, <4>2 DEF TablesOK, StoredOK
      <4> QED BY <2>1, <4>1, <4>2 DEF Planned, RunOfRow
    <3>3. HandOK(x)
      BY <2>1, <3>2 DEF HandOK
    <3> QED BY <1>1, <2>2, <3>1, <3>3, HandGrows, SameTables DEF ResetOK, QuietWorker
  <2> QED BY <1>1, <2>1, <2>2, <2>3, WorkerProgress
<1> QED BY <1>2, <1>3

LEMMA FetchProgress ==
  ASSUME TypeInv, Progress, NEW w \in Worker, NEW run \in worker[w].todo, FetchPage(w, run)
  PROVE  Progress'
<1> DEFINE page == run.cursor + 1
           more == page <= PagesOf(run.task)
<1>1. run \in TaskRuns
  BY FetchedWork
<1>2. PICK x \in Execution :
        /\ Becomes(w, x) /\ WorkOK(x) /\ x.pc = "working" /\ x.todo = worker[w].todo \ {run}
        /\ \E new : x.got = worker[w].got \cup {[run |-> run, more |-> new]}
  BY FetchedWork
<1>3. /\ run.cursor \in Nat /\ PagesOf(run.task) \in Nat
      /\ run.task = "repository" => run.repo = 0 /\ run.task \notin TaskTypes
      /\ (more /\ run.task = "repository") => page \in Repo
  BY <1>1, TaskRunFacts, PagesFacts
<1>4. worker[w].pc = "working" /\ UNCHANGED <<sub, starter>> /\ GhostOK
  BY DEF FetchPage, TypeInv
<1>5. rows' = IF more /\ run.task = "repository" THEN rows \cup {NewRow(page)} ELSE rows
  BY DEF FetchPage
<1>6. ghost'.overlapped = ghost.overlapped /\ ghost.sent \subseteq ghost'.sent
      /\ (more /\ run.task # "repository" => <<run.task, run.repo, page>> \in ghost'.sent)
  <2>1. CASE ~more
    BY <2>1 DEF FetchPage
  <2>2. CASE more /\ run.task = "repository"
    <3>1. \E c : ghost' = [ghost EXCEPT !.twice = c]
      BY <2>2 DEF FetchPage
    <3> QED BY <1>4, <2>2, <3>1, GhostKeeps
  <2>3. CASE more /\ run.task # "repository"
    <3>1. ghost' = [ghost EXCEPT !.sent = ghost.sent \cup {<<run.task, run.repo, page>>}]
      BY <2>3 DEF FetchPage
    <3>2. ghost'.overlapped = ghost.overlapped
          /\ ghost'.sent = ghost.sent \cup {<<run.task, run.repo, page>>}
      BY <1>4, <3>1, GhostKeeps
    <3> QED BY <3>2
  <2> QED BY <2>1, <2>2, <2>3
<1>7. DeliveredGrows
  BY <1>5, <1>6, Growing
<1>8. more /\ run.task = "repository" =>
        /\ NewRow(page).repo = page
        /\ \A t \in TaskTypes : NewRow(page).status[t] = "null" /\ NewRow(page).cursor[t] = 0
  BY DEF NewRow
<1>9. more => Delivered(run.task, run.repo, page)'
  BY <1>5, <1>6, <1>8 DEF Delivered, Discovered
<1>10. ASSUME ~ghost.overlapped
       PROVE  HandOK(x)' /\ TablesOK' /\ ~Resetting
  <2>1. TablesOK /\ ResetOK /\ HandOK(worker[w])
    BY <1>10 DEF Progress
  <2>2. Through(run.task, run.repo, run.cursor + 1)'
    <3>1. Through(run.task, run.repo, run.cursor)'
      BY <1>7, <2>1, ThroughGrows DEF HandOK
    <3>2. \A p \in 1..PagesOf(run.task) : p <= page => p <= run.cursor \/ (p = page /\ more)
      BY <1>3
    <3> QED BY <1>9, <3>1, <3>2 DEF Through
  <2>3. HandOK(x)'
    <3>1. \A r \in x.todo : Through(r.task, r.repo, r.cursor)'
      BY <1>2, <1>7, <2>1, ThroughGrows DEF HandOK
    <3>2. \A got \in x.got : Through(got.run.task, got.run.repo, got.run.cursor + 1)'
      BY <1>2, <1>7, <2>1, <2>2, ThroughGrows DEF HandOK
    <3> QED BY <1>2, <3>1, <3>2 DEF HandOK
  <2>4. TablesOK'
    <3>1. StoredOK("repository", 0, sub.repositoryStatus, sub.repositoryCursor)'
      <4>1. PICK status, cursor : status = sub.repositoryStatus /\ cursor = sub.repositoryCursor
        OBVIOUS
      <4>2. StoredOK("repository", 0, status, cursor)'
        BY <1>7, <2>1, <4>1, StoredGrows DEF TablesOK
      <4> QED BY <1>4, <4>1, <4>2 DEF StoredOK
    <3>2. ASSUME NEW r \in rows, NEW t \in TaskTypes
          PROVE  StoredOK(t, r.repo, r.status[t], r.cursor[t])'
      BY <1>7, <2>1, StoredGrows DEF TablesOK
    <3>3. ASSUME more, run.task = "repository", NEW r, r = NewRow(page), NEW t \in TaskTypes
          PROVE  StoredOK(t, r.repo, r.status[t], r.cursor[t])'
      BY <1>8, <3>3, PagesFacts DEF StoredOK, Through
    <3> QED BY <1>5, <3>1, <3>2, <3>3 DEF TablesOK
  <2> QED BY <1>4, <2>1, <2>3, <2>4 DEF ResetOK, QuietWorker
<1> QED BY <1>2, <1>4, <1>6, <1>7, <1>10, WorkerProgress

\* A write of a task's status is well when what it says has been delivered.
LEMMA StoreProgress ==
  ASSUME TypeInv, TablesOK, DeliveredGrows, NEW run \in TaskRuns \cup {NoRun},
         NEW status \in Status, NEW moved \in BOOLEAN, UpdateRepo(run, status, moved),
         moved => run \in TaskRuns /\ run.cursor < PagesOf(run.task),
         moved => Through(run.task, run.repo, run.cursor + 1)',
         status = "complete" => Through(run.task, run.repo, PagesOf(run.task))'
  PROVE  TablesOK'
<1>1. /\ run.task = "repository" =>
           /\ rows' = rows /\ sub'.repositoryStatus = status
           /\ sub'.repositoryCursor = IF moved THEN run.cursor + 1 ELSE sub.repositoryCursor
      /\ run.task # "repository" => sub' = sub /\ \E f : Rewrites(f, run, status, moved)
  BY UpdateRepoFacts DEF TypeInv
<1>2. /\ StoredOK("repository", 0, sub.repositoryStatus, sub.repositoryCursor)
      /\ \A r \in rows, t \in TaskTypes : StoredOK(t, r.repo, r.status[t], r.cursor[t])
  BY DEF TablesOK
<1>3. run.task = "repository" => run.repo = 0
  BY TaskRunFacts DEF NoRun, Run, NoTask
<1>4. CASE run.task = "repository"
  <2>1. PICK s2, c2, c1 : /\ s2 = status /\ c1 = sub.repositoryCursor
                          /\ c2 = IF moved THEN run.cursor + 1 ELSE c1
    OBVIOUS
  <2>2. Through("repository", 0, c1)'
    BY <1>2, <2>1, ThroughGrows DEF StoredOK
  <2>3. StoredOK("repository", 0, s2, c2)'
    BY <1>3, <1>4, <2>1, <2>2 DEF StoredOK
  <2>4. s2 = sub'.repositoryStatus /\ c2 = sub'.repositoryCursor
    BY <1>1, <1>4, <2>1
  <2>5. StoredOK("repository", 0, sub.repositoryStatus, sub.repositoryCursor)'
    BY <2>3, <2>4 DEF StoredOK
  <2>6. \A r \in rows, t \in TaskTypes : StoredOK(t, r.repo, r.status[t], r.cursor[t])'
    BY <1>2, StoredGrows
  <2> QED BY <1>1, <1>4, <2>5, <2>6 DEF TablesOK
<1>5. CASE run.task # "repository"
  <2>1. PICK f : Rewrites(f, run, status, moved)
    BY <1>1, <1>5
  <2>2. StoredOK("repository", 0, sub.repositoryStatus, sub.repositoryCursor)'
    <3>1. PICK s1, c1 : s1 = sub.repositoryStatus /\ c1 = sub.repositoryCursor
      OBVIOUS
    <3>2. StoredOK("repository", 0, s1, c1)'
      BY <1>2, <3>1, StoredGrows
    <3>3. sub' = sub
      BY <1>1, <1>5
    <3> QED BY <3>1, <3>2, <3>3 DEF StoredOK
  <2>3. ASSUME NEW r \in rows, NEW t \in TaskTypes, NEW q, q = f[r]
        PROVE  StoredOK(t, q.repo, q.status[t], q.cursor[t])'
    <3>1. StoredOK(t, r.repo, r.status[t], r.cursor[t])'
      BY <1>2, StoredGrows
    <3>2. CASE r.repo = run.repo /\ t = run.task
      <4>1. /\ q.repo = r.repo /\ q.status[t] = status
            /\ q.cursor[t] = IF moved THEN run.cursor + 1 ELSE r.cursor[t]
        BY <2>1, <2>3, <3>2 DEF Rewrites
      <4>2. Through(t, r.repo, r.cursor[t])'
        BY <3>1 DEF StoredOK
      <4> QED BY <3>2, <4>1, <4>2 DEF StoredOK
    <3>3. CASE ~(r.repo = run.repo /\ t = run.task)
      <4>1. q.repo = r.repo /\ q.status[t] = r.status[t] /\ q.cursor[t] = r.cursor[t]
        BY <2>1, <2>3, <3>3 DEF Rewrites
      <4> QED BY <3>1, <4>1
    <3> QED BY <3>2, <3>3
  <2>4. rows' = {f[r] : r \in rows}
    BY <2>1 DEF Rewrites
  <2>5. (\A q \in rows, t \in TaskTypes : StoredOK(t, q.repo, q.status[t], q.cursor[t]))'
    BY <2>3, <2>4
  <2> QED BY <2>2, <2>5 DEF TablesOK
<1> QED BY <1>4, <1>5

\* A worker that is not quiet writes to the tables: no reset is under way.
LEMMA WriterProgress ==
  ASSUME TypeInv, Progress, NEW w \in Worker, GoesOn(w), ~QuietWorker(worker[w]), UNCHANGED starter,
         DeliveredGrows, ghost'.overlapped = ghost.overlapped, ~ghost.overlapped => TablesOK'
  PROVE  Progress'
<1>1. PICK x \in Execution : Becomes(w, x) /\ WorkOK(x) /\ Carries(worker[w], x)
  BY DEF GoesOn
<1>2. ASSUME ~ghost.overlapped PROVE HandOK(x)' /\ TablesOK' /\ ~Resetting
  <2>1. HandOK(x)
    BY <1>1, <1>2 DEF Progress, HandOK, Carries
  <2> QED BY <1>2, <2>1, HandGrows DEF Progress, ResetOK
<1> QED BY <1>1, <1>2, WorkerProgress

LEMMA StatusProgress ==
  ASSUME TypeInv, Progress, NEW w \in Worker, NEW got \in worker[w].got, UpdateTaskStatus(w, got)
  PROVE  Progress'
<1> DEFINE status == IF got.more THEN "pending" ELSE "complete"
<1>1. got.run \in TaskRuns /\ got.more \in BOOLEAN /\ (got.more <=> got.run.cursor < PagesOf(got.run.task))
  BY WorkOfExecution DEF WorkOK, Got
<1>2. UNCHANGED <<starter, ghost>> /\ worker[w].pc = "working" /\ UpdateRepo(got.run, status, got.more)
  BY DEF UpdateTaskStatus
<1>3. DeliveredGrows
  <2>1. \A r \in rows : \E q \in rows' : q.repo = r.repo
    <3>1. \/ rows' = rows
          \/ \E f : Rewrites(f, got.run, status, got.more)
      BY <1>1, <1>2, UpdateRepoFacts DEF TypeInv, Status
    <3>2. ASSUME NEW f, Rewrites(f, got.run, status, got.more)
          PROVE  \A r \in rows : f[r] \in rows' /\ f[r].repo = r.repo
      BY <3>2 DEF Rewrites
    <3> QED BY <3>1, <3>2
  <2> QED BY <1>2, <2>1, Growing
<1>4. ASSUME ~ghost.overlapped PROVE TablesOK'
  <2>1. TablesOK /\ Through(got.run.task, got.run.repo, got.run.cursor + 1)'
    BY <1>3, <1>4, ThroughGrows DEF Progress, HandOK
  <2>2. ~got.more => Through(got.run.task, got.run.repo, PagesOf(got.run.task))'
    <3>1. got.run.cursor \in Nat /\ PagesOf(got.run.task) \in Nat
      BY <1>1, TaskRunFacts, PagesFacts
    <3>2. ~got.more => \A p \in 1..PagesOf(got.run.task) : p <= got.run.cursor + 1
      BY <1>1, <3>1
    <3> QED BY <2>1, <3>2 DEF Through
  <2>3. status \in Status /\ (status = "complete" => ~got.more)
    BY DEF Status
  <2> HIDE DEF status
  <2> QED BY <1>1, <1>2, <1>3, <2>1, <2>2, <2>3, StoreProgress
<1>5. ~QuietWorker(worker[w]) /\ GoesOn(w)
  BY <1>2, JobsGoOn DEF QuietWorker
<1> QED BY <1>2, <1>3, <1>4, <1>5, WriterProgress

LEMMA FailProgress ==
  ASSUME TypeInv, Progress, NEW w \in Worker, MarkCurrentTaskAsFailed(w)
  PROVE  Progress'
<1> DEFINE main == worker[w].main
<1>1. main \in TaskRuns \cup {NoRun} /\ GhostOK
  BY WorkOfExecution DEF TypeInv
<1>2. /\ UNCHANGED starter /\ worker[w].pc = "failing" /\ GivesUp(w)
      /\ ghost' = [ghost EXCEPT !.raced = ghost.raced \/ claim # {}]
      /\ IF main.task = "repository"
         THEN sub' = [sub EXCEPT !.repositoryStatus = "failed", !.syncStatus = "FAILED"] /\ UNCHANGED rows
         ELSE UpdateRepo(main, "failed", FALSE)
  BY DEF MarkCurrentTaskAsFailed, MarksAs
<1>3. ghost'.sent = ghost.sent /\ ghost'.overlapped = ghost.overlapped
  BY <1>1, <1>2, GhostKeeps
<1>4. CASE main.task = "repository"
  <2>1. sub'.repositoryStatus = "failed" /\ sub'.repositoryCursor = sub.repositoryCursor
    BY <1>2, <1>4 DEF TypeInv, Subscriptions
  <2>2. DeliveredGrows
    BY <1>2, <1>3, <1>4, Growing
  <2>3. ASSUME ~ghost.overlapped PROVE TablesOK'
    <3>1. TablesOK
      BY <2>3 DEF Progress
    <3>2. PICK s2, c2 : s2 = "failed" /\ c2 = sub.repositoryCursor
      OBVIOUS
    <3>3. Through("repository", 0, c2)'
      BY <2>2, <3>1, <3>2, ThroughGrows DEF TablesOK, StoredOK
    <3>4. StoredOK("repository", 0, sub.repositoryStatus, sub.repositoryCursor)'
      BY <2>1, <3>2, <3>3 DEF StoredOK
    <3>5. \A r \in rows, t \in TaskTypes : StoredOK(t, r.repo, r.status[t], r.cursor[t])'
      BY <2>2, <3>1, StoredGrows DEF TablesOK
    <3> QED BY <1>2, <1>4, <3>4, <3>5 DEF TablesOK
  <2> QED BY <1>2, <1>3, <2>2, <2>3, JobsGoOn, WriterProgress DEF QuietWorker, GivesUp
<1>5. CASE main.task # "repository"
  <2>1. UpdateRepo(main, "failed", FALSE) /\ "failed" \in Status
    BY <1>2, <1>5 DEF Status
  <2>2. PICK f : Rewrites(f, main, "failed", FALSE)
    BY <1>1, <1>5, <2>1, UpdateRepoFacts DEF TypeInv
  <2>3. \A r \in rows : f[r] \in rows' /\ f[r].repo = r.repo
    BY <2>2 DEF Rewrites
  <2>4. DeliveredGrows
    BY <1>3, <2>3, Growing
  <2>5. ~ghost.overlapped => TablesOK'
    BY <1>1, <2>1, <2>4, StoreProgress DEF Progress
  <2> QED BY <1>2, <1>3, <2>4, <2>5, JobsGoOn, WriterProgress DEF QuietWorker, GivesUp
<1> QED BY <1>4, <1>5

LEMMA CompleteProgress ==
  ASSUME TypeInv, Progress, NEW w \in Worker, MarkTaskAsComplete(w)
  PROVE  Progress'
<1> DEFINE main == worker[w].main
           pages == {<<main.task, main.repo, p>> : p \in 1..PagesOf(main.task)}
<1>1. main \in TaskRuns \cup {NoRun} /\ GhostOK
  BY WorkOfExecution DEF TypeInv
<1>2. /\ UNCHANGED starter /\ worker[w].pc = "failing" /\ worker[w].outcome = "notFound"
      /\ ghost' = [ghost EXCEPT !.raced = ghost.raced \/ claim # {}, !.sent = ghost.sent \cup pages]
      /\ UpdateRepo(main, "complete", FALSE) /\ "complete" \in Status
  BY DEF MarkTaskAsComplete, Status
<1>3. ghost'.sent = ghost.sent \cup pages /\ ghost'.overlapped = ghost.overlapped
  <2> HIDE DEF pages
  <2> QED BY <1>1, <1>2, GhostKeeps
<1>4. \A r \in rows : \E q \in rows' : q.repo = r.repo
  <2>1. \/ rows' = rows
        \/ \E f : Rewrites(f, main, "complete", FALSE)
    BY <1>1, <1>2, UpdateRepoFacts DEF TypeInv
  <2>2. ASSUME NEW f, Rewrites(f, main, "complete", FALSE)
        PROVE  \A r \in rows : f[r] \in rows' /\ f[r].repo = r.repo
    BY <2>2 DEF Rewrites
  <2> QED BY <2>1, <2>2
<1>5. DeliveredGrows
  BY <1>3, <1>4, Growing
<1>6. PICK run \in TaskRuns \cup {NoRun} : run = main
  BY <1>1
<1>7. Through(run.task, run.repo, PagesOf(run.task))'
  <2>1. \A p \in 1..PagesOf(run.task) : <<run.task, run.repo, p>> \in ghost'.sent
    BY <1>3, <1>6
  <2>2. run.task = "repository" => run.repo = 0
    BY TaskRunFacts DEF NoRun, Run, NoTask
  <2> QED BY <2>1, <2>2 DEF Through, Delivered, Discovered
<1>8. ~ghost.overlapped => TablesOK'
  BY <1>2, <1>5, <1>6, <1>7, StoreProgress DEF Progress
<1> QED BY <1>2, <1>3, <1>5, <1>8, JobsGoOn, WriterProgress DEF QuietWorker

\* A step that leaves every worker alone.
LEMMA StarterProgress ==
  ASSUME TypeInv, Progress, UNCHANGED worker, ghost.overlapped => ghost'.overlapped,
         ~ghost'.overlapped =>
           TablesOK' /\ ResetOK' /\ (DeliveredGrows \/ \A w \in Worker : QuietWorker(worker[w]))
  PROVE  Progress'
<1> SUFFICES ASSUME ~ghost'.overlapped PROVE (TablesOK /\ ResetOK /\ \A w \in Worker : HandOK(worker[w]))'
  BY DEF Progress
<1>1. ASSUME NEW w \in Worker PROVE HandOK(worker[w])'
  <2>1. PICK s : s = worker[w]
    OBVIOUS
  <2>2. HandOK(s)'
    <3>1. CASE DeliveredGrows
      BY <2>1, <3>1, HandGrows DEF Progress
    <3>2. CASE QuietWorker(worker[w])
      BY <2>1, <3>2, QuietHand DEF TypeInv
    <3> QED BY <3>1, <3>2
  <2> QED BY <2>1, <2>2 DEF HandOK
<1> QED BY <1>1

LEMMA BeginProgress ==
  ASSUME TypeInv, Progress, NEW type \in SyncTypes, NEW targets \in TargetChoices,
         BeginSync(type, targets)
  PROVE  Progress'
<1>1. UNCHANGED <<sub, rows, worker>> /\ GhostOK
  BY DEF BeginSync, TypeInv
<1>2. ghost'.sent = ghost.sent /\ ghost'.overlapped = (ghost.overlapped \/ (type = "full" /\ AnyoneBusy))
  <2>1. ghost' = [ghost EXCEPT !.overlapped = ghost.overlapped \/ (type = "full" /\ AnyoneBusy)]
    BY DEF BeginSync
  <2> QED BY <1>1, <2>1, GhostKeeps
<1>3. DeliveredGrows
  BY <1>1, <1>2, Growing
<1>4. ASSUME ~ghost'.overlapped PROVE ResetOK'
  <2>1. starter'.pc = "starting" /\ starter'.type = type /\ starter'.seen = sub
    BY DEF BeginSync
  <2>2. type = "full" => \A w \in Worker : QuietWorker(worker'[w])
    BY <1>1, <1>2, <1>4 DEF AnyoneBusy, Busy, QuietWorker, TypeInv, Execution, Labels
  <2>3. (\A w \in Worker : QuietWorker(worker[w]))' <=> \A w \in Worker : QuietWorker(worker'[w])
    BY DEF QuietWorker
  <2>4. Resetting' => type = "full"
    BY <2>1 DEF Resetting
  <2> QED BY <1>1, <2>1, <2>2, <2>3, <2>4 DEF ResetOK
<1>5. ~ghost.overlapped => TablesOK'
  BY <1>1, <1>3, SameTables DEF Progress
<1> QED BY <1>1, <1>2, <1>3, <1>4, <1>5, StarterProgress

LEMMA PendingProgress ==
  ASSUME TypeInv, Progress, SetPending
  PROVE  Progress'
<1>1. /\ UNCHANGED <<rows, worker, ghost>> /\ starter.pc = "starting"
      /\ UNCHANGED <<sub.repositoryStatus, sub.repositoryCursor>>
  BY PendingWritten DEF TypeInv
<1>2. DeliveredGrows
  BY <1>1, Growing
<1>3. ASSUME ~ghost.overlapped PROVE ResetOK'
  <2>1. ResetOK
    BY <1>3 DEF Progress
  <2>2. CASE starter'.pc = "sending"
    BY <2>2 DEF ResetOK, Resetting
  <2>3. CASE \E pc \in {"resettingTasks", "resettingSubscription"} :
               /\ starter'.pc = pc /\ starter'.type = starter.type /\ starter'.seen = starter.seen
               /\ pc = "resettingSubscription" => starter.type = "full"
    <3>1. Resetting' => Resetting
      BY <1>1, <2>3 DEF Resetting
    <3>2. (\A w \in Worker : QuietWorker(worker[w]))' <=> \A w \in Worker : QuietWorker(worker[w])
      BY <1>1 DEF QuietWorker
    <3> QED BY <1>1, <2>1, <2>3, <3>1, <3>2 DEF ResetOK
  <2> QED BY <2>2, <2>3, PendingStarter DEF TypeInv
<1>4. ~ghost.overlapped => TablesOK'
  BY <1>1, <1>2, SameTables DEF Progress
<1> QED BY <1>1, <1>2, <1>3, <1>4, StarterProgress

\* findOrStartSync sends its message, or dies.
LEMMA StartedReset ==
  ASSUME starter'.pc \in {"idle", "sending"}
  PROVE  ResetOK'
BY DEF ResetOK, Resetting

LEMMA TasksResetProgress ==
  ASSUME TypeInv, Progress, ResetTargetedTasks
  PROVE  Progress'
<1> DEFINE targets == starter.targets
           full == starter.type = "full"
           left == {s \in ghost.sent : s[1] \notin targets \cap TaskTypes}
<1>1. /\ UNCHANGED <<sub, worker>> /\ starter.pc = "resettingTasks" /\ GhostOK
      /\ ghost' = IF full THEN [ghost EXCEPT !.sent = left] ELSE ghost
      /\ \/ starter' = [starter EXCEPT !.pc = "resettingRepository"]
         \/ starter' = [NoStart EXCEPT !.pc = "sending", !.targets = targets]
  BY DEF ResetTargetedTasks, TypeInv, StarterSends
<1>2. ghost'.overlapped = ghost.overlapped /\ ghost'.sent = IF full THEN left ELSE ghost.sent
  <2> HIDE DEF left
  <2> QED BY <1>1, GhostKeeps
<1>3. \A q \in rows' : \E r \in rows :
        /\ q.repo = r.repo
        /\ \A t \in TaskTypes :
             /\ q.status[t] = IF t \in targets THEN "null" ELSE r.status[t]
             /\ q.cursor[t] = IF full /\ t \in targets THEN 0 ELSE r.cursor[t]
  BY ResetRows
<1>4. \A r \in rows : \E q \in rows' : q.repo = r.repo
  BY ResetRows
<1>5. ASSUME NEW task, NEW repo, NEW page, task \notin targets \cap TaskTypes \/ ~full,
             Delivered(task, repo, page)
      PROVE  Delivered(task, repo, page)'
  <2>1. CASE task = "repository"
    <3>1. "repository" \notin TaskTypes
      BY TaskTypesAssumption
    <3>2. <<"repository", 0, page>> \in ghost.sent => <<"repository", 0, page>> \in ghost'.sent
      BY <1>2, <3>1
    <3> QED BY <1>4, <1>5, <2>1, <3>2 DEF Delivered, Discovered
  <2>2. CASE task # "repository"
    BY <1>2, <1>5, <2>2 DEF Delivered
  <2> QED BY <2>1, <2>2
<1>6. ASSUME NEW task, NEW repo, NEW cursor, task \notin targets \cap TaskTypes \/ ~full,
             Through(task, repo, cursor)
      PROVE  Through(task, repo, cursor)'
  BY <1>5, <1>6 DEF Through
<1>7. ASSUME ~ghost.overlapped PROVE TablesOK'
  <2>1. TablesOK
    BY <1>7 DEF Progress
  <2>2. StoredOK("repository", 0, sub.repositoryStatus, sub.repositoryCursor)'
    <3>1. PICK s1, c1 : s1 = sub.repositoryStatus /\ c1 = sub.repositoryCursor
      OBVIOUS
    <3>2. "repository" \notin TaskTypes
      BY TaskTypesAssumption
    <3>3. StoredOK("repository", 0, s1, c1)'
      BY <1>6, <2>1, <3>1, <3>2 DEF TablesOK, StoredOK
    <3> QED BY <1>1, <3>1, <3>3 DEF StoredOK
  <2>3. ASSUME NEW q \in rows', NEW t \in TaskTypes
        PROVE  StoredOK(t, q.repo, q.status[t], q.cursor[t])'
    <3>1. PICK r \in rows :
            /\ q.repo = r.repo
            /\ q.status[t] = IF t \in targets THEN "null" ELSE r.status[t]
            /\ q.cursor[t] = IF full /\ t \in targets THEN 0 ELSE r.cursor[t]
      BY <1>3
    <3>2. Through(t, r.repo, r.cursor[t])
          /\ (r.status[t] = "complete" => Through(t, r.repo, PagesOf(t)))
      BY <2>1 DEF TablesOK, StoredOK
    <3>3. Through(t, q.repo, q.cursor[t])'
      <4>1. Through(t, r.repo, 0)'
        BY PagesFacts DEF Through
      <4> QED BY <1>6, <3>1, <3>2, <4>1
    <3>4. q.status[t] = "complete" => Through(t, q.repo, PagesOf(t))'
      BY <1>6, <3>1, <3>2
    <3> QED BY <3>3, <3>4 DEF StoredOK
  <2> QED BY <2>2, <2>3 DEF TablesOK
<1>8. ASSUME ~ghost.overlapped PROVE ResetOK'
  <2>1. ResetOK
    BY <1>8 DEF Progress
  <2>2. CASE starter' = [starter EXCEPT !.pc = "resettingRepository"]
    <3>1. starter'.pc = "resettingRepository" /\ starter'.type = starter.type
      BY <2>2 DEF TypeInv, StarterOK
    <3>2. Resetting' => Resetting
      BY <1>1, <3>1 DEF Resetting
    <3> QED BY <1>1, <2>1, <3>1, <3>2 DEF ResetOK, QuietWorker
  <2>3. CASE starter' = [NoStart EXCEPT !.pc = "sending", !.targets = targets]
    BY <2>3, StartedReset DEF NoStart
  <2> QED BY <1>1, <2>2, <2>3
<1>9. ~ghost.overlapped => DeliveredGrows \/ \A w \in Worker : QuietWorker(worker[w])
  <2>1. CASE full
    BY <1>1, <2>1 DEF Progress, ResetOK, Resetting
  <2>2. CASE ~full
    BY <1>5, <2>2 DEF DeliveredGrows
  <2> QED BY <2>1, <2>2
<1> QED BY <1>1, <1>2, <1>7, <1>8, <1>9, StarterProgress

LEMMA RepositoryResetProgress ==
  ASSUME TypeInv, Progress, ResetTargetedRepository \/ ResetSubscription
  PROVE  Progress'
<1>1. UNCHANGED <<rows, worker, ghost>> /\ sub \in Subscriptions
  BY DEF ResetTargetedRepository, ResetSubscription, TypeInv
<1>2. PICK forgetCursor \in BOOLEAN :
        /\ ResetDiscovery(forgetCursor)
        /\ ResetSubscription => forgetCursor
  <2>1. (starter.type = "full") \in BOOLEAN /\ TRUE \in BOOLEAN
    OBVIOUS
  <2>2. CASE ResetSubscription
    BY <2>1, <2>2 DEF ResetSubscription
  <2>3. CASE ~ResetSubscription
    BY <2>1, <2>3 DEF ResetTargetedRepository
  <2> QED BY <2>2, <2>3
<1>3. /\ sub'.repositoryStatus =
           IF starter.seen.repositoryStatus # "null" THEN "null" ELSE sub.repositoryStatus
      /\ sub'.repositoryCursor =
           IF forgetCursor /\ starter.seen.repositoryCursor # 0 THEN 0 ELSE sub.repositoryCursor
  BY <1>1, <1>2, ResetTypes
<1>4. DeliveredGrows
  BY <1>1, Growing
<1>5. ASSUME ~ghost.overlapped PROVE TablesOK'
  <2>1. TablesOK
    BY <1>5 DEF Progress
  <2>2. StoredOK("repository", 0, sub.repositoryStatus, sub.repositoryCursor)'
    <3>1. PICK s1, c1, s2, c2 : /\ s1 = sub.repositoryStatus /\ c1 = sub.repositoryCursor
                                /\ s2 = sub'.repositoryStatus /\ c2 = sub'.repositoryCursor
      OBVIOUS
    <3>2. StoredOK("repository", 0, s1, c1)'
      BY <1>4, <2>1, <3>1, StoredGrows DEF TablesOK
    <3>3. (s2 = "null" \/ s2 = s1) /\ (c2 = 0 \/ c2 = c1)
      BY <1>3, <3>1
    <3>4. Through("repository", 0, 0)'
      BY PagesFacts DEF Through
    <3>5. StoredOK("repository", 0, s2, c2)'
      BY <3>2, <3>3, <3>4 DEF StoredOK
    <3> QED BY <3>1, <3>5 DEF StoredOK
  <2>3. \A r \in rows, t \in TaskTypes : StoredOK(t, r.repo, r.status[t], r.cursor[t])'
    BY <1>4, <2>1, StoredGrows DEF TablesOK
  <2> QED BY <1>1, <2>2, <2>3 DEF TablesOK
<1>6. ASSUME ~ghost.overlapped PROVE ResetOK'
  <2>1. ResetOK
    BY <1>6 DEF Progress
  <2>2. CASE ResetTargetedRepository
    BY <2>2, StartedReset DEF ResetTargetedRepository, StarterSends, NoStart
  <2>3. CASE ResetSubscription
    <3>1. starter'.pc = "deletingRows" /\ starter'.type = starter.type
      BY <2>3 DEF ResetSubscription, TypeInv, StarterOK
    <3>2. starter.pc = "resettingSubscription"
      BY <2>3 DEF ResetSubscription
    <3>3. starter.type = "full" /\ Resetting
      BY <2>1, <3>2 DEF ResetOK, Resetting
    <3>4. sub'.repositoryStatus = "null" /\ sub'.repositoryCursor = 0
      BY <1>2, <1>3, <2>1, <2>3, <3>2 DEF ResetOK
    <3>5. (\A w \in Worker : QuietWorker(worker[w]))'
      BY <1>1, <2>1, <3>3 DEF ResetOK, QuietWorker
    <3> QED BY <3>1, <3>3, <3>4, <3>5 DEF ResetOK
  <2> QED BY <2>2, <2>3
<1> QED BY <1>1, <1>4, <1>5, <1>6, StarterProgress

\* The rows go once nobody works and the subscription is as good as new.
LEMMA DeletionProgress ==
  ASSUME TypeInv, Progress, DeleteFromSubscription
  PROVE  Progress'
<1>1. UNCHANGED <<sub, worker>> /\ rows' = {} /\ starter.pc = "deletingRows" /\ GhostOK
      /\ ghost' = [ghost EXCEPT !.sent = {}] /\ starter'.pc = "sending"
  BY DEF DeleteFromSubscription, TypeInv, StarterSends, NoStart
<1>2. ghost'.overlapped = ghost.overlapped
  BY <1>1, GhostKeeps
<1>3. ASSUME ~ghost.overlapped
      PROVE  TablesOK' /\ \A w \in Worker : QuietWorker(worker[w])
  <2>1. /\ sub.repositoryStatus = "null" /\ sub.repositoryCursor = 0
        /\ \A w \in Worker : QuietWorker(worker[w])
    BY <1>1, <1>3 DEF Progress, ResetOK, Resetting
  <2>2. StoredOK("repository", 0, sub.repositoryStatus, sub.repositoryCursor)'
    BY <1>1, <2>1, PagesFacts DEF StoredOK, Through
  <2> QED BY <1>1, <2>1, <2>2 DEF TablesOK
<1> QED BY <1>1, <1>2, <1>3, StartedReset, StarterProgress

LEMMA RemainingProgress ==
  ASSUME TypeInv, Progress,
         \/ SendFirstMessage \/ StartIsLost \/ FlagGoesStale \/ UNCHANGED vars
         \/ \E m \in Msg : RedriveToDlq(m) \/ VisibilityLapses(m)
  PROVE  Progress'
<1>1. UNCHANGED <<sub, rows, worker>>
  BY DEF SendFirstMessage, StartIsLost, FlagGoesStale, vars, RedriveToDlq, VisibilityLapses
<1>2. ghost'.sent = ghost.sent /\ ghost'.overlapped = ghost.overlapped
  <2>1. \/ ghost' = ghost
        \/ ghost' = [ghost EXCEPT !.startLost = TRUE] \/ ghost' = [ghost EXCEPT !.orphaned = TRUE]
    BY DEF SendFirstMessage, StartIsLost, FlagGoesStale, vars, RedriveToDlq, VisibilityLapses
  <2> QED BY <2>1, GhostKeeps DEF TypeInv
<1>3. starter' = starter \/ starter'.pc = "idle"
  BY DEF SendFirstMessage, StartIsLost, FlagGoesStale, vars, RedriveToDlq, VisibilityLapses, NoStart
<1>4. DeliveredGrows
  BY <1>1, <1>2, Growing
<1>5. ASSUME ~ghost.overlapped PROVE TablesOK' /\ ResetOK'
  <2>1. TablesOK'
    BY <1>1, <1>4, <1>5, SameTables DEF Progress
  <2>2. CASE starter' = starter
    BY <1>1, <1>5, <2>1, <2>2 DEF Progress, ResetOK, Resetting, QuietWorker
  <2> QED BY <1>3, <2>1, <2>2, StartedReset
<1> QED BY <1>1, <1>2, <1>4, <1>5, StarterProgress

LEMMA StepProgress == TypeInv /\ Progress /\ [Next]_vars => Progress'
<1> SUFFICES ASSUME TypeInv, Progress, [Next]_vars PROVE Progress'
  OBVIOUS
<1>1. ASSUME NEW w \in Worker, HandlerStep(w) \/ HandlerFault(w) PROVE Progress'
  BY <1>1, QuietProgress, BegunProgress, PlanProgress, FetchProgress, StatusProgress,
     FailProgress, CompleteProgress DEF HandlerStep, HandlerFault
<1>2. ASSUME NEW type \in SyncTypes, NEW targets \in TargetChoices, BeginSync(type, targets)
      PROVE  Progress'
  BY <1>2, BeginProgress
<1>3. CASE StarterStep
  BY <1>3, PendingProgress, TasksResetProgress, RepositoryResetProgress, DeletionProgress, RemainingProgress
  DEF StarterStep
<1>4. CASE StartIsLost \/ FlagGoesStale \/ UNCHANGED vars
           \/ \E m \in Msg : RedriveToDlq(m) \/ VisibilityLapses(m)
  BY <1>4, RemainingProgress
<1> QED BY <1>1, <1>2, <1>3, <1>4 DEF Next

LEMMA InitProgress == Init => Progress
<1> SUFFICES ASSUME Init PROVE Progress
  OBVIOUS
<1>1. TablesOK
  BY PagesFacts DEF Init, TablesOK, StoredOK, Through, NewSubscription
<1>2. ResetOK
  BY DEF Init, ResetOK, Resetting, NoStart
<1>3. \A w \in Worker : HandOK(worker[w])
  BY IdleTypes DEF Init
<1> QED BY <1>1, <1>2, <1>3 DEF Progress

\* As long as no full reset has met a running worker, a task that is complete in the tables
\* has had every page sent to Jira since the last full reset, and discovery, once it is
\* complete, has found every repository: whatever is lost, retried, timed out or crashes,
\* and however many workers are at it.
THEOREM CompleteIsIngested == Spec => []CompleteMeansIngested
<1>1. Init => Progress
  BY InitProgress
<1>2. TypeInv /\ Progress /\ [Next]_vars => Progress'
  BY StepProgress
<1>3. TypeInv /\ Progress => CompleteMeansIngested
  <2> SUFFICES ASSUME TypeInv, Progress, ~ghost.overlapped
               PROVE  /\ \A r \in rows, t \in TaskTypes : r.status[t] = "complete" => Ingested(t, r.repo)
                      /\ sub.repositoryStatus = "complete" => \A repo \in Repo : Discovered(repo)
    BY DEF CompleteMeansIngested
  <2>1. TablesOK
    BY DEF Progress
  <2>2. ASSUME NEW r \in rows, NEW t \in TaskTypes, r.status[t] = "complete"
        PROVE  Ingested(t, r.repo)
    <3>1. Through(t, r.repo, PagesOf(t))
      BY <2>1, <2>2 DEF TablesOK, StoredOK
    <3>2. PagesOf(t) = PAGES /\ PAGES \in Nat /\ t # "repository"
      BY PagesFacts, BackfillAssumption
    <3>3. \A page \in 1..PAGES : Delivered(t, r.repo, page)
      BY <3>1, <3>2 DEF Through
    <3> QED BY <3>2, <3>3 DEF Ingested, Delivered
  <2>3. ASSUME sub.repositoryStatus = "complete", NEW repo \in Repo
        PROVE  Discovered(repo)
    <3>1. Through("repository", 0, PagesOf("repository"))
      BY <2>1, <2>3 DEF TablesOK, StoredOK
    <3>2. repo \in 1..PagesOf("repository") /\ repo <= PagesOf("repository")
      BY PagesFacts
    <3> QED BY <3>1, <3>2 DEF Through, Delivered
  <2> QED BY <2>2, <2>3
<1> QED BY <1>1, <1>2, <1>3, Types, PTL DEF Spec

-----------------------------------------------------------------------------
(* Nothing that is done is undone. *)

AtJob == {"claimed", "planning", "starting", "stopping", "working", "settled"}

\* A worker at its job has its flag, and nobody else has one.
OneJob ==
  /\ \A v, w \in claim : v = w
  /\ \A w \in Worker : worker[w].pc \in AtJob => w \in claim

Hand(s) == s.todo \cup {got.run : got \in s.got}

\* What is stored after a run in hand moves the tables on.
RunOK(run) ==
  IF run.task = "repository"
  THEN sub.repositoryStatus # "complete" /\ sub.repositoryCursor <= run.cursor
  ELSE \A r \in rows : r.repo = run.repo /\ IsOnlyRow(r) =>
         r.cursor[run.task] <= run.cursor /\ r.status[run.task] # "complete"

\* Two runs do not write to one cursor, unless their repository has two rows.
Apart(run, other) ==
  /\ run.task # "repository"
  /\ run.task = other.task /\ run.repo = other.repo =>
       \A r \in rows : r.repo = run.repo => ~IsOnlyRow(r)

SnapshotOK(s) ==
  s.pc = "planning" /\ s.seen.repositoryStatus # "complete" =>
    sub.repositoryStatus # "complete" /\ sub.repositoryCursor <= s.seen.repositoryCursor

RunsOK(s) ==
  /\ \A run \in Hand(s) : RunOK(run)
  /\ \A run, other \in Hand(s) : run = other \/ Apart(run, other)

\* No run is in hand twice.
OnceOK(s) ==
  /\ \A got \in s.got : got.run \notin s.todo
  /\ \A got, other \in s.got : got.run = other.run => got = other

HandKept(s) == SnapshotOK(s) /\ RunsOK(s) /\ OnceOK(s)

Kept == ghost.raced \/ \A w \in Worker : HandKept(worker[w])

\* A step that moves no cursor on, completes nothing and adds no row.
Lowers ==
  /\ sub'.repositoryStatus = "complete" => sub.repositoryStatus = "complete"
  /\ sub'.repositoryCursor <= sub.repositoryCursor
  /\ \A q \in rows' : IsOnlyRow(q)' => \E r \in rows :
       /\ IsOnlyRow(r) /\ r.repo = q.repo
       /\ \A t \in TaskTypes : q.cursor[t] <= r.cursor[t] /\ (q.status[t] = "complete" => r.status[t] = "complete")

\* What the property asks of a step that is none of findOrStartSync.
Moves ==
  /\ Keeps(sub.repositoryStatus, sub.repositoryCursor, sub'.repositoryStatus, sub'.repositoryCursor)
  /\ \A r \in rows : IsOnlyRow(r) => \E q \in rows' : q.id = r.id /\
       \A t \in TaskTypes : Keeps(r.status[t], r.cursor[t], q.status[t], q.cursor[t])

LEMMA CursorFacts ==
  ASSUME TypeInv
  PROVE  /\ sub.repositoryCursor \in Nat
         /\ \A r \in rows, t \in TaskTypes : r.cursor[t] \in Nat
<1>1. sub.repositoryCursor \in 0..RepositoryPages /\ RepositoryPages \in Nat
  BY PagesFacts DEF TypeInv, Subscriptions
<1>2. ASSUME NEW r \in rows, NEW t \in TaskTypes PROVE r.cursor[t] \in Nat
  <2>1. r \in Row
    BY DEF TypeInv
  <2> QED BY <2>1, BackfillAssumption DEF Row
<1> QED BY <1>1, <1>2

LEMMA RunsInHand ==
  ASSUME NEW s \in Execution, NEW run \in Hand(s)
  PROVE  run \in TaskRuns
BY DEF Hand, Execution, Got

LEMMA SameLowers ==
  ASSUME TypeInv, UNCHANGED rows,
         sub'.repositoryStatus = sub.repositoryStatus, sub'.repositoryCursor = sub.repositoryCursor
  PROVE  Lowers /\ Moves
<1>1. \A q \in rows' : IsOnlyRow(q)' => IsOnlyRow(q)
  BY DEF IsOnlyRow
<1>2. Lowers
  <2>1. \A r \in rows, t \in TaskTypes : r.cursor[t] <= r.cursor[t]
    BY CursorFacts
  <2>2. sub'.repositoryCursor <= sub.repositoryCursor
    BY CursorFacts
  <2> QED BY <1>1, <2>1, <2>2 DEF Lowers
<1>3. Moves
  <2>1. \A r \in rows, t \in TaskTypes : Keeps(r.status[t], r.cursor[t], r.status[t], r.cursor[t])
    BY CursorFacts DEF Keeps, Pending
  <2>2. Keeps(sub.repositoryStatus, sub.repositoryCursor, sub'.repositoryStatus, sub'.repositoryCursor)
    BY CursorFacts DEF Keeps, Pending
  <2> QED BY <2>1, <2>2 DEF Moves
<1> QED BY <1>2, <1>3

\* What a worker holds is kept by a step that lowers the tables.
LEMMA LoweredHand ==
  ASSUME TypeInv, Lowers, sub' \in Subscriptions, rows' \subseteq Row, NEW s \in Execution, HandKept(s)
  PROVE  HandKept(s)'
<1>1. sub.repositoryCursor \in Nat /\ sub'.repositoryCursor \in Nat
  <2>1. sub'.repositoryCursor \in 0..RepositoryPages /\ RepositoryPages \in Nat
    BY PagesFacts DEF Subscriptions
  <2> QED BY <2>1, CursorFacts
<1>2. SnapshotOK(s)'
  <2>1. s.seen.repositoryCursor \in Nat
    BY PagesFacts DEF Execution, Subscriptions
  <2> QED BY <1>1, <2>1 DEF Lowers, HandKept, SnapshotOK
<1>3. ASSUME NEW run \in Hand(s) PROVE RunOK(run)'
  <2>1. run \in TaskRuns /\ RunOK(run) /\ run.cursor \in Nat /\ run.task \in TaskTypes \cup {"repository"}
    BY RunsInHand, TaskRunFacts DEF HandKept, RunsOK
  <2>2. CASE run.task = "repository"
    BY <1>1, <2>1, <2>2 DEF Lowers, RunOK
  <2>3. ASSUME run.task # "repository", NEW q \in rows', q.repo = run.repo, IsOnlyRow(q)'
        PROVE  q.cursor[run.task] <= run.cursor /\ q.status[run.task] # "complete"
    <3>1. run.task \in TaskTypes
      BY <2>1, <2>3
    <3>2. PICK r \in rows :
            /\ IsOnlyRow(r) /\ r.repo = q.repo /\ q.cursor[run.task] <= r.cursor[run.task]
            /\ q.status[run.task] = "complete" => r.status[run.task] = "complete"
      BY <2>3, <3>1 DEF Lowers
    <3>3. r.cursor[run.task] <= run.cursor /\ r.status[run.task] # "complete"
      BY <2>1, <2>3, <3>2 DEF RunOK
    <3>4. q.cursor[run.task] \in Nat /\ r.cursor[run.task] \in Nat
      <4>1. q \in Row
        OBVIOUS
      <4>2. q.cursor[run.task] \in 0..PAGES
        BY <3>1, <4>1 DEF Row
      <4> QED BY <3>1, <4>2, CursorFacts, BackfillAssumption
    <3> QED BY <2>1, <3>2, <3>3, <3>4
  <2> QED BY <2>2, <2>3 DEF RunOK
<1>4. ASSUME NEW run \in Hand(s), NEW other \in Hand(s) PROVE run = other \/ Apart(run, other)'
  BY DEF HandKept, RunsOK, Apart, Lowers
<1>5. RunsOK(s)'
  BY <1>3, <1>4 DEF RunsOK, Hand
<1>6. OnceOK(s)'
  BY DEF HandKept, OnceOK
<1> QED BY <1>2, <1>5, <1>6 DEF HandKept

\* Whoever holds less keeps it as well.
LEMMA CarriedHand ==
  ASSUME NEW s, NEW x, HandKept(s), Carries(s, x)
  PROVE  HandKept(x)
<1>1. Hand(x) \subseteq Hand(s)
  BY DEF Carries, Hand
<1>2. SnapshotOK(x)
  BY DEF Carries, HandKept, SnapshotOK
<1>3. RunsOK(x)
  BY <1>1 DEF HandKept, RunsOK
<1>4. OnceOK(x)
  BY DEF Carries, HandKept, OnceOK
<1> QED BY <1>2, <1>3, <1>4 DEF HandKept

\* Who is not at a job holds nothing.
LEMMA EmptyHand ==
  ASSUME NEW s, s.todo = {}, s.got = {}, s.pc # "planning"
  PROVE  HandKept(s)'
BY DEF HandKept, SnapshotOK, RunsOK, OnceOK, Hand

LEMMA OffDuty ==
  ASSUME NEW s, WorkOK(s), s.pc \notin AtJob
  PROVE  s.todo = {} /\ s.got = {} /\ s.pc # "planning"
BY DEF WorkOK, AtJob

-----------------------------------------------------------------------------
(* One worker at a time. *)

\* A step of one worker: it has its flag, or is not at a job.
LEMMA OneJobKept ==
  ASSUME TypeInv, OneJob, NEW w \in Worker, NEW x, Becomes(w, x),
         claim' \subseteq claim \/ (claim = {} /\ claim' = {w}), claim \ {w} \subseteq claim',
         x.pc \in AtJob => w \in claim'
  PROVE  OneJob'
<1>1. worker'[w] = x /\ \A v \in Worker \ {w} : worker'[v] = worker[v]
  BY DEF Becomes, TypeInv
<1>2. \A u, v \in claim' : u = v
  BY DEF OneJob
<1>3. ASSUME NEW v \in Worker, worker'[v].pc \in AtJob PROVE v \in claim'
  BY <1>1, <1>3 DEF OneJob
<1> QED BY <1>2, <1>3 DEF OneJob

\* Where a worker that leaves its job, or has none, goes.
LEMMA LeavesJob ==
  ASSUME TypeInv, NEW w \in Worker,
         \/ \E m \in Msg : ReceiveMessage(w, m)
         \/ NotSure(w) \/ OtherWorkerDoingThisJob(w) \/ PostponeMessage(w) \/ DeleteMessage(w)
         \/ SendBackfillMessage(w) \/ Crash(w) \/ ReleaseClaim(w) \/ InfrastructureFails(w)
         \/ MarkCurrentTaskAsFailed(w) \/ MarkTaskAsComplete(w)
         \/ RescheduleRateLimited(w) \/ RetryMessage(w)
  PROVE  \E x : Becomes(w, x) /\ x.pc \notin AtJob
<1> DEFINE s == worker[w]
           away == {"idle", "received", "failing", "sending", "deleting"}
<1>1. s \in Execution /\ away \subseteq Labels /\ away \cap AtJob = {}
  BY WorkOfExecution DEF Labels, AtJob
<1>2. CASE Becomes(w, Idle)
  BY <1>1, <1>2 DEF Idle
<1>3. ASSUME NEW label \in away, Move(w, label) \/ Leave(w, label) PROVE \E x : Becomes(w, x) /\ x.pc \notin AtJob
  <2> DEFINE x == [s EXCEPT !.pc = label]
             y == [s EXCEPT !.pc = label, !.main = NoRun]
  <2>1. x.pc = label /\ y.pc = label
    BY <1>1, MovedRecord, LeftRecord
  <2>2. Becomes(w, x) \/ Becomes(w, y)
    BY <1>3 DEF Move, Leave
  <2> HIDE DEF x, y
  <2> QED BY <1>1, <2>1, <2>2
<1>4. ASSUME NEW m \in Msg, ReceiveMessage(w, m) PROVE \E x : Becomes(w, x) /\ x.pc \notin AtJob
  <2> DEFINE x == [Idle EXCEPT !.pc = "received", !.msg = m, !.received = queue[m].received + 1,
                               !.targets = queue[m].targets]
  <2>1. Becomes(w, x) /\ x.pc = "received"
    BY <1>4 DEF ReceiveMessage, Idle
  <2> HIDE DEF x
  <2> QED BY <1>1, <2>1
<1>5. CASE InfrastructureFails(w)
  <2> DEFINE x == [Idle EXCEPT !.pc = "failing", !.outcome = "infrastructure",
                               !.msg = s.msg, !.received = s.received]
  <2>1. Becomes(w, Idle) \/ Becomes(w, x)
    BY <1>5 DEF InfrastructureFails
  <2>2. x.pc = "failing"
    BY <1>1, FailedRecord
  <2> HIDE DEF x
  <2> QED BY <1>1, <1>2, <2>1, <2>2
<1>6. CASE NotSure(w) \/ OtherWorkerDoingThisJob(w) \/ PostponeMessage(w) \/ SendBackfillMessage(w)
           \/ RescheduleRateLimited(w) \/ MarkTaskAsComplete(w) \/ MarkCurrentTaskAsFailed(w)
           \/ ReleaseClaim(w)
  <2>1. Becomes(w, Idle) \/ \E label \in away : Move(w, label) \/ Leave(w, label)
    BY <1>6 DEF NotSure, OtherWorkerDoingThisJob, PostponeMessage, SendBackfillMessage,
                RescheduleRateLimited, MarkTaskAsComplete, MarkCurrentTaskAsFailed, MarksAs, ReleaseClaim
  <2> QED BY <1>2, <1>3, <2>1
<1>7. CASE DeleteMessage(w) \/ Crash(w) \/ RetryMessage(w)
  BY <1>2, <1>7 DEF DeleteMessage, Crash, RetryMessage
<1> QED BY <1>4, <1>5, <1>6, <1>7

\* The flag keeps a second job from starting, unless two checks of it overlap.
LEMMA WorkerOneJob ==
  ASSUME ~FLAG_RACES, TypeInv, OneJob, NEW w \in Worker, HandlerStep(w) \/ HandlerFault(w)
  PROVE  OneJob'
<1> DEFINE s == worker[w]
<1>1. CASE \/ \E m \in Msg : ReceiveMessage(w, m)
           \/ NotSure(w) \/ OtherWorkerDoingThisJob(w) \/ PostponeMessage(w) \/ DeleteMessage(w)
           \/ SendBackfillMessage(w) \/ Crash(w) \/ ReleaseClaim(w) \/ InfrastructureFails(w)
           \/ MarkCurrentTaskAsFailed(w) \/ MarkTaskAsComplete(w)
           \/ RescheduleRateLimited(w) \/ RetryMessage(w)
  <2>1. claim' \subseteq claim /\ claim \ {w} \subseteq claim'
    BY <1>1 DEF ReceiveMessage, NotSure, OtherWorkerDoingThisJob, PostponeMessage, DeleteMessage,
                SendBackfillMessage, Crash, ReleaseClaim, InfrastructureFails, MarkCurrentTaskAsFailed,
                MarksAs, MarkTaskAsComplete, RescheduleRateLimited, RetryMessage
  <2>2. PICK x : Becomes(w, x) /\ x.pc \notin AtJob
    BY <1>1, LeavesJob
  <2> QED BY <2>1, <2>2, OneJobKept
<1>2. CASE \/ ReadSubscription(w) \/ PlanTasks(w) \/ MarkSyncAsCompleteAndStop(w) \/ SetActive(w)
           \/ \E run \in s.todo : FetchPage(w, run)
           \/ \E got \in s.got : UpdateTaskStatus(w, got)
           \/ TasksSettle(w)
           \/ \E run \in s.todo, error \in TaskErrors : TaskFails(w, run, error)
           \/ \E got \in s.got : TaskStatusIsNotStored(w, got)
  <2>1. s.pc \in AtJob /\ claim' = claim
    BY <1>2 DEF ReadSubscription, PlanTasks, MarkSyncAsCompleteAndStop, SetActive, FetchPage,
                UpdateTaskStatus, TasksSettle, TaskFails, TaskStatusIsNotStored, AtJob
  <2>2. \E x : Becomes(w, x)
    BY <1>2 DEF ReadSubscription, PlanTasks, MarkSyncAsCompleteAndStop, SetActive, FetchPage,
                UpdateTaskStatus, TasksSettle, TaskFails, TaskStatusIsNotStored, Move
  <2>3. w \in claim'
    BY <2>1 DEF OneJob
  <2> QED BY <2>1, <2>2, <2>3, OneJobKept
<1>3. CASE HandlerTimesOut(w)
  <2> DEFINE x == [s EXCEPT !.timedOut = TRUE, !.msg = None]
  <2>1. x.pc = s.pc
    BY WorkOfExecution, TimedOutRecord
  <2>2. Becomes(w, x) /\ claim' = claim
    BY <1>3 DEF HandlerTimesOut
  <2> HIDE DEF x
  <2>3. x.pc \in AtJob => w \in claim'
    BY <2>1, <2>2 DEF OneJob
  <2> QED BY <2>2, <2>3, OneJobKept
<1>4. CASE ClaimSync(w)
  <2>1. claim = {} /\ claim' = {w} /\ \E x : Becomes(w, x)
    BY <1>4 DEF ClaimSync, Move
  <2> QED BY <2>1, OneJobKept
<1> QED BY <1>1, <1>2, <1>3, <1>4 DEF HandlerStep, HandlerFault

LEMMA StepOneJob ==
  ASSUME ~FLAG_RACES, TypeInv, OneJob, [Next]_vars
  PROVE  OneJob'
<1>1. ASSUME NEW w \in Worker, HandlerStep(w) \/ HandlerFault(w) PROVE OneJob'
  BY <1>1, WorkerOneJob
<1>2. CASE ~\E w \in Worker : HandlerStep(w) \/ HandlerFault(w)
  <2>1. UNCHANGED <<worker, claim>>
    BY <1>2 DEF Next, vars, BeginSync, StarterStep, SetPending, ResetTargetedTasks,
                ResetTargetedRepository,
                ResetSubscription, DeleteFromSubscription, SendFirstMessage, StartIsLost,
                FlagGoesStale, RedriveToDlq, VisibilityLapses
  <2> QED BY <2>1 DEF OneJob
<1> QED BY <1>1, <1>2

-----------------------------------------------------------------------------
(* What is in hand stays ahead of the tables. *)

LEMMA RacedKeeps ==
  ASSUME GhostOK, NEW c, NEW d,
         \/ ghost' = ghost \/ ghost' = [ghost EXCEPT !.sent = c] \/ ghost' = [ghost EXCEPT !.twice = c]
         \/ ghost' = [ghost EXCEPT !.dropped = c] \/ ghost' = [ghost EXCEPT !.orphaned = c]
         \/ ghost' = [ghost EXCEPT !.startLost = c] \/ ghost' = [ghost EXCEPT !.overlapped = c]
         \/ ghost' = [ghost EXCEPT !.overlapped = c, !.met = d]
  PROVE  ghost'.raced = ghost.raced
BY DEF GhostOK

\* A step of one worker that lowers the tables, or of the one that is at its job.
LEMMA WorkerKept ==
  ASSUME TypeInv, OneJob, Kept, NEW w \in Worker, NEW x \in Execution, Becomes(w, x),
         sub' \in Subscriptions, rows' \subseteq Row, ghost'.raced = ghost.raced,
         Lowers \/ worker[w].pc \in AtJob, ~ghost.raced => HandKept(x)'
  PROVE  Kept'
<1> SUFFICES ASSUME ~ghost.raced, NEW v \in Worker PROVE HandKept(worker[v])'
  BY DEF Kept
<1>1. worker'[w] = x /\ (v # w => worker'[v] = worker[v])
  BY DEF Becomes, TypeInv
<1>2. PICK s \in Execution : s = worker[v] /\ WorkOK(s) /\ HandKept(s)
  BY WorkOfExecution DEF Kept
<1>3. CASE v = w
  <2>1. PICK y : y = worker'[v]
    OBVIOUS
  <2>2. HandKept(y)'
    BY <1>1, <1>3, <2>1
  <2> QED BY <2>1, <2>2
<1>4. CASE v # w
  <2>1. HandKept(s)'
    <3>1. CASE Lowers
      BY <1>2, <3>1, LoweredHand
    <3>2. CASE worker[w].pc \in AtJob
      <4>1. s.pc \notin AtJob
        BY <1>2, <1>4, <3>2 DEF OneJob
      <4> QED BY <1>2, <4>1, OffDuty, EmptyHand
    <3> QED BY <3>1, <3>2
  <2>2. s = worker'[v]
    BY <1>1, <1>2, <1>4
  <2> QED BY <2>1, <2>2
<1> QED BY <1>3, <1>4

\* Steps that leave tasks and cursors as they are and take on no work.
LEMMA QuietKept ==
  ASSUME TypeInv, TypeInv', OneJob, Kept, NEW w \in Worker,
         \/ \E m \in Msg : ReceiveMessage(w, m)
         \/ NotSure(w) \/ OtherWorkerDoingThisJob(w) \/ PostponeMessage(w) \/ DeleteMessage(w)
         \/ SendBackfillMessage(w) \/ HandlerTimesOut(w) \/ Crash(w)
         \/ MarkSyncAsCompleteAndStop(w) \/ SetActive(w) \/ TasksSettle(w) \/ ReleaseClaim(w)
         \/ InfrastructureFails(w) \/ RescheduleRateLimited(w) \/ RetryMessage(w)
         \/ \E run \in worker[w].todo, error \in TaskErrors : TaskFails(w, run, error)
         \/ \E got \in worker[w].got : TaskStatusIsNotStored(w, got)
  PROVE  Kept' /\ Moves
<1>1. PICK x \in Execution : Becomes(w, x) /\ Carries(worker[w], x)
  BY MessagesGoOn, JobsGoOn DEF GoesOn
<1>2. UNCHANGED rows
  BY DEF ReceiveMessage, NotSure, OtherWorkerDoingThisJob, PostponeMessage, DeleteMessage,
         SendBackfillMessage, HandlerTimesOut, Crash, MarkSyncAsCompleteAndStop, SetActive,
         TasksSettle, ReleaseClaim, InfrastructureFails, RescheduleRateLimited, RetryMessage,
         TaskFails, TaskStatusIsNotStored
<1>3. \/ UNCHANGED sub
      \/ \E status \in SyncStatus : sub' = Saved(worker[w].seen, "syncStatus", status)
  BY DEF ReceiveMessage, NotSure, OtherWorkerDoingThisJob, PostponeMessage, DeleteMessage,
         SendBackfillMessage, HandlerTimesOut, Crash, MarkSyncAsCompleteAndStop, SetActive,
         TasksSettle, ReleaseClaim, InfrastructureFails, RescheduleRateLimited, RetryMessage,
         TaskFails, TaskStatusIsNotStored, SyncStatus
<1>4. sub'.repositoryStatus = sub.repositoryStatus /\ sub'.repositoryCursor = sub.repositoryCursor
  BY <1>3, SavedTypes DEF TypeInv
<1>5. \/ UNCHANGED ghost
      \/ \E c : ghost' = [ghost EXCEPT !.dropped = c] \/ ghost' = [ghost EXCEPT !.orphaned = c]
  BY DEF ReceiveMessage, NotSure, OtherWorkerDoingThisJob, PostponeMessage, DeleteMessage,
         SendBackfillMessage, HandlerTimesOut, Crash, MarkSyncAsCompleteAndStop, SetActive,
         TasksSettle, ReleaseClaim, InfrastructureFails, RescheduleRateLimited, RetryMessage,
         TaskFails, TaskStatusIsNotStored
<1>6. ghost'.raced = ghost.raced
  BY <1>5, RacedKeeps DEF TypeInv
<1>7. Lowers /\ Moves /\ sub' \in Subscriptions /\ rows' \subseteq Row
  BY <1>2, <1>4, SameLowers DEF TypeInv
<1>8. ASSUME ~ghost.raced PROVE HandKept(x)'
  <2>1. HandKept(x)
    BY <1>1, <1>8, CarriedHand DEF Kept
  <2> QED BY <1>7, <2>1, LoweredHand
<1> QED BY <1>1, <1>6, <1>7, <1>8, WorkerKept

\* A job that begins has nothing in hand, or what it has just read.
LEMMA BegunKept ==
  ASSUME TypeInv, TypeInv', OneJob, Kept, NEW w \in Worker, ClaimSync(w) \/ ReadSubscription(w)
  PROVE  Kept' /\ Moves
<1>1. PICK x \in Execution :
        /\ Becomes(w, x) /\ x.todo = {} /\ x.got = {}
        /\ ClaimSync(w) => x.pc = "claimed"
        /\ ReadSubscription(w) => x.pc = "planning" /\ x.seen = sub
  BY BegunWork
<1>2. UNCHANGED <<sub, rows>> /\ GhostOK
  BY DEF ClaimSync, ReadSubscription, TypeInv
<1>3. ghost'.raced = ghost.raced
  <2>1. ghost' = ghost \/ \E c, d : ghost' = [ghost EXCEPT !.overlapped = c, !.met = d]
    BY DEF ClaimSync, ReadSubscription
  <2> QED BY <1>2, <2>1, RacedKeeps
<1>4. Lowers /\ Moves /\ sub' \in Subscriptions /\ rows' \subseteq Row
  BY <1>2, SameLowers DEF TypeInv
<1>5. HandKept(x)
  <2>1. SnapshotOK(x)
    BY <1>1, CursorFacts DEF SnapshotOK
  <2> QED BY <1>1, <2>1 DEF HandKept, RunsOK, OnceOK, Hand
<1>6. HandKept(x)'
  BY <1>4, <1>5, LoweredHand
<1> QED BY <1>1, <1>3, <1>4, <1>6, WorkerKept

\* The tasks that are picked: the discovery alone, or tasks that wait in their rows.
LEMMA PlannedHand ==
  ASSUME TypeInv, NEW s, SnapshotOK(s), s.pc = "planning", NEW x, x.pc = "starting", x.got = {},
         Planned(s, x.todo)
  PROVE  HandKept(x)
<1>1. Hand(x) = x.todo
  BY DEF Hand
<1>2. SnapshotOK(x) /\ OnceOK(x)
  BY DEF SnapshotOK, OnceOK
<1>3. CASE s.seen.repositoryStatus # "complete" /\ x.todo = {Run(RepositoryTask, s.seen.repositoryCursor)}
  <2>1. \A run \in x.todo : RunOK(run)
    BY <1>3 DEF SnapshotOK, RunOK, Run, RepositoryTask
  <2> QED BY <1>1, <1>2, <1>3, <2>1 DEF HandKept, RunsOK
<1>4. CASE \A run \in x.todo : RunOfRow(run)
  <2>1. ASSUME NEW run \in x.todo PROVE RunOK(run)
    <3>1. PICK r \in rows, t \in TaskTypes :
            /\ r.status[t] \in Pending
            /\ run = [task |-> t, repo |-> r.repo, id |-> r.id, cursor |-> r.cursor[t]]
      BY <1>4 DEF RunOfRow
    <3>2. run.task = t /\ run.repo = r.repo /\ run.cursor = r.cursor[t] /\ t # "repository"
      BY <3>1, PagesFacts
    <3>3. r.cursor[t] <= run.cursor /\ r.status[t] # "complete"
      BY <3>1, <3>2, CursorFacts DEF Pending
    <3> QED BY <3>2, <3>3 DEF RunOK, IsOnlyRow
  <2>2. ASSUME NEW run \in x.todo, NEW other \in x.todo, run # other PROVE Apart(run, other)
    <3>1. PICK r \in rows, t \in TaskTypes :
            run = [task |-> t, repo |-> r.repo, id |-> r.id, cursor |-> r.cursor[t]]
      BY <1>4 DEF RunOfRow
    <3>2. PICK q \in rows, u \in TaskTypes :
            other = [task |-> u, repo |-> q.repo, id |-> q.id, cursor |-> q.cursor[u]]
      BY <1>4 DEF RunOfRow
    <3>3. run.task = t /\ run.repo = r.repo /\ other.task = u /\ other.repo = q.repo /\ t # "repository"
      BY <3>1, <3>2, PagesFacts
    <3>4. t = u => r # q
      BY <2>2, <3>1, <3>2
    <3> QED BY <3>3, <3>4 DEF Apart, IsOnlyRow
  <2>3. RunsOK(x)
    BY <1>1, <2>1, <2>2 DEF RunsOK
  <2> QED BY <1>2, <2>3 DEF HandKept
<1> QED BY <1>3, <1>4 DEF Planned

LEMMA PlanKept ==
  ASSUME TypeInv, TypeInv', OneJob, Kept, NEW w \in Worker, PlanTasks(w)
  PROVE  Kept' /\ Moves
<1>1. UNCHANGED <<sub, rows, ghost>> /\ worker[w].pc = "planning"
  BY DEF PlanTasks
<1>2. Lowers /\ Moves /\ sub' \in Subscriptions /\ rows' \subseteq Row
  BY <1>1, SameLowers DEF TypeInv
<1>3. \E x \in Execution : Becomes(w, x) /\ (~ghost.raced => HandKept(x))
  <2>1. CASE GoesOn(w)
    BY <2>1, CarriedHand DEF GoesOn, Kept
  <2>2. CASE ~GoesOn(w)
    <3>1. PICK x \in Execution :
            /\ Becomes(w, x) /\ x.pc = "starting" /\ x.got = {}
            /\ Planned(worker[w], x.todo)
      BY <2>2, PlannedWork
    <3>2. ~ghost.raced => SnapshotOK(worker[w])
      BY DEF Kept, HandKept
    <3> QED BY <1>1, <3>1, <3>2, PlannedHand
  <2> QED BY <2>1, <2>2
<1>4. PICK x \in Execution : Becomes(w, x) /\ (~ghost.raced => HandKept(x))
  BY <1>3
<1>5. ~ghost.raced => HandKept(x)'
  BY <1>2, <1>4, LoweredHand
<1> QED BY <1>1, <1>2, <1>4, <1>5, WorkerKept

\* A page is in hand in place of its run; only discovery adds a row, and it is alone.
LEMMA FetchKept ==
  ASSUME TypeInv, TypeInv', OneJob, Kept, NEW w \in Worker, NEW run \in worker[w].todo, FetchPage(w, run)
  PROVE  Kept' /\ Moves
<1> DEFINE s == worker[w]
           page == run.cursor + 1
           more == page <= PagesOf(run.task)
<1>1. PICK x \in Execution :
        /\ Becomes(w, x) /\ x.pc = "working" /\ x.todo = s.todo \ {run}
        /\ \E new : x.got = s.got \cup {[run |-> run, more |-> new]}
  BY FetchedWork
<1>2. PICK new : x.got = s.got \cup {[run |-> run, more |-> new]}
  BY <1>1
<1>3. /\ s.pc = "working" /\ UNCHANGED sub /\ GhostOK /\ s \in Execution
      /\ rows' = IF more /\ run.task = "repository" THEN rows \cup {NewRow(page)} ELSE rows
  BY WorkOfExecution DEF FetchPage, TypeInv
<1>4. ghost'.raced = ghost.raced
  <2>1. \/ ghost' = ghost
        \/ \E c : ghost' = [ghost EXCEPT !.twice = c]
        \/ \E c : ghost' = [ghost EXCEPT !.sent = c]
    BY DEF FetchPage
  <2> QED BY <1>3, <2>1, RacedKeeps
<1>5. Moves
  <2>1. \A r \in rows, t \in TaskTypes : Keeps(r.status[t], r.cursor[t], r.status[t], r.cursor[t])
    BY CursorFacts DEF Keeps, Pending
  <2>2. Keeps(sub.repositoryStatus, sub.repositoryCursor, sub'.repositoryStatus, sub'.repositoryCursor)
    BY <1>3, CursorFacts DEF Keeps, Pending
  <2>3. rows \subseteq rows'
    BY <1>3
  <2> QED BY <2>1, <2>2, <2>3 DEF Moves
<1>6. Hand(x) \subseteq Hand(s) /\ s.pc \in AtJob
  <2>1. run \in Hand(s)
    BY DEF Hand
  <2> QED BY <1>1, <1>2, <1>3, <2>1 DEF Hand, AtJob
<1>7. ASSUME ~ghost.raced PROVE HandKept(x)'
  <2>1. HandKept(s)
    BY <1>7 DEF Kept
  <2>2. OnceOK(x)
    <3>1. \A got \in s.got : got.run # run
      BY <2>1 DEF HandKept, OnceOK
    <3>2. \A got \in x.got : got \in s.got \/ (got = [run |-> run, more |-> new] /\ got.run = run)
      BY <1>2
    <3> QED BY <1>1, <2>1, <3>1, <3>2 DEF HandKept, OnceOK
  <2>3. SnapshotOK(x)
    BY <1>1 DEF SnapshotOK
  <2>4. RunsOK(x)
    BY <1>6, <2>1 DEF HandKept, RunsOK
  <2>5. CASE rows' = rows
    <3>1. Lowers
      BY <1>3, <2>5, SameLowers
    <3> QED BY <2>2, <2>3, <2>4, <3>1, LoweredHand DEF HandKept, TypeInv
  <2>6. CASE rows' # rows
    <3>1. run.task = "repository"
      BY <1>3, <2>6
    <3>2. \A other \in Hand(x) : other = run
      <4>1. run \in Hand(s)
        BY DEF Hand
      <4> QED BY <1>6, <2>1, <3>1, <4>1 DEF HandKept, RunsOK, Apart
    <3>3. \A other \in Hand(x) : RunOK(other)'
      BY <1>3, <2>4, <3>1, <3>2 DEF RunOK, RunsOK
    <3>4. RunsOK(x)'
      BY <3>2, <3>3 DEF RunsOK, Hand
    <3> QED BY <1>1, <2>2, <3>4 DEF HandKept, SnapshotOK, OnceOK
  <2> QED BY <2>5, <2>6
<1> QED BY <1>1, <1>4, <1>5, <1>6, <1>7, WorkerKept DEF TypeInv

\* A write to the rows of a repository gives none of them the repository to itself.
LEMMA RewrittenOnlyRow ==
  ASSUME IdsOK, NEW f, NEW run, NEW status, NEW moved, Rewrites(f, run, status, moved),
         NEW r \in rows, IsOnlyRow(f[r])'
  PROVE  IsOnlyRow(r)
<1>1. ASSUME NEW q \in rows, q.repo = r.repo PROVE q = r
  <2>1. f[q] \in rows' /\ f[q].repo = f[r].repo
    BY <1>1 DEF Rewrites
  <2>2. f[q] = f[r]
    BY <2>1 DEF IsOnlyRow
  <2>3. q.id = r.id
    BY <2>2 DEF Rewrites
  <2> QED BY <2>3 DEF IdsOK
<1> QED BY <1>1 DEF IsOnlyRow

\* The status of a task that ends or fails, stored without its cursor, undoes nothing.
LEMMA ClosingMoves ==
  ASSUME TypeInv, NEW run \in TaskRuns \cup {NoRun}, NEW status \in {"complete", "failed"},
         UpdateRepo(run, status, FALSE)
  PROVE  Moves
<1>1. /\ run.task = "repository" =>
           rows' = rows /\ sub'.repositoryStatus = status /\ sub'.repositoryCursor = sub.repositoryCursor
      /\ run.task # "repository" => sub' = sub /\ \E f : Rewrites(f, run, status, FALSE)
  BY UpdateRepoFacts DEF TypeInv, Status
<1>2. \A r \in rows, t \in TaskTypes : Keeps(r.status[t], r.cursor[t], r.status[t], r.cursor[t])
  BY CursorFacts DEF Keeps, Pending
<1>3. Keeps(sub.repositoryStatus, sub.repositoryCursor, sub.repositoryStatus, sub.repositoryCursor)
  BY CursorFacts DEF Keeps, Pending
<1>4. CASE run.task = "repository"
  <2>1. Keeps(sub.repositoryStatus, sub.repositoryCursor, sub'.repositoryStatus, sub'.repositoryCursor)
    BY <1>1, <1>4, CursorFacts DEF Keeps, Pending
  <2> QED BY <1>1, <1>2, <1>4, <2>1 DEF Moves
<1>5. CASE run.task # "repository"
  <2>1. PICK f : Rewrites(f, run, status, FALSE)
    BY <1>1, <1>5
  <2>2. ASSUME NEW r \in rows, NEW t \in TaskTypes
        PROVE  Keeps(r.status[t], r.cursor[t], f[r].status[t], f[r].cursor[t])
    <3>1. f[r].cursor[t] = r.cursor[t] /\ f[r].status[t] \in {status, r.status[t]}
      BY <2>1 DEF Rewrites
    <3> QED BY <3>1, CursorFacts DEF Keeps, Pending
  <2>3. \A r \in rows : f[r] \in rows' /\ f[r].id = r.id
    BY <2>1 DEF Rewrites
  <2> QED BY <1>1, <1>3, <1>5, <2>2, <2>3 DEF Moves
<1> QED BY <1>4, <1>5

\* What is stored after a run in hand moves the tables on.
LEMMA StoringMoves ==
  ASSUME TypeInv, NEW run \in TaskRuns, RunOK(run), NEW more \in BOOLEAN,
         more => run.cursor < PagesOf(run.task), NEW status \in Status,
         status = IF more THEN "pending" ELSE "complete", UpdateRepo(run, status, more)
  PROVE  Moves
<1>1. CASE ~more
  BY <1>1, ClosingMoves
<1>2. CASE more
  <2>1. /\ run.task = "repository" =>
             rows' = rows /\ sub'.repositoryCursor = run.cursor + 1
        /\ run.task # "repository" => sub' = sub /\ \E f : Rewrites(f, run, status, more)
    BY <1>2, UpdateRepoFacts DEF TypeInv
  <2>2. run.cursor \in Nat /\ run.task \in TaskTypes \cup {"repository"}
    BY TaskRunFacts
  <2>3. \A r \in rows, t \in TaskTypes : Keeps(r.status[t], r.cursor[t], r.status[t], r.cursor[t])
    BY CursorFacts DEF Keeps, Pending
  <2>4. Keeps(sub.repositoryStatus, sub.repositoryCursor, sub.repositoryStatus, sub.repositoryCursor)
    BY CursorFacts DEF Keeps, Pending
  <2>5. CASE run.task = "repository"
    <3>1. Keeps(sub.repositoryStatus, sub.repositoryCursor, sub'.repositoryStatus, sub'.repositoryCursor)
      BY <2>1, <2>2, <2>5, CursorFacts DEF Keeps, RunOK
    <3> QED BY <2>1, <2>3, <2>5, <3>1 DEF Moves
  <2>6. CASE run.task # "repository"
    <3>1. PICK f : Rewrites(f, run, status, more)
      BY <2>1, <2>6
    <3>2. ASSUME NEW r \in rows, IsOnlyRow(r), NEW t \in TaskTypes
          PROVE  Keeps(r.status[t], r.cursor[t], f[r].status[t], f[r].cursor[t])
      <4>1. CASE r.repo = run.repo /\ t = run.task
        <5>1. f[r].cursor[t] = run.cursor + 1
          BY <1>2, <3>1, <4>1 DEF Rewrites
        <5>2. r.cursor[t] <= run.cursor /\ r.status[t] # "complete"
          BY <2>6, <3>2, <4>1 DEF RunOK
        <5> QED BY <2>2, <5>1, <5>2, CursorFacts DEF Keeps
      <4>2. CASE ~(r.repo = run.repo /\ t = run.task)
        <5>1. f[r].status[t] = r.status[t] /\ f[r].cursor[t] = r.cursor[t]
          BY <3>1, <4>2 DEF Rewrites
        <5> QED BY <2>3, <5>1
      <4> QED BY <4>1, <4>2
    <3>3. \A r \in rows : f[r] \in rows' /\ f[r].id = r.id
      BY <3>1 DEF Rewrites
    <3> QED BY <2>1, <2>4, <2>6, <3>2, <3>3 DEF Moves
  <2> QED BY <2>5, <2>6
<1> QED BY <1>1, <1>2

\* ... and leaves what else is in hand ahead of them.
LEMMA StatusKept ==
  ASSUME TypeInv, TypeInv', OneJob, Kept, NEW w \in Worker, NEW got \in worker[w].got,
         UpdateTaskStatus(w, got)
  PROVE  Kept' /\ (ghost.raced \/ Moves)
<1> DEFINE s == worker[w]
           run == got.run
           status == IF got.more THEN "pending" ELSE "complete"
<1>1. /\ run \in TaskRuns /\ got.more \in BOOLEAN /\ (got.more <=> run.cursor < PagesOf(run.task))
      /\ s \in Execution /\ IdsOK
  BY WorkOfExecution DEF WorkOK, Got, TypeInv
<1>2. UNCHANGED ghost /\ s.pc \in AtJob /\ UpdateRepo(run, status, got.more) /\ status \in Status
  BY DEF UpdateTaskStatus, AtJob, Status
<1>3. PICK x \in Execution :
        /\ Becomes(w, x) /\ x.pc = "working" /\ x.todo = s.todo /\ x.got = s.got \ {got}
  BY PageDone
<1>4. ASSUME ~ghost.raced PROVE HandKept(s) /\ RunOK(run)
  <2>1. HandKept(s) /\ run \in Hand(s)
    BY <1>4 DEF Kept, Hand
  <2> QED BY <2>1 DEF HandKept, RunsOK
<1>5. ~ghost.raced => Moves
  <2> HIDE DEF status
  <2>1. status = IF got.more THEN "pending" ELSE "complete"
    BY DEF status
  <2> QED BY <1>1, <1>2, <1>4, <2>1, StoringMoves
<1>6. ASSUME ~ghost.raced PROVE HandKept(x)'
  <2>1. HandKept(s) /\ run \in Hand(s)
    BY <1>4, <1>6 DEF Hand
  <2>2. \A other \in Hand(x) : other \in Hand(s) /\ other # run
    <3>1. run \notin s.todo /\ \A got2 \in s.got \ {got} : got2.run # run
      BY <2>1 DEF HandKept, OnceOK
    <3> QED BY <1>3, <3>1 DEF Hand
  <2>3. OnceOK(x)'
    BY <1>3, <2>1 DEF HandKept, OnceOK
  <2>4. \A other \in Hand(x) : RunOK(other) /\ Apart(run, other) /\ Apart(other, run)
    BY <2>1, <2>2 DEF HandKept, RunsOK
  <2>5. \A other, another \in Hand(x) : other = another \/ Apart(other, another)
    BY <2>1, <2>2 DEF HandKept, RunsOK
  <2>6. CASE run.task = "repository"
    <3>1. Hand(x) = {}
      BY <2>4, <2>6 DEF Apart
    <3> QED BY <1>3, <2>3, <3>1 DEF HandKept, SnapshotOK, RunsOK, Hand
  <2>7. CASE run.task # "repository"
    <3>1. PICK f : Rewrites(f, run, status, got.more)
      <4> HIDE DEF status
      <4> QED BY <1>1, <1>2, <2>7, UpdateRepoFacts DEF TypeInv
    <3>2. rows' = {f[r] : r \in rows} /\ \A r \in rows : f[r].repo = r.repo
      BY <3>1 DEF Rewrites
    <3>3. \A r \in rows : IsOnlyRow(f[r])' => IsOnlyRow(r)
      <4> HIDE DEF status
      <4> QED BY <1>1, <3>1, RewrittenOnlyRow
    <3>4. ASSUME NEW other \in Hand(x) PROVE RunOK(other)'
      <4>1. other.task # "repository" /\ other.task \in TaskTypes
        <5>1. other \in TaskRuns
          BY RunsInHand
        <5> QED BY <2>4, <5>1, TaskRunFacts DEF Apart
      <4>2. ASSUME NEW r \in rows, f[r].repo = other.repo, IsOnlyRow(f[r])'
            PROVE  f[r].cursor[other.task] <= other.cursor /\ f[r].status[other.task] # "complete"
        <5>1. IsOnlyRow(r) /\ r.repo = other.repo
          BY <3>2, <3>3, <4>2
        <5>2. ~(r.repo = run.repo /\ other.task = run.task)
          BY <2>4, <5>1 DEF Apart
        <5>3. f[r].cursor[other.task] = r.cursor[other.task] /\ f[r].status[other.task] = r.status[other.task]
          BY <3>1, <4>1, <5>2 DEF Rewrites
        <5>4. r.cursor[other.task] <= other.cursor /\ r.status[other.task] # "complete"
          BY <2>4, <4>1, <5>1 DEF RunOK
        <5> QED BY <5>3, <5>4
      <4> QED BY <3>2, <4>1, <4>2 DEF RunOK
    <3>5. ASSUME NEW other \in Hand(x), NEW another \in Hand(x)
          PROVE  other = another \/ Apart(other, another)'
      BY <2>5, <3>2, <3>3 DEF Apart
    <3>6. RunsOK(x)'
      BY <3>4, <3>5 DEF RunsOK, Hand
    <3> QED BY <1>3, <2>3, <3>6 DEF HandKept, SnapshotOK
  <2> QED BY <2>6, <2>7
<1> QED BY <1>2, <1>3, <1>5, <1>6, WorkerKept DEF TypeInv

\* An error handler writes when nobody is at a job, or that is a race.
LEMMA MarkKept ==
  ASSUME TypeInv, OneJob, Kept, NEW w \in Worker, MarkCurrentTaskAsFailed(w) \/ MarkTaskAsComplete(w)
  PROVE  Kept' /\ Moves
<1> DEFINE main == worker[w].main
<1>1. main \in TaskRuns \cup {NoRun} /\ GhostOK
  BY WorkOfExecution DEF TypeInv
<1>2. Moves
  <2>1. CASE MarkCurrentTaskAsFailed(w) /\ main.task = "repository"
    <3>1. UNCHANGED rows /\ sub'.repositoryStatus = "failed" /\ sub'.repositoryCursor = sub.repositoryCursor
      BY <2>1 DEF MarkCurrentTaskAsFailed, MarksAs, TypeInv, Subscriptions
    <3>2. \A r \in rows, t \in TaskTypes : Keeps(r.status[t], r.cursor[t], r.status[t], r.cursor[t])
      BY CursorFacts DEF Keeps, Pending
    <3>3. Keeps(sub.repositoryStatus, sub.repositoryCursor, sub'.repositoryStatus, sub'.repositoryCursor)
      BY <3>1, CursorFacts DEF Keeps, Pending
    <3> QED BY <3>1, <3>2, <3>3 DEF Moves
  <2>2. CASE ~(MarkCurrentTaskAsFailed(w) /\ main.task = "repository")
    <3>1. UpdateRepo(main, "failed", FALSE) \/ UpdateRepo(main, "complete", FALSE)
      BY <2>2 DEF MarkCurrentTaskAsFailed, MarksAs, MarkTaskAsComplete
    <3> QED BY <1>1, <3>1, ClosingMoves
  <2> QED BY <2>1, <2>2
<1>3. ghost'.raced = (ghost.raced \/ claim # {})
  <2>1. \/ ghost' = [ghost EXCEPT !.raced = ghost.raced \/ claim # {}]
        \/ \E c : ghost' = [ghost EXCEPT !.raced = ghost.raced \/ claim # {}, !.sent = c]
    BY DEF MarkCurrentTaskAsFailed, MarksAs, MarkTaskAsComplete
  <2> QED BY <1>1, <2>1 DEF GhostOK
<1>4. ASSUME claim = {}, NEW v \in Worker PROVE HandKept(worker[v])'
  <2>1. PICK x : Becomes(w, x) /\ x.pc \notin AtJob
    BY LeavesJob
  <2>2. worker' = [worker EXCEPT ![w] = x]
    BY <2>1 DEF Becomes
  <2>3. worker'[v].pc \notin AtJob
    BY <1>4, <2>1, <2>2 DEF OneJob, TypeInv
  <2>4. PICK y : y = worker'[v]
    OBVIOUS
  <2>5. WorkOK(y)
    BY <2>4, JobsGoOn, GoingOnTypes DEF WorkersOK, WorkOK
  <2>6. HandKept(y)'
    BY <2>3, <2>4, <2>5, OffDuty, EmptyHand
  <2> QED BY <2>4, <2>6
<1> QED BY <1>2, <1>3, <1>4 DEF Kept

\* findOrStartSync only lowers the tables.
LEMMA StarterLowers ==
  ASSUME TypeInv, TypeInv',
         \/ StarterStep \/ StartIsLost
         \/ \E type \in SyncTypes, targets \in TargetChoices : BeginSync(type, targets)
  PROVE  Lowers
<1>1. CASE ResetTargetedTasks
  <2>1. \A q \in rows' : \E r \in rows :
          /\ q.id = r.id /\ q.repo = r.repo
          /\ \A t \in TaskTypes :
               /\ q.status[t] = IF t \in starter.targets THEN "null" ELSE r.status[t]
               /\ q.cursor[t] = IF starter.type = "full" /\ t \in starter.targets THEN 0 ELSE r.cursor[t]
    BY <1>1, ResetRows
  <2>2. \A r \in rows : \E q \in rows' : q.id = r.id /\ q.repo = r.repo
    BY <1>1, ResetRows
  <2>3. ASSUME NEW q \in rows', IsOnlyRow(q)'
        PROVE  \E r \in rows :
                 /\ IsOnlyRow(r) /\ r.repo = q.repo
                 /\ \A t \in TaskTypes : q.cursor[t] <= r.cursor[t]
                                         /\ (q.status[t] = "complete" => r.status[t] = "complete")
    <3>1. PICK r \in rows :
            /\ q.id = r.id /\ q.repo = r.repo
            /\ \A t \in TaskTypes :
                 /\ q.status[t] = IF t \in starter.targets THEN "null" ELSE r.status[t]
                 /\ q.cursor[t] = IF starter.type = "full" /\ t \in starter.targets THEN 0 ELSE r.cursor[t]
      BY <2>1
    <3>2. ASSUME NEW p \in rows, p.repo = r.repo PROVE p = r
      <4>1. PICK q2 \in rows' : q2.id = p.id /\ q2.repo = p.repo
        BY <2>2
      <4>2. q2 = q
        BY <2>3, <3>1, <3>2, <4>1 DEF IsOnlyRow
      <4> QED BY <3>1, <4>1, <4>2 DEF TypeInv, IdsOK
    <3>3. \A t \in TaskTypes : q.cursor[t] <= r.cursor[t]
      BY <3>1, CursorFacts
    <3>4. \A t \in TaskTypes : q.status[t] = "complete" => r.status[t] = "complete"
      BY <3>1
    <3> QED BY <3>1, <3>2, <3>3, <3>4 DEF IsOnlyRow
  <2>4. UNCHANGED sub
    BY <1>1 DEF ResetTargetedTasks
  <2> QED BY <2>3, <2>4, CursorFacts DEF Lowers
<1>2. CASE ResetTargetedRepository \/ ResetSubscription
  <2>1. PICK forgetCursor \in BOOLEAN : ResetDiscovery(forgetCursor)
    <3>1. (starter.type = "full") \in BOOLEAN /\ TRUE \in BOOLEAN
      OBVIOUS
    <3>2. ResetDiscovery(starter.type = "full") \/ ResetDiscovery(TRUE)
      BY <1>2 DEF ResetTargetedRepository, ResetSubscription
    <3> QED BY <3>1, <3>2
  <2>2. /\ sub'.repositoryStatus \in {"null", sub.repositoryStatus}
        /\ sub'.repositoryCursor \in {0, sub.repositoryCursor}
    BY <2>1, ResetTypes DEF TypeInv
  <2>3. UNCHANGED rows
    BY <1>2 DEF ResetTargetedRepository, ResetSubscription
  <2>4. \A q \in rows' : IsOnlyRow(q)' => IsOnlyRow(q)
    BY <2>3 DEF IsOnlyRow
  <2>5. \A r \in rows, t \in TaskTypes : r.cursor[t] <= r.cursor[t]
    BY CursorFacts
  <2>6. sub'.repositoryCursor <= sub.repositoryCursor
    BY <2>2, CursorFacts
  <2> QED BY <2>2, <2>3, <2>4, <2>5, <2>6 DEF Lowers
<1>3. CASE DeleteFromSubscription
  BY <1>3, CursorFacts DEF DeleteFromSubscription, Lowers
<1>4. CASE SendFirstMessage \/ StartIsLost
  BY <1>4, SameLowers DEF SendFirstMessage, StartIsLost
<1>5. ASSUME NEW type \in SyncTypes, NEW targets \in TargetChoices, BeginSync(type, targets)
      PROVE  Lowers
  BY <1>5, SameLowers DEF BeginSync
<1>6. CASE SetPending
  BY <1>6, PendingWritten, SameLowers DEF TypeInv
<1> QED BY <1>1, <1>2, <1>3, <1>4, <1>5, <1>6 DEF StarterStep

LEMMA RestKept ==
  ASSUME TypeInv, TypeInv', Kept, UNCHANGED worker, Lowers, ghost'.raced = ghost.raced
  PROVE  Kept'
<1> SUFFICES ASSUME ~ghost.raced, NEW v \in Worker PROVE HandKept(worker[v])'
  BY DEF Kept
<1>1. PICK s \in Execution : s = worker[v] /\ HandKept(s)
  BY WorkOfExecution DEF Kept
<1>2. HandKept(s)'
  BY <1>1, LoweredHand DEF TypeInv
<1> QED BY <1>1, <1>2

LEMMA StarterKept ==
  ASSUME TypeInv, TypeInv', Kept,
         \/ StarterStep \/ StartIsLost
         \/ \E type \in SyncTypes, targets \in TargetChoices : BeginSync(type, targets)
  PROVE  Kept' /\ starter' # starter
<1>1. UNCHANGED worker /\ GhostOK
  BY DEF StarterStep, StartIsLost, BeginSync, SetPending, ResetTargetedTasks, ResetTargetedRepository,
         ResetSubscription, DeleteFromSubscription, SendFirstMessage, TypeInv
<1>2. ghost'.raced = ghost.raced
  <2>1. \/ ghost' = ghost
        \/ \E c : \/ ghost' = [ghost EXCEPT !.sent = c] \/ ghost' = [ghost EXCEPT !.startLost = c]
                  \/ ghost' = [ghost EXCEPT !.overlapped = c]
    BY DEF StarterStep, StartIsLost, BeginSync, SetPending, ResetTargetedTasks, ResetTargetedRepository,
           ResetSubscription, DeleteFromSubscription, SendFirstMessage
  <2> QED BY <1>1, <2>1, RacedKeeps
<1>3. starter'.pc # starter.pc
  <2>1. starter \in [pc : {"idle", "starting", "resettingTasks", "resettingRepository",
                           "resettingSubscription", "deletingRows", "sending"},
                     type : {"full", "partial"}, targets : TargetChoices \cup {{}}, seen : Subscriptions]
    BY DEF TypeInv, StarterOK
  <2>2. NoStart.pc = "idle" /\ (StarterSends => starter'.pc = "sending")
    BY DEF NoStart, StarterSends
  <2>3. CASE (StarterStep /\ ~SetPending) \/ StartIsLost
    BY <2>1, <2>2, <2>3 DEF StarterStep, StartIsLost, ResetTargetedTasks, ResetTargetedRepository,
                            ResetSubscription, DeleteFromSubscription, SendFirstMessage
  <2>4. ASSUME NEW type \in SyncTypes, NEW targets \in TargetChoices, BeginSync(type, targets)
        PROVE  starter'.pc # starter.pc
    BY <2>4 DEF BeginSync
  <2>5. CASE SetPending
    BY <2>5, PendingStarter DEF SetPending, TypeInv
  <2> QED BY <2>3, <2>4, <2>5
<1> QED BY <1>1, <1>2, <1>3, StarterLowers, RestKept

LEMMA StepKept ==
  ASSUME TypeInv, TypeInv', OneJob, Kept, [Next]_vars
  PROVE  Kept' /\ (starter' # starter \/ ghost.raced \/ Moves)
<1>1. ASSUME NEW w \in Worker, HandlerStep(w) \/ HandlerFault(w)
      PROVE  Kept' /\ (ghost.raced \/ Moves)
  BY <1>1, QuietKept, BegunKept, PlanKept, FetchKept, StatusKept, MarkKept
  DEF HandlerStep, HandlerFault
<1>2. CASE \/ StarterStep \/ StartIsLost
           \/ \E type \in SyncTypes, targets \in TargetChoices : BeginSync(type, targets)
  BY <1>2, StarterKept
<1>3. CASE FlagGoesStale \/ UNCHANGED vars \/ \E m \in Msg : RedriveToDlq(m) \/ VisibilityLapses(m)
  <2>1. UNCHANGED <<sub, rows, worker>> /\ GhostOK
    BY <1>3 DEF FlagGoesStale, vars, RedriveToDlq, VisibilityLapses, TypeInv
  <2>2. ghost' = ghost \/ ghost' = [ghost EXCEPT !.orphaned = TRUE]
    BY <1>3 DEF FlagGoesStale, vars, RedriveToDlq, VisibilityLapses
  <2>3. ghost'.raced = ghost.raced
    BY <2>1, <2>2, RacedKeeps
  <2> QED BY <2>1, <2>3, SameLowers, RestKept
<1> QED BY <1>1, <1>2, <1>3 DEF Next

LEMMA InitKept == Init => OneJob /\ Kept
<1> SUFFICES ASSUME Init PROVE OneJob /\ Kept
  OBVIOUS
<1>1. \A w \in Worker : worker[w] = Idle /\ Idle.pc = "idle" /\ Idle.todo = {} /\ Idle.got = {}
  BY DEF Init, Idle
<1>2. OneJob
  BY <1>1 DEF Init, OneJob, AtJob
<1>3. \A w \in Worker : HandKept(worker[w])
  BY <1>1 DEF HandKept, SnapshotOK, RunsOK, OnceOK, Hand
<1> QED BY <1>2, <1>3 DEF Kept

\* No worker, whatever fails, times out or comes back as a zombie, moves a cursor back or
\* reopens a task that is complete: what a job has in hand is ahead of the tables from the
\* moment it reads them, for as long as no second job starts beside it.  That is where the
\* in-progress flag is needed, and why the theorem is about checks of it that do not overlap.
THEOREM ProgressIsNeverUndone == ~FLAG_RACES => (Spec => ProgressIsKept)
<1> SUFFICES ASSUME ~FLAG_RACES PROVE Spec => ProgressIsKept
  OBVIOUS
<1>1. Init => OneJob /\ Kept
  BY InitKept
<1>2. TypeInv /\ TypeInv' /\ OneJob /\ Kept /\ [Next]_vars => (OneJob /\ Kept)'
  BY StepOneJob, StepKept
<1>3. TypeInv /\ TypeInv' /\ OneJob /\ Kept /\ [Next]_vars =>
        [starter' # starter \/ ghost.raced \/
           /\ Keeps(sub.repositoryStatus, sub.repositoryCursor,
                    sub'.repositoryStatus, sub'.repositoryCursor)
           /\ \A r \in rows : IsOnlyRow(r) => \E r2 \in rows' : r2.id = r.id /\
                \A t \in TaskTypes : Keeps(r.status[t], r.cursor[t], r2.status[t], r2.cursor[t])]_vars
  BY StepKept DEF Moves
<1> QED BY <1>1, <1>2, <1>3, Types, PTL DEF Spec, ProgressIsKept

-----------------------------------------------------------------------------
(* What a step makes of a worker. *)

OthersStay(w) == \A v \in Worker \ {w} : worker'[v] = worker[v]

LEMMA MovedWorker ==
  ASSUME TypeInv, NEW w \in Worker, NEW label \in Labels, Move(w, label)
  PROVE  LET s == worker[w]
             x == worker'[w]
         IN  /\ OthersStay(w) /\ x.pc = label /\ x.msg = s.msg /\ x.timedOut = s.timedOut
             /\ x.outcome = s.outcome /\ x.main = s.main /\ x.seen = s.seen
             /\ x.todo = s.todo /\ x.got = s.got
BY DEF TypeInv, Move, Becomes, Execution, OthersStay

LEMMA LeftWorker ==
  ASSUME TypeInv, NEW w \in Worker, NEW label \in Labels, Leave(w, label)
  PROVE  LET s == worker[w]
             x == worker'[w]
         IN  /\ OthersStay(w) /\ x.pc = label /\ x.msg = s.msg /\ x.timedOut = s.timedOut
             /\ x.outcome = s.outcome /\ x.main = NoRun /\ x.todo = s.todo /\ x.got = s.got
BY DEF TypeInv, Leave, Becomes, Execution, OthersStay

LEMMA IdleWorker ==
  ASSUME TypeInv, NEW w \in Worker, Becomes(w, Idle)
  PROVE  LET x == worker'[w]
         IN  /\ OthersStay(w) /\ x.pc = "idle" /\ x.msg = None /\ ~x.timedOut
             /\ x.outcome = "none" /\ x.todo = {} /\ x.got = {}
BY DEF TypeInv, Becomes, Idle, OthersStay

LEMMA FailedWorker ==
  ASSUME TypeInv, NEW w \in Worker, InfrastructureFails(w), worker'[w].pc # "idle"
  PROVE  LET s == worker[w]
             x == worker'[w]
         IN  /\ ~s.timedOut /\ ~HandlesError(w)
             /\ x.pc = "failing" /\ x.msg = s.msg /\ x.timedOut = s.timedOut
             /\ x.outcome = "infrastructure" /\ x.todo = {} /\ x.got = {}
<1>1. ~(worker[w].timedOut \/ HandlesError(w))
  BY IdleWorker DEF InfrastructureFails
<1> DEFINE x == [Idle EXCEPT !.pc = "failing", !.outcome = "infrastructure",
                             !.msg = worker[w].msg, !.received = worker[w].received]
<1>2. worker' = [worker EXCEPT ![w] = x]
  BY <1>1 DEF InfrastructureFails, Becomes
<1>3. worker'[w] = x
  BY <1>2 DEF TypeInv
<1>4. /\ x.pc = "failing" /\ x.msg = worker[w].msg /\ x.timedOut = FALSE
      /\ x.outcome = "infrastructure" /\ x.todo = {} /\ x.got = {}
  BY DEF Idle
<1>5. worker[w].timedOut = FALSE
  BY <1>1 DEF TypeInv, Execution
<1> QED BY <1>1, <1>3, <1>4, <1>5

LEMMA FailedOrIdle ==
  ASSUME TypeInv, NEW w \in Worker, InfrastructureFails(w)
  PROVE  OthersStay(w) /\ (worker'[w].pc # "idle" \/ worker'[w].msg = None)
<1>1. CASE Becomes(w, Idle)
  BY <1>1, IdleWorker
<1>2. CASE ~Becomes(w, Idle)
  BY <1>2 DEF InfrastructureFails, TypeInv, Becomes, OthersStay, Idle
<1> QED BY <1>1, <1>2

LEMMA ReceivedWorker ==
  ASSUME TypeInv, NEW w \in Worker, NEW m \in Msg, ReceiveMessage(w, m)
  PROVE  LET x == worker'[w]
         IN  /\ OthersStay(w) /\ x.pc = "received" /\ x.msg = m /\ ~x.timedOut
             /\ x.outcome = "none" /\ x.todo = {} /\ x.got = {}
BY DEF TypeInv, Becomes, Idle, OthersStay, ReceiveMessage

LEMMA TimedOutWorker ==
  ASSUME TypeInv, NEW w \in Worker, HandlerTimesOut(w)
  PROVE  LET s == worker[w]
             x == worker'[w]
         IN  /\ OthersStay(w) /\ x.pc = s.pc /\ x.msg = None /\ x.timedOut
             /\ x.outcome = s.outcome /\ x.main = s.main /\ x.seen = s.seen
             /\ x.todo = s.todo /\ x.got = s.got
BY DEF TypeInv, Becomes, Execution, OthersStay, HandlerTimesOut

\* The steps of a job that keep it going.
LEMMA ReadWorker ==
  ASSUME TypeInv, NEW w \in Worker, ReadSubscription(w)
  PROVE  LET s == worker[w]
             x == worker'[w]
         IN  /\ OthersStay(w) /\ x.pc = "planning" /\ x.msg = s.msg /\ x.timedOut = s.timedOut
             /\ x.outcome = s.outcome /\ x.seen = sub
             /\ x.todo = s.todo /\ x.got = s.got
BY DEF TypeInv, Becomes, Execution, OthersStay, ReadSubscription

LEMMA SavingWorker ==
  ASSUME TypeInv, NEW w \in Worker, MarkSyncAsCompleteAndStop(w) \/ SetActive(w)
  PROVE  LET s == worker[w]
             x == worker'[w]
         IN  /\ OthersStay(w) /\ x.msg = s.msg /\ x.timedOut = s.timedOut
             /\ MarkSyncAsCompleteAndStop(w) => s.pc = "stopping" /\ x.pc = "settled"
             /\ SetActive(w) => s.pc = "starting" /\ x.pc = "working"
             /\ x.outcome = s.outcome /\ x.main = s.main
             /\ x.todo = s.todo /\ x.got = s.got
<1>1. CASE MarkSyncAsCompleteAndStop(w)
  <2>1. ~SetActive(w)
    BY <1>1 DEF MarkSyncAsCompleteAndStop, SetActive
  <2> QED BY <1>1, <2>1 DEF TypeInv, Becomes, Execution, OthersStay, MarkSyncAsCompleteAndStop
<1>2. CASE SetActive(w)
  <2>1. ~MarkSyncAsCompleteAndStop(w)
    BY <1>2 DEF MarkSyncAsCompleteAndStop, SetActive
  <2> QED BY <1>2, <2>1 DEF TypeInv, Becomes, Execution, OthersStay, SetActive
<1> QED BY <1>1, <1>2

LEMMA FetchingWorker ==
  ASSUME TypeInv, NEW w \in Worker, NEW run \in worker[w].todo, FetchPage(w, run)
  PROVE  LET s == worker[w]
             x == worker'[w]
         IN  /\ OthersStay(w) /\ x.msg = s.msg /\ x.timedOut = s.timedOut
             /\ s.pc = "working" /\ x.pc = "working" /\ x.outcome = s.outcome /\ x.main = s.main
             /\ Hand(x) = Hand(s)
<1> DEFINE s == worker[w]
           x == worker'[w]
           got == [run |-> run, more |-> run.cursor + 1 <= PagesOf(run.task)]
<1>1. /\ OthersStay(w) /\ x.msg = s.msg /\ x.timedOut = s.timedOut /\ s.pc = "working"
      /\ x.pc = "working" /\ x.outcome = s.outcome /\ x.main = s.main
      /\ x.todo = s.todo \ {run} /\ x.got = s.got \cup {got}
  BY DEF TypeInv, Becomes, Execution, OthersStay, FetchPage
<1>2. got.run = run
  OBVIOUS
<1> HIDE DEF got
<1> QED BY <1>1, <1>2 DEF Hand

\* The end of a page or of a task, with what comes of the main one.
Ends(w, run, outcome) ==
  \/ run \in worker[w].todo /\ TaskFails(w, run, outcome)
  \/ \E got \in worker[w].got :
       /\ run = got.run
       /\ \/ TaskStatusIsNotStored(w, got) /\ outcome = "unknown"
          \/ UpdateTaskStatus(w, got) /\ outcome = "next"

LEMMA EndingWorker ==
  ASSUME TypeInv, NEW w \in Worker, NEW run, NEW outcome, Ends(w, run, outcome)
  PROVE  LET s == worker[w]
             x == worker'[w]
         IN  /\ OthersStay(w) /\ x.msg = s.msg /\ x.timedOut = s.timedOut
             /\ s.pc = "working" /\ x.pc = "working" /\ x.main = s.main
             /\ x.outcome = IF run = s.main THEN outcome ELSE s.outcome
             /\ run \in Hand(s) /\ Hand(x) \subseteq Hand(s) /\ Hand(s) \subseteq Hand(x) \cup {run}
             /\ OnceOK(s) => run \notin Hand(x)
<1> DEFINE s == worker[w]
           x == worker'[w]
<1>1. CASE run \in s.todo /\ TaskFails(w, run, outcome)
  <2>1. /\ OthersStay(w) /\ x.msg = s.msg /\ x.timedOut = s.timedOut
        /\ s.pc = "working" /\ x.pc = "working" /\ x.main = s.main
        /\ x.outcome = (IF run = s.main THEN outcome ELSE s.outcome)
        /\ x.todo = s.todo \ {run} /\ x.got = s.got
    BY <1>1 DEF TypeInv, Becomes, Execution, OthersStay, TaskFails
  <2> QED BY <1>1, <2>1 DEF Hand, OnceOK
<1>2. ASSUME NEW got \in s.got, run = got.run,
             \/ TaskStatusIsNotStored(w, got) /\ outcome = "unknown"
             \/ UpdateTaskStatus(w, got) /\ outcome = "next"
      PROVE  /\ OthersStay(w) /\ x.msg = s.msg /\ x.timedOut = s.timedOut
             /\ s.pc = "working" /\ x.pc = "working" /\ x.main = s.main
             /\ x.outcome = IF run = s.main THEN outcome ELSE s.outcome
             /\ run \in Hand(s) /\ Hand(x) \subseteq Hand(s) /\ Hand(s) \subseteq Hand(x) \cup {run}
             /\ OnceOK(s) => run \notin Hand(x)
  <2>1. /\ OthersStay(w) /\ x.msg = s.msg /\ x.timedOut = s.timedOut
        /\ s.pc = "working" /\ x.pc = "working" /\ x.main = s.main
        /\ x.outcome = (IF run = s.main THEN outcome ELSE s.outcome)
        /\ x.todo = s.todo /\ x.got = s.got \ {got}
    <3>1. Becomes(w, [s EXCEPT !.got = @ \ {got}, !.outcome = IF got.run = s.main THEN outcome ELSE @])
      BY <1>2 DEF TaskStatusIsNotStored, UpdateTaskStatus
    <3>2. s.pc = "working"
      BY <1>2 DEF TaskStatusIsNotStored, UpdateTaskStatus
    <3> QED BY <1>2, <3>1, <3>2 DEF TypeInv, Becomes, Execution, OthersStay
  <2> HIDE DEF s, x
  <2> QED BY <1>2, <2>1 DEF Hand, OnceOK
<1> QED BY <1>1, <1>2 DEF Ends

-----------------------------------------------------------------------------
(* Messages: who holds one, and what a step of a worker does to them. *)

HoldsMessage(s) == s.pc # "idle" /\ ~s.timedOut => s.msg # None

\* A message that a worker holds is in flight and nobody else holds it, unless it was
\* delivered a second time while the worker had it.
HeldOnce ==
  ghost.orphaned \/
    \A w \in Worker : worker[w].msg # None =>
      /\ queue[worker[w].msg].where = "inFlight"
      /\ \A v \in Worker : worker[v].msg = worker[w].msg => v = w

\* A sync has been asked for, and its status has been written.
Asked ==
  \/ starter.pc \notin {"idle", "starting"}
  \/ \E m \in Msg : queue[m].where \in {"visible", "inFlight"}
  \/ \E w \in Worker : worker[w].pc # "idle"

MessagesOK ==
  /\ Asked => sub.syncStatus # "NONE"
  /\ starter.pc = "starting" /\ starter.seen.syncStatus # "NONE" => sub.syncStatus # "NONE"
  /\ \A w \in Worker : HoldsMessage(worker[w])
  /\ HeldOnce

KeepsMessage(w) ==
  /\ worker[w].pc # "idle"
  /\ \/ worker'[w].pc = "idle" /\ worker'[w].msg = None
     \/ /\ worker'[w].pc # "idle"
        /\ worker'[w].msg = worker[w].msg /\ worker'[w].timedOut = worker[w].timedOut

OthersWait(m) == \A n \in Msg \ {m} : queue'[n] = queue[n]

Receives(w) == \E m \in Msg :
  /\ worker[w].pc = "idle" /\ queue[m].where = "visible" /\ queue'[m].where = "inFlight" /\ OthersWait(m)
  /\ worker'[w].pc = "received" /\ worker'[w].msg = m /\ ~worker'[w].timedOut

Sends == \E m \in FreeMsgs : queue'[m].where = "visible" /\ OthersWait(m)

Deletes(w) ==
  /\ worker[w].pc = "deleting" /\ worker'[w].pc = "idle" /\ worker'[w].msg = None
  /\ \A m \in Msg : m # worker[w].msg \/ queue[m].where = "dlq" => queue'[m] = queue[m]

GivesBack(w) ==
  /\ worker[w].pc # "idle" /\ queue' = Retried(worker[w].msg)
  /\ worker'[w].msg = None /\ (worker'[w].pc = "idle" \/ worker'[w].timedOut)

\* All that a step of a worker may do.
MovesMessages(w) ==
  \/ queue' = queue /\ KeepsMessage(w)
  \/ Receives(w)
  \/ Sends /\ KeepsMessage(w)
  \/ Deletes(w)
  \/ GivesBack(w)

LEMMA SendSends ==
  ASSUME TypeInv, NEW targets, SendMessage(targets)
  PROVE  Sends
<1>1. PICK m \in FreeMsgs : queue' = [queue EXCEPT ![m] =
                                 [where |-> "visible", received |-> 0, targets |-> targets]]
  BY DEF SendMessage
<1>2. m \in Msg /\ queue'[m].where = "visible" /\ OthersWait(m)
  BY <1>1 DEF TypeInv, QueueOK, FreeMsgs, OthersWait
<1> QED BY <1>2 DEF Sends

LEMMA MoveKeeps ==
  ASSUME TypeInv, NEW w \in Worker, worker[w].pc # "idle", NEW label \in Labels \ {"idle"},
         Move(w, label) \/ Leave(w, label)
  PROVE  KeepsMessage(w) /\ OthersStay(w)
<1>1. CASE Move(w, label)
  BY <1>1, MovedWorker DEF KeepsMessage
<1>2. CASE Leave(w, label)
  BY <1>2, LeftWorker DEF KeepsMessage
<1> QED BY <1>1, <1>2

LEMMA IdleKeeps ==
  ASSUME TypeInv, NEW w \in Worker, worker[w].pc # "idle", Becomes(w, Idle)
  PROVE  KeepsMessage(w) /\ OthersStay(w)
BY IdleWorker DEF KeepsMessage

LEMMA MessagesMove ==
  ASSUME TypeInv, NEW w \in Worker, HandlerStep(w) \/ HandlerFault(w)
  PROVE  MovesMessages(w) /\ OthersStay(w)
<1> DEFINE s == worker[w]
<1>1. ASSUME NEW m \in Msg, ReceiveMessage(w, m) PROVE MovesMessages(w) /\ OthersStay(w)
  <2>1. /\ worker[w].pc = "idle"
        /\ queue[m].where = "visible" /\ queue'[m].where = "inFlight" /\ OthersWait(m)
    BY <1>1 DEF ReceiveMessage, TypeInv, QueueOK, OthersWait
  <2> QED BY <1>1, <2>1, ReceivedWorker DEF MovesMessages, Receives
<1>2. CASE \/ NotSure(w) \/ OtherWorkerDoingThisJob(w) \/ ClaimSync(w) \/ PlanTasks(w)
           \/ TasksSettle(w) \/ ReleaseClaim(w) \/ MarkCurrentTaskAsFailed(w)
           \/ MarkTaskAsComplete(w) \/ RescheduleRateLimited(w) \/ Crash(w)
  <2>1. CASE PlanTasks(w)
    <3>1. s.pc # "idle" /\ queue' = queue
      BY <2>1 DEF PlanTasks
    <3>2. CASE Move(w, "stopping")
      BY <3>1, <3>2, MoveKeeps DEF Labels, MovesMessages
    <3>3. ASSUME NEW main, NEW todo, Becomes(w, [s EXCEPT !.pc = "starting", !.main = main, !.todo = todo])
          PROVE  KeepsMessage(w) /\ OthersStay(w)
      BY <3>1, <3>3 DEF TypeInv, Becomes, Execution, KeepsMessage, OthersStay
    <3> QED BY <2>1, <3>1, <3>2, <3>3 DEF PlanTasks, MovesMessages
  <2>2. CASE ~PlanTasks(w)
    <3>1. s.pc # "idle" /\ queue' = queue
      BY <1>2, <2>2 DEF NotSure, OtherWorkerDoingThisJob, ClaimSync, TasksSettle, ReleaseClaim,
                        MarkCurrentTaskAsFailed, MarksAs, MarkTaskAsComplete, RescheduleRateLimited, Crash
    <3>2. \/ Becomes(w, Idle)
          \/ \E label \in {"claimed", "settled", "sending", "deleting", "failing"} :
               Move(w, label) \/ Leave(w, label)
      BY <1>2, <2>2
      DEF NotSure, OtherWorkerDoingThisJob, ClaimSync, TasksSettle, ReleaseClaim,
          MarkCurrentTaskAsFailed, MarksAs, MarkTaskAsComplete, RescheduleRateLimited, Crash
    <3>3. {"claimed", "settled", "sending", "deleting", "failing"} \subseteq Labels \ {"idle"}
      BY DEF Labels
    <3> QED BY <3>1, <3>2, <3>3, MoveKeeps, IdleKeeps DEF MovesMessages
  <2> QED BY <2>1, <2>2
<1>3. CASE PostponeMessage(w) \/ SendBackfillMessage(w)
  <2>1. Sends
    BY <1>3, SendSends DEF PostponeMessage, SendBackfillMessage
  <2>2. s.pc # "idle" /\ (Becomes(w, Idle) \/ Move(w, "deleting")) /\ "deleting" \in Labels \ {"idle"}
    BY <1>3 DEF PostponeMessage, SendBackfillMessage, Labels
  <2> QED BY <2>1, <2>2, MoveKeeps, IdleKeeps DEF MovesMessages
<1>4. CASE DeleteMessage(w)
  <2>1. s.pc = "deleting" /\ Becomes(w, Idle)
    BY <1>4 DEF DeleteMessage
  <2>2. \/ queue' = queue
        \/ queue[s.msg].where # "dlq" /\ queue' = [queue EXCEPT ![s.msg] = Absent]
    BY <1>4 DEF DeleteMessage
  <2>3. \A m \in Msg : m # s.msg \/ queue[m].where = "dlq" => queue'[m] = queue[m]
    BY <2>2 DEF TypeInv, QueueOK
  <2> QED BY <2>1, <2>3, IdleWorker DEF MovesMessages, Deletes
<1>5. CASE HandlerTimesOut(w)
  <2>1. s.pc # "idle" /\ queue' = Retried(s.msg)
    BY <1>5 DEF HandlerTimesOut
  <2> QED BY <1>5, <2>1, TimedOutWorker DEF MovesMessages, GivesBack
<1>6. CASE RetryMessage(w)
  <2>1. s.pc # "idle" /\ queue' = Retried(s.msg) /\ Becomes(w, Idle)
    BY <1>6 DEF RetryMessage
  <2> QED BY <2>1, IdleWorker DEF MovesMessages, GivesBack
<1>7. CASE InfrastructureFails(w)
  <2>1. queue' = queue /\ s.pc # "idle"
    BY <1>7 DEF InfrastructureFails
  <2>2. OthersStay(w) /\ KeepsMessage(w)
    BY <1>7, <2>1, FailedOrIdle, FailedWorker DEF KeepsMessage
  <2> QED BY <2>1, <2>2 DEF MovesMessages
<1>8. CASE ReadSubscription(w)
  <2>1. queue' = queue /\ s.pc # "idle"
    BY <1>8 DEF ReadSubscription
  <2> QED BY <1>8, <2>1, ReadWorker DEF MovesMessages, KeepsMessage
<1>9. CASE MarkSyncAsCompleteAndStop(w) \/ SetActive(w)
  <2>1. queue' = queue
    BY <1>9 DEF MarkSyncAsCompleteAndStop, SetActive
  <2> QED BY <1>9, <2>1, SavingWorker DEF MovesMessages, KeepsMessage
<1>10. ASSUME NEW run \in s.todo, FetchPage(w, run) PROVE MovesMessages(w) /\ OthersStay(w)
  <2>1. queue' = queue
    BY <1>10 DEF FetchPage
  <2> QED BY <1>10, <2>1, FetchingWorker DEF MovesMessages, KeepsMessage
<1>11. ASSUME NEW run \in s.todo, NEW error \in TaskErrors, TaskFails(w, run, error)
       PROVE  MovesMessages(w) /\ OthersStay(w)
  <2>1. queue' = queue
    BY <1>11 DEF TaskFails
  <2>2. Ends(w, run, error)
    BY <1>11 DEF Ends
  <2> QED BY <2>1, <2>2, EndingWorker DEF MovesMessages, KeepsMessage
<1>12. ASSUME NEW got \in s.got, TaskStatusIsNotStored(w, got) \/ UpdateTaskStatus(w, got)
       PROVE  MovesMessages(w) /\ OthersStay(w)
  <2>1. queue' = queue
    BY <1>12 DEF TaskStatusIsNotStored, UpdateTaskStatus
  <2>2. PICK run, outcome : Ends(w, run, outcome)
    BY <1>12 DEF Ends
  <2> QED BY <2>1, <2>2, EndingWorker DEF MovesMessages, KeepsMessage
<1> QED
  BY <1>1, <1>2, <1>3, <1>4, <1>5, <1>6, <1>7, <1>8, <1>9, <1>10, <1>11, <1>12
  DEF HandlerStep, HandlerFault

\* What went wrong is remembered.
LEMMA GhostGrows ==
  ASSUME TypeInv, [Next]_vars
  PROVE  /\ ghost.orphaned => ghost'.orphaned
         /\ ghost.dropped => ghost'.dropped
         /\ ghost.startLost => ghost'.startLost
         /\ ghost.twice => ghost'.twice
         /\ Disturbed => Disturbed'
<1> DEFINE Grown == /\ ghost.orphaned => ghost'.orphaned
                    /\ ghost.dropped => ghost'.dropped
                    /\ ghost.startLost => ghost'.startLost
                    /\ ghost.twice => ghost'.twice
                    /\ Disturbed => Disturbed'
<1>1. GhostOK
  BY DEF TypeInv
<1>2. ASSUME NEW c, NEW d,
             \/ ghost' = ghost
             \/ ghost' = [ghost EXCEPT !.sent = c]
             \/ ghost' = [ghost EXCEPT !.startLost = TRUE]
             \/ ghost' = [ghost EXCEPT !.dropped = TRUE]
             \/ ghost' = [ghost EXCEPT !.orphaned = TRUE]
             \/ ghost' = [ghost EXCEPT !.orphaned = ghost.orphaned \/ d]
             \/ ghost' = [ghost EXCEPT !.twice = ghost.twice \/ d]
             \/ ghost' = [ghost EXCEPT !.overlapped = ghost.overlapped \/ d]
             \/ ghost' = [ghost EXCEPT !.raced = ghost.raced \/ d]
             \/ ghost' = [ghost EXCEPT !.raced = ghost.raced \/ d, !.sent = c]
             \/ ghost' = [ghost EXCEPT !.overlapped = ghost.overlapped \/ c, !.met = ghost.met \/ d]
      PROVE  Grown
  BY <1>1, <1>2 DEF GhostOK, Disturbed
<1> HIDE DEF Grown
<1>3. ASSUME NEW w \in Worker, HandlerStep(w) \/ HandlerFault(w) PROVE Grown
  <2>1. CASE ClaimSync(w)
    BY <1>2, <2>1 DEF ClaimSync
  <2>2. CASE OtherWorkerDoingThisJob(w)
    BY <1>2, <2>2 DEF OtherWorkerDoingThisJob
  <2>3. CASE SetActive(w)
    BY <1>2, <2>3 DEF SetActive
  <2>4. ASSUME NEW run \in worker[w].todo, FetchPage(w, run) PROVE Grown
    BY <1>2, <2>4 DEF FetchPage
  <2>5. CASE MarkCurrentTaskAsFailed(w)
    BY <1>2, <2>5 DEF MarkCurrentTaskAsFailed, MarksAs
  <2>6. CASE MarkTaskAsComplete(w)
    BY <1>2, <2>6 DEF MarkTaskAsComplete
  <2>7. CASE ghost' = ghost
    BY <1>2, <2>7
  <2> QED
    BY <1>3, <2>1, <2>2, <2>3, <2>4, <2>5, <2>6, <2>7
    DEF HandlerStep, HandlerFault, ReceiveMessage, NotSure, ReadSubscription, PlanTasks,
        MarkSyncAsCompleteAndStop, UpdateTaskStatus, TasksSettle, ReleaseClaim, RescheduleRateLimited,
        RetryMessage, SendBackfillMessage, DeleteMessage, PostponeMessage, HandlerTimesOut, Crash,
        InfrastructureFails, TaskFails, TaskStatusIsNotStored
<1>4. ASSUME NEW m \in Msg, RedriveToDlq(m) \/ VisibilityLapses(m) PROVE Grown
  BY <1>2, <1>4 DEF RedriveToDlq, VisibilityLapses
<1>5. ASSUME NEW type \in SyncTypes, NEW targets \in TargetChoices, BeginSync(type, targets) PROVE Grown
  BY <1>2, <1>5 DEF BeginSync
<1>6. ASSUME StarterStep \/ StartIsLost \/ FlagGoesStale \/ UNCHANGED vars PROVE Grown
  <2>1. \/ ghost' = ghost
        \/ \E c : ghost' = [ghost EXCEPT !.sent = c]
        \/ ghost' = [ghost EXCEPT !.startLost = TRUE]
    BY <1>6 DEF StarterStep, SetPending, ResetTargetedTasks, ResetTargetedRepository, ResetSubscription,
       DeleteFromSubscription, SendFirstMessage, StartIsLost, FlagGoesStale, vars
  <2>2. CASE ghost' = ghost
    BY <1>2, <2>2
  <2>3. CASE \E c : ghost' = [ghost EXCEPT !.sent = c]
    BY <1>2, <2>3
  <2>4. CASE ghost' = [ghost EXCEPT !.startLost = TRUE]
    BY <1>2, <2>4
  <2> QED BY <2>1, <2>2, <2>3, <2>4
<1> QED BY <1>3, <1>4, <1>5, <1>6 DEF Next, Grown

\* Steps that are of no worker.
RestSteps ==
  \/ StarterStep \/ StartIsLost \/ FlagGoesStale \/ UNCHANGED vars
  \/ \E m \in Msg : RedriveToDlq(m) \/ VisibilityLapses(m)
  \/ \E type \in SyncTypes, targets \in TargetChoices : BeginSync(type, targets)

LEMMA RestLeavesWorkers ==
  ASSUME RestSteps
  PROVE  UNCHANGED worker
BY DEF RestSteps, StarterStep, StartIsLost, FlagGoesStale, vars, RedriveToDlq, VisibilityLapses, BeginSync,
       SetPending, ResetTargetedTasks, ResetTargetedRepository, ResetSubscription, DeleteFromSubscription,
       SendFirstMessage

LEMMA HeldMessages ==
  ASSUME TypeInv
  PROVE  \A w \in Worker : worker[w].msg \in Msg \cup {None} /\ (worker[w].msg \in Msg <=> worker[w].msg # None)
BY BackfillAssumption DEF TypeInv, Execution

LEMMA WorkerHeldOnce ==
  ASSUME TypeInv, HeldOnce, NEW w \in Worker, MovesMessages(w), OthersStay(w),
         ghost.orphaned => ghost'.orphaned
  PROVE  HeldOnce'
<1> SUFFICES ASSUME ~ghost.orphaned,
                    NEW u \in Worker, worker'[u].msg # None
             PROVE  /\ queue'[worker'[u].msg].where = "inFlight"
                    /\ \A v \in Worker : worker'[v].msg = worker'[u].msg => v = u
  BY DEF HeldOnce
<1>1. \A v \in Worker : worker[v].msg \in Msg =>
        /\ queue[worker[v].msg].where = "inFlight"
        /\ \A v2 \in Worker : worker[v2].msg = worker[v].msg => v2 = v
  BY HeldMessages DEF HeldOnce
<1>2. \A v \in Worker : v # w => worker'[v] = worker[v]
  BY DEF OthersStay
<1>3. \A v \in Worker : worker[v].msg # None => worker[v].msg \in Msg
  BY HeldMessages
<1>4. CASE KeepsMessage(w) /\ (queue' = queue \/ Sends)
  <2>1. \A v \in Worker : worker'[v].msg # None => worker'[v].msg = worker[v].msg
    BY <1>2, <1>4 DEF KeepsMessage
  <2>2. \A m \in Msg : queue[m].where = "inFlight" => queue'[m] = queue[m]
    BY <1>4 DEF Sends, OthersWait, FreeMsgs
  <2> QED BY <1>1, <1>3, <2>1, <2>2
<1>5. CASE Receives(w)
  <2>1. PICK m \in Msg : /\ queue[m].where = "visible" /\ queue'[m].where = "inFlight" /\ OthersWait(m)
                         /\ worker'[w].msg = m
    BY <1>5 DEF Receives
  <2>2. \A v \in Worker : worker[v].msg # m
    BY <1>1, <2>1
  <2> QED BY <1>1, <1>2, <1>3, <2>1, <2>2 DEF OthersWait
<1>6. CASE Deletes(w) \/ GivesBack(w)
  <2>1. worker'[w].msg = None /\ u # w
    BY <1>6 DEF Deletes, GivesBack
  <2>2. \A m \in Msg : m # worker[w].msg => queue'[m] = queue[m]
    BY <1>6 DEF Deletes, GivesBack, Retried, TypeInv, QueueOK
  <2> QED BY <1>1, <1>2, <1>3, <2>1, <2>2
<1> QED BY <1>4, <1>5, <1>6 DEF MovesMessages

LEMMA RestHeldOnce ==
  ASSUME TypeInv, HeldOnce, RestSteps, ghost.orphaned => ghost'.orphaned
  PROVE  HeldOnce'
<1>1. UNCHANGED worker
  BY RestLeavesWorkers
<1>2. ASSUME ~ghost'.orphaned, NEW m \in Msg, queue[m].where = "inFlight", m \in Held
      PROVE  queue'[m] = queue[m]
  <2>1. CASE StarterStep
    <3>1. queue' = queue \/ Sends
      BY <2>1, SendSends DEF StarterStep, SetPending, ResetTargetedTasks, ResetTargetedRepository,
         ResetSubscription, DeleteFromSubscription, SendFirstMessage
    <3> QED BY <1>2, <3>1 DEF Sends, OthersWait, FreeMsgs
  <2>2. ASSUME NEW n \in Msg, RedriveToDlq(n) PROVE queue'[m] = queue[m]
    <3>1. n # m
      BY <1>2, <2>2 DEF RedriveToDlq
    <3> QED BY <2>2, <3>1 DEF RedriveToDlq, TypeInv, QueueOK
  <2>3. ASSUME NEW n \in Msg, VisibilityLapses(n) PROVE queue'[m] = queue[m]
    <3>1. n \notin Held
      BY <1>2, <2>3 DEF VisibilityLapses, TypeInv, GhostOK
    <3> QED BY <1>2, <2>3, <3>1 DEF VisibilityLapses, TypeInv, QueueOK
  <2>4. CASE \/ StartIsLost \/ FlagGoesStale \/ UNCHANGED vars
             \/ \E type \in SyncTypes, targets \in TargetChoices : BeginSync(type, targets)
    BY <2>4 DEF StartIsLost, FlagGoesStale, vars, BeginSync
  <2> QED BY <2>1, <2>2, <2>3, <2>4 DEF RestSteps
<1>3. ASSUME ~ghost'.orphaned, NEW u \in Worker, worker[u].msg # None
      PROVE  /\ queue'[worker[u].msg].where = "inFlight"
             /\ \A v \in Worker : worker[v].msg = worker[u].msg => v = u
  <2>1. /\ worker[u].msg \in Msg /\ queue[worker[u].msg].where = "inFlight"
        /\ \A v \in Worker : worker[v].msg = worker[u].msg => v = u
    BY <1>3, HeldMessages DEF HeldOnce
  <2>2. worker[u].msg \in Held
    BY DEF Held
  <2> QED BY <1>2, <1>3, <2>1, <2>2
<1> QED BY <1>1, <1>3 DEF HeldOnce

LEMMA HoldingStays ==
  ASSUME TypeInv, NEW w \in Worker, MovesMessages(w), HoldsMessage(worker[w])
  PROVE  HoldsMessage(worker'[w])
<1>1. \A m \in Msg : m # None
  BY BackfillAssumption
<1> QED BY <1>1 DEF MovesMessages, HoldsMessage, KeepsMessage, Receives, Deletes, GivesBack

\* A sync that has a carrier has been asked for.
LEMMA StatusWritten ==
  ASSUME TypeInv, [Next]_vars, sub'.syncStatus # sub.syncStatus
  PROVE  sub'.syncStatus # "NONE"
<1>1. sub \in Subscriptions
  BY DEF TypeInv
<1>2. ASSUME NEW w \in Worker, HandlerStep(w) \/ HandlerFault(w) PROVE sub'.syncStatus # "NONE"
  <2>1. CASE MarkSyncAsCompleteAndStop(w) \/ SetActive(w)
    BY <1>1, <2>1 DEF MarkSyncAsCompleteAndStop, SetActive, Saved, Subscriptions
  <2>2. CASE MarkCurrentTaskAsFailed(w) /\ worker[w].main.task = "repository"
    BY <1>1, <2>2 DEF MarkCurrentTaskAsFailed, MarksAs, Subscriptions
  <2>3. ASSUME NEW run, NEW status, NEW moved, UpdateRepo(run, status, moved) PROVE FALSE
    <3>1. sub' = sub \/ \E c : sub' = [sub EXCEPT !.repositoryStatus = status, !.repositoryCursor = c]
      BY <2>3 DEF UpdateRepo, StoreRepo
    <3> QED BY <1>1, <3>1 DEF Subscriptions
  <2>4. \/ MarkSyncAsCompleteAndStop(w) \/ SetActive(w)
        \/ MarkCurrentTaskAsFailed(w) /\ worker[w].main.task = "repository"
        \/ \E run, status, moved : UpdateRepo(run, status, moved)
    BY <1>2 DEF HandlerStep, HandlerFault, ReceiveMessage, NotSure, ReadSubscription, PlanTasks,
        UpdateTaskStatus, TasksSettle, ReleaseClaim, RescheduleRateLimited,
        RetryMessage, SendBackfillMessage, DeleteMessage, PostponeMessage, HandlerTimesOut, Crash,
        InfrastructureFails, TaskFails, TaskStatusIsNotStored, ClaimSync, OtherWorkerDoingThisJob,
        FetchPage, MarkCurrentTaskAsFailed, MarksAs, MarkTaskAsComplete
  <2> QED BY <2>1, <2>2, <2>3, <2>4
<1>3. CASE ResetTargetedRepository \/ ResetSubscription
  <2>1. PICK forgetCursor \in BOOLEAN : ResetDiscovery(forgetCursor)
    <3>1. ResetDiscovery(starter.type = "full") \/ ResetDiscovery(TRUE)
      BY <1>3 DEF ResetTargetedRepository, ResetSubscription
    <3>2. (starter.type = "full") \in BOOLEAN /\ TRUE \in BOOLEAN
      OBVIOUS
    <3> QED BY <3>1, <3>2
  <2> QED BY <1>1, <2>1, ResetTypes
<1>4. CASE SetPending
  BY <1>1, <1>4, PendingWritten
<1> QED
  BY <1>2, <1>3, <1>4
  DEF Next, StarterStep, BeginSync, ResetTargetedTasks, DeleteFromSubscription, SendFirstMessage, StartIsLost,
      FlagGoesStale, RedriveToDlq, VisibilityLapses, vars

LEMMA StepMessages ==
  ASSUME TypeInv, TypeInv', MessagesOK, [Next]_vars
  PROVE  MessagesOK'
<1>1. ghost.orphaned => ghost'.orphaned
  BY GhostGrows
<1>2. CASE \E w \in Worker : HandlerStep(w) \/ HandlerFault(w)
  <2>1. PICK w \in Worker : HandlerStep(w) \/ HandlerFault(w)
    BY <1>2
  <2>2. MovesMessages(w) /\ OthersStay(w)
    BY <2>1, MessagesMove
  <2>3. HeldOnce'
    BY <1>1, <2>2, WorkerHeldOnce DEF MessagesOK
  <2>4. \A v \in Worker : HoldsMessage(worker'[v])
    BY <2>2, HoldingStays DEF MessagesOK, OthersStay
  <2>5. Asked
    <3>1. worker[w].pc # "idle" \/ \E m \in Msg : queue[m].where = "visible"
      BY <2>2 DEF MovesMessages, KeepsMessage, Receives, Deletes, GivesBack
    <3> QED BY <3>1 DEF Asked
  <2> QED BY <2>3, <2>4, <2>5, StatusWritten DEF MessagesOK, HoldsMessage
<1>3. CASE RestSteps
  <2>1. HeldOnce' /\ UNCHANGED worker
    BY <1>1, <1>3, RestHeldOnce, RestLeavesWorkers DEF MessagesOK
  <2>2. /\ Asked' => sub'.syncStatus # "NONE"
        /\ starter'.pc = "starting" /\ starter'.seen.syncStatus # "NONE" => sub'.syncStatus # "NONE"
    <3>1. CASE \E type \in SyncTypes, targets \in TargetChoices : BeginSync(type, targets)
      <4>1. UNCHANGED <<sub, queue, worker>> /\ starter'.pc = "starting" /\ starter'.seen = sub
        BY <3>1 DEF BeginSync
      <4> QED BY <4>1 DEF MessagesOK, Asked
    <3>2. CASE SetPending
      <4>1. /\ starter.pc = "starting" /\ sub'.syncStatus \in {sub.syncStatus, "PENDING"}
            /\ starter.seen.syncStatus = "NONE" => sub'.syncStatus = "PENDING"
        BY <3>2, PendingWritten DEF TypeInv
      <4> QED BY <4>1 DEF MessagesOK
    <3>3. CASE (StarterStep /\ ~SetPending) \/ StartIsLost
      <4>1. starter'.pc # "starting"
        <5>1. starter \in [pc : {"idle", "starting", "resettingTasks", "resettingRepository",
                                 "resettingSubscription", "deletingRows", "sending"},
                           type : {"full", "partial"}, targets : TargetChoices \cup {{}},
                           seen : Subscriptions]
          BY DEF TypeInv, StarterOK
        <5>2. NoStart.pc = "idle" /\ (StarterSends => starter'.pc = "sending")
          BY DEF NoStart, StarterSends
        <5> QED BY <3>3, <5>1, <5>2
                DEF StarterStep, StartIsLost, ResetTargetedTasks, ResetTargetedRepository,
                    ResetSubscription, DeleteFromSubscription, SendFirstMessage
      <4>2. CASE StartIsLost
        <5>1. UNCHANGED queue /\ starter'.pc = "idle"
          BY <4>2 DEF StartIsLost, NoStart
        <5> QED BY <2>1, <4>1, <5>1, StatusWritten DEF MessagesOK, Asked
      <4>3. CASE StarterStep /\ ~SetPending
        <5>1. Asked
          BY <4>3 DEF StarterStep, ResetTargetedTasks, ResetTargetedRepository, ResetSubscription,
                      DeleteFromSubscription, SendFirstMessage, Asked
        <5> QED BY <4>1, <5>1, StatusWritten DEF MessagesOK
      <4> QED BY <3>3, <4>2, <4>3
    <3>4. CASE FlagGoesStale \/ UNCHANGED vars \/ \E m \in Msg : RedriveToDlq(m) \/ VisibilityLapses(m)
      <4>1. (Asked' => Asked) /\ UNCHANGED starter
        BY <2>1, <3>4 DEF FlagGoesStale, vars, RedriveToDlq, VisibilityLapses, Asked, TypeInv, QueueOK
      <4> QED BY <4>1, StatusWritten DEF MessagesOK
    <3> QED BY <1>3, <3>1, <3>2, <3>3, <3>4 DEF RestSteps
  <2> QED BY <2>1, <2>2 DEF MessagesOK, HoldsMessage
<1> QED BY <1>2, <1>3 DEF Next, RestSteps

-----------------------------------------------------------------------------
(* What a job has come to. *)

OutcomeOK(s) ==
  /\ s.pc \in {"received", "claimed", "planning", "stopping", "starting"} => s.outcome = "none"
  /\ s.pc = "starting" => s.main \in s.todo
  /\ s.pc = "working" => s.outcome # "none" \/ s.main \in Hand(s)
  /\ s.pc = "failing" => s.outcome \notin {"none", "next"}
  /\ s.pc \in {"working", "settled", "failing"} /\ s.outcome \in TaskErrors => s.main \in TaskRuns

LEMMA PlannedWorker ==
  ASSUME TypeInv, NEW w \in Worker, PlanTasks(w)
  PROVE  LET s == worker[w]
             x == worker'[w]
         IN  /\ OthersStay(w) /\ x.msg = s.msg /\ x.timedOut = s.timedOut
             /\ s.pc = "planning" /\ x.outcome = s.outcome /\ x.seen = s.seen
             /\ \/ x.pc = "stopping" /\ x.todo = s.todo /\ x.got = s.got
                \/ x.pc = "starting" /\ x.main \in x.todo
<1> DEFINE s == worker[w]
           x == worker'[w]
<1>1. s.pc = "planning"
  BY DEF PlanTasks
<1>2. CASE Move(w, "stopping")
  BY <1>1, <1>2, MovedWorker DEF Labels
<1>3. ASSUME NEW main, NEW todo, main \in todo,
             Becomes(w, [s EXCEPT !.pc = "starting", !.main = main, !.todo = todo])
      PROVE  /\ OthersStay(w) /\ x.msg = s.msg /\ x.timedOut = s.timedOut
             /\ x.outcome = s.outcome /\ x.seen = s.seen /\ x.pc = "starting" /\ x.main \in x.todo
  BY <1>1, <1>3 DEF TypeInv, Becomes, Execution, OthersStay
<1>4. \/ Move(w, "stopping")
      \/ \E main, todo : /\ main \in todo
                         /\ Becomes(w, [s EXCEPT !.pc = "starting", !.main = main, !.todo = todo])
  BY DEF PlanTasks
<1> QED BY <1>1, <1>2, <1>3, <1>4

LEMMA OutcomeStays ==
  ASSUME TypeInv, NEW w \in Worker, OutcomeOK(worker[w]), HandlerStep(w) \/ HandlerFault(w)
  PROVE  OutcomeOK(worker'[w])
<1> DEFINE s == worker[w]
           x == worker'[w]
<1>1. CASE x.pc \in {"idle", "sending", "deleting"}
  BY <1>1 DEF OutcomeOK
<1>2. ASSUME NEW m \in Msg, ReceiveMessage(w, m) PROVE OutcomeOK(x)
  BY <1>2, ReceivedWorker DEF OutcomeOK
<1>3. CASE ClaimSync(w)
  BY <1>3, MovedWorker DEF ClaimSync, OutcomeOK, Labels
<1>4. CASE TasksSettle(w)
  BY <1>4, MovedWorker DEF TasksSettle, OutcomeOK, Labels
<1>5. CASE ReleaseClaim(w)
  <2>1. s.pc = "settled"
    BY <1>5 DEF ReleaseClaim
  <2>2. \/ Becomes(w, Idle) \/ Leave(w, "sending") \/ Leave(w, "deleting")
        \/ Move(w, "failing") /\ s.outcome \notin {"none", "next"}
    BY <1>5 DEF ReleaseClaim
  <2>3. CASE Move(w, "failing") /\ s.outcome \notin {"none", "next"}
    BY <2>1, <2>3, MovedWorker DEF OutcomeOK, Labels
  <2>4. CASE Becomes(w, Idle) \/ Leave(w, "sending") \/ Leave(w, "deleting")
    BY <1>1, <2>4, IdleWorker, LeftWorker DEF Labels
  <2> QED BY <2>2, <2>3, <2>4
<1>6. CASE ReadSubscription(w)
  <2>1. s.pc = "claimed"
    BY <1>6 DEF ReadSubscription
  <2> QED BY <1>6, <2>1, ReadWorker DEF OutcomeOK
<1>7. CASE PlanTasks(w)
  BY <1>7, PlannedWorker DEF OutcomeOK
<1>8. CASE MarkSyncAsCompleteAndStop(w)
  BY <1>8, SavingWorker DEF OutcomeOK, TaskErrors
<1>9. CASE SetActive(w)
  BY <1>9, SavingWorker DEF OutcomeOK, TaskErrors, Hand
<1>10. ASSUME NEW run \in s.todo, FetchPage(w, run) PROVE OutcomeOK(x)
  BY <1>10, FetchingWorker DEF OutcomeOK
<1>11. ASSUME NEW run, NEW outcome \in TaskErrors \cup {"next"}, Ends(w, run, outcome)
       PROVE  OutcomeOK(x)
  <2>1. /\ s.pc = "working" /\ x.pc = "working" /\ x.main = s.main
        /\ x.outcome = (IF run = s.main THEN outcome ELSE s.outcome)
        /\ run \in Hand(s) /\ Hand(s) \subseteq Hand(x) \cup {run}
    BY <1>11, EndingWorker
  <2>2. run \in TaskRuns
    BY <2>1, WorkOfExecution, RunsInHand
  <2>3. outcome # "none"
    BY DEF TaskErrors
  <2>4. x.outcome # "none" \/ x.main \in Hand(x)
    BY <2>1, <2>3 DEF OutcomeOK
  <2> QED BY <2>1, <2>2, <2>4 DEF OutcomeOK
<1>12. CASE \E run \in s.todo, error \in TaskErrors : TaskFails(w, run, error)
  BY <1>11, <1>12 DEF Ends
<1>13. ASSUME NEW got \in s.got, UpdateTaskStatus(w, got) PROVE OutcomeOK(x)
  <2>1. PICK outcome : outcome = "next"
    OBVIOUS
  <2> QED BY <1>11, <1>13, <2>1 DEF Ends
<1>14. ASSUME NEW got \in s.got, TaskStatusIsNotStored(w, got) PROVE OutcomeOK(x)
  <2>1. PICK outcome \in TaskErrors : outcome = "unknown"
    BY DEF TaskErrors
  <2> QED BY <1>11, <1>14, <2>1 DEF Ends
<1>15. CASE HandlerTimesOut(w)
  BY <1>15, TimedOutWorker DEF OutcomeOK, Hand
<1>16. CASE InfrastructureFails(w)
  BY <1>16, <1>1, FailedWorker DEF OutcomeOK, TaskErrors
<1>17. CASE \/ NotSure(w) \/ OtherWorkerDoingThisJob(w) \/ MarkCurrentTaskAsFailed(w)
            \/ MarkTaskAsComplete(w) \/ RescheduleRateLimited(w) \/ RetryMessage(w)
            \/ SendBackfillMessage(w) \/ DeleteMessage(w) \/ PostponeMessage(w) \/ Crash(w)
  <2>1. \/ Becomes(w, Idle)
        \/ \E label \in {"sending", "deleting"} : Move(w, label) \/ Leave(w, label)
    BY <1>17
    DEF NotSure, OtherWorkerDoingThisJob, MarkCurrentTaskAsFailed, MarksAs, MarkTaskAsComplete,
        RescheduleRateLimited, RetryMessage, SendBackfillMessage, DeleteMessage, PostponeMessage, Crash
  <2>2. {"sending", "deleting"} \subseteq Labels
    BY DEF Labels
  <2> QED BY <1>1, <2>1, <2>2, IdleWorker, MovedWorker, LeftWorker
<1> QED
  BY <1>2, <1>3, <1>4, <1>5, <1>6, <1>7, <1>8, <1>9, <1>10, <1>12, <1>13, <1>14, <1>15, <1>16, <1>17
  DEF HandlerStep, HandlerFault

OutcomesOK == \A w \in Worker : OutcomeOK(worker[w])

LEMMA StepOutcomes ==
  ASSUME TypeInv, OutcomesOK, [Next]_vars
  PROVE  OutcomesOK'
<1>1. ASSUME NEW w \in Worker, HandlerStep(w) \/ HandlerFault(w) PROVE OutcomesOK'
  <2>1. OutcomeOK(worker'[w]) /\ OthersStay(w)
    BY <1>1, OutcomeStays, MessagesMove DEF OutcomesOK
  <2> QED BY <2>1 DEF OutcomesOK, OutcomeOK, OthersStay
<1>2. CASE RestSteps
  BY <1>2, RestLeavesWorkers DEF OutcomesOK, OutcomeOK
<1> QED BY <1>1, <1>2 DEF Next, RestSteps

-----------------------------------------------------------------------------
(* What a step makes of the tasks. *)

\* A task is stored with one of some statuses.
StoredAs(s, R, t, statuses) ==
  IF t[1] = "repository" THEN s.repositoryStatus \in statuses
  ELSE \E r \in R : r.repo = t[2] /\ r.status[t[1]] \in statuses

LEMMA TasksStored ==
  /\ CompleteTasks = {t \in Tasks : StoredAs(sub, rows, t, {"complete"})}
  /\ CompleteTasks' = {t \in Tasks : StoredAs(sub', rows', t, {"complete"})}
  /\ OpenTasks = {t \in Tasks : t[1] \in AskedTypes \cup {"repository"} /\ StoredAs(sub, rows, t, Pending)}
  /\ OpenTasks' = {t \in Tasks : t[1] \in AskedTypes \cup {"repository"} /\ StoredAs(sub', rows', t, Pending)}
BY DEF CompleteTasks, OpenTasks, TasksWith, StoredAs

LEMMA TaskFacts ==
  ASSUME NEW t \in Tasks
  PROVE  /\ t = <<t[1], t[2]>>
         /\ t[1] = "repository" => t[2] = 0
         /\ t[1] # "repository" => t[1] \in TaskTypes /\ t[2] \in Repo
BY TaskTypesAssumption DEF Tasks

LEMMA RunIsOfTask ==
  ASSUME NEW run \in TaskRuns
  PROVE  <<run.task, run.repo>> \in Tasks
BY TaskRunFacts DEF Tasks

\* updateRepo changes the status of one task, if it is stored at all.
LEMMA UpdatedTask ==
  ASSUME TypeInv, NEW run \in TaskRuns \cup {NoRun}, NEW status \in Status, NEW moved \in BOOLEAN,
         moved => run \in TaskRuns /\ run.cursor < PagesOf(run.task), UpdateRepo(run, status, moved),
         NEW t \in Tasks, NEW statuses
  PROVE  StoredAs(sub', rows', t, statuses) <=>
           IF t = <<run.task, run.repo>>
           THEN status \in statuses /\ StoredAs(sub, rows, t, Status)
           ELSE StoredAs(sub, rows, t, statuses)
<1>1. /\ run.task = "repository" => rows' = rows /\ sub'.repositoryStatus = status
      /\ run.task # "repository" => sub' = sub /\ \E f : Rewrites(f, run, status, moved)
  BY UpdateRepoFacts DEF TypeInv
<1>2. run.task = "repository" => run.repo = 0
  BY TaskRunFacts DEF NoRun, Run, NoTask
<1>3. sub.repositoryStatus \in Status /\ \A r \in rows, u \in TaskTypes : r.status[u] \in Status
  <2>1. \A r \in rows : r \in Row
    BY DEF TypeInv
  <2> QED BY <2>1 DEF TypeInv, Subscriptions, Row
<1>4. CASE run.task = "repository"
  BY <1>1, <1>2, <1>3, <1>4, TaskFacts DEF StoredAs
<1>5. CASE run.task # "repository"
  <2>1. PICK f : Rewrites(f, run, status, moved)
    BY <1>1, <1>5
  <2>2. CASE t[1] = "repository"
    BY <1>1, <1>5, <2>2 DEF StoredAs
  <2>3. CASE t[1] # "repository"
    <3>1. t[1] \in TaskTypes /\ t = <<t[1], t[2]>>
      BY <2>3, TaskFacts
    <3>2. /\ rows' = {f[r] : r \in rows}
          /\ \A r \in rows :
               /\ f[r].repo = r.repo
               /\ f[r].status[t[1]] = IF r.repo = run.repo /\ t[1] = run.task THEN status
                                      ELSE r.status[t[1]]
      BY <2>1, <3>1 DEF Rewrites
    <3>3. t = <<run.task, run.repo>> <=> t[1] = run.task /\ t[2] = run.repo
      BY <3>1
    <3>4. StoredAs(sub', rows', t, statuses) <=>
            \E r \in rows : r.repo = t[2] /\ f[r].status[t[1]] \in statuses
      BY <2>3, <3>2 DEF StoredAs
    <3>5. \A r \in rows : r.status[t[1]] \in Status
      BY <1>3, <3>1
    <3> QED BY <2>3, <3>2, <3>3, <3>4, <3>5 DEF StoredAs
  <2> QED BY <2>2, <2>3
<1> QED BY <1>4, <1>5

\* A step that opens no task again; the sync goes on or fails.
Closes ==
  /\ sub'.syncStatus \in {sub.syncStatus, "FAILED"}
  /\ sub'.repositoryStatus \in Pending => sub.repositoryStatus \in Pending
  /\ OpenTasks' \subseteq OpenTasks

LEMMA SameCloses ==
  ASSUME UNCHANGED <<sub, rows>>
  PROVE  Closes
BY DEF Closes, OpenTasks, TasksWith

LEMMA UpdateCloses ==
  ASSUME TypeInv, NEW run \in TaskRuns \cup {NoRun}, NEW status \in {"complete", "failed"},
         UpdateRepo(run, status, FALSE)
  PROVE  Closes
<1>1. status \in Status /\ status \notin Pending
  BY DEF Status, Pending
<1>2. \A t \in Tasks : StoredAs(sub', rows', t, Pending) => StoredAs(sub, rows, t, Pending)
  BY <1>1, UpdatedTask
<1>3. /\ sub'.syncStatus = sub.syncStatus
      /\ sub'.repositoryStatus \in {status, sub.repositoryStatus}
  BY <1>1, UpdateRepoFacts DEF TypeInv
<1> QED BY <1>1, <1>2, <1>3, TasksStored DEF Closes

LEMMA MarkCloses ==
  ASSUME TypeInv, NEW w \in Worker, MarkCurrentTaskAsFailed(w) \/ MarkTaskAsComplete(w)
  PROVE  Closes
<1>1. worker[w].main \in TaskRuns \cup {NoRun}
  BY WorkOfExecution
<1>2. CASE MarkCurrentTaskAsFailed(w) /\ worker[w].main.task = "repository"
  <2>1. /\ rows' = rows /\ sub'.repositoryStatus = "failed" /\ sub'.syncStatus = "FAILED"
    BY <1>2 DEF MarkCurrentTaskAsFailed, MarksAs, TypeInv, Subscriptions
  <2>2. \A t \in Tasks : StoredAs(sub', rows', t, Pending) => StoredAs(sub, rows, t, Pending)
    BY <2>1 DEF StoredAs, Pending
  <2> QED BY <2>1, <2>2, TasksStored DEF Closes, Pending
<1>3. CASE ~(MarkCurrentTaskAsFailed(w) /\ worker[w].main.task = "repository")
  <2>1. UpdateRepo(worker[w].main, "failed", FALSE) \/ UpdateRepo(worker[w].main, "complete", FALSE)
    BY <1>3 DEF MarkCurrentTaskAsFailed, MarksAs, MarkTaskAsComplete
  <2> QED BY <1>1, <2>1, UpdateCloses
<1> QED BY <1>2, <1>3

\* Without a task to run nothing that was asked for is open, if the discovery is complete.
LEMMA NothingToRun ==
  ASSUME rows \subseteq Row, NEW types \in SUBSET TaskTypes, NEW n \in Nat,
         NEW answer \in NextTasks("complete", rows, types, n), answer.main = NoTask
  PROVE  \A r \in rows, t \in types : r.status[t] \notin Pending
<1> DEFINE limit == IF n > 0 THEN (n + 1) * POOL_COEF ELSE 1
           found == PendingRows(rows, types, limit)
<1>1. limit \in Nat \ {0}
  BY PoolAssumption
<1>2. FirstTask(found, types) = NoTask
  BY DEF NextTasks, Answers
<1>3. Waiting(rows, types) = {}
  <2> SUFFICES ASSUME Waiting(rows, types) # {} PROVE FALSE
    OBVIOUS
  <2>1. PICK row \in Waiting(rows, types) : NewerRows(row, Waiting(rows, types)) = {}
    BY NewestRow DEF Waiting
  <2>2. Cardinality(NewerRows(row, Waiting(rows, types))) = 0
    BY <2>1, FS_EmptySet
  <2>3. row \in found
    <3> HIDE DEF limit
    <3> QED BY <1>1, <2>2 DEF PendingRows
  <2> HIDE DEF found
  <2> DEFINE first == CHOOSE r \in found : NewerRows(r, found) = {}
  <2>4. found \in SUBSET rows /\ found # {}
    BY <2>3 DEF found, PendingRows, Waiting
  <2>5. first \in found
    BY <2>4, NewestRow
  <2>6. FirstTask(found, types) = Task(FirstType(PendingTypes(first, types)), first)
    BY <2>4 DEF FirstTask
  <2>7. first \in Row
    BY <2>4, <2>5
  <2> HIDE DEF first
  <2>8. first.repo \in Repo
    BY <2>7 DEF Row
  <2>9. first.repo # 0
    BY <2>8, PagesFacts
  <2>10. Task(FirstType(PendingTypes(first, types)), first).repo = first.repo
    BY DEF Task
  <2> QED BY <1>2, <2>6, <2>9, <2>10 DEF NoTask
<1>4. \A r \in rows : PendingTypes(r, types) = {}
  BY <1>3 DEF Waiting
<1> QED BY <1>4 DEF PendingTypes

-----------------------------------------------------------------------------
(* A sync always has a message that carries it, or has ended. *)

\* Some message waits, or is held by nobody of S.
SafeIn(q, h, S) ==
  \E m \in Msg :
    \/ q[m].where = "visible"
    \/ q[m].where = "inFlight" /\ \A v \in Worker : h[v].msg = m => v \notin S

Deleting == {w \in Worker : worker[w].pc = "deleting"}

\* Those who delete their message or, as error handlers, may come to do so.
Leaving ==
  {w \in Worker : \/ worker[w].pc = "deleting"
                  \/ worker[w].pc = "failing" /\ worker[w].outcome # "infrastructure"}

\* The sync goes on whatever this worker does.
Backed(w) == Lost \/ starter.pc # "idle" \/ SafeIn(queue, worker, Leaving \cup {w})

Ended == sub.syncStatus = "FAILED" \/ (sub.syncStatus = "COMPLETE" /\ OpenTasks = {})

\* A sync whose last message is about to be deleted has ended.
Over ==
  \/ sub.syncStatus = "NONE" \/ Lost \/ Ended \/ starter.pc # "idle"
  \/ SafeIn(queue, worker, Deleting)

\* What a job relies on as it decides that the sync is complete.
JobOK(w) ==
  LET s == worker[w]
  IN  /\ s.pc = "working" /\ s.timedOut => Backed(w)
      /\ s.pc = "planning" =>
           Backed(w) \/ (s.seen.repositoryStatus = "complete" => sub.repositoryStatus \notin Pending)
      /\ s.pc \in {"planning", "stopping"} =>
           Backed(w) \/ (s.seen.syncStatus = "COMPLETE" => sub.syncStatus \in {"COMPLETE", "FAILED"})
      /\ s.pc = "stopping" => Backed(w) \/ OpenTasks = {}
      /\ s.pc = "settled" /\ s.outcome = "none" => Backed(w) \/ Ended

JobsOK == \A w \in Worker : JobOK(w)

LEMMA SendsSafe ==
  ASSUME Sends, NEW T
  PROVE  SafeIn(queue', worker', T)
BY DEF Sends, SafeIn, FreeMsgs

LEMMA RetriedSafe ==
  ASSUME TypeInv, HeldOnce, ~ghost.orphaned, NEW w \in Worker, worker[w].msg # None, GivesBack(w), NEW T
  PROVE  SafeIn(queue', worker', T)
<1>1. worker[w].msg \in Msg /\ queue[worker[w].msg].where = "inFlight"
  BY HeldMessages DEF HeldOnce
<1>2. queue'[worker[w].msg].where = "visible"
  BY <1>1 DEF GivesBack, Retried, TypeInv, QueueOK
<1> QED BY <1>1, <1>2 DEF SafeIn

\* What a step of one worker leaves of a message that is safe.
LEMMA SafeKept ==
  ASSUME TypeInv, HeldOnce, ~ghost.orphaned, NEW v \in Worker, MovesMessages(v), OthersStay(v),
         NEW S, NEW T, T \ {v} \subseteq S, v \in T => v \in S \/ worker'[v].msg = None,
         worker[v].pc = "deleting" => v \in S, Receives(v) => v \notin T,
         SafeIn(queue, worker, S)
  PROVE  SafeIn(queue', worker', T)
<1>1. PICK m \in Msg : \/ queue[m].where = "visible"
                       \/ queue[m].where = "inFlight" /\ \A u \in Worker : worker[u].msg = m => u \notin S
  BY DEF SafeIn
<1>2. \A u \in Worker : worker[u].msg \in Msg =>
        queue[worker[u].msg].where = "inFlight" /\ \A v2 \in Worker : worker[v2].msg = worker[u].msg => v2 = u
  BY HeldMessages DEF HeldOnce
<1>3. \A u \in Worker : u # v => worker'[u] = worker[u]
  BY DEF OthersStay
<1>4. m # None
  BY BackfillAssumption
<1>5. CASE KeepsMessage(v) /\ queue' = queue
  <2>1. \A u \in Worker : worker'[u].msg = m => worker[u].msg = m
    BY <1>3, <1>4, <1>5 DEF KeepsMessage
  <2>2. \A u \in Worker : worker'[u].msg = m /\ u \in T => u \in S
    BY <1>4
  <2> QED BY <1>1, <1>5, <2>1, <2>2 DEF SafeIn
<1>6. CASE Receives(v)
  <2>1. PICK n \in Msg : /\ queue[n].where = "visible" /\ queue'[n].where = "inFlight" /\ OthersWait(n)
                         /\ worker'[v].pc = "received" /\ worker'[v].msg = n
    BY <1>6 DEF Receives
  <2>2. \A u \in Worker : worker'[u].msg = n => u = v
    BY <1>2, <1>3, <2>1
  <2> QED BY <1>6, <2>1, <2>2 DEF SafeIn
<1>7. CASE Sends
  BY <1>7, SendsSafe
<1>8. CASE Deletes(v)
  <2>1. m # worker[v].msg
    BY <1>1, <1>2, <1>8 DEF Deletes
  <2>2. queue'[m] = queue[m] /\ worker'[v].msg = None
    BY <1>8, <2>1 DEF Deletes
  <2>3. \A u \in Worker : worker'[u].msg = m => u # v /\ worker[u].msg = m
    BY <1>3, <1>4, <2>2
  <2>4. \A u \in Worker : worker'[u].msg = m /\ u \in T => u \in S
    BY <2>3
  <2> QED BY <1>1, <2>2, <2>3, <2>4 DEF SafeIn
<1>9. CASE GivesBack(v)
  <2>1. CASE worker[v].msg = m
    BY <1>4, <1>9, <2>1, RetriedSafe
  <2>2. CASE worker[v].msg # m
    <3>1. queue'[m] = queue[m] /\ worker'[v].msg = None
      BY <1>9, <2>2 DEF GivesBack, Retried, TypeInv, QueueOK
    <3>2. \A u \in Worker : worker'[u].msg = m => u # v /\ worker[u].msg = m
      BY <1>3, <1>4, <3>1
    <3>3. \A u \in Worker : worker'[u].msg = m /\ u \in T => u \in S
      BY <3>2
    <3> QED BY <1>1, <3>1, <3>2, <3>3 DEF SafeIn
  <2> QED BY <2>1, <2>2
<1> QED BY <1>5, <1>6, <1>7, <1>8, <1>9 DEF MovesMessages

\* What is lost stays lost.
LEMMA LostStays ==
  ASSUME TypeInv, [Next]_vars, Lost
  PROVE  Lost'
<1>1. CASE ghost.startLost \/ ghost.dropped \/ ghost.orphaned
  BY <1>1, GhostGrows DEF Lost
<1>2. ASSUME NEW m \in Msg, queue[m].where = "dlq" PROVE queue'[m].where = "dlq"
  <2>1. ASSUME NEW w \in Worker, HandlerStep(w) \/ HandlerFault(w) PROVE queue'[m].where = "dlq"
    <3>1. MovesMessages(w)
      BY <2>1, MessagesMove
    <3> QED BY <1>2, <3>1 DEF MovesMessages, Receives, Sends, FreeMsgs, OthersWait, Deletes, GivesBack,
                              Retried, TypeInv, QueueOK
  <2>2. ASSUME NEW n \in Msg, RedriveToDlq(n) \/ VisibilityLapses(n) PROVE queue'[m].where = "dlq"
    BY <1>2, <2>2 DEF RedriveToDlq, VisibilityLapses, TypeInv, QueueOK
  <2>3. CASE SendFirstMessage
    BY <1>2, <2>3, SendSends DEF SendFirstMessage, Sends, FreeMsgs, OthersWait
  <2>4. CASE queue' = queue
    BY <1>2, <2>4
  <2> QED BY <2>1, <2>2, <2>3, <2>4 DEF Next, StarterStep, SetPending, ResetTargetedTasks,
          ResetTargetedRepository, ResetSubscription, DeleteFromSubscription, StartIsLost, FlagGoesStale,
          vars, BeginSync
<1> QED BY <1>1, <1>2 DEF Lost, Dead

\* What is not a step of a worker loses the sync, carries it on or does not matter here.
LEMMA RestBacks ==
  ASSUME TypeInv, TypeInv', RestSteps, NEW T
  PROVE  \/ Lost' \/ starter'.pc # "idle" \/ SafeIn(queue', worker', T)
         \/ UNCHANGED <<sub, rows, queue, worker, starter, ghost>>
<1>1. CASE StarterStep
  <2>1. CASE SendFirstMessage
    BY <2>1, SendSends, SendsSafe DEF SendFirstMessage
  <2>2. CASE SetPending
    BY <2>2, PendingStarter DEF TypeInv
  <2>3. CASE ~SendFirstMessage /\ ~SetPending
    BY <1>1, <2>3 DEF StarterStep, ResetTargetedTasks, ResetTargetedRepository, ResetSubscription,
                      DeleteFromSubscription, StarterSends, NoStart, TypeInv, StarterOK
  <2> QED BY <2>1, <2>2, <2>3
<1>2. CASE StartIsLost
  BY <1>2 DEF StartIsLost, TypeInv, GhostOK, Lost
<1>3. ASSUME NEW m \in Msg, RedriveToDlq(m) PROVE Lost'
  BY <1>3 DEF RedriveToDlq, TypeInv, QueueOK, Lost, Dead
<1>4. ASSUME NEW m \in Msg, VisibilityLapses(m) PROVE SafeIn(queue', worker', T)
  BY <1>4 DEF VisibilityLapses, TypeInv, QueueOK, SafeIn
<1>5. ASSUME NEW type \in SyncTypes, NEW targets \in TargetChoices, BeginSync(type, targets)
      PROVE  starter'.pc # "idle"
  BY <1>5 DEF BeginSync, NoStart
<1> QED BY <1>1, <1>2, <1>3, <1>4, <1>5 DEF RestSteps, FlagGoesStale, vars

LEMMA WorkerLeavesStarter ==
  ASSUME NEW w \in Worker, HandlerStep(w) \/ HandlerFault(w)
  PROVE  UNCHANGED starter
BY DEF HandlerStep, HandlerFault, ReceiveMessage, ClaimSync, NotSure, OtherWorkerDoingThisJob,
       ReadSubscription, PlanTasks, MarkSyncAsCompleteAndStop, SetActive, FetchPage, UpdateTaskStatus,
       TasksSettle, ReleaseClaim, MarkCurrentTaskAsFailed, MarksAs, MarkTaskAsComplete,
       RescheduleRateLimited, RetryMessage, SendBackfillMessage, DeleteMessage, PostponeMessage,
       HandlerTimesOut, Crash, InfrastructureFails, TaskFails, TaskStatusIsNotStored

\* Who comes to leave without having been at a job has sent the message again, or the sync is lost.
LEMMA NewlyLeaving ==
  ASSUME TypeInv, NEW v \in Worker, HandlerStep(v) \/ HandlerFault(v), worker[v].pc \notin AtJob,
         v \in Leaving', v \notin Leaving
  PROVE  Lost' \/ Sends
<1> DEFINE s == worker[v]
           x == worker'[v]
<1>1. /\ x.pc = "deleting" \/ (x.pc = "failing" /\ x.outcome # "infrastructure")
      /\ s.pc # "deleting" /\ (s.pc = "failing" => s.outcome = "infrastructure")
  BY DEF Leaving
<1>2. CASE OtherWorkerDoingThisJob(v)
  <2>1. CASE ghost' = [ghost EXCEPT !.dropped = TRUE]
    BY <2>1 DEF Lost, TypeInv, GhostOK
  <2>2. CASE Move(v, "sending")
    BY <1>1, <2>2, MovedWorker DEF Labels
  <2> QED BY <1>2, <2>1, <2>2 DEF OtherWorkerDoingThisJob
<1>3. CASE PostponeMessage(v) \/ SendBackfillMessage(v)
  BY <1>3, SendSends DEF PostponeMessage, SendBackfillMessage
<1>4. ASSUME NEW m \in Msg, ReceiveMessage(v, m) PROVE FALSE
  BY <1>1, <1>4, ReceivedWorker
<1>5. CASE ClaimSync(v) \/ NotSure(v)
  BY <1>1, <1>5, MovedWorker DEF ClaimSync, NotSure, Labels
<1>6. CASE DeleteMessage(v) \/ Crash(v) \/ RetryMessage(v)
  BY <1>1, <1>6, IdleWorker DEF DeleteMessage, Crash, RetryMessage
<1>7. CASE HandlerTimesOut(v)
  BY <1>1, <1>7, TimedOutWorker
<1>8. CASE InfrastructureFails(v)
  BY <1>1, <1>8, FailedWorker
<1>9. CASE MarkCurrentTaskAsFailed(v) \/ MarkTaskAsComplete(v) \/ RescheduleRateLimited(v)
  BY <1>1, <1>9 DEF MarkCurrentTaskAsFailed, MarksAs, GivesUp, MarkTaskAsComplete, RescheduleRateLimited
<1> QED
  BY <1>2, <1>3, <1>4, <1>5, <1>6, <1>7, <1>8, <1>9
  DEF HandlerStep, HandlerFault, AtJob, ReadSubscription, PlanTasks, MarkSyncAsCompleteAndStop, SetActive,
      FetchPage, UpdateTaskStatus, TasksSettle, ReleaseClaim, TaskFails, TaskStatusIsNotStored

LEMMA OthersBacked ==
  ASSUME TypeInv, HeldOnce, NEW w \in Worker, NEW v \in Worker \ {w}, HandlerStep(v) \/ HandlerFault(v),
         worker[v].pc \notin AtJob, Backed(w), Lost => Lost'
  PROVE  Backed(w)'
<1>1. MovesMessages(v) /\ OthersStay(v) /\ UNCHANGED starter
  BY MessagesMove, WorkerLeavesStarter
<1>2. CASE Lost \/ starter.pc # "idle"
  BY <1>1, <1>2 DEF Backed
<1>3. CASE ~Lost /\ SafeIn(queue, worker, Leaving \cup {w})
  <2> DEFINE S == Leaving \cup {w}
             T == Leaving' \cup {w}
  <2>1. T \ {v} \subseteq S
    BY <1>1 DEF OthersStay, Leaving
  <2>2. worker[v].pc = "deleting" => v \in S
    BY DEF Leaving
  <2>3. Receives(v) => v \notin T
    BY DEF Receives, Leaving
  <2>4. ~ghost.orphaned
    BY <1>3 DEF Lost
  <2>5. CASE v \in T => v \in S
    <3> HIDE DEF S, T
    <3>1. SafeIn(queue, worker, S)
      BY <1>3 DEF S
    <3>2. SafeIn(queue', worker', T)
      BY <1>1, <2>1, <2>2, <2>3, <2>4, <2>5, <3>1, SafeKept
    <3> QED BY <3>2 DEF Backed, T
  <2>6. CASE ~(v \in T => v \in S)
    <3>1. Lost' \/ Sends
      BY <2>6, NewlyLeaving
    <3>2. Sends => SafeIn(queue', worker', T)
      BY SendsSafe
    <3> QED BY <3>1, <3>2 DEF Backed
  <2> QED BY <2>5, <2>6
<1> QED BY <1>2, <1>3 DEF Backed

LEMMA OwnBacked ==
  ASSUME TypeInv, HeldOnce, NEW v \in Worker, HandlerStep(v) \/ HandlerFault(v),
         worker[v].pc \in AtJob, Backed(v), Lost => Lost'
  PROVE  Backed(v)'
<1>1. MovesMessages(v) /\ OthersStay(v) /\ UNCHANGED starter
  BY MessagesMove, WorkerLeavesStarter
<1>2. CASE Lost \/ starter.pc # "idle"
  BY <1>1, <1>2 DEF Backed
<1>3. CASE ~Lost /\ SafeIn(queue, worker, Leaving \cup {v})
  <2> DEFINE S == Leaving \cup {v}
             T == Leaving' \cup {v}
  <2>1. T \ {v} \subseteq S /\ v \in S
    BY <1>1 DEF OthersStay, Leaving
  <2>2. ~ghost.orphaned
    BY <1>3 DEF Lost
  <2>3. ~Receives(v)
    BY DEF Receives, AtJob
  <2> HIDE DEF S, T
  <2>4. SafeIn(queue, worker, S)
    BY <1>3 DEF S
  <2>5. SafeIn(queue', worker', T)
    BY <1>1, <2>1, <2>2, <2>3, <2>4, SafeKept
  <2> QED BY <2>5 DEF Backed, T
<1> QED BY <1>2, <1>3 DEF Backed

\* The step of a worker leaves what the others rely on.
LEMMA OthersJob ==
  ASSUME TypeInv, HeldOnce, OneJob, NEW w \in Worker, NEW v \in Worker \ {w},
         HandlerStep(v) \/ HandlerFault(v), JobOK(w), Lost => Lost'
  PROVE  JobOK(w)'
<1>1. worker'[w] = worker[w]
  BY MessagesMove DEF OthersStay
<1>2. CASE worker[w].pc \notin AtJob
  BY <1>1, <1>2 DEF JobOK, AtJob
<1>3. CASE worker[w].pc \in AtJob
  <2>1. worker[v].pc \notin AtJob
    BY <1>3 DEF OneJob
  <2>2. Backed(w) => Backed(w)'
    BY <2>1, OthersBacked
  <2>3. Closes
    BY <2>1, SameCloses, MarkCloses
    DEF HandlerStep, HandlerFault, ReceiveMessage, ClaimSync, NotSure, OtherWorkerDoingThisJob,
        ReadSubscription, PlanTasks, MarkSyncAsCompleteAndStop, SetActive, FetchPage, UpdateTaskStatus,
        TasksSettle, ReleaseClaim, RescheduleRateLimited, RetryMessage, SendBackfillMessage, DeleteMessage,
        PostponeMessage, HandlerTimesOut, Crash, InfrastructureFails, TaskFails, TaskStatusIsNotStored, AtJob
  <2>4. Ended => Ended'
    BY <2>3 DEF Closes, Ended
  <2> QED BY <1>1, <2>2, <2>3, <2>4 DEF JobOK, Closes
<1> QED BY <1>2, <1>3

\* A scheduler that finds nothing to do has seen the tables with nothing open.
LEMMA PlannedJob ==
  ASSUME TypeInv, NEW w \in Worker, PlanTasks(w), JobOK(w), ~Backed(w), worker'[w].pc = "stopping"
  PROVE  OpenTasks' = {}
<1> DEFINE s == worker[w]
           types == EligibleTasks(s.targets, TRUE)
<1>1. UNCHANGED <<sub, rows>> /\ s.pc = "planning" /\ types \in SUBSET TaskTypes /\ rows \subseteq Row
  BY DEF PlanTasks, EligibleTasks, TargetTasks, TypeInv
<1>2. PICK n \in 0..MaxSubtasks :
        \E answer \in NextTasks(s.seen.repositoryStatus, rows, types, n) : answer.main = NoTask
  <2> HIDE DEF types
  <2>1. PICK n \in 0..MaxSubtasks : \E answer \in NextTasks(s.seen.repositoryStatus, rows, types, n) :
          \/ answer.main = NoTask
          \/ \E main, todo : Becomes(w, [s EXCEPT !.pc = "starting", !.main = main, !.todo = todo])
    BY DEF PlanTasks, types
  <2>2. ASSUME NEW main, NEW todo, Becomes(w, [s EXCEPT !.pc = "starting", !.main = main, !.todo = todo])
        PROVE  FALSE
    BY <2>2 DEF TypeInv, Becomes, Execution
  <2> QED BY <2>1, <2>2
<1>3. s.seen.repositoryStatus = "complete"
  <2> HIDE DEF types
  <2>1. RepositoryTask # NoTask
    BY DEF RepositoryTask, NoTask
  <2> QED BY <1>2, <2>1 DEF NextTasks
<1>4. \A r \in rows, t \in types : r.status[t] \notin Pending
  <2>1. n \in Nat
    OBVIOUS
  <2> HIDE DEF types
  <2> QED BY <1>1, <1>2, <1>3, <2>1, NothingToRun
<1>5. AskedTypes \subseteq types
  <2>1. s.targets \in TargetChoices \cup {{}}
    BY WorkOfExecution
  <2> QED BY <2>1 DEF AskedTypes, EligibleTasks, TargetTasks
<1>6. sub.repositoryStatus \notin Pending
  BY <1>1, <1>3 DEF JobOK
<1> HIDE DEF types
<1>7. ASSUME NEW t \in Tasks, t[1] \in AskedTypes \cup {"repository"}, StoredAs(sub, rows, t, Pending)
      PROVE  FALSE
  BY <1>4, <1>5, <1>6, <1>7 DEF StoredAs
<1> QED BY <1>1, <1>7, TasksStored

LEMMA SavedStatus ==
  ASSUME TypeInv, NEW w \in Worker, NEW status \in SyncStatus,
         sub' = Saved(worker[w].seen, "syncStatus", status)
  PROVE  /\ sub'.syncStatus = IF worker[w].seen.syncStatus # status THEN status ELSE sub.syncStatus
         /\ sub'.repositoryStatus = sub.repositoryStatus
         /\ sub'.repositoryCursor = sub.repositoryCursor
BY WorkOfExecution DEF Saved, TypeInv, Subscriptions

LEMMA SavedOpen ==
  ASSUME rows' = rows, sub'.repositoryStatus = sub.repositoryStatus
  PROVE  OpenTasks' = OpenTasks /\ CompleteTasks' = CompleteTasks
BY DEF OpenTasks, CompleteTasks, TasksWith

\* A job that stops has nothing open.
LEMMA StoppedJob ==
  ASSUME TypeInv, NEW w \in Worker, MarkSyncAsCompleteAndStop(w), JobOK(w)
  PROVE  Backed(w) \/ Ended'
<1> SUFFICES ASSUME ~Backed(w) PROVE Ended'
  OBVIOUS
<1>1. /\ worker[w].pc = "stopping" /\ rows' = rows
      /\ sub' = Saved(worker[w].seen, "syncStatus", "COMPLETE") /\ "COMPLETE" \in SyncStatus
  BY DEF MarkSyncAsCompleteAndStop, SyncStatus
<1>2. OpenTasks' = {}
  BY <1>1, SavedStatus, SavedOpen DEF JobOK
<1>3. sub'.syncStatus \in {"COMPLETE", "FAILED"}
  BY <1>1, SavedStatus DEF JobOK
<1> QED BY <1>2, <1>3 DEF Ended

\* ... and so does a worker of its own.
LEMMA OwnJob ==
  ASSUME TypeInv, TypeInv', MessagesOK, NEW w \in Worker, HandlerStep(w) \/ HandlerFault(w),
         JobOK(w), OutcomeOK(worker[w]), Lost => Lost'
  PROVE  JobOK(w)'
<1> DEFINE s == worker[w]
           x == worker'[w]
           Counts(y) == y.pc \in {"working", "planning", "stopping", "settled"}
<1>1. CASE ~Counts(x)
  BY <1>1 DEF JobOK
<1>2. HeldOnce /\ MovesMessages(w) /\ OthersStay(w)
  BY MessagesMove DEF MessagesOK
<1>3. s.pc \in AtJob /\ Backed(w) => Backed(w)'
  BY <1>2, OwnBacked
<1>4. CASE ReadSubscription(w)
  <2>1. x.pc = "planning" /\ x.seen = sub /\ UNCHANGED sub
    BY <1>4, ReadWorker DEF ReadSubscription
  <2>2. x.seen.syncStatus = sub'.syncStatus /\ x.seen.repositoryStatus = sub'.repositoryStatus
    BY <2>1
  <2> QED BY <2>1, <2>2 DEF JobOK, Pending
<1>5. CASE PlanTasks(w)
  <2>1. /\ s.pc = "planning" /\ x.seen = s.seen /\ x.pc \in {"stopping", "starting"}
        /\ UNCHANGED <<sub, rows>>
    BY <1>5, PlannedWorker DEF PlanTasks
  <2>2. x.pc = "stopping" => Backed(w) \/ OpenTasks' = {}
    BY <1>5, PlannedJob
  <2> QED BY <1>3, <2>1, <2>2 DEF JobOK, AtJob
<1>6. CASE MarkSyncAsCompleteAndStop(w)
  <2>1. s.pc = "stopping" /\ x.pc = "settled"
    BY <1>6, SavingWorker
  <2>2. Backed(w) \/ Ended'
    BY <1>6, StoppedJob
  <2> QED BY <1>3, <2>1, <2>2 DEF JobOK, AtJob
<1>7. CASE SetActive(w)
  <2>1. x.pc = "working" /\ x.timedOut = s.timedOut
    BY <1>7, SavingWorker
  <2>2. s.timedOut => Lost'
    BY <1>7 DEF SetActive, Lost, TypeInv, GhostOK
  <2> QED BY <2>1, <2>2 DEF JobOK, Backed
<1>8. CASE \/ \E run \in s.todo : FetchPage(w, run)
           \/ \E got \in s.got : UpdateTaskStatus(w, got) \/ TaskStatusIsNotStored(w, got)
           \/ \E run \in s.todo, error \in TaskErrors : TaskFails(w, run, error)
  <2>1. s.pc = "working" /\ x.pc = "working" /\ x.timedOut = s.timedOut
    <3>1. CASE \E run \in s.todo : FetchPage(w, run)
      BY <3>1, FetchingWorker
    <3>2. CASE ~\E run \in s.todo : FetchPage(w, run)
      <4>1. \E run, outcome : Ends(w, run, outcome)
        BY <1>8, <3>2 DEF Ends
      <4> QED BY <4>1, EndingWorker
    <3> QED BY <3>1, <3>2
  <2> QED BY <1>3, <2>1 DEF JobOK, AtJob
<1>9. CASE TasksSettle(w)
  <2>1. s.pc = "working" /\ Hand(s) = {}
    BY <1>9 DEF TasksSettle, Hand
  <2>2. x.pc = "settled" /\ x.outcome = s.outcome
    BY <1>9, <2>1, MovedWorker DEF TasksSettle, Labels
  <2> QED BY <2>1, <2>2 DEF OutcomeOK, JobOK
<1>10. CASE HandlerTimesOut(w)
  <2>1. /\ x.pc = s.pc /\ x.seen = s.seen /\ x.outcome = s.outcome /\ s.timedOut = FALSE /\ s.pc # "idle"
        /\ UNCHANGED <<sub, rows, starter>> /\ GivesBack(w)
    <3>1. x.pc = s.pc /\ x.seen = s.seen /\ x.outcome = s.outcome /\ x.msg = None /\ x.timedOut
      BY <1>10, TimedOutWorker
    <3>2. s.timedOut = FALSE /\ s.pc # "idle" /\ UNCHANGED <<sub, rows, starter>> /\ queue' = Retried(s.msg)
      BY <1>10, WorkOfExecution DEF HandlerTimesOut, Execution
    <3> QED BY <3>1, <3>2 DEF GivesBack
  <2>2. s.msg # None
    BY <2>1 DEF MessagesOK, HoldsMessage
  <2>3. Backed(w)'
    <3>1. ghost.orphaned \/ SafeIn(queue', worker', Leaving' \cup {w})
      BY <1>2, <2>1, <2>2, RetriedSafe
    <3> QED BY <3>1 DEF Backed, Lost
  <2> QED BY <2>3 DEF JobOK
<1>11. ~Counts(x) \/ ReadSubscription(w) \/ PlanTasks(w) \/ MarkSyncAsCompleteAndStop(w) \/ SetActive(w)
       \/ (\E run \in s.todo : FetchPage(w, run))
       \/ (\E got \in s.got : UpdateTaskStatus(w, got) \/ TaskStatusIsNotStored(w, got))
       \/ (\E run \in s.todo, error \in TaskErrors : TaskFails(w, run, error))
       \/ TasksSettle(w) \/ HandlerTimesOut(w)
  <2>1. CASE \/ \E m \in Msg : ReceiveMessage(w, m)
             \/ ClaimSync(w) \/ NotSure(w) \/ OtherWorkerDoingThisJob(w) \/ PostponeMessage(w)
             \/ DeleteMessage(w) \/ SendBackfillMessage(w) \/ Crash(w) \/ ReleaseClaim(w)
             \/ InfrastructureFails(w) \/ MarkCurrentTaskAsFailed(w) \/ MarkTaskAsComplete(w)
             \/ RescheduleRateLimited(w) \/ RetryMessage(w)
    <3>1. CASE ClaimSync(w)
      BY <3>1, MovedWorker DEF ClaimSync, Labels
    <3>2. CASE ~ClaimSync(w)
      <4>1. PICK y : Becomes(w, y) /\ y.pc \notin AtJob
        BY <2>1, <3>2, LeavesJob
      <4>2. x = y
        BY <4>1 DEF Becomes, TypeInv
      <4> QED BY <4>1, <4>2 DEF AtJob
    <3> QED BY <3>1, <3>2
  <2> QED BY <2>1 DEF HandlerStep, HandlerFault
<1> QED BY <1>1, <1>4, <1>5, <1>6, <1>7, <1>8, <1>9, <1>10, <1>11

LEMMA StepJobs ==
  ASSUME TypeInv, TypeInv', OneJob, MessagesOK, OutcomesOK, JobsOK, [Next]_vars
  PROVE  JobsOK'
<1>1. Lost => Lost'
  BY LostStays
<1>2. ASSUME NEW v \in Worker, HandlerStep(v) \/ HandlerFault(v), NEW w \in Worker PROVE JobOK(w)'
  <2>1. CASE w = v
    BY <1>1, <1>2, <2>1, OwnJob DEF OutcomesOK, JobsOK
  <2>2. CASE w # v
    BY <1>1, <1>2, <2>2, OthersJob DEF JobsOK, MessagesOK
  <2> QED BY <2>1, <2>2
<1>3. ASSUME RestSteps, NEW w \in Worker PROVE JobOK(w)'
  <2>1. \/ Backed(w)'
        \/ UNCHANGED <<sub, rows, queue, worker, starter, ghost>>
    BY <1>3, RestBacks DEF Backed
  <2>2. UNCHANGED worker
    BY <1>3, RestLeavesWorkers
  <2>3. CASE Backed(w)'
    BY <2>3 DEF JobOK
  <2>4. CASE UNCHANGED <<sub, rows, queue, worker, starter, ghost>>
    <3>1. JobOK(w)
      BY DEF JobsOK
    <3> QED BY <2>4, <3>1 DEF JobOK, Backed, SafeIn, Leaving, Ended, OpenTasks, TasksWith, Lost, Dead
  <2> QED BY <2>1, <2>3, <2>4
<1> QED BY <1>2, <1>3 DEF JobsOK, Next, RestSteps

\* A message that its holder is not about to delete is safe.
LEMMA HolderSafe ==
  ASSUME TypeInv, MessagesOK, ~ghost.orphaned, NEW w \in Worker, worker[w].pc \notin {"idle", "deleting"},
         ~worker[w].timedOut
  PROVE  SafeIn(queue, worker, Deleting)
<1>1. worker[w].msg # None /\ worker[w].msg \in Msg
  BY HeldMessages DEF MessagesOK, HoldsMessage
<1>2. /\ queue[worker[w].msg].where = "inFlight"
      /\ \A v \in Worker : worker[v].msg = worker[w].msg => v = w
  BY <1>1 DEF MessagesOK, HeldOnce
<1> QED BY <1>1, <1>2 DEF SafeIn, Deleting

\* What a worker at its job relies on is there after its step, too.
LEMMA BackedIsOver ==
  ASSUME TypeInv, NEW w \in Worker, Backed(w)
  PROVE  Over
BY DEF Backed, Over, SafeIn, Leaving, Deleting

\* A worker that comes to delete its message has sent another one, or the sync has ended.
LEMMA NewlyDeleting ==
  ASSUME TypeInv, MessagesOK, NEW v \in Worker, HandlerStep(v) \/ HandlerFault(v), JobOK(v), Lost => Lost',
         worker'[v].pc = "deleting", worker[v].pc # "deleting"
  PROVE  Over' \/ Sends
<1> DEFINE s == worker[v]
           x == worker'[v]
<1>1. CASE ReleaseClaim(v)
  <2>1. s.pc = "settled" /\ UNCHANGED <<sub, rows>>
    BY <1>1 DEF ReleaseClaim
  <2>2. s.outcome = "none"
    <3>1. \/ Becomes(v, Idle) \/ Leave(v, "sending") \/ Move(v, "failing")
          \/ s.outcome = "none"
      BY <1>1 DEF ReleaseClaim
    <3> QED BY <3>1, IdleWorker, LeftWorker, MovedWorker DEF Labels
  <2>3. CASE Backed(v)
    BY <2>1, <2>3, OwnBacked, MessagesMove DEF AtJob, MessagesOK, Backed, Over, SafeIn, Leaving, Deleting
  <2>4. CASE Ended
    <3>1. Ended'
      BY <2>1, <2>4 DEF Ended, OpenTasks, TasksWith
    <3> QED BY <3>1 DEF Over
  <2> QED BY <2>1, <2>2, <2>3, <2>4 DEF JobOK
<1>2. CASE MarkCurrentTaskAsFailed(v)
  <2>1. CASE s.main.task = "repository"
    <3>1. sub'.syncStatus = "FAILED"
      BY <1>2, <2>1 DEF MarkCurrentTaskAsFailed, MarksAs, TypeInv, Subscriptions
    <3> QED BY <3>1 DEF Over, Ended
  <2>2. CASE s.main.task # "repository"
    BY <1>2, <2>2, LeftWorker DEF MarkCurrentTaskAsFailed, MarksAs, Labels
  <2> QED BY <2>1, <2>2
<1>3. CASE MarkTaskAsComplete(v) \/ RescheduleRateLimited(v)
  BY <1>3, LeftWorker DEF MarkTaskAsComplete, RescheduleRateLimited, Labels
<1>4. CASE s.pc \notin AtJob /\ v \notin Leaving
  <2>1. v \in Leaving'
    BY DEF Leaving
  <2> QED BY <1>4, <2>1, NewlyLeaving DEF Over
<1>5. CASE RetryMessage(v) \/ Crash(v)
  BY <1>5, IdleWorker DEF RetryMessage, Crash
<1>6. CASE InfrastructureFails(v)
  BY <1>6, FailedWorker
<1>7. CASE HandlerTimesOut(v)
  BY <1>7, TimedOutWorker
<1>8. CASE ReadSubscription(v)
  BY <1>8, ReadWorker
<1>9. CASE PlanTasks(v)
  BY <1>9, PlannedWorker
<1>10. CASE MarkSyncAsCompleteAndStop(v) \/ SetActive(v)
  BY <1>10, SavingWorker
<1>11. CASE \E run \in s.todo : FetchPage(v, run)
  BY <1>11, FetchingWorker
<1>12. CASE \E run, outcome : Ends(v, run, outcome)
  BY <1>12, EndingWorker
<1>13. CASE TasksSettle(v)
  BY <1>13, MovedWorker DEF TasksSettle, Labels
<1> QED
  BY <1>1, <1>2, <1>3, <1>4, <1>5, <1>6, <1>7, <1>8, <1>9, <1>10, <1>11, <1>12, <1>13
  DEF HandlerStep, HandlerFault, ReceiveMessage, ClaimSync, NotSure, OtherWorkerDoingThisJob,
      SendBackfillMessage, DeleteMessage, PostponeMessage, AtJob, Leaving, Ends

\* The steps that are not of findOrStartSync and may open a task or end a sync.
LEMMA TablesClose ==
  ASSUME TypeInv, NEW v \in Worker, HandlerStep(v) \/ HandlerFault(v)
  PROVE  \/ Closes
         \/ MarkSyncAsCompleteAndStop(v) \/ SetActive(v)
         \/ \E run \in worker[v].todo : FetchPage(v, run)
         \/ \E got \in worker[v].got : UpdateTaskStatus(v, got)
BY SameCloses, MarkCloses
DEF HandlerStep, HandlerFault, ReceiveMessage, ClaimSync, NotSure, OtherWorkerDoingThisJob,
    ReadSubscription, PlanTasks, TasksSettle, ReleaseClaim, RescheduleRateLimited, RetryMessage,
    SendBackfillMessage, DeleteMessage, PostponeMessage, HandlerTimesOut, Crash, InfrastructureFails,
    TaskFails, TaskStatusIsNotStored

LEMMA WorkerOver ==
  ASSUME TypeInv, TypeInv', MessagesOK, OutcomesOK, JobsOK, Over, NEW v \in Worker,
         HandlerStep(v) \/ HandlerFault(v), Lost => Lost', JobsOK'
  PROVE  Over'
<1> DEFINE s == worker[v]
           x == worker'[v]
<1>1. MovesMessages(v) /\ OthersStay(v) /\ UNCHANGED starter
  BY MessagesMove, WorkerLeavesStarter
<1>2. CASE Lost \/ starter.pc # "idle"
  BY <1>1, <1>2 DEF Over
<1>3. CASE ~Lost /\ SafeIn(queue, worker, Deleting)
  <2>1. CASE v \notin Deleting' \/ v \in Deleting
    <3>1. PICK T : T = Deleting'
      OBVIOUS
    <3>2. T \ {v} \subseteq Deleting /\ (v \in T => v \in Deleting)
      BY <1>1, <2>1, <3>1 DEF Deleting, OthersStay
    <3>3. /\ s.pc = "deleting" => v \in Deleting
          /\ Receives(v) => v \notin T
          /\ ~ghost.orphaned /\ HeldOnce
      BY <1>3, <3>1 DEF Deleting, Receives, Lost, MessagesOK
    <3>4. SafeIn(queue', worker', T)
      BY <1>1, <1>3, <3>2, <3>3, SafeKept
    <3> QED BY <3>1, <3>4 DEF Over
  <2>2. CASE v \in Deleting' /\ v \notin Deleting
    <3>1. Over' \/ Sends
      BY <2>2, NewlyDeleting DEF Deleting, JobsOK
    <3>2. Sends => SafeIn(queue', worker', Deleting')
      BY SendsSafe
    <3> QED BY <3>1, <3>2 DEF Over
  <2> QED BY <2>1, <2>2
<1>4. CASE ~Lost /\ starter.pc = "idle" /\ ~SafeIn(queue, worker, Deleting)
  <2>1. s.pc # "idle"
    <3>1. s.pc = "idle" => \E m \in Msg : queue[m].where = "visible"
      BY <1>1 DEF MovesMessages, KeepsMessage, Receives, Sends, Deletes, GivesBack
    <3> QED BY <1>4, <3>1 DEF SafeIn
  <2>2. sub.syncStatus # "NONE"
    BY <2>1 DEF MessagesOK, Asked
  <2>3. Ended
    BY <1>4, <2>2 DEF Over
  <2>4. CASE Closes
    BY <2>3, <2>4 DEF Closes, Ended, Over
  <2>5. CASE s.pc \in {"starting", "stopping", "working"}
    <3>1. s.timedOut = TRUE
      <4>1. s.timedOut \in BOOLEAN
        BY WorkOfExecution DEF Execution
      <4> QED BY <1>4, <2>5, <4>1, HolderSafe DEF Lost
    <3>2. CASE SetActive(v)
      BY <3>1, <3>2 DEF SetActive, Over, Lost, TypeInv, GhostOK
    <3>3. CASE MarkSyncAsCompleteAndStop(v)
      <4>1. Backed(v) \/ Ended'
        BY <3>3, StoppedJob DEF JobsOK
      <4>2. Backed(v) => Over
        BY BackedIsOver
      <4>3. ~Backed(v)
        BY <1>4 DEF Backed, SafeIn, Leaving, Deleting
      <4> QED BY <4>1, <4>3 DEF Over
    <3>4. CASE s.pc = "working"
      <4>1. Backed(v)
        BY <3>1, <3>4 DEF JobsOK, JobOK
      <4> QED BY <1>4, <4>1 DEF Backed, SafeIn, Leaving, Deleting
    <3>5. CASE ~Closes
      BY <3>2, <3>3, <3>4, <3>5, TablesClose DEF FetchPage, UpdateTaskStatus
    <3> QED BY <2>4, <3>5
  <2>6. CASE s.pc \notin {"starting", "stopping", "working"}
    BY <2>4, <2>6, TablesClose DEF FetchPage, UpdateTaskStatus, SetActive, MarkSyncAsCompleteAndStop
  <2> QED BY <2>5, <2>6
<1> QED BY <1>2, <1>3, <1>4

LEMMA StepOver ==
  ASSUME TypeInv, TypeInv', OneJob, MessagesOK, OutcomesOK, JobsOK, Over, [Next]_vars
  PROVE  Over'
<1>1. Lost => Lost'
  BY LostStays
<1>2. ASSUME NEW v \in Worker, HandlerStep(v) \/ HandlerFault(v) PROVE Over'
  BY <1>1, <1>2, WorkerOver, StepJobs
<1>3. CASE RestSteps
  <2>1. \/ Lost' \/ starter'.pc # "idle" \/ SafeIn(queue', worker', Deleting')
        \/ UNCHANGED <<sub, rows, queue, worker, starter, ghost>>
    BY <1>3, RestBacks
  <2> QED BY <2>1 DEF Over, SafeIn, Deleting, Ended, OpenTasks, TasksWith, Lost, Dead
<1> QED BY <1>2, <1>3 DEF Next, RestSteps

-----------------------------------------------------------------------------
(* Who is at a job or handles its error is alone, for as long as nothing was disturbed. *)

Active(s) == s.pc \in AtJob \/ (s.pc = "failing" /\ s.outcome # "infrastructure")

\* No repository has two rows.
OnceEach == \A r, q \in rows : r.repo = q.repo => r = q

NotComplete(run) ==
  IF run.task = "repository" THEN sub.repositoryStatus # "complete"
  ELSE \A r \in rows : r.repo = run.repo => r.status[run.task] # "complete"

\* A run leaves the task of another one alone.
Spares(run, main) ==
  /\ run.task # "repository"
  /\ run.task = main.task /\ run.repo = main.repo => \A r \in rows : r.repo # run.repo

Troubled(s) == s.pc \in {"working", "settled", "failing"} /\ s.outcome \in TaskErrors

\* The main task that failed is not complete, and nothing in hand will complete it.
MainOK(s) ==
  Troubled(s) => NotComplete(s.main) /\ \A run \in Hand(s) : Spares(run, s.main)

Alone ==
  Disturbed \/
    /\ \A v, w \in Worker : Active(worker[v]) /\ Active(worker[w]) => v = w
    /\ \A w \in Worker : MainOK(worker[w])
    /\ OnceEach

LEMMA RunNotComplete ==
  ASSUME OnceEach, NEW run, RunOK(run)
  PROVE  NotComplete(run)
BY DEF OnceEach, RunOK, NotComplete, IsOnlyRow

\* A step that completes no task and adds no row.
LEMMA LoweredMain ==
  ASSUME Lowers, OnceEach', NEW s \in Execution, MainOK(s), OutcomeOK(s)
  PROVE  MainOK(s)'
<1> SUFFICES ASSUME Troubled(s)
             PROVE  NotComplete(s.main)' /\ \A run \in Hand(s) : Spares(run, s.main)'
  BY DEF MainOK, Hand, Troubled
<1>1. s.main \in TaskRuns /\ NotComplete(s.main) /\ \A run \in Hand(s) : Spares(run, s.main)
  BY DEF MainOK, OutcomeOK, Troubled
<1>2. \A q \in rows' : \E r \in rows :
        r.repo = q.repo /\ \A t \in TaskTypes : q.status[t] = "complete" => r.status[t] = "complete"
  BY DEF Lowers, OnceEach, IsOnlyRow
<1>3. s.main.task # "repository" => s.main.task \in TaskTypes
  BY <1>1, TaskRunFacts
<1>4. NotComplete(s.main)'
  BY <1>1, <1>2, <1>3 DEF NotComplete, Lowers
<1>5. ASSUME NEW run \in Hand(s) PROVE Spares(run, s.main)'
  BY <1>1, <1>2 DEF Spares
<1> QED BY <1>4, <1>5

\* Who is not active leaves the tables alone.
LEMMA InactiveSteps ==
  ASSUME TypeInv, NEW v \in Worker, HandlerStep(v) \/ HandlerFault(v), ~Active(worker[v])
  PROVE  /\ sub' = sub /\ rows' = rows
         /\ Active(worker'[v]) => worker'[v].pc = "claimed"
         /\ Active(worker'[v]) => Disturbed' \/ ~\E w \in Worker \ {v} : worker[w].pc = "failing" \/ w \in claim
<1> DEFINE s == worker[v]
           x == worker'[v]
<1>1. s.pc \notin AtJob /\ (s.pc = "failing" => s.outcome = "infrastructure")
  BY DEF Active
<1>2. CASE ClaimSync(v)
  <2>1. UNCHANGED <<sub, rows>>
    BY <1>2 DEF ClaimSync
  <2>2. ghost'.met = (ghost.met \/ Meets)
    BY <1>2 DEF ClaimSync, TypeInv, GhostOK
  <2>3. x.pc = "claimed"
    BY <1>2, MovedWorker DEF ClaimSync, Labels
  <2> QED BY <2>1, <2>2, <2>3 DEF Meets, Disturbed
<1>3. CASE HandlerTimesOut(v)
  <2>1. UNCHANGED <<sub, rows>>
    BY <1>3 DEF HandlerTimesOut
  <2>2. x.pc = s.pc /\ x.outcome = s.outcome
    BY <1>3, TimedOutWorker
  <2> QED BY <1>1, <2>1, <2>2 DEF Active
<1>4. CASE InfrastructureFails(v)
  BY <1>4, FailedWorker DEF InfrastructureFails, Active, AtJob
<1>5. ASSUME NEW m \in Msg, ReceiveMessage(v, m)
      PROVE  UNCHANGED <<sub, rows>> /\ ~Active(x)
  BY <1>5, ReceivedWorker DEF ReceiveMessage, Active, AtJob
<1>6. CASE NotSure(v) \/ OtherWorkerDoingThisJob(v) \/ PostponeMessage(v) \/ SendBackfillMessage(v)
           \/ DeleteMessage(v) \/ Crash(v) \/ RetryMessage(v)
  <2>1. /\ UNCHANGED <<sub, rows>>
        /\ Becomes(v, Idle) \/ Move(v, "sending") \/ Move(v, "deleting")
    BY <1>6 DEF NotSure, OtherWorkerDoingThisJob, PostponeMessage, SendBackfillMessage, DeleteMessage,
                Crash, RetryMessage
  <2> QED BY <2>1, IdleWorker, MovedWorker DEF Labels, Active, AtJob
<1>7. CASE MarkCurrentTaskAsFailed(v) \/ MarkTaskAsComplete(v) \/ RescheduleRateLimited(v)
  BY <1>1, <1>7 DEF MarkCurrentTaskAsFailed, MarksAs, GivesUp, MarkTaskAsComplete, RescheduleRateLimited
<1> QED
  BY <1>1, <1>2, <1>3, <1>4, <1>5, <1>6, <1>7
  DEF HandlerStep, HandlerFault, AtJob, ReadSubscription, PlanTasks, MarkSyncAsCompleteAndStop, SetActive,
      FetchPage, UpdateTaskStatus, TasksSettle, ReleaseClaim, TaskFails, TaskStatusIsNotStored

\* A step of a worker that leaves the tables and is troubled by nothing new.
LEMMA QuietMain ==
  ASSUME OnceEach, NEW w \in Worker, MainOK(worker[w]), UNCHANGED <<sub, rows>>,
         Troubled(worker'[w]) => /\ Troubled(worker[w]) /\ worker'[w].main = worker[w].main
                                 /\ Hand(worker'[w]) \subseteq Hand(worker[w])
  PROVE  OnceEach' /\ MainOK(worker[w])'
<1>1. OnceEach'
  BY DEF OnceEach
<1>2. ASSUME Troubled(worker'[w])
      PROVE  NotComplete(worker[w].main)' /\ \A run \in Hand(worker'[w]) : Spares(run, worker[w].main)'
  <2>1. NotComplete(worker[w].main) /\ \A run \in Hand(worker'[w]) : Spares(run, worker[w].main)
    BY <1>2 DEF MainOK
  <2>2. worker'[w].main = worker[w].main
    BY <1>2
  <2> QED BY <2>1, <2>2 DEF NotComplete, Spares
<1> QED BY <1>1, <1>2 DEF MainOK, Troubled, Hand

LEMMA RewrittenOnce ==
  ASSUME IdsOK, OnceEach, NEW f, NEW run, NEW status, NEW moved, Rewrites(f, run, status, moved)
  PROVE  OnceEach'
<1> SUFFICES ASSUME NEW r \in rows, NEW q \in rows, f[r].repo = f[q].repo PROVE f[r] = f[q]
  BY DEF OnceEach, Rewrites
<1>1. r.repo = q.repo
  BY DEF Rewrites
<1> QED BY <1>1 DEF OnceEach

LEMMA UpdateOnce ==
  ASSUME TypeInv, OnceEach, NEW run \in TaskRuns \cup {NoRun}, NEW status \in Status, NEW moved \in BOOLEAN,
         moved => run \in TaskRuns /\ run.cursor < PagesOf(run.task), UpdateRepo(run, status, moved)
  PROVE  OnceEach'
<1>1. /\ run.task = "repository" => rows' = rows
      /\ run.task # "repository" => \E f : Rewrites(f, run, status, moved)
  BY UpdateRepoFacts DEF TypeInv
<1> QED BY <1>1, RewrittenOnce DEF TypeInv, OnceEach

\* The main task fails.
LEMMA FailedMain ==
  ASSUME TypeInv, OneJob, Kept, ~ghost.raced, OnceEach, NEW w \in Worker, MainOK(worker[w]),
         NEW run, NEW outcome, Ends(w, run, outcome), UNCHANGED <<sub, rows>>
  PROVE  OnceEach' /\ MainOK(worker[w])'
<1> DEFINE s == worker[w]
           x == worker'[w]
<1>1. /\ s.pc = "working" /\ x.pc = "working" /\ x.main = s.main
      /\ x.outcome = (IF run = s.main THEN outcome ELSE s.outcome)
      /\ run \in Hand(s) /\ Hand(x) \subseteq Hand(s) /\ (OnceOK(s) => run \notin Hand(x))
  BY EndingWorker
<1>2. CASE run # s.main
  BY <1>1, <1>2, QuietMain DEF Troubled
<1>3. CASE run = s.main
  <2>1. HandKept(s)
    BY DEF Kept
  <2>2. NotComplete(s.main)
    BY <1>1, <1>3, <2>1, RunNotComplete DEF HandKept, RunsOK
  <2>3. ASSUME NEW other \in Hand(x) PROVE Spares(other, s.main)
    <3>1. other \in Hand(s) /\ other # run
      BY <1>1, <2>1 DEF HandKept
    <3>2. Apart(other, run)
      BY <1>1, <2>1, <3>1 DEF HandKept, RunsOK
    <3> QED BY <1>3, <3>2 DEF Apart, Spares, OnceEach, IsOnlyRow
  <2>4. NotComplete(s.main)' /\ \A other \in Hand(x) : Spares(other, s.main)'
    BY <1>1, <2>2, <2>3 DEF NotComplete, Spares
  <2> QED BY <2>4 DEF MainOK, OnceEach, Hand
<1> QED BY <1>2, <1>3

LEMMA UpdatedMain ==
  ASSUME TypeInv, OnceEach, NEW w \in Worker, MainOK(worker[w]), OutcomeOK(worker[w]),
         NEW got \in worker[w].got, UpdateTaskStatus(w, got)
  PROVE  OnceEach' /\ MainOK(worker[w])'
<1> DEFINE s == worker[w]
           x == worker'[w]
           run == got.run
           status == IF got.more THEN "pending" ELSE "complete"
<1>1. /\ run \in TaskRuns /\ got.more \in BOOLEAN /\ (got.more => run.cursor < PagesOf(run.task))
      /\ status \in Status /\ UpdateRepo(run, status, got.more)
  BY WorkOfExecution DEF UpdateTaskStatus, WorkOK, Got, Status
<1> HIDE DEF status
<1>2. OnceEach'
  BY <1>1, UpdateOnce
<1>3. Ends(w, run, "next")
  BY DEF Ends
<1>4. /\ s.pc = "working" /\ x.pc = "working" /\ x.main = s.main
      /\ x.outcome = (IF run = s.main THEN "next" ELSE s.outcome)
      /\ run \in Hand(s) /\ Hand(x) \subseteq Hand(s)
  BY <1>3, EndingWorker
<1>5. ASSUME Troubled(x)
      PROVE  NotComplete(s.main)' /\ \A other \in Hand(x) : Spares(other, s.main)'
  <2>1. Troubled(s)
    BY <1>4, <1>5 DEF Troubled, TaskErrors
  <2>2. /\ NotComplete(s.main) /\ \A other \in Hand(s) : Spares(other, s.main)
        /\ s.main \in TaskRuns
    BY <2>1 DEF MainOK, OutcomeOK, Troubled
  <2>3. run.task # "repository" /\ Spares(run, s.main)
    BY <1>4, <2>2 DEF Spares
  <2>4. sub' = sub /\ \E f : Rewrites(f, run, status, got.more)
    BY <1>1, <2>3, UpdateRepoFacts DEF TypeInv
  <2>5. PICK f : Rewrites(f, run, status, got.more)
    BY <2>4
  <2>6. /\ rows' = {f[r] : r \in rows} /\ \A r \in rows : f[r].repo = r.repo
        /\ \A r \in rows, t \in TaskTypes :
             r.repo # run.repo \/ t # run.task => f[r].status[t] = r.status[t]
    BY <2>5 DEF Rewrites
  <2>7. NotComplete(s.main)'
    <3>1. CASE s.main.task = "repository"
      BY <1>4, <2>2, <2>4, <3>1 DEF NotComplete
    <3>2. CASE s.main.task # "repository"
      <4>1. s.main.task \in TaskTypes
        BY <2>2, <3>2, TaskRunFacts
      <4>2. ASSUME NEW r \in rows, f[r].repo = s.main.repo PROVE f[r].status[s.main.task] # "complete"
        <5>1. r.repo = s.main.repo /\ r.status[s.main.task] # "complete"
          BY <2>2, <2>6, <3>2, <4>2 DEF NotComplete
        <5>2. r.repo # run.repo \/ s.main.task # run.task
          BY <2>3, <5>1 DEF Spares
        <5> QED BY <2>6, <4>1, <5>1, <5>2
      <4> QED BY <1>4, <2>6, <3>2, <4>2 DEF NotComplete
    <3> QED BY <3>1, <3>2
  <2>8. ASSUME NEW other \in Hand(x) PROVE Spares(other, s.main)'
    <3>1. Spares(other, s.main)
      BY <1>4, <2>2
    <3> QED BY <1>4, <2>6, <3>1 DEF Spares
  <2> QED BY <2>7, <2>8
<1>6. MainOK(worker[w])'
  BY <1>4, <1>5 DEF MainOK, Troubled, Hand
<1> QED BY <1>2, <1>6

LEMMA FetchedMain ==
  ASSUME TypeInv, OnceEach, NEW w \in Worker, MainOK(worker[w]), NEW run \in worker[w].todo, FetchPage(w, run)
  PROVE  Disturbed' \/ (OnceEach' /\ MainOK(worker[w])')
<1> DEFINE s == worker[w]
           x == worker'[w]
           page == run.cursor + 1
<1>1. s.pc = "working" /\ x.pc = "working" /\ x.outcome = s.outcome /\ x.main = s.main /\ Hand(x) = Hand(s)
  BY FetchingWorker
<1>2. UNCHANGED sub
  BY DEF FetchPage
<1>3. CASE rows' = rows
  BY <1>1, <1>2, <1>3, QuietMain DEF Troubled
<1>4. CASE rows' # rows
  <2>1. /\ run.task = "repository" /\ rows' = rows \cup {NewRow(page)}
        /\ ghost' = [ghost EXCEPT !.twice = @ \/ \E r \in rows : r.repo = page]
    BY <1>4 DEF FetchPage
  <2>2. NewRow(page).repo = page
    BY DEF NewRow
  <2>3. ghost'.twice \/ \A r \in rows : r.repo # page
    BY <2>1 DEF TypeInv, GhostOK
  <2>4. (\A r \in rows : r.repo # page) => OnceEach'
    BY <2>1, <2>2 DEF OnceEach
  <2>5. ~Troubled(x)
    BY <1>1, <2>1 DEF MainOK, Troubled, Spares, Hand
  <2> QED BY <2>3, <2>4, <2>5 DEF Disturbed, MainOK, Troubled
<1> QED BY <1>3, <1>4

LEMMA WorkerMain ==
  ASSUME TypeInv, OneJob, Kept, ~Disturbed, OnceEach, NEW w \in Worker,
         MainOK(worker[w]), OutcomeOK(worker[w]), HandlerStep(w) \/ HandlerFault(w)
  PROVE  Disturbed' \/ (OnceEach' /\ MainOK(worker[w])')
<1> DEFINE s == worker[w]
           x == worker'[w]
<1>1. OutcomeOK(x)
  BY OutcomeStays
<1>2. CASE ~Active(s)
  <2>1. UNCHANGED <<sub, rows>> /\ (Active(x) => x.pc = "claimed")
    BY <1>2, InactiveSteps, Zenon
  <2>2. ~Troubled(x)
    BY <2>1 DEF Troubled, Active, AtJob, TaskErrors
  <2> QED BY <2>1, <2>2, QuietMain
<1>3. CASE PlanTasks(w) \/ ReadSubscription(w)
  <2>1. UNCHANGED <<sub, rows>>
    BY <1>3 DEF PlanTasks, ReadSubscription
  <2>2. x.pc \in {"planning", "stopping", "starting"}
    BY <1>3, PlannedWorker, ReadWorker
  <2> QED BY <2>1, <2>2, QuietMain DEF Troubled
<1>4. CASE MarkSyncAsCompleteAndStop(w) \/ SetActive(w)
  <2>1. ~Troubled(x)
    BY <1>4, SavingWorker DEF OutcomeOK, Troubled, TaskErrors
  <2>2. rows' = rows
    BY <1>4 DEF MarkSyncAsCompleteAndStop, SetActive
  <2> QED BY <2>1, <2>2 DEF OnceEach, MainOK, Troubled
<1>5. ASSUME NEW run \in s.todo, FetchPage(w, run)
      PROVE  Disturbed' \/ (OnceEach' /\ MainOK(worker[w])')
  BY <1>5, FetchedMain
<1>6. ASSUME NEW got \in s.got, UpdateTaskStatus(w, got)
      PROVE  OnceEach' /\ MainOK(worker[w])'
  BY <1>6, UpdatedMain
<1>7. ASSUME NEW got \in s.got, TaskStatusIsNotStored(w, got)
      PROVE  OnceEach' /\ MainOK(worker[w])'
  <2>1. Ends(w, got.run, "unknown") /\ UNCHANGED <<sub, rows>>
    BY <1>7 DEF Ends, TaskStatusIsNotStored
  <2> QED BY <2>1, FailedMain DEF Disturbed
<1>8. ASSUME NEW run \in s.todo, NEW error \in TaskErrors, TaskFails(w, run, error)
      PROVE  OnceEach' /\ MainOK(worker[w])'
  <2>1. Ends(w, run, error) /\ UNCHANGED <<sub, rows>>
    BY <1>8 DEF Ends, TaskFails
  <2> QED BY <2>1, FailedMain DEF Disturbed
<1>9. CASE HandlerTimesOut(w)
  <2>1. UNCHANGED <<sub, rows>>
    BY <1>9 DEF HandlerTimesOut
  <2> QED BY <1>9, <2>1, TimedOutWorker, QuietMain DEF Troubled, Hand
<1>10. CASE TasksSettle(w) \/ ReleaseClaim(w)
  <2>1. UNCHANGED <<sub, rows>>
    BY <1>10 DEF TasksSettle, ReleaseClaim
  <2>2. CASE x.pc \notin {"settled", "failing"}
    <3>1. x.pc \in {"idle", "sending", "deleting"}
      BY <1>10, <2>2, IdleWorker, MovedWorker, LeftWorker DEF TasksSettle, ReleaseClaim, Labels
    <3> QED BY <2>1, <3>1, QuietMain DEF Troubled
  <2>3. CASE x.pc \in {"settled", "failing"}
    <3>1. s.pc \in {"working", "settled"} /\ (Move(w, "settled") \/ Move(w, "failing"))
      BY <1>10, <2>3, IdleWorker, LeftWorker DEF TasksSettle, ReleaseClaim, Labels
    <3>2. /\ x.main = s.main /\ x.outcome = s.outcome /\ Hand(x) = Hand(s)
      BY <3>1, MovedWorker DEF Labels, Hand
    <3> QED BY <2>1, <3>1, <3>2, QuietMain DEF Troubled
  <2> QED BY <2>2, <2>3
<1>11. CASE InfrastructureFails(w)
  <2>1. UNCHANGED <<sub, rows>>
    BY <1>11 DEF InfrastructureFails
  <2>2. x.pc = "idle" \/ x.outcome = "infrastructure"
    BY <1>11, FailedWorker
  <2> QED BY <2>1, <2>2, QuietMain DEF Troubled, TaskErrors
<1>12. CASE Crash(w) \/ RescheduleRateLimited(w) \/ RetryMessage(w)
  <2>1. UNCHANGED <<sub, rows>> /\ (Becomes(w, Idle) \/ Leave(w, "sending"))
    BY <1>12 DEF Crash, RescheduleRateLimited, RetryMessage
  <2>2. x.pc \in {"idle", "sending"}
    BY <2>1, IdleWorker, LeftWorker DEF Labels
  <2> QED BY <2>1, <2>2, QuietMain DEF Troubled
<1>13. CASE MarkCurrentTaskAsFailed(w) \/ MarkTaskAsComplete(w)
  <2>1. x.pc \in {"sending", "deleting"}
    BY <1>13, LeftWorker DEF MarkCurrentTaskAsFailed, MarksAs, MarkTaskAsComplete, Labels
  <2>2. OnceEach'
    <3>1. s.main \in TaskRuns \cup {NoRun}
      BY WorkOfExecution
    <3>2. \/ rows' = rows
          \/ UpdateRepo(s.main, "failed", FALSE) \/ UpdateRepo(s.main, "complete", FALSE)
      BY <1>13 DEF MarkCurrentTaskAsFailed, MarksAs, MarkTaskAsComplete
    <3> QED BY <3>1, <3>2, UpdateOnce DEF Status, OnceEach
  <2> QED BY <2>1, <2>2 DEF MainOK, Troubled
<1> QED
  BY <1>2, <1>3, <1>4, <1>5, <1>6, <1>7, <1>8, <1>9, <1>10, <1>11, <1>12, <1>13
  DEF HandlerStep, HandlerFault, Active, AtJob, ReceiveMessage, ClaimSync, NotSure, OtherWorkerDoingThisJob,
      SendBackfillMessage, DeleteMessage, PostponeMessage

LEMMA WorkerAlone ==
  ASSUME TypeInv, OneJob, Kept, OutcomesOK, Alone, NEW v \in Worker, HandlerStep(v) \/ HandlerFault(v),
         Disturbed => Disturbed'
  PROVE  Alone'
<1> SUFFICES ASSUME ~Disturbed'
             PROVE  /\ \A u, w \in Worker : Active(worker'[u]) /\ Active(worker'[w]) => u = w
                    /\ \A w \in Worker : MainOK(worker[w])'
                    /\ OnceEach'
  BY DEF Alone, Active
<1>1. /\ ~Disturbed /\ OnceEach /\ \A w \in Worker : MainOK(worker[w])
      /\ \A u, w \in Worker : Active(worker[u]) /\ Active(worker[w]) => u = w
  BY DEF Alone
<1>2. \A w \in Worker \ {v} : worker'[w] = worker[w]
  BY MessagesMove DEF OthersStay
<1>3. OnceEach' /\ MainOK(worker[v])'
  BY <1>1, WorkerMain DEF OutcomesOK
<1>4. ASSUME NEW w \in Worker \ {v}, Active(worker[w])
      PROVE  ~Active(worker'[v]) /\ UNCHANGED <<sub, rows>>
  <2>1. ~Active(worker[v])
    BY <1>1, <1>4
  <2>2. worker[w].pc = "failing" \/ w \in claim
    BY <1>4 DEF OneJob, Active
  <2>3. /\ UNCHANGED <<sub, rows>>
        /\ Active(worker'[v]) => Disturbed' \/ ~\E u \in Worker \ {v} : worker[u].pc = "failing" \/ u \in claim
    BY <2>1, InactiveSteps, Zenon
  <2> QED BY <2>2, <2>3
<1>5. \A u, w \in Worker : Active(worker'[u]) /\ Active(worker'[w]) => u = w
  BY <1>1, <1>2, <1>4
<1>6. ASSUME NEW w \in Worker \ {v} PROVE MainOK(worker[w])'
  <2>1. CASE Active(worker[w])
    <3>1. UNCHANGED <<sub, rows>> /\ MainOK(worker[w]) /\ worker'[w] = worker[w]
      BY <1>1, <1>2, <1>4, <2>1
    <3> QED BY <1>1, <3>1, QuietMain
  <2>2. CASE ~Active(worker[w])
    BY <1>2, <2>2 DEF MainOK, Troubled, Active, AtJob, TaskErrors
  <2> QED BY <2>1, <2>2
<1> QED BY <1>3, <1>5, <1>6

\* What findOrStartSync does to the rows leaves none there twice.
LEMMA StarterOnce ==
  ASSUME TypeInv, OnceEach,
         \/ StarterStep \/ StartIsLost
         \/ \E type \in SyncTypes, targets \in TargetChoices : BeginSync(type, targets)
  PROVE  OnceEach'
<1>1. CASE ResetTargetedTasks
  <2>1. \A q \in rows' : \E r \in rows : q.repo = r.repo /\ q.id = r.id
    BY <1>1, ResetRows
  <2>2. IdsOK'
    BY <1>1, ResetRows
  <2> QED BY <2>1, <2>2 DEF OnceEach, IdsOK
<1>2. CASE DeleteFromSubscription
  BY <1>2 DEF DeleteFromSubscription, OnceEach
<1>3. CASE rows' = rows
  BY <1>3 DEF OnceEach
<1> QED BY <1>1, <1>2, <1>3 DEF StarterStep, SetPending, ResetTargetedRepository, ResetSubscription,
        SendFirstMessage, StartIsLost, BeginSync

LEMMA StepAlone ==
  ASSUME TypeInv, TypeInv', OneJob, Kept, OutcomesOK, Alone, [Next]_vars
  PROVE  Alone'
<1>1. Disturbed => Disturbed'
  BY GhostGrows
<1>2. ASSUME NEW v \in Worker, HandlerStep(v) \/ HandlerFault(v) PROVE Alone'
  BY <1>1, <1>2, WorkerAlone
<1>3. ASSUME RestSteps, OnceEach => Lowers /\ OnceEach' PROVE Alone'
  <2>1. UNCHANGED worker
    BY <1>3, RestLeavesWorkers
  <2>2. ASSUME ~Disturbed', NEW w \in Worker PROVE MainOK(worker[w])'
    <3>1. Lowers /\ OnceEach' /\ MainOK(worker[w]) /\ OutcomeOK(worker[w])
      BY <1>1, <1>3, <2>2 DEF Alone, OutcomesOK
    <3>2. PICK s \in Execution : s = worker[w]
      BY WorkOfExecution
    <3>3. MainOK(s)'
      BY <3>1, <3>2, LoweredMain
    <3> QED BY <2>1, <3>2, <3>3
  <2> QED BY <1>1, <1>3, <2>1, <2>2 DEF Alone, Active
<1>4. CASE \/ StarterStep \/ StartIsLost
           \/ \E type \in SyncTypes, targets \in TargetChoices : BeginSync(type, targets)
  BY <1>3, <1>4, StarterLowers, StarterOnce DEF RestSteps
<1>5. CASE FlagGoesStale \/ UNCHANGED vars \/ \E m \in Msg : RedriveToDlq(m) \/ VisibilityLapses(m)
  <2>1. UNCHANGED <<sub, rows>>
    BY <1>5 DEF FlagGoesStale, vars, RedriveToDlq, VisibilityLapses
  <2>2. Lowers /\ (OnceEach => OnceEach')
    BY <2>1, SameLowers DEF OnceEach
  <2> QED BY <1>3, <1>5, <2>2 DEF RestSteps
<1> QED BY <1>2, <1>4, <1>5 DEF Next

-----------------------------------------------------------------------------
(* What went to Jira: units of the tasks there are, and all those of a complete task. *)

AllUnits == UNION {UnitsOfTask(t) : t \in Tasks}
SentOK == ghost.sent \subseteq AllUnits

LEMMA UnitFacts ==
  /\ \A run \in TaskRuns : \A p \in 1..PagesOf(run.task) : <<run.task, run.repo, p>> \in AllUnits
  /\ \A repo \in Repo : <<"repository", 0, repo>> \in AllUnits
<1>1. ASSUME NEW run \in TaskRuns, NEW p \in 1..PagesOf(run.task)
      PROVE  <<run.task, run.repo, p>> \in AllUnits
  <2>1. <<run.task, run.repo>> \in Tasks
    BY RunIsOfTask
  <2>2. p \in IF run.task = "repository" THEN Repo ELSE 1..PAGES
    BY PagesFacts, TaskRunFacts
  <2>3. <<run.task, run.repo, p>> \in UnitsOfTask(<<run.task, run.repo>>)
    BY <2>2 DEF UnitsOfTask
  <2> QED BY <2>1, <2>3 DEF AllUnits
<1>2. ASSUME NEW repo \in Repo PROVE <<"repository", 0, repo>> \in AllUnits
  <2>1. <<"repository", 0>> \in Tasks
    BY DEF Tasks
  <2>2. <<"repository", 0, repo>> \in UnitsOfTask(<<"repository", 0>>)
    BY DEF UnitsOfTask
  <2> QED BY <2>1, <2>2 DEF AllUnits
<1> QED BY <1>1, <1>2

LEMMA SentUnitsOK ==
  ASSUME TypeInv, SentOK
  PROVE  SentUnits \subseteq AllUnits
<1>1. \A r \in rows : r.repo \in Repo
  BY DEF TypeInv, Row
<1> QED BY <1>1, UnitFacts DEF SentOK, SentUnits

LEMMA SentUnitsStayOK == TypeInv' /\ SentOK' => (SentUnits \subseteq AllUnits)'
<1>1. TypeInv /\ SentOK => SentUnits \subseteq AllUnits
  BY SentUnitsOK
<1> QED BY <1>1, PTL

LEMMA FetchedUnits ==
  ASSUME TypeInv, NEW w \in Worker, NEW run \in worker[w].todo, FetchPage(w, run)
  PROVE  LET page == run.cursor + 1
             more == page <= PagesOf(run.task)
         IN  /\ run \in TaskRuns /\ UNCHANGED <<sub, starter>>
             /\ rows' = IF more /\ run.task = "repository" THEN rows \cup {NewRow(page)} ELSE rows
             /\ ghost'.sent = IF more /\ run.task # "repository"
                              THEN ghost.sent \cup {<<run.task, run.repo, page>>} ELSE ghost.sent
             /\ more => page \in 1..PagesOf(run.task)
<1> DEFINE page == run.cursor + 1
           more == page <= PagesOf(run.task)
<1>1. run \in TaskRuns /\ GhostOK /\ UNCHANGED <<sub, starter>>
  BY FetchedWork DEF FetchPage, TypeInv
<1>2. more => page \in 1..PagesOf(run.task)
  BY <1>1, TaskRunFacts, PagesFacts
<1>3. rows' = IF more /\ run.task = "repository" THEN rows \cup {NewRow(page)} ELSE rows
  BY DEF FetchPage
<1>4. CASE ~more
  BY <1>1, <1>2, <1>3, <1>4 DEF FetchPage
<1>5. CASE more /\ run.task = "repository"
  <2>1. \E c : ghost' = [ghost EXCEPT !.twice = c]
    BY <1>5 DEF FetchPage
  <2>2. ghost'.sent = ghost.sent
    BY <1>1, <2>1, GhostKeeps
  <2> QED BY <1>1, <1>2, <1>3, <1>5, <2>2
<1>6. CASE more /\ run.task # "repository"
  <2>1. ghost' = [ghost EXCEPT !.sent = ghost.sent \cup {<<run.task, run.repo, page>>}]
    BY <1>6 DEF FetchPage
  <2>2. ghost'.sent = ghost.sent \cup {<<run.task, run.repo, page>>}
    BY <1>1, <2>1, GhostKeeps
  <2> QED BY <1>1, <1>2, <1>3, <1>6, <2>2
<1> QED BY <1>4, <1>5, <1>6

LEMMA MarkedUnits ==
  ASSUME TypeInv, NEW w \in Worker, MarkTaskAsComplete(w)
  PROVE  LET main == worker[w].main
         IN  ghost'.sent = ghost.sent \cup {<<main.task, main.repo, p>> : p \in 1..PagesOf(main.task)}
<1> DEFINE main == worker[w].main
           pages == {<<main.task, main.repo, p>> : p \in 1..PagesOf(main.task)}
<1>1. GhostOK /\ ghost' = [ghost EXCEPT !.raced = ghost.raced \/ claim # {}, !.sent = ghost.sent \cup pages]
  BY DEF MarkTaskAsComplete, TypeInv
<1>2. ghost'.sent = ghost.sent \cup pages
  <2> HIDE DEF pages
  <2> QED BY <1>1, GhostKeeps
<1> QED BY <1>2

\* Who changes what was sent.
LEMMA SentWritten ==
  ASSUME TypeInv, [Next]_vars
  PROVE  \/ ghost'.sent = ghost.sent
         \/ \E w \in Worker : MarkTaskAsComplete(w) \/ \E run \in worker[w].todo : FetchPage(w, run)
         \/ ResetTargetedTasks \/ DeleteFromSubscription
<1>1. GhostOK
  BY DEF TypeInv
<1>2. ASSUME NEW c, NEW d,
             \/ ghost' = ghost
             \/ ghost' = [ghost EXCEPT !.startLost = TRUE]
             \/ ghost' = [ghost EXCEPT !.dropped = TRUE]
             \/ ghost' = [ghost EXCEPT !.orphaned = c]
             \/ ghost' = [ghost EXCEPT !.overlapped = c]
             \/ ghost' = [ghost EXCEPT !.raced = c]
             \/ ghost' = [ghost EXCEPT !.overlapped = c, !.met = d]
      PROVE  ghost'.sent = ghost.sent
  BY <1>1, <1>2 DEF GhostOK
<1>3. ASSUME NEW w \in Worker, HandlerStep(w) \/ HandlerFault(w), ~MarkTaskAsComplete(w),
             ~\E run \in worker[w].todo : FetchPage(w, run)
      PROVE  ghost'.sent = ghost.sent
  <2>1. CASE ClaimSync(w)
    BY <1>2, <2>1 DEF ClaimSync
  <2>2. CASE OtherWorkerDoingThisJob(w)
    BY <1>2, <2>2 DEF OtherWorkerDoingThisJob
  <2>3. CASE SetActive(w)
    BY <1>2, <2>3 DEF SetActive
  <2>4. CASE MarkCurrentTaskAsFailed(w)
    BY <1>2, <2>4 DEF MarkCurrentTaskAsFailed, MarksAs
  <2>5. CASE ghost' = ghost
    BY <2>5
  <2> QED
    BY <1>3, <2>1, <2>2, <2>3, <2>4, <2>5
    DEF HandlerStep, HandlerFault, ReceiveMessage, NotSure, ReadSubscription, PlanTasks,
        MarkSyncAsCompleteAndStop, UpdateTaskStatus, TasksSettle, ReleaseClaim, RescheduleRateLimited,
        RetryMessage, SendBackfillMessage, DeleteMessage, PostponeMessage, HandlerTimesOut, Crash,
        InfrastructureFails, TaskFails, TaskStatusIsNotStored
<1>4. ASSUME NEW m \in Msg, RedriveToDlq(m) \/ VisibilityLapses(m) PROVE ghost'.sent = ghost.sent
  BY <1>2, <1>4 DEF RedriveToDlq, VisibilityLapses
<1>5. ASSUME NEW type \in SyncTypes, NEW targets \in TargetChoices, BeginSync(type, targets)
      PROVE  ghost'.sent = ghost.sent
  BY <1>2, <1>5 DEF BeginSync
<1>6. CASE StartIsLost
  BY <1>2, <1>6 DEF StartIsLost
<1>7. ASSUME StarterStep \/ FlagGoesStale \/ UNCHANGED vars, ~ResetTargetedTasks, ~DeleteFromSubscription
      PROVE  ghost'.sent = ghost.sent
  BY <1>7 DEF StarterStep, SetPending, ResetTargetedRepository, ResetSubscription, SendFirstMessage,
              FlagGoesStale, vars
<1> QED BY <1>3, <1>4, <1>5, <1>6, <1>7 DEF Next

LEMMA ResetUnits ==
  ASSUME TypeInv
  PROVE  /\ ResetTargetedTasks =>
              /\ ghost'.sent \subseteq ghost.sent
              /\ \A u \in ghost.sent : u[1] \notin starter.targets \cap TaskTypes => u \in ghost'.sent
         /\ DeleteFromSubscription => ghost'.sent = {}
<1> DEFINE left == {u \in ghost.sent : u[1] \notin starter.targets \cap TaskTypes}
<1>1. GhostOK
  BY DEF TypeInv
<1>2. ASSUME ResetTargetedTasks PROVE ghost'.sent = ghost.sent \/ ghost'.sent = left
  <2>1. ghost' = ghost \/ ghost' = [ghost EXCEPT !.sent = left]
    BY <1>2 DEF ResetTargetedTasks
  <2> HIDE DEF left
  <2> QED BY <1>1, <2>1, GhostKeeps
<1>3. DeleteFromSubscription => ghost'.sent = {}
  BY <1>1, GhostKeeps DEF DeleteFromSubscription
<1> QED BY <1>2, <1>3

LEMMA StepSent ==
  ASSUME TypeInv, OutcomesOK, SentOK, [Next]_vars
  PROVE  SentOK'
<1>1. ASSUME NEW w \in Worker, NEW run \in worker[w].todo, FetchPage(w, run) PROVE SentOK'
  <2>1. /\ run \in TaskRuns
        /\ \/ ghost'.sent = ghost.sent
           \/ \E p \in 1..PagesOf(run.task) : ghost'.sent = ghost.sent \cup {<<run.task, run.repo, p>>}
    BY <1>1, FetchedUnits
  <2> QED BY <2>1, UnitFacts DEF SentOK, AllUnits, UnitsOfTask, Tasks
<1>2. ASSUME NEW w \in Worker, MarkTaskAsComplete(w) PROVE SentOK'
  <2>1. worker[w].main \in TaskRuns
    BY <1>2 DEF MarkTaskAsComplete, OutcomesOK, OutcomeOK, TaskErrors
  <2>2. PICK main \in TaskRuns : main = worker[w].main
    BY <2>1
  <2>3. ghost'.sent = ghost.sent \cup {<<main.task, main.repo, p>> : p \in 1..PagesOf(main.task)}
    BY <1>2, <2>2, MarkedUnits
  <2> QED BY <2>3, UnitFacts DEF SentOK, AllUnits, UnitsOfTask, Tasks
<1>3. ghost'.sent \subseteq ghost.sent => SentOK'
  BY DEF SentOK, AllUnits, UnitsOfTask, Tasks
<1> QED BY <1>1, <1>2, <1>3, SentWritten, ResetUnits

\* The invariant of Progress, seen from the tasks.
LEMMA CompleteIsSent ==
  ASSUME TypeInv, Progress
  PROVE  Disturbed \/ \A t \in CompleteTasks : UnitsOfTask(t) \subseteq SentUnits
<1> SUFFICES ASSUME ~ghost.overlapped, NEW t \in Tasks, StoredAs(sub, rows, t, {"complete"}),
                    NEW u \in UnitsOfTask(t)
             PROVE  u \in SentUnits
  BY TasksStored DEF Disturbed
<1>1. TablesOK
  BY DEF Progress
<1>2. CASE t[1] = "repository"
  <2>1. PICK p \in Repo : u = <<"repository", 0, p>>
    BY <1>2, TaskFacts DEF UnitsOfTask
  <2>2. Through("repository", 0, PagesOf("repository"))
    BY <1>1, <1>2 DEF TablesOK, StoredOK, StoredAs
  <2>3. p \in 1..PagesOf("repository") /\ p <= PagesOf("repository")
    BY PagesFacts
  <2>4. Discovered(p)
    BY <2>2, <2>3 DEF Through, Delivered
  <2> QED BY <2>1, <2>4 DEF Discovered, SentUnits
<1>3. CASE t[1] # "repository"
  <2>1. t[1] \in TaskTypes
    BY <1>3, TaskFacts
  <2>2. PICK p \in 1..PAGES : u = <<t[1], t[2], p>>
    BY <1>3 DEF UnitsOfTask
  <2>3. PICK r \in rows : r.repo = t[2] /\ r.status[t[1]] = "complete"
    BY <1>3 DEF StoredAs
  <2>4. Through(t[1], t[2], PagesOf(t[1]))
    BY <1>1, <2>1, <2>3 DEF TablesOK, StoredOK
  <2>5. p \in 1..PagesOf(t[1]) /\ p <= PagesOf(t[1])
    BY <2>1, PagesFacts, BackfillAssumption
  <2>6. <<t[1], t[2], p>> \in ghost.sent
    BY <1>3, <2>4, <2>5 DEF Through, Delivered
  <2> QED BY <2>2, <2>6 DEF SentUnits
<1> QED BY <1>2, <1>3

-----------------------------------------------------------------------------
(* Every step of the backfill is a step of the abstract sync.  First, for each of its
   actions, what a step that is one of them has to show. *)

SameSync ==
  /\ sub'.syncStatus = sub.syncStatus /\ starter' = starter
  /\ SentUnits' = SentUnits /\ CompleteTasks' = CompleteTasks /\ OpenTasks' = OpenTasks

LEMMA CarrierFacts ==
  /\ Carried => Carrier = "held"
  /\ ~Carried /\ Lost => Carrier = "lost"
  /\ ~Carried /\ ~Lost => Carrier = "none"
  /\ Carried' => Carrier' = "held"
  /\ ~Carried' /\ Lost' => Carrier' = "lost"
  /\ ~Carried' /\ ~Lost' => Carrier' = "none"
BY DEF Carrier

LEMMA IsSame ==
  ASSUME Disturbed => Disturbed', SameSync, Carrier' = Carrier
  PROVE  Sync!Next
BY DEF Sync!Next, SameSync

LEMMA IsRelease ==
  ASSUME Disturbed => Disturbed', SameSync, Carrier = "held", starter.pc = "idle",
         Carrier' = "lost" \/ (Carrier' = "none" /\ Ended)
  PROVE  Sync!Next
<1>1. Sync!Release
  BY DEF Sync!Release, SameSync, Ended
<1> QED BY <1>1 DEF Sync!Next

LEMMA IsDeliver ==
  ASSUME Disturbed => Disturbed', Carrier = "held", Carrier' = "held", SentUnits' \subseteq AllUnits,
         sub'.syncStatus = sub.syncStatus, starter' = starter,
         SentUnits \subseteq SentUnits', CompleteTasks' = CompleteTasks, OpenTasks \subseteq OpenTasks'
  PROVE  Sync!Next
<1>1. OpenTasks' \subseteq Tasks
  BY TasksStored
<1>2. Sync!Deliver
  BY <1>1 DEF Sync!Deliver, AllUnits
<1> QED BY <1>2 DEF Sync!Next

LEMMA IsComplete ==
  ASSUME Disturbed => Disturbed', Carrier = "held", Carrier' = "held", SentUnits' \subseteq AllUnits,
         sub'.syncStatus = sub.syncStatus, starter' = starter, SentUnits \subseteq SentUnits',
         NEW t \in Tasks, CompleteTasks' = CompleteTasks \cup {t}, OpenTasks' \subseteq OpenTasks,
         Disturbed' \/ UnitsOfTask(t) \subseteq SentUnits'
  PROVE  Sync!Next
<1>1. Sync!Complete(t)
  BY DEF Sync!Complete, AllUnits
<1> QED BY <1>1 DEF Sync!Next

LEMMA IsInterference ==
  ASSUME Disturbed', Carrier = "held", Carrier' = "held", sub'.syncStatus \in {sub.syncStatus, "FAILED"},
         starter' = starter, SentUnits' = SentUnits
  PROVE  Sync!Next
<1>1. OpenTasks' \subseteq Tasks /\ CompleteTasks' \subseteq Tasks
  BY TasksStored
<1>2. Sync!Interfere
  BY <1>1 DEF Sync!Interfere
<1> QED BY <1>2 DEF Sync!Next

LEMMA IsProgress ==
  ASSUME Disturbed => Disturbed', Carrier = "held", Carrier' = "held",
         sub'.syncStatus \in {sub.syncStatus, "ACTIVE", "COMPLETE", "FAILED"}, starter' = starter,
         SentUnits' = SentUnits, CompleteTasks' = CompleteTasks, OpenTasks' \subseteq OpenTasks
  PROVE  Sync!Next
<1>1. Sync!Progress
  BY DEF Sync!Progress
<1> QED BY <1>1 DEF Sync!Next

LEMMA IsForgetting ==
  ASSUME Disturbed => Disturbed', Carrier' = Carrier, starter.pc # "idle",
         sub'.syncStatus = sub.syncStatus, SentUnits' \subseteq SentUnits,
         CompleteTasks' \subseteq CompleteTasks,
         Disturbed' \/ \A t \in CompleteTasks' : UnitsOfTask(t) \cap SentUnits \subseteq SentUnits'
  PROVE  Sync!Next
<1>1. OpenTasks' \subseteq Tasks
  BY TasksStored
<1>2. Sync!Forget
  BY <1>1 DEF Sync!Forget
<1> QED BY <1>2 DEF Sync!Next

-----------------------------------------------------------------------------
(* Steps that leave the tables alone. *)

LEMMA SameTasks ==
  ASSUME UNCHANGED <<sub, rows, starter>>, ghost'.sent = ghost.sent
  PROVE  SameSync
BY DEF SameSync, SentUnits, CompleteTasks, OpenTasks, TasksWith

LEMMA QuietStep ==
  ASSUME MessagesOK, Over', Carried, UNCHANGED <<sub, rows, starter>>, ghost'.sent = ghost.sent,
         Disturbed => Disturbed'
  PROVE  Sync!Next
<1>1. SameSync /\ Carrier = "held"
  BY SameTasks, CarrierFacts
<1>2. CASE Carried'
  BY <1>1, <1>2, IsSame, CarrierFacts
<1>3. CASE ~Carried'
  <2>1. starter.pc = "idle" /\ starter'.pc = "idle"
    BY <1>3 DEF Carried
  <2>2. CASE Lost'
    BY <1>1, <1>3, <2>1, <2>2, IsRelease, CarrierFacts
  <2>3. CASE ~Lost'
    <3>1. sub'.syncStatus # "NONE"
      BY <2>1 DEF MessagesOK, Asked, Carried
    <3>2. ~SafeIn(queue', worker', Deleting')
      BY <1>3 DEF Carried, SafeIn
    <3>3. Ended'
      BY <2>1, <2>3, <3>1, <3>2 DEF Over, SafeIn, Deleting
    <3>4. Ended
      BY <1>1, <3>3 DEF Ended, SameSync
    <3> QED BY <1>1, <1>3, <2>1, <2>3, <3>4, IsRelease, CarrierFacts
  <2> QED BY <2>2, <2>3
<1> QED BY <1>2, <1>3

LEMMA WorkerCarries ==
  ASSUME NEW w \in Worker, worker[w].pc # "idle" \/ \E m \in Msg : ReceiveMessage(w, m)
  PROVE  Carried
BY DEF Carried, ReceiveMessage

\* Who writes to the tables: the steps of a job and those of the error handler.
Writes(w) ==
  \/ MarkSyncAsCompleteAndStop(w) \/ SetActive(w)
  \/ MarkCurrentTaskAsFailed(w) \/ MarkTaskAsComplete(w)
  \/ \E run \in worker[w].todo : FetchPage(w, run)
  \/ \E got \in worker[w].got : UpdateTaskStatus(w, got)

LEMMA ReadersAreQuiet ==
  ASSUME TypeInv, MessagesOK, Over', NEW w \in Worker, HandlerStep(w) \/ HandlerFault(w), ~Writes(w),
         Disturbed => Disturbed'
  PROVE  Sync!Next
<1>1. UNCHANGED <<sub, rows>> /\ UNCHANGED starter
  BY WorkerLeavesStarter
  DEF Writes, HandlerStep, HandlerFault, ReceiveMessage, ClaimSync, NotSure, OtherWorkerDoingThisJob,
      ReadSubscription, PlanTasks, TasksSettle, ReleaseClaim, RescheduleRateLimited, RetryMessage,
      SendBackfillMessage, DeleteMessage, PostponeMessage, HandlerTimesOut, Crash, InfrastructureFails,
      TaskFails, TaskStatusIsNotStored
<1>2. ghost'.sent = ghost.sent
  <2>1. GhostOK
    BY DEF TypeInv
  <2>2. \/ ghost' = ghost
        \/ \E c, d : ghost' = [ghost EXCEPT !.overlapped = c, !.met = d]
        \/ \E c : ghost' = [ghost EXCEPT !.dropped = c]
    BY DEF Writes, HandlerStep, HandlerFault, ReceiveMessage, ClaimSync, NotSure, OtherWorkerDoingThisJob,
      ReadSubscription, PlanTasks, TasksSettle, ReleaseClaim, RescheduleRateLimited, RetryMessage,
      SendBackfillMessage, DeleteMessage, PostponeMessage, HandlerTimesOut, Crash, InfrastructureFails,
      TaskFails, TaskStatusIsNotStored
  <2>3. ASSUME NEW c, NEW d, ghost' = [ghost EXCEPT !.overlapped = c, !.met = d]
        PROVE  ghost'.sent = ghost.sent
    BY <2>1, <2>3 DEF GhostOK
  <2>4. ASSUME NEW c, ghost' = [ghost EXCEPT !.dropped = c] PROVE ghost'.sent = ghost.sent
    BY <2>1, <2>4 DEF GhostOK
  <2> QED BY <2>2, <2>3, <2>4
<1>3. Carried
  <2>1. worker[w].pc # "idle" \/ \E m \in Msg : ReceiveMessage(w, m)
    BY DEF Writes, HandlerStep, HandlerFault, ClaimSync, NotSure, OtherWorkerDoingThisJob,
      ReadSubscription, PlanTasks, TasksSettle, ReleaseClaim, RescheduleRateLimited, RetryMessage,
      SendBackfillMessage, DeleteMessage, PostponeMessage, HandlerTimesOut, Crash, InfrastructureFails,
      TaskFails, TaskStatusIsNotStored
  <2> QED BY <2>1, WorkerCarries
<1> QED BY <1>1, <1>2, <1>3, QuietStep

LEMMA CompleteIsStillSent ==
  TypeInv' /\ Progress' => (Disturbed \/ \A t \in CompleteTasks : UnitsOfTask(t) \subseteq SentUnits)'
<1>1. TypeInv /\ Progress => Disturbed \/ \A t \in CompleteTasks : UnitsOfTask(t) \subseteq SentUnits
  BY CompleteIsSent
<1> QED BY <1>1, PTL

-----------------------------------------------------------------------------
(* Steps that write to the tables. *)

LEMMA WriterStays ==
  ASSUME TypeInv, NEW w \in Worker, Writes(w)
  PROVE  Carried /\ Carried' /\ starter' = starter
<1>1. worker[w].pc # "idle" /\ starter' = starter
  BY DEF Writes, MarkSyncAsCompleteAndStop, SetActive, MarkCurrentTaskAsFailed, MarksAs, MarkTaskAsComplete,
         FetchPage, UpdateTaskStatus
<1>2. worker'[w].pc # "idle"
  <2>1. CASE MarkSyncAsCompleteAndStop(w) \/ SetActive(w)
    BY <2>1, SavingWorker
  <2>2. CASE MarkCurrentTaskAsFailed(w) \/ MarkTaskAsComplete(w)
    BY <2>2, LeftWorker DEF MarkCurrentTaskAsFailed, MarksAs, MarkTaskAsComplete, Labels
  <2>3. ASSUME NEW run \in worker[w].todo, FetchPage(w, run) PROVE worker'[w].pc # "idle"
    BY <2>3, FetchingWorker
  <2>4. ASSUME NEW got \in worker[w].got, UpdateTaskStatus(w, got) PROVE worker'[w].pc # "idle"
    <3>1. Ends(w, got.run, "next")
      BY <2>4 DEF Ends
    <3> QED BY <3>1, EndingWorker
  <2> QED BY <2>1, <2>2, <2>3, <2>4 DEF Writes
<1> QED BY <1>1, <1>2 DEF Carried

\* A change of statuses leaves the repositories that have a row.
LEMMA UpdatedUnits ==
  ASSUME TypeInv, NEW run \in TaskRuns \cup {NoRun}, NEW status \in Status, NEW moved \in BOOLEAN,
         moved => run \in TaskRuns /\ run.cursor < PagesOf(run.task), UpdateRepo(run, status, moved)
  PROVE  {r.repo : r \in rows'} = {r.repo : r \in rows} /\ sub'.syncStatus = sub.syncStatus
<1>1. /\ sub'.syncStatus = sub.syncStatus
      /\ rows' = rows \/ \E f : Rewrites(f, run, status, moved)
  BY UpdateRepoFacts DEF TypeInv
<1>2. ASSUME NEW f, Rewrites(f, run, status, moved)
      PROVE  {r.repo : r \in rows'} = {r.repo : r \in rows}
  <2>1. rows' = {f[r] : r \in rows} /\ \A r \in rows : f[r].repo = r.repo
    BY <1>2 DEF Rewrites
  <2> QED BY <2>1
<1> QED BY <1>1, <1>2

LEMMA SameUnits ==
  ASSUME {r.repo : r \in rows'} = {r.repo : r \in rows}
  PROVE  /\ ghost'.sent = ghost.sent => SentUnits' = SentUnits
         /\ ghost.sent \subseteq ghost'.sent => SentUnits \subseteq SentUnits'
<1>1. /\ \A r \in rows : \E q \in rows' : q.repo = r.repo
      /\ \A q \in rows' : \E r \in rows : q.repo = r.repo
  <2>1. \A r \in rows : r.repo \in {q.repo : q \in rows'}
    OBVIOUS
  <2>2. \A q \in rows' : q.repo \in {r.repo : r \in rows}
    OBVIOUS
  <2> QED BY <2>1, <2>2
<1> QED BY <1>1 DEF SentUnits

LEMMA FetchStep ==
  ASSUME TypeInv, TypeInv', SentOK', NEW w \in Worker, NEW run \in worker[w].todo, FetchPage(w, run),
         Disturbed => Disturbed'
  PROVE  Sync!Next
<1> DEFINE page == run.cursor + 1
<1>1. Carrier = "held" /\ Carrier' = "held" /\ starter' = starter /\ SentUnits' \subseteq AllUnits
  <2>1. Writes(w)
    BY DEF Writes
  <2>2. SentUnits' \subseteq AllUnits'
    BY SentUnitsStayOK
  <2> QED BY <2>1, <2>2, WriterStays, CarrierFacts DEF AllUnits, Tasks, UnitsOfTask
<1>2. /\ sub' = sub /\ ghost.sent \subseteq ghost'.sent
      /\ rows' = rows \/ rows' = rows \cup {NewRow(page)}
  BY FetchedUnits
<1>3. \A t \in TaskTypes : NewRow(page).status[t] = "null"
  BY DEF NewRow
<1>4. SentUnits \subseteq SentUnits'
  BY <1>2 DEF SentUnits
<1>5. \A t \in Tasks : /\ StoredAs(sub', rows', t, {"complete"}) <=> StoredAs(sub, rows, t, {"complete"})
                       /\ StoredAs(sub, rows, t, Pending) => StoredAs(sub', rows', t, Pending)
  <2> SUFFICES ASSUME NEW t \in Tasks
               PROVE  /\ StoredAs(sub', rows', t, {"complete"}) <=> StoredAs(sub, rows, t, {"complete"})
                      /\ StoredAs(sub, rows, t, Pending) => StoredAs(sub', rows', t, Pending)
    OBVIOUS
  <2>1. t[1] # "repository" => NewRow(page).status[t[1]] # "complete"
    BY <1>3, TaskFacts
  <2> QED BY <1>2, <2>1 DEF StoredAs
<1>6. CompleteTasks' = CompleteTasks /\ OpenTasks \subseteq OpenTasks'
  BY <1>5, TasksStored
<1> QED BY <1>1, <1>2, <1>4, <1>6, IsDeliver

\* The status of one task is stored, if it has a row.
LEMMA StoredTask ==
  ASSUME TypeInv, NEW run \in TaskRuns, NEW status \in {"pending", "complete", "failed"}, NEW moved \in BOOLEAN,
         moved => run.cursor < PagesOf(run.task), UpdateRepo(run, status, moved)
  PROVE  LET t0 == <<run.task, run.repo>>
         IN  /\ t0 \in Tasks
             /\ status = "pending" => OpenTasks \subseteq OpenTasks'
             /\ status # "pending" => OpenTasks' \subseteq OpenTasks
             /\ status = "complete" =>
                  CompleteTasks' = CompleteTasks \cup {t0} \/ CompleteTasks' = CompleteTasks
             /\ status # "complete" /\ NotComplete(run) => CompleteTasks' = CompleteTasks
<1> DEFINE t0 == <<run.task, run.repo>>
<1>1. status \in Status /\ (status \in Pending <=> status = "pending")
  BY DEF Status, Pending
<1>2. t0 \in Tasks
  BY RunIsOfTask
<1>3. \A t \in Tasks : \A statuses : StoredAs(sub', rows', t, statuses) <=>
        IF t = t0 THEN status \in statuses /\ StoredAs(sub, rows, t, Status)
        ELSE StoredAs(sub, rows, t, statuses)
  BY <1>1, UpdatedTask
<1>4. StoredAs(sub, rows, t0, Pending) => StoredAs(sub, rows, t0, Status)
  BY DEF StoredAs, Pending, Status
<1>5. NotComplete(run) => ~StoredAs(sub, rows, t0, {"complete"})
  BY DEF NotComplete, StoredAs
<1>6. \A t \in Tasks : /\ status = "pending" /\ StoredAs(sub, rows, t, Pending) => StoredAs(sub', rows', t, Pending)
                       /\ status # "pending" /\ StoredAs(sub', rows', t, Pending) => StoredAs(sub, rows, t, Pending)
  BY <1>1, <1>3, <1>4
<1>7. \A t \in Tasks \ {t0} : StoredAs(sub', rows', t, {"complete"}) <=> StoredAs(sub, rows, t, {"complete"})
  BY <1>3
<1>8. StoredAs(sub', rows', t0, {"complete"}) <=> status = "complete" /\ StoredAs(sub, rows, t0, Status)
  BY <1>2, <1>3
<1>9. StoredAs(sub, rows, t0, {"complete"}) => StoredAs(sub, rows, t0, Status)
  BY DEF StoredAs, Status
<1>10. status = "complete" => CompleteTasks' = CompleteTasks \cup {t0} \/ CompleteTasks' = CompleteTasks
  BY <1>2, <1>7, <1>8, <1>9, TasksStored
<1>11. status # "complete" /\ NotComplete(run) => CompleteTasks' = CompleteTasks
  BY <1>2, <1>5, <1>7, <1>8, TasksStored
<1>12. /\ status = "pending" => OpenTasks \subseteq OpenTasks'
       /\ status # "pending" => OpenTasks' \subseteq OpenTasks
  BY <1>6, TasksStored
<1> QED BY <1>2, <1>10, <1>11, <1>12

\* A task is complete, and what it has to send was sent.
LEMMA CompletingStep ==
  ASSUME TypeInv, TypeInv', SentOK', Progress', NEW w \in Worker, Writes(w), NEW run \in TaskRuns,
         UpdateRepo(run, "complete", FALSE), ghost.sent \subseteq ghost'.sent, Disturbed => Disturbed'
  PROVE  Sync!Next
<1> DEFINE t0 == <<run.task, run.repo>>
<1>1. Carrier = "held" /\ Carrier' = "held" /\ starter' = starter /\ SentUnits' \subseteq AllUnits
  <2>1. SentUnits' \subseteq AllUnits'
    BY SentUnitsStayOK
  <2> QED BY <2>1, WriterStays, CarrierFacts DEF AllUnits, Tasks, UnitsOfTask
<1>2. SentUnits \subseteq SentUnits' /\ sub'.syncStatus = sub.syncStatus
  BY UpdatedUnits, SameUnits DEF Status
<1>3. /\ t0 \in Tasks /\ OpenTasks' \subseteq OpenTasks
      /\ CompleteTasks' = CompleteTasks \cup {t0} \/ CompleteTasks' = CompleteTasks
  BY StoredTask
<1>4. CASE CompleteTasks' = CompleteTasks \cup {t0}
  <2>1. Disturbed' \/ \A t \in CompleteTasks' : UnitsOfTask(t) \subseteq SentUnits'
    BY CompleteIsStillSent DEF UnitsOfTask
  <2>2. Disturbed' \/ UnitsOfTask(t0) \subseteq SentUnits'
    BY <1>4, <2>1 DEF UnitsOfTask
  <2> QED BY <1>1, <1>2, <1>3, <1>4, <2>2, IsComplete
<1>5. CASE t0 \in CompleteTasks /\ CompleteTasks' = CompleteTasks
  BY <1>3, <1>4, <1>5
<1>6. CASE t0 \notin CompleteTasks /\ CompleteTasks' = CompleteTasks
  <2>1. ~StoredAs(sub, rows, t0, Status)
    <3>1. ~StoredAs(sub', rows', t0, {"complete"})
      BY <1>3, <1>6, TasksStored
    <3> QED BY <1>3, <3>1, UpdatedTask DEF Status
  <2>2. \A t \in Tasks : StoredAs(sub, rows, t, Pending) => StoredAs(sub', rows', t, Pending)
    <3>1. StoredAs(sub, rows, t0, Pending) => StoredAs(sub, rows, t0, Status)
      BY DEF StoredAs, Pending, Status
    <3> QED BY <2>1, <3>1, UpdatedTask DEF Status
  <2>3. OpenTasks \subseteq OpenTasks'
    BY <2>2, TasksStored
  <2> QED BY <1>1, <1>2, <1>6, <2>3, IsDeliver
<1> QED BY <1>3, <1>4, <1>5, <1>6

\* A task is given up or begun, and was not complete.
LEMMA OpeningStep ==
  ASSUME TypeInv, NEW w \in Worker, Writes(w), NEW run \in TaskRuns, NEW status \in {"pending", "failed"},
         NEW moved \in BOOLEAN, moved => run.cursor < PagesOf(run.task), UpdateRepo(run, status, moved),
         ghost'.sent = ghost.sent, Disturbed => Disturbed', Disturbed \/ NotComplete(run),
         SentUnits \subseteq AllUnits
  PROVE  Sync!Next
<1>1. Carrier = "held" /\ Carrier' = "held" /\ starter' = starter
  BY WriterStays, CarrierFacts
<1>2. SentUnits' = SentUnits /\ sub'.syncStatus = sub.syncStatus
  BY UpdatedUnits, SameUnits DEF Status
<1>3. CASE Disturbed
  BY <1>1, <1>2, <1>3, IsInterference
<1>4. CASE NotComplete(run) /\ status = "pending"
  <2>1. CompleteTasks' = CompleteTasks /\ OpenTasks \subseteq OpenTasks'
    BY <1>4, StoredTask
  <2> QED BY <1>1, <1>2, <2>1, IsDeliver
<1>5. CASE NotComplete(run) /\ status # "pending"
  <2>1. CompleteTasks' = CompleteTasks /\ OpenTasks' \subseteq OpenTasks
    BY <1>5, StoredTask
  <2> QED BY <1>1, <1>2, <2>1, IsProgress
<1> QED BY <1>3, <1>4, <1>5

LEMMA WriterStep ==
  ASSUME TypeInv, TypeInv', SentOK, SentOK', Progress', Kept, Alone, OutcomesOK,
         NEW w \in Worker, Writes(w), Disturbed => Disturbed'
  PROVE  Sync!Next
<1> DEFINE s == worker[w]
<1>1. /\ Carrier = "held" /\ Carrier' = "held" /\ starter' = starter /\ GhostOK
      /\ SentUnits \subseteq AllUnits
  BY WriterStays, CarrierFacts, SentUnitsOK DEF TypeInv
<1>2. CASE MarkSyncAsCompleteAndStop(w) \/ SetActive(w)
  <2>1. rows' = rows /\ ghost'.sent = ghost.sent
    <3>1. \/ ghost' = ghost
          \/ ghost' = [ghost EXCEPT !.orphaned = ghost.orphaned \/ worker[w].timedOut]
      BY <1>2 DEF MarkSyncAsCompleteAndStop, SetActive
    <3>2. ghost'.sent = ghost.sent
      BY <1>1, <3>1, GhostKeeps
    <3> QED BY <1>2, <3>2 DEF MarkSyncAsCompleteAndStop, SetActive
  <2>2. PICK status \in {"COMPLETE", "ACTIVE"} : sub' = Saved(worker[w].seen, "syncStatus", status)
    BY <1>2 DEF MarkSyncAsCompleteAndStop, SetActive
  <2>3. /\ sub'.syncStatus \in {sub.syncStatus, status}
        /\ sub'.repositoryStatus = sub.repositoryStatus
    BY <2>2, SavedStatus DEF SyncStatus
  <2>4. OpenTasks' = OpenTasks /\ CompleteTasks' = CompleteTasks
    BY <2>1, <2>3, SavedOpen
  <2>5. SentUnits' = SentUnits
    BY <2>1 DEF SentUnits
  <2> QED BY <1>1, <2>3, <2>4, <2>5, IsProgress
<1>3. ASSUME NEW run \in s.todo, FetchPage(w, run) PROVE Sync!Next
  BY <1>3, FetchStep
<1>4. ASSUME NEW got \in s.got, UpdateTaskStatus(w, got) PROVE Sync!Next
  <2>1. /\ got.run \in TaskRuns /\ got.more \in BOOLEAN
        /\ got.more <=> got.run.cursor < PagesOf(got.run.task)
    BY <1>4, WorkOfExecution DEF WorkOK, Got
  <2>2. PICK run \in TaskRuns : run = got.run
    BY <2>1
  <2>3. ghost' = ghost /\ UpdateRepo(run, IF got.more THEN "pending" ELSE "complete", got.more)
    BY <1>4, <2>2 DEF UpdateTaskStatus
  <2>4. CASE got.more = FALSE
    <3>1. UpdateRepo(run, "complete", FALSE)
      BY <2>3, <2>4
    <3> QED BY <2>3, <3>1, CompletingStep
  <2>5. CASE got.more = TRUE
    <3>1. UpdateRepo(run, "pending", TRUE) /\ run.cursor < PagesOf(run.task)
      BY <2>1, <2>2, <2>3, <2>5
    <3>2. Disturbed \/ NotComplete(run)
      <4>1. run \in Hand(s)
        BY <2>2 DEF Hand
      <4>2. Disturbed \/ (RunOK(run) /\ OnceEach)
        BY <4>1 DEF Disturbed, Kept, HandKept, RunsOK, Alone
      <4> QED BY <4>2, RunNotComplete
    <3> QED BY <1>1, <2>3, <3>1, <3>2, OpeningStep
  <2> QED BY <2>1, <2>4, <2>5
<1>5. CASE MarkTaskAsComplete(w)
  <2>1. PICK run \in TaskRuns : run = s.main
    BY <1>5 DEF MarkTaskAsComplete, OutcomesOK, OutcomeOK, TaskErrors
  <2>2. UpdateRepo(run, "complete", FALSE)
    BY <1>5, <2>1 DEF MarkTaskAsComplete
  <2>3. ghost.sent \subseteq ghost'.sent
    BY <1>5, MarkedUnits
  <2> QED BY <2>2, <2>3, CompletingStep
<1>6. CASE MarkCurrentTaskAsFailed(w)
  <2>1. s.pc = "failing" /\ s.outcome \in TaskErrors
    BY <1>6 DEF MarkCurrentTaskAsFailed, MarksAs, GivesUp, TaskErrors
  <2>2. PICK run \in TaskRuns : run = s.main
    BY <2>1 DEF OutcomesOK, OutcomeOK
  <2>3. Disturbed \/ NotComplete(run)
    BY <2>1, <2>2 DEF Alone, MainOK, Troubled
  <2>4. ghost'.sent = ghost.sent
    <3>1. ghost' = [ghost EXCEPT !.raced = ghost.raced \/ claim # {}]
      BY <1>6 DEF MarkCurrentTaskAsFailed, MarksAs
    <3> QED BY <1>1, <3>1, GhostKeeps
  <2>5. CASE s.main.task # "repository"
    <3>1. UpdateRepo(run, "failed", FALSE)
      BY <1>6, <2>2, <2>5 DEF MarkCurrentTaskAsFailed, MarksAs
    <3> QED BY <1>1, <2>3, <2>4, <3>1, OpeningStep
  <2>6. CASE s.main.task = "repository"
    <3>1. rows' = rows /\ sub'.repositoryStatus = "failed" /\ sub'.syncStatus = "FAILED"
      BY <1>6, <2>6 DEF MarkCurrentTaskAsFailed, MarksAs, TypeInv, Subscriptions
    <3>2. SentUnits' = SentUnits
      BY <2>4, <3>1 DEF SentUnits
    <3>3. CASE Disturbed
      BY <1>1, <3>1, <3>2, <3>3, IsInterference
    <3>4. CASE NotComplete(run)
      <4>1. sub.repositoryStatus # "complete"
        BY <2>2, <2>6, <3>4 DEF NotComplete
      <4>2. \A t \in Tasks : StoredAs(sub', rows', t, {"complete"}) <=> StoredAs(sub, rows, t, {"complete"})
        BY <3>1, <4>1 DEF StoredAs
      <4>3. OpenTasks' \subseteq OpenTasks
        BY <1>6, MarkCloses DEF Closes
      <4> QED BY <1>1, <3>1, <3>2, <4>2, <4>3, TasksStored, IsProgress
    <3> QED BY <2>3, <3>3, <3>4
  <2> QED BY <2>5, <2>6
<1> QED BY <1>2, <1>3, <1>4, <1>5, <1>6 DEF Writes

-----------------------------------------------------------------------------
(* Steps of findOrStartSync. *)

LEMMA RequestStep ==
  ASSUME TypeInv, Disturbed => Disturbed',
         \/ SetPending \/ \E type \in SyncTypes, targets \in TargetChoices : BeginSync(type, targets)
  PROVE  Sync!Next
<1>1. /\ rows' = rows /\ starter'.pc # "idle"
      /\ sub'.syncStatus \in {sub.syncStatus, "PENDING"} /\ sub'.repositoryStatus = sub.repositoryStatus
      /\ ghost'.sent = ghost.sent
  <2>1. CASE SetPending
    BY <2>1, PendingWritten, PendingStarter DEF TypeInv
  <2>2. ASSUME NEW type \in SyncTypes, NEW targets \in TargetChoices, BeginSync(type, targets)
        PROVE  UNCHANGED <<sub, rows>> /\ starter'.pc # "idle" /\ ghost'.sent = ghost.sent
    <3>1. GhostOK /\ \E c : ghost' = [ghost EXCEPT !.overlapped = c]
      BY <2>2 DEF BeginSync, TypeInv
    <3> QED BY <2>2, <3>1, GhostKeeps DEF BeginSync
  <2> QED BY <2>1, <2>2
<1>2. OpenTasks' = OpenTasks /\ CompleteTasks' = CompleteTasks
  BY <1>1, SavedOpen
<1>3. SentUnits' = SentUnits
  BY <1>1 DEF SentUnits
<1>4. Carrier' = "held"
  BY <1>1, CarrierFacts DEF Carried
<1>5. Sync!Request
  BY <1>1, <1>2, <1>3, <1>4 DEF Sync!Request
<1> QED BY <1>5 DEF Sync!Next

LEMMA TasksResetStep ==
  ASSUME TypeInv, ResetTargetedTasks, Disturbed => Disturbed'
  PROVE  Sync!Next
<1>1. /\ sub' = sub /\ starter.pc = "resettingTasks"
      /\ starter' = [starter EXCEPT !.pc = "resettingRepository"] \/ StarterSends
  BY DEF ResetTargetedTasks
<1>2. starter.pc # "idle" /\ starter'.pc # "idle"
  BY <1>1 DEF StarterSends, NoStart, TypeInv, StarterOK
<1>3. Carrier' = Carrier
  BY <1>2, CarrierFacts DEF Carried
<1>4. \A q \in rows' : \E r \in rows :
        /\ q.repo = r.repo
        /\ \A t \in TaskTypes : q.status[t] = "complete" => t \notin starter.targets /\ r.status[t] = "complete"
  BY ResetRows
<1>5. /\ ghost'.sent \subseteq ghost.sent
      /\ \A u \in ghost.sent : u[1] \notin starter.targets \cap TaskTypes => u \in ghost'.sent
  BY ResetUnits
<1>6. \A r \in rows : \E q \in rows' : q.repo = r.repo
  BY ResetRows
<1>7. SentUnits' \subseteq SentUnits
  BY <1>4, <1>5 DEF SentUnits
<1>8. ASSUME NEW t \in Tasks, StoredAs(sub', rows', t, {"complete"})
      PROVE  StoredAs(sub, rows, t, {"complete"}) /\ t[1] \notin starter.targets \cap TaskTypes
  <2>1. CASE t[1] = "repository"
    BY <1>1, <1>8, <2>1, TaskTypesAssumption DEF StoredAs
  <2>2. CASE t[1] # "repository"
    <3>1. t[1] \in TaskTypes
      BY <2>2, TaskFacts
    <3>2. PICK q \in rows' : q.repo = t[2] /\ q.status[t[1]] = "complete"
      BY <1>8, <2>2 DEF StoredAs
    <3> QED BY <1>4, <2>2, <3>1, <3>2 DEF StoredAs
  <2> QED BY <2>1, <2>2
<1>9. CompleteTasks' \subseteq CompleteTasks
  BY <1>8, TasksStored
<1>10. ASSUME NEW t \in CompleteTasks', NEW u \in UnitsOfTask(t) \cap SentUnits PROVE u \in SentUnits'
  <2>1. u[1] = t[1]
    BY DEF UnitsOfTask
  <2>2. u[1] \notin starter.targets \cap TaskTypes
    BY <1>8, <2>1, TasksStored
  <2> QED BY <1>5, <1>6, <2>2 DEF SentUnits
<1> QED BY <1>1, <1>2, <1>3, <1>7, <1>9, <1>10, IsForgetting

LEMMA DiscoveryResetStep ==
  ASSUME TypeInv, ResetTargetedRepository \/ ResetSubscription, Disturbed => Disturbed'
  PROVE  Sync!Next
<1>1. /\ rows' = rows /\ ghost' = ghost /\ starter.pc \in {"resettingRepository", "resettingSubscription"}
      /\ starter' = [starter EXCEPT !.pc = "deletingRows"] \/ StarterSends
  BY DEF ResetTargetedRepository, ResetSubscription
<1>2. starter.pc # "idle" /\ starter'.pc # "idle"
  BY <1>1 DEF StarterSends, NoStart, TypeInv, StarterOK
<1>3. Carrier' = Carrier
  BY <1>2, CarrierFacts DEF Carried
<1>4. sub'.syncStatus = sub.syncStatus /\ sub'.repositoryStatus \in {"null", sub.repositoryStatus}
  <2>1. ResetDiscovery(starter.type = "full") \/ ResetDiscovery(TRUE)
    BY DEF ResetTargetedRepository, ResetSubscription
  <2>2. PICK forgetCursor \in BOOLEAN : ResetDiscovery(forgetCursor)
    <3>1. (starter.type = "full") \in BOOLEAN /\ TRUE \in BOOLEAN
      OBVIOUS
    <3> QED BY <2>1, <3>1
  <2> QED BY <2>2, ResetTypes DEF TypeInv
<1>5. SentUnits' = SentUnits
  BY <1>1 DEF SentUnits
<1>6. CompleteTasks' \subseteq CompleteTasks
  BY <1>1, <1>4, TasksStored DEF StoredAs
<1> QED BY <1>2, <1>3, <1>4, <1>5, <1>6, IsForgetting

LEMMA DeletionStep ==
  ASSUME TypeInv, Progress, DeleteFromSubscription, Disturbed => Disturbed'
  PROVE  Sync!Next
<1>1. rows' = {} /\ sub' = sub /\ starter.pc = "deletingRows" /\ starter'.pc = "sending"
  BY DEF DeleteFromSubscription, StarterSends, NoStart
<1>2. Carrier' = Carrier
  BY <1>1, CarrierFacts DEF Carried
<1>3. SentUnits' = {}
  BY <1>1, ResetUnits DEF SentUnits
<1>4. CompleteTasks' \subseteq CompleteTasks
  BY <1>1, TasksStored DEF StoredAs
<1>5. Disturbed \/ CompleteTasks' = {}
  <2>1. Disturbed \/ sub.repositoryStatus = "null"
    BY <1>1 DEF Disturbed, Progress, ResetOK
  <2> QED BY <1>1, <2>1, TasksStored DEF StoredAs
<1> QED BY <1>1, <1>2, <1>3, <1>4, <1>5, IsForgetting

LEMMA HandOverStep ==
  ASSUME TypeInv, TypeInv', SendFirstMessage \/ StartIsLost, Disturbed => Disturbed'
  PROVE  Sync!Next
<1>1. /\ UNCHANGED <<sub, rows>> /\ starter.pc # "idle" /\ starter'.pc = "idle"
      /\ ghost'.sent = ghost.sent
  <2>1. GhostOK
    BY DEF TypeInv
  <2>2. ghost' = ghost \/ ghost' = [ghost EXCEPT !.startLost = TRUE]
    BY DEF SendFirstMessage, StartIsLost
  <2>3. ghost'.sent = ghost.sent
    BY <2>1, <2>2, GhostKeeps
  <2> QED BY <2>3 DEF SendFirstMessage, StartIsLost, NoStart
<1>2. Carrier' \in {"held", "lost"}
  <2>1. CASE SendFirstMessage
    <3>1. Sends
      BY <2>1, SendSends DEF SendFirstMessage
    <3>2. Carried'
      BY <3>1 DEF Sends, FreeMsgs, Carried
    <3> QED BY <3>2, CarrierFacts
  <2>2. CASE StartIsLost
    <3>1. Lost'
      BY <2>2 DEF StartIsLost, TypeInv, GhostOK, Lost
    <3> QED BY <3>1, CarrierFacts
  <2> QED BY <2>1, <2>2
<1>3. SentUnits' = SentUnits /\ CompleteTasks' = CompleteTasks /\ OpenTasks' = OpenTasks
  BY <1>1 DEF SentUnits, CompleteTasks, OpenTasks, TasksWith
<1>4. Sync!HandOver
  BY <1>1, <1>2, <1>3 DEF Sync!HandOver
<1> QED BY <1>4 DEF Sync!Next

-----------------------------------------------------------------------------
(* The refinement. *)

PromiseInv ==
  /\ OneJob /\ Kept /\ Progress
  /\ MessagesOK /\ OutcomesOK /\ JobsOK /\ Over /\ Alone /\ SentOK

LEMMA StepPromiseInv ==
  ASSUME ~FLAG_RACES, TypeInv, TypeInv', PromiseInv, [Next]_vars
  PROVE  PromiseInv'
<1>1. OneJob' /\ Kept' /\ Progress'
  BY StepOneJob, StepKept, StepProgress DEF PromiseInv
<1>2. MessagesOK' /\ OutcomesOK'
  BY StepMessages, StepOutcomes DEF PromiseInv
<1>3. JobsOK' /\ Over'
  BY StepJobs, StepOver DEF PromiseInv
<1>4. Alone' /\ SentOK'
  BY StepAlone, StepSent DEF PromiseInv
<1> QED BY <1>1, <1>2, <1>3, <1>4 DEF PromiseInv

LEMMA RestStep ==
  ASSUME TypeInv, TypeInv', Progress, MessagesOK, Over', RestSteps, [Next]_vars, Disturbed => Disturbed'
  PROVE  Sync!Next
<1>1. CASE StarterStep \/ StartIsLost
  BY <1>1, RequestStep, TasksResetStep, DiscoveryResetStep, DeletionStep, HandOverStep DEF StarterStep
<1>2. ASSUME NEW type \in SyncTypes, NEW targets \in TargetChoices, BeginSync(type, targets)
      PROVE  Sync!Next
  BY <1>2, RequestStep
<1>3. ASSUME NEW m \in Msg, RedriveToDlq(m) \/ VisibilityLapses(m) PROVE Sync!Next
  <2>1. Carried /\ UNCHANGED <<sub, rows, starter>>
    BY <1>3 DEF RedriveToDlq, VisibilityLapses, Carried
  <2>2. ghost'.sent = ghost.sent
    <3>1. GhostOK /\ (ghost' = ghost \/ ghost' = [ghost EXCEPT !.orphaned = TRUE])
      BY <1>3 DEF RedriveToDlq, VisibilityLapses, TypeInv
    <3> QED BY <3>1, GhostKeeps
  <2> QED BY <2>1, <2>2, QuietStep
<1>4. CASE FlagGoesStale \/ UNCHANGED vars
  <2>1. UNCHANGED <<sub, rows, queue, worker, starter, ghost>>
    BY <1>4 DEF FlagGoesStale, vars
  <2>2. SameSync
    BY <2>1, SameTasks
  <2>3. (Carried' <=> Carried) /\ (Lost' <=> Lost)
    BY <2>1 DEF Carried, Lost, Dead
  <2> QED BY <2>2, <2>3, IsSame, CarrierFacts
<1> QED BY <1>1, <1>2, <1>3, <1>4 DEF RestSteps

LEMMA SyncStep ==
  ASSUME TypeInv, TypeInv', PromiseInv, PromiseInv', [Next]_vars
  PROVE  Sync!Next
<1>1. Disturbed => Disturbed'
  BY GhostGrows
<1>2. ASSUME NEW w \in Worker, HandlerStep(w) \/ HandlerFault(w) PROVE Sync!Next
  <2>1. CASE Writes(w)
    BY <1>1, <2>1, WriterStep DEF PromiseInv
  <2>2. CASE ~Writes(w)
    BY <1>1, <1>2, <2>2, ReadersAreQuiet DEF PromiseInv
  <2> QED BY <2>1, <2>2
<1>3. CASE RestSteps
  BY <1>1, <1>3, RestStep DEF PromiseInv
<1> QED BY <1>2, <1>3 DEF Next, RestSteps

LEMMA InitPromiseInv ==
  ASSUME Init
  PROVE  PromiseInv /\ Sync!Init
<1>1. OneJob /\ Kept /\ Progress
  BY InitKept, InitProgress
<1>2. /\ sub = NewSubscription /\ rows = {} /\ starter.pc = "idle"
      /\ sub.syncStatus = "NONE" /\ sub.repositoryStatus = "null"
      /\ \A m \in Msg : queue[m].where = "absent"
      /\ ghost.sent = {}
      /\ ghost.startLost = FALSE /\ ghost.dropped = FALSE /\ ghost.orphaned = FALSE
      /\ ghost.overlapped = FALSE /\ ghost.raced = FALSE /\ ghost.met = FALSE /\ ghost.twice = FALSE
  BY DEF Init, NewSubscription, NoStart, Absent
<1>3. \A w \in Worker : /\ worker[w].pc = "idle" /\ worker[w].msg = None /\ worker[w].outcome = "none"
                        /\ worker[w].todo = {} /\ worker[w].got = {}
  BY DEF Init, Idle
<1>4. ~Carried /\ ~Lost
  BY <1>2, <1>3 DEF Carried, Lost, Dead
<1>5. MessagesOK
  BY <1>2, <1>3 DEF MessagesOK, Asked, HoldsMessage, HeldOnce
<1>6. OutcomesOK /\ JobsOK
  BY <1>3 DEF OutcomesOK, OutcomeOK, JobsOK, JobOK
<1>7. Over /\ SentOK
  BY <1>2 DEF Over, SentOK
<1>8. Alone
  BY <1>2, <1>3 DEF Alone, Active, AtJob, MainOK, Troubled, OnceEach
<1>9. CompleteTasks = {} /\ OpenTasks \subseteq Tasks
  BY <1>2, TasksStored DEF StoredAs
<1>10. SentUnits = {}
  BY <1>2 DEF SentUnits
<1>11. Carrier = "none" /\ Disturbed = FALSE
  BY <1>2, <1>4, CarrierFacts DEF Disturbed
<1>12. Sync!Init
  BY <1>2, <1>9, <1>10, <1>11 DEF Sync!Init
<1> QED BY <1>1, <1>5, <1>6, <1>7, <1>8, <1>12 DEF PromiseInv

(***************************************************************************)
(* The backfill implements the abstract sync: whatever becomes of messages,*)
(* handlers and flags, a sync in progress is carried by a message, by a    *)
(* handler or by findOrStartSync, or was lost in a known way; one that is  *)
(* COMPLETE hides no work (installation.ts:300); what is complete went to  *)
(* Jira.  With flags that may be checked at once (FLAG_RACES) it does not: *)
(* a job that another one met may open a task when the sync is over.       *)
(***************************************************************************)
THEOREM SyncIsImplemented == ~FLAG_RACES => (Spec => KeepsTheSyncPromise)
<1> SUFFICES ASSUME ~FLAG_RACES PROVE Spec => KeepsTheSyncPromise
  OBVIOUS
<1>1. Init => PromiseInv /\ Sync!Init
  BY InitPromiseInv
<1>2. TypeInv /\ TypeInv' /\ PromiseInv /\ [Next]_vars => PromiseInv'
  BY StepPromiseInv
<1>3. TypeInv /\ TypeInv' /\ PromiseInv /\ PromiseInv' /\ [Next]_vars => [Sync!Next]_Sync!promise
  BY SyncStep
<1> QED BY <1>1, <1>2, <1>3, Types, PTL DEF Spec, KeepsTheSyncPromise, Sync!Spec

\* A sync in progress is under way in the queue, in a handler or in findOrStartSync, or was
\* lost in a known way; one that shows COMPLETE with nothing under way has no task left to do
\* (installation.ts:300): "Otherwise the sync will be "stuck"" (backfill-error-handler.ts:76).
THEOREM SyncIsNeverStuck ==
  ~FLAG_RACES => (Spec => [](/\ InProgress => Carried \/ Lost
                             /\ sub.syncStatus = "COMPLETE" /\ ~Carried => Lost \/ OpenTasks = {}))
<1> SUFFICES ASSUME ~FLAG_RACES
             PROVE  Spec => [](/\ InProgress => Carried \/ Lost
                               /\ sub.syncStatus = "COMPLETE" /\ ~Carried => Lost \/ OpenTasks = {})
  OBVIOUS
<1>1. Init => PromiseInv
  BY InitPromiseInv
<1>2. TypeInv /\ TypeInv' /\ PromiseInv /\ [Next]_vars => PromiseInv'
  BY StepPromiseInv
<1>3. PromiseInv => /\ InProgress => Carried \/ Lost
                    /\ sub.syncStatus = "COMPLETE" /\ ~Carried => Lost \/ OpenTasks = {}
  <2>1. SafeIn(queue, worker, Deleting) => Carried
    BY DEF SafeIn, Carried
  <2> QED BY <2>1 DEF PromiseInv, Over, Ended, InProgress, Carried
<1> QED BY <1>1, <1>2, <1>3, Types, PTL DEF Spec
=============================================================================
