---------------------------- MODULE MCAlgorithms ----------------------------
(***************************************************************************)
(* What needs no fairness, a behaviour for each: the scheduler with three  *)
(* rows, two of them for one repository, one call of the Jira client, one  *)
(* walk through the pages of a task, one pull request, two pushes.  Limits *)
(* are 2 so that inputs pass them by one and by more; POOL_COEF is 1 so    *)
(* that the limit on rows and the size of the pool bite.                   *)
(***************************************************************************)
EXTENDS ScheduledTasks, JiraPayloads, TaskPages, PullRequests, Pushes

VARIABLE subject  \* what a behaviour is about

MCAllTaskTypes == <<"pull", "alert">>
TwoRowsForOne == <<1, 2, 2>>

\* What GitHub may say: a commit has the same keys wherever it is.
Ids == 1..3
KeyChoices == [Ids -> {<<>>, <<1>>, <<1, 2, 3>>}]
CommitsOf(ids, keys) == [i \in 1..Len(ids) |-> [id |-> ids[i], keys |-> keys[ids[i]]]]
Histories == {<<1>>, <<3>>, <<1, 2>>, <<2, 3>>}
Branches(id, keys) ==
  {[id |-> id, name |-> n, title |-> <<4>>, target |-> CommitsOf(h, keys)[1],
    history |-> IF recent THEN CommitsOf(h, keys) ELSE <<>>] :
     n \in {<<>>, <<1>>, <<4, 5>>}, h \in Histories, recent \in BOOLEAN}
MCBranchPages ==
  UNION {{<<b>> : b \in Branches(1, keys)} \cup (Branches(1, keys) \X Branches(2, keys)) :
           keys \in KeyChoices}
MCCommitLists == {CommitsOf(ids, keys) : ids \in BoundedSeq(Ids, 3), keys \in KeyChoices}
MCAssociationCounts == (0..4) \X (0..4) \X (0..4)

\* Two of three commits go with a message; the second of them has two keys.
TwoPushes == << << {"k1"}, {"k1", "k2"}, {"k2"} >>, << {"k2"} >> >>

\* What stays as it is in the behaviours of another subject.
NoWalk ==
  /\ task = "none" /\ from = 1 /\ there = {} /\ taskStatus = "none" /\ delivered = {} /\ cached = {}
  /\ stored = PlainCursor(1) /\ attempt = 0 /\ budget = 0 /\ ghost = NoHistory
NoEvents ==
  /\ repo = NoRepo(FALSE) /\ events = <<>> /\ clock = 0 /\ happened = {}
  /\ shown = [branch |-> Numbered(0, FALSE), pr |-> Numbered(0, "none")]
NoPushes ==
  /\ issues = {} /\ remembered = <<>> /\ gone = {} /\ arrived = {} /\ doubted = {}
  /\ push = [p \in Push |-> At("webhook", 0)]

AlgorithmsInit ==
  /\ subject \in {"scheduler", "client", "pages", "pull requests", "pushes"}
  /\ IF subject = "scheduler" THEN ScheduleInit ELSE rows = {}
  /\ IF subject = "client" THEN CallsInit ELSE call = NoCall
  /\ IF subject = "pages" THEN PagesInit ELSE NoWalk
  /\ IF subject = "pull requests" THEN PullRequestsInit ELSE NoEvents
  /\ IF subject = "pushes" THEN PushesInit ELSE NoPushes

AlgorithmsNext ==
  \/ /\ subject = "scheduler" /\ ScheduleNext
     /\ UNCHANGED <<subject, call, pageVars, pullRequests, pushes>>
  \/ subject = "client" /\ CallsNext /\ UNCHANGED <<subject, rows, pageVars, pullRequests, pushes>>
  \/ subject = "pages" /\ PagesNext /\ UNCHANGED <<subject, rows, call, pullRequests, pushes>>
  \/ /\ subject = "pull requests" /\ PullRequestsNext
     /\ UNCHANGED <<subject, rows, call, pageVars, pushes>>
  \/ subject = "pushes" /\ PushesNext /\ UNCHANGED <<subject, rows, call, pageVars, pullRequests>>

AlgorithmsSpec ==
  AlgorithmsInit /\ [][AlgorithmsNext]_<<subject, rows, call, pageVars, pullRequests, pushes>>
=============================================================================
