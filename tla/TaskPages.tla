------------------------------ MODULE TaskPages ------------------------------
(***************************************************************************)
(* The tasks of a repository other than builds (src/sync/commits.ts,       *)
(* branches.ts, pull-request.ts, deployment.ts and the three tasks for     *)
(* alerts), page after page of a list that changes meanwhile, with the     *)
(* errors of GitHub and the attempts they cost.                            *)
(*                                                                         *)
(* An item is a number, greater for a newer one; branches are in order of  *)
(* their names.  A GraphQL cursor is the place of an item, taken or not; a *)
(* page of alerts has a number.  What happens between the fetch of a page  *)
(* and the end of its handler is in module Backfill.                       *)
(***************************************************************************)
EXTENDS PageCursor, GitHubErrors, FiniteSets

CONSTANTS
  MaxItem,      \* bound: items are 1..MaxItem
  FirstItems,   \* what may be on GitHub at first: sets of items
  Success,      \* deployments that succeeded, all of them of one environment
  FromDates,    \* values of fromDate: items from it on are recent; 1 for no date
  Sizes,        \* values of BACKFILL_PAGE_SIZE
  Attempts,     \* attempts a message has
  MaxErrors,    \* bound: errors
  MaxChanges    \* bound: items that come or go

ASSUME WalksAssumption ==
  /\ MaxItem \in Nat /\ FirstItems \subseteq SUBSET (1..MaxItem)
  /\ FromDates \subseteq Nat /\ Sizes \subseteq PageSize
  /\ Attempts \in Nat \ {0}

VARIABLES
  task,       \* what the walk is for
  from,       \* commitsFromDate of the message
  there,      \* the items on GitHub
  stored,     \* the cursor as the RepoSyncState has it
  taskStatus, \* pending, complete or failed
  delivered,  \* items sent to Jira
  cached,     \* successful deployments that are known
  attempt,    \* receiveCount of the message, and queries made for the page
  budget,     \* errors and changes so far, for the bounds
  ghost       \* history, read by properties only

pageVars == <<task, from, there, stored, taskStatus, delivered, cached, attempt, budget, ghost>>

AlertTasks == {"codeScanningAlert", "dependabotAlert", "secretScanningAlert"}
Tasks == {"commit", "branch", "pull", "deployment"} \cup AlertTasks
Item == 1..MaxItem

NoHistory == [lasting |-> {}, shifted |-> FALSE, gone |-> FALSE, refused |-> FALSE,
              strikes |-> 0, blind |-> {}, unsaved |-> FALSE]

PagesInit ==
  /\ task \in Tasks /\ from \in FromDates
  /\ there \in FirstItems
  /\ stored = [after |-> MaxItem + 1, page |-> PlainCursor(1)]
  /\ taskStatus = "pending"
  /\ delivered = {} /\ cached = {}
  /\ attempt = [count |-> 1, queries |-> 1]
  /\ budget = [errors |-> 0, changes |-> 0]
  /\ ghost = [NoHistory EXCEPT !.lasting = there]

-----------------------------------------------------------------------------
(* What GitHub has. *)

Ahead(i, S) == Cardinality({j \in S : j > i})
Newest(S, n) == {i \in S : Ahead(i, S) < n}
Oldest(S) == CHOOSE i \in S : \A j \in S : i <= j
RecentItems(S) == {i \in S : i >= from}

PageAfter(item, S, perPage) == Newest({i \in S : i < item}, perPage)
NumberedPage(c, S) ==
  {i \in S : ProcessedItems(c) <= Ahead(i, S) /\ Ahead(i, S) < ProcessedItems(c) + c.perPage}

\* Branches come anywhere, everything else at the front.
Comes(i) ==
  /\ budget.changes < MaxChanges /\ i \notin there
  /\ task = "branch" \/ \A j \in there : i > j
  /\ there' = there \cup {i}
  /\ budget' = [budget EXCEPT !.changes = @ + 1]
  /\ UNCHANGED <<task, from, stored, taskStatus, delivered, cached, attempt, ghost>>

Goes(i) ==
  /\ budget.changes < MaxChanges /\ i \in there
  /\ there' = there \ {i}
  /\ budget' = [budget EXCEPT !.changes = @ + 1]
  /\ ghost' = [ghost EXCEPT !.lasting = @ \ {i}, !.shifted = TRUE]
  /\ UNCHANGED <<task, from, stored, taskStatus, delivered, cached, attempt>>

-----------------------------------------------------------------------------
(* The queries: what a page asks for and how it is ordered. *)

CommitsQuery(perPage) == PageAfter(stored.after, RecentItems(there), perPage)
BranchesQuery(perPage) == PageAfter(stored.after, there, perPage)
PullRequestsQuery(perPage) == PageAfter(stored.after, there, perPage)
DeploymentsQuery(after, perPage) == PageAfter(after, there, perPage)
AlertsQuery(perPage) == NumberedPage(Scale(stored.page, perPage), there)

-----------------------------------------------------------------------------
(* The tasks: what they return as edges.  The walk ends when there are none. *)

\* getCommitTask and getBranchTask keep all of a page.
AllCommits(perPage) == CommitsQuery(perPage)
AllBranches(perPage) == BranchesQuery(perPage)

\* getPullRequestTaskGraphQL
RecentPullRequests(perPage) == RecentItems(PullRequestsQuery(perPage))

\* Mutant: one item that is not recent is enough to end the walk.
UnlessOneEarlier(page) == IF page # RecentItems(page) THEN {} ELSE page

\* areAllEdgesEarlierThanFromDate, areAllBuildsEarlierThanFromDate
UnlessAllEarlier(page) == IF RecentItems(page) = {} THEN {} ELSE page

\* getDeploymentTask
RecentDeployments(perPage) == UnlessAllEarlier(DeploymentsQuery(stored.after, perPage))

\* getCodeScanningAlertTask and the other two
RecentAlerts(perPage) == UnlessAllEarlier(AlertsQuery(perPage))

Edges(perPage) ==
  CASE task = "commit"     -> AllCommits(perPage)
    [] task = "branch"     -> AllBranches(perPage)
    [] task = "pull"       -> RecentPullRequests(perPage)
    [] task = "deployment" -> RecentDeployments(perPage)
    [] OTHER               -> RecentAlerts(perPage)

\* Mutant: the item after the last edge is passed over.
PassesOneOver(edges, perPage) ==
  IF task \in AlertTasks
  THEN [stored EXCEPT !.page = CopyWithPageNo(Scale(@, perPage), Scale(@, perPage).pageNo + 1)]
  ELSE [stored EXCEPT !.after = Oldest(edges) - 1]

\* The cursor of the last edge; the one edge of a page of alerts has the next page's.
NextCursor(edges, perPage) ==
  IF task \in AlertTasks
  THEN [stored EXCEPT !.page = CopyWithPageNo(Scale(@, perPage), Scale(@, perPage).pageNo + 1)]
  ELSE [stored EXCEPT !.after = Oldest(edges)]

\* Mutants: no page is fetched in advance; the one that is begins where the page began.
NoExtra(page, perPage) == {}
ExtraFromFirst(page, perPage) ==
  IF page = {} THEN {} ELSE DeploymentsQuery(stored.after, perPage)

\* fetchDeployments looks one page ahead.
ExtraDeployments(page, perPage) ==
  IF page = {} THEN {} ELSE DeploymentsQuery(Oldest(page), perPage)

\* A success that went before i, at most a page away from it.
LastSuccess(i, perPage) ==
  LET before == {j \in Success \cap there : j < i} IN
  {j \in before : j \in PageAfter(i, there, perPage) /\ \A k \in before : k <= j}

\* A message of its own for what comes next.
Settles(newStatus) ==
  /\ taskStatus' = newStatus
  /\ attempt' = [count |-> 1, queries |-> 1]

\* The successes of a page and the one after it.
SuccessfulDeployments(perPage) ==
  LET page == DeploymentsQuery(stored.after, perPage)
  IN  IF task = "deployment" THEN Success \cap (page \cup ExtraDeployments(page, perPage)) ELSE {}

\* saveDeploymentsForLaterUse saves as many as it can.
SaveDeployments(found) ==
  \/ cached' = cached \cup found /\ UNCHANGED budget
  \/ /\ budget.errors < MaxErrors
     /\ \E i \in found : cached' = cached \cup (found \ {i})
     /\ budget' = [budget EXCEPT !.errors = @ + 1]

\* A page goes to Jira and updateTaskStatusAndContinue stores where it ended.
FetchPage(perPage) ==
  /\ taskStatus = "pending"
  /\ LET edges == Edges(perPage)
         found == SuccessfulDeployments(perPage)
     IN /\ Settles(IF edges = {} THEN "complete" ELSE "pending")
        /\ stored' = IF edges = {} THEN stored ELSE NextCursor(edges, perPage)
        /\ delivered' = delivered \cup edges
        /\ SaveDeployments(found)
        /\ ghost' = [ghost EXCEPT
             !.strikes = 0,
             !.unsaved = @ \/ ~(found \subseteq cached'),
             !.blind = IF task = "deployment"
                       THEN @ \cup {i \in edges : ~(LastSuccess(i, perPage) \subseteq cached')}
                       ELSE @]
  /\ UNCHANGED <<task, from, there>>

-----------------------------------------------------------------------------
(* Errors. *)

\* What may be the matter with a query: changed files are asked for by the first one only;
\* secret scanning that is disabled is not found.
MayBe(situation) ==
  CASE situation = "nodeLimit" -> task \notin AlertTasks
    [] situation = "changedFiles" -> task \in {"commit", "branch"} /\ attempt.queries = 1
    [] situation = "legal" -> task \in AlertTasks
    [] situation = "disabled" -> task \in AlertTasks \ {"secretScanningAlert"}
    [] OTHER -> TRUE

AnswerTo(situation) ==
  IF task \in AlertTasks THEN RestAnswer(situation) ELSE GraphQLAnswer(situation)

AsksForLess(answer) ==
  \/ task = "branch" /\ BranchesAskForLess(attempt.queries, answer)
  \/ task = "commit" /\ CommitsAskForLess(attempt.queries, answer)

\* The query is put again within the attempt.
AskAgain(situation) ==
  /\ AsksForLess(AnswerTo(situation))
  /\ attempt' = [attempt EXCEPT !.queries = @ + 1]
  /\ UNCHANGED <<taskStatus, ghost>>

NothingToShow(answer) ==
  \/ task = "codeScanningAlert" /\ CodeScanningIsOff(answer)
  \/ task = "dependabotAlert" /\ DependabotIsOff(answer)
  \/ task = "secretScanningAlert" /\ SecretScanningIsOff(answer)

\* The alert tasks end without an error.
EndForNothing(situation) ==
  /\ NothingToShow(AnswerTo(situation))
  /\ Settles("complete")
  /\ ghost' = [ghost EXCEPT !.gone = TRUE]

\* backfillErrorHandler: the message is answered with the next one, or received again.
GiveToErrorHandler(situation) ==
  LET answer == AnswerTo(situation)
      error == IF task \in AlertTasks THEN HandleFailedRequest(answer) ELSE GraphQLErrorOf(answer)
      outcome == HandleTaskError(error, attempt.count = Attempts)
  IN  /\ ~AsksForLess(answer)
      /\ ~NothingToShow(answer)
      /\ CASE outcome = "retried" ->
                 /\ attempt' = [count |-> attempt.count + 1, queries |-> 1]
                 /\ UNCHANGED taskStatus
           [] outcome = "rescheduled" -> Settles("pending")
           [] OTHER -> Settles(outcome)
      /\ ghost' = [ghost EXCEPT !.strikes = IF situation = "rateLimit" THEN @ ELSE @ + 1,
                                !.gone = @ \/ situation \in Gone,
                                !.refused = @ \/ situation = "permission"]

QueryFails(situation) ==
  /\ taskStatus = "pending" /\ MayBe(situation) /\ budget.errors < MaxErrors
  /\ AskAgain(situation) \/ EndForNothing(situation) \/ GiveToErrorHandler(situation)
  /\ budget' = [budget EXCEPT !.errors = @ + 1]
  /\ UNCHANGED <<task, from, there, stored, delivered, cached>>

PagesNext ==
  \/ \E i \in Item : Comes(i) \/ Goes(i)
  \/ \E perPage \in Sizes : FetchPage(perPage)
  \/ \E situation \in Situations : QueryFails(situation)

PagesSpec == PagesInit /\ [][PagesNext]_pageVars

-----------------------------------------------------------------------------
\* A walk that ends because its pages do (installation.ts:94) sent every item it was for
\* that was there throughout, whatever page sizes it was made of, whatever came and went
\* and however often it was retried -- but for alerts, whose pages are numbered, once one
\* of them went away.  And of a deployment that was sent, the success before it was known
\* by then when it is at most a page away, so that its commits are found
\* (deployment.ts:11), unless it could not be saved.
WalksAreWhole ==
  /\ taskStatus = "complete" /\ ~ghost.gone /\ ~(task \in AlertTasks /\ ghost.shifted) =>
       (IF task = "branch" THEN ghost.lasting ELSE RecentItems(ghost.lasting)) \subseteq delivered
  /\ ghost.blind = {} \/ ghost.unsaved

\* A task is given up because GitHub refuses it for good, or after as many failures as a
\* message has attempts: no limit brings it nearer to that ("we don't want to exhaust all
\* retries", backfill-error-handler.ts:51), whichever way GitHub tells of it.
GivesUpForAReason ==
  taskStatus = "failed" => ghost.refused \/ ghost.strikes >= Attempts
=============================================================================
