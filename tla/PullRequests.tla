---------------------------- MODULE PullRequests ----------------------------
(***************************************************************************)
(* A branch and its pull request: what Jira shows of them.  GitHub tells   *)
(* every change by a webhook, each of which is handled on its own: a       *)
(* created branch by a message of the branch queue (src/github/branch.ts,  *)
(* src/sqs/branch.ts), a deleted one and a pull request at once            *)
(* (src/github/pull-request.ts).  A webhook says what was so when it was   *)
(* sent, an update is numbered with the time when it is put together, and  *)
(* Jira keeps the highest number.  The app writes to GitHub, too: it adds  *)
(* links to the issues that the body of a pull request names.              *)
(* One Jira host; alwaysSend is off.                                       *)
(***************************************************************************)
EXTENDS Naturals, Sequences

CONSTANTS
  BRANCH_ATTEMPTS,  \* maxAttempts of the branch queue
  MaxEvents         \* bound: changes in GitHub

ASSUME PullRequestsAssumption == BRANCH_ATTEMPTS \in Nat \ {0} /\ MaxEvents \in Nat

VARIABLES
  repo,      \* GitHub: the branch, whether its name has an issue key, the pull request
  events,    \* the webhooks in the order of their changes, and how far each has come
  shown,     \* Jira: the number and the state of the branch and of the pull request
  clock,     \* Date.now() has been read so often
  happened   \* history: what keeps Jira from showing what GitHub has

pullRequests == <<repo, events, shown, clock, happened>>

Numbered(number, is) == [number |-> number, is |-> is]
NoRepo(named) == [branch |-> FALSE, named |-> named, pr |-> "none", title |-> FALSE, body |-> "plain"]
IsKeyed(r) == r.named \/ r.title \/ r.body # "plain"

\* Nothing yet, or an open pull request that Jira knows of.
PullRequestsInit ==
  /\ \E named \in BOOLEAN :
       \/ /\ repo = NoRepo(named)
          /\ shown = [branch |-> Numbered(0, FALSE), pr |-> Numbered(0, "none")]
       \/ \E title \in BOOLEAN, body \in {"plain", "linked"} :
            /\ repo = [branch |-> TRUE, named |-> named, pr |-> "OPEN", title |-> title, body |-> body]
            /\ shown = [branch |-> Numbered(0, IsKeyed(repo)),
                        pr |-> Numbered(0, IF IsKeyed(repo) THEN "OPEN" ELSE "none")]
  /\ events = <<>> /\ clock = 0 /\ happened = {}

-----------------------------------------------------------------------------
(* GitHub. *)

\* A state change is a one-time action; whatever else a bot does is passed over.
IsIgnored(kind, bot) == bot /\ kind \notin {"create", "opened", "closed", "reopened"}

Webhook(r, kind, bot, left) ==
  [kind |-> kind, bot |-> bot, pc |-> "sent", pr |-> r.pr, title |-> r.title, body |-> r.body,
   left |-> left, number |-> 0, attempt |-> 1]

\* The last issue key goes with an edit of the body: no webhook tells what was there.
Unnoticed(r) ==
  IF IsKeyed(r) THEN {} ELSE IF IsKeyed(repo) /\ r.title = repo.title THEN {"unnoticed"}
  ELSE happened \cap {"unnoticed"}

\* The repository becomes r, by a user or a bot, which is told by these webhooks.
Changes(r, kinds, left) ==
  /\ Len(events) + Len(kinds) <= MaxEvents
  /\ repo' = r
  /\ \E bot \in BOOLEAN :
       /\ bot => \E i \in 1..Len(kinds) : IsIgnored(kinds[i], bot)
       /\ events' = events \o [i \in 1..Len(kinds) |-> Webhook(r, kinds[i], bot, left)]
       /\ happened' = (happened \ {"unnoticed"}) \cup Unnoticed(r) \cup
            {IF kinds[i] = "delete" THEN "branch ignored" ELSE "ignored" :
               i \in {j \in 1..Len(kinds) : IsIgnored(kinds[j], bot)}}
  /\ UNCHANGED <<shown, clock>>

CreateBranch == ~repo.branch /\ Changes([repo EXCEPT !.branch = TRUE], <<"create">>, FALSE)

IsOpen(r) == r.pr \in {"OPEN", "DRAFT"}

\* GitHub closes the pull request of a branch that goes.
DeleteBranch ==
  /\ repo.branch
  /\ IF IsOpen(repo)
     THEN Changes([repo EXCEPT !.branch = FALSE, !.pr = "DECLINED"], <<"closed", "delete">>, FALSE)
     ELSE Changes([repo EXCEPT !.branch = FALSE], <<"delete">>, FALSE)

OpenPullRequest ==
  /\ repo.branch /\ repo.pr = "none"
  /\ \E title \in BOOLEAN, body \in {"plain", "key"} :
       Changes([repo EXCEPT !.pr = "OPEN", !.title = title, !.body = body], <<"opened">>, FALSE)

ClosePullRequest ==
  /\ IsOpen(repo)
  /\ \E pr \in {"MERGED", "DECLINED"} : Changes([repo EXCEPT !.pr = pr], <<"closed">>, FALSE)

ReopenPullRequest ==
  repo.branch /\ repo.pr = "DECLINED" /\ Changes([repo EXCEPT !.pr = "OPEN"], <<"reopened">>, FALSE)

ConvertToDraft ==
  repo.pr = "OPEN" /\ Changes([repo EXCEPT !.pr = "DRAFT"], <<"converted_to_draft">>, FALSE)

MarkReady ==
  repo.pr = "DRAFT" /\ Changes([repo EXCEPT !.pr = "OPEN"], <<"ready_for_review">>, FALSE)

EditTitle ==
  repo.pr # "none" /\ Changes([repo EXCEPT !.title = ~@], <<"edited">>, repo.title)

EditBody ==
  /\ repo.pr # "none"
  /\ \E body \in {"plain", "key"} \ {repo.body} :
       Changes([repo EXCEPT !.body = body], <<"edited">>, FALSE)

GitHubChanges ==
  \/ CreateBranch \/ DeleteBranch \/ OpenPullRequest \/ ClosePullRequest
  \/ ReopenPullRequest \/ ConvertToDraft \/ MarkReady \/ EditTitle \/ EditBody

-----------------------------------------------------------------------------
(* The web server.  Webhooks are taken in any order. *)

IsOfPullRequest(e) == e.kind \notin {"create", "delete"}

\* Of a webhook that has been handled only that is kept.
Ended(e) == [Webhook(NoRepo(FALSE), e.kind, e.bot, FALSE) EXCEPT !.pc = "done"]

Proceeds(i, to) == events' = [events EXCEPT ![i].pc = to]
Finishes(i) == events' = [events EXCEPT ![i] = Ended(@)]
ProceedsNumbered(i, to) ==
  /\ events' = [events EXCEPT ![i].pc = to, ![i].number = clock + 1]
  /\ clock' = clock + 1

Ignore(i) ==
  /\ events[i].pc = "sent" /\ IsIgnored(events[i].kind, events[i].bot)
  /\ Finishes(i)
  /\ UNCHANGED <<repo, shown, clock, happened>>

IsTaken(i, kind) == events[i].pc = "sent" /\ events[i].kind = kind /\ ~IsIgnored(kind, events[i].bot)

EnqueueBranch(i) ==
  /\ IsTaken(i, "create")
  /\ Proceeds(i, "queued")
  /\ UNCHANGED <<repo, shown, clock, happened>>

\* The request is numbered when it is made.  A branch whose name has no key is not deleted.
HandleDeleted(i) ==
  /\ IsTaken(i, "delete")
  /\ IF repo.named
     THEN /\ ProceedsNumbered(i, "deletingBranch")
          /\ happened' = happened \cup (IF repo.branch THEN {"raced"} ELSE {})
     ELSE Finishes(i) /\ UNCHANGED <<clock, happened>>
  /\ UNCHANGED <<repo, shown>>

\* Mutant: whatever the status.
AlwaysSendsBranch(e) == TRUE

\* getBranches: the branch may go at the same time, and that webhook may come first.
SendsBranch(e) == e.pr # "MERGED"

\* Mutant: nothing is taken away from Jira.
NeverDeletes(e) == FALSE

\* Only the title tells that it had a key.
LosesPullRequest(e) == e.left

NamesIssues(e) == repo.named \/ e.title \/ e.body # "plain"
WasDeleted == ~repo.branch /\ \E i \in 1..Len(events) :
                                events[i].kind = "delete" /\ events[i].pc # "sent"
IsLate(i) == \E j \in i + 1..Len(events) :
               /\ IsOfPullRequest(events[j]) /\ ~IsIgnored(events[j].kind, events[j].bot)
               /\ events[j].pc # "sent"
Mishaps(i) ==
  (IF IsLate(i) THEN {"reordered"} ELSE {}) \cup
  (IF WasDeleted /\ events[i].pr # "MERGED" THEN {"raced"} ELSE {})

\* The reviewers are asked for first.  What the update says is what the webhook said.
HandlePullRequest(i) ==
  LET e == events[i] IN
  /\ IsOfPullRequest(e) /\ IsTaken(i, e.kind)
  /\ happened' = happened \cup Mishaps(i)
  /\ \/ NamesIssues(e) /\ ProceedsNumbered(i, "linking")
     \/ ~NamesIssues(e) /\ LosesPullRequest(e) /\ ProceedsNumbered(i, "deletingPullRequest")
     \/ ~NamesIssues(e) /\ ~LosesPullRequest(e) /\ Finishes(i) /\ UNCHANGED clock
  /\ UNCHANGED <<repo, shown>>

\* unfurl: there is an issue to link to that has no link yet, and Jira knows it.
MayUnfurl(e) == e.body = "key"

\* The body that the webhook had, with links, replaces the one there is by now.  Nothing to
\* link, or an error that is logged: no write.
UpdateGithubIssues(i) ==
  LET e == events[i]
      linked == [repo EXCEPT !.body = "linked"]
  IN
  /\ e.pc = "linking"
  /\ \/ /\ MayUnfurl(e)
        /\ repo' = linked
        /\ events' = Append([events EXCEPT ![i].pc = "updating"], Webhook(linked, "edited", TRUE, FALSE))
        /\ happened' = happened \cup (IF repo.body = "plain" THEN {"overwritten"} ELSE {})
     \/ Proceeds(i, "updating") /\ UNCHANGED <<repo, happened>>
  /\ UNCHANGED <<shown, clock>>

\* An error is caught for each Jira host, and GitHub is told that all went well.
LoseWebhook(i) ==
  /\ events[i].pc \in {"sent", "linking", "updating", "deletingBranch", "deletingPullRequest"}
  /\ events[i].kind = "create" => events[i].pc = "sent"
  /\ Finishes(i)
  /\ happened' = happened \cup {IF IsOfPullRequest(events[i]) THEN "lost" ELSE "branch lost"}
  /\ UNCHANGED <<repo, shown, clock>>

-----------------------------------------------------------------------------
(* The branch queue. *)

\* The branch is gone, or not yet there for the API: a 404, and the message is deleted.
FindNoRef(i) ==
  /\ events[i].pc = "queued" /\ repo.named
  /\ Finishes(i)
  /\ happened' = happened \cup (IF repo.branch THEN {"not yet there"} ELSE {})
  /\ UNCHANGED <<repo, shown, clock>>

NothingToSubmit(i) ==
  /\ events[i].pc = "queued" /\ ~repo.named
  /\ Finishes(i)
  /\ UNCHANGED <<repo, shown, clock, happened>>

GetRef(i) ==
  /\ events[i].pc = "queued" /\ repo.named /\ repo.branch
  /\ Proceeds(i, "fetching")
  /\ UNCHANGED <<repo, shown, clock, happened>>

\* The last commit is there; only now the update is numbered.
TransformBranch(i) ==
  /\ events[i].pc = "fetching"
  /\ ProceedsNumbered(i, "updating")
  /\ happened' = happened \cup (IF WasDeleted THEN {"raced"} ELSE {})
  /\ UNCHANGED <<repo, shown>>

\* An error of GitHub or Jira: another attempt, after the last the dead letter queue.
RetryBranch(i) ==
  /\ events[i].kind = "create" /\ events[i].pc \in {"queued", "fetching", "updating"}
  /\ IF events[i].attempt < BRANCH_ATTEMPTS
     THEN /\ events' = [events EXCEPT ![i].pc = "queued", ![i].attempt = @ + 1]
          /\ UNCHANGED happened
     ELSE Finishes(i) /\ happened' = happened \cup {"branch lost"}
  /\ UNCHANGED <<repo, shown, clock>>

-----------------------------------------------------------------------------
(* Jira. *)

\* Mutant: the time when Jira has the update.
ArrivalNumber(e) == shown.branch.number + shown.pr.number + 1

NumberOf(e) == e.number

Keeps(old, number, is) == IF number > old.number THEN Numbered(number, is) ELSE old

UpdateBranch(i) ==
  /\ events[i].kind = "create" /\ events[i].pc = "updating"
  /\ shown' = [shown EXCEPT !.branch = Keeps(@, NumberOf(events[i]), TRUE)]
  /\ Finishes(i)
  /\ UNCHANGED <<repo, clock, happened>>

UpdatePullRequest(i) ==
  LET e == events[i] IN
  /\ IsOfPullRequest(e) /\ e.pc = "updating"
  /\ shown' = [branch |-> IF SendsBranch(e) THEN Keeps(shown.branch, NumberOf(e), TRUE)
                          ELSE shown.branch,
               pr |-> Keeps(shown.pr, NumberOf(e), e.pr)]
  /\ Finishes(i)
  /\ UNCHANGED <<repo, clock, happened>>

DeleteAtJira(i) ==
  /\ \/ /\ events[i].pc = "deletingBranch"
        /\ shown' = [shown EXCEPT !.branch = Keeps(@, NumberOf(events[i]), FALSE)]
     \/ /\ events[i].pc = "deletingPullRequest"
        /\ shown' = [shown EXCEPT !.pr = Keeps(@, NumberOf(events[i]), "none")]
  /\ Finishes(i)
  /\ UNCHANGED <<repo, clock, happened>>

-----------------------------------------------------------------------------
PullRequestsNext ==
  \/ GitHubChanges
  \/ \E i \in 1..Len(events) :
       \/ Ignore(i) \/ EnqueueBranch(i) \/ HandleDeleted(i) \/ HandlePullRequest(i)
       \/ UpdateGithubIssues(i) \/ LoseWebhook(i)
       \/ FindNoRef(i) \/ NothingToSubmit(i) \/ GetRef(i) \/ TransformBranch(i) \/ RetryBranch(i)
       \/ UpdateBranch(i) \/ UpdatePullRequest(i) \/ DeleteAtJira(i)

PullRequestsSpec == PullRequestsInit /\ [][PullRequestsNext]_pullRequests

-----------------------------------------------------------------------------
IsQuiet == \A i \in 1..Len(events) : events[i].pc = "done"

\* When every webhook has been handled, in whatever order they and their requests came, Jira
\* shows the branch if GitHub has it, and the pull request with the status it has there, or
\* none if no issue key is left.  What may keep it from that is listed here, and nothing
\* else does: a merge and a deletion at the same time do not (transform-pull-request.ts:170),
\* nor do requests that overtake one another (transform-pull-request.ts:164).
JiraEndsLikeGitHub ==
  IsQuiet =>
    /\ \/ ~repo.named
       \/ happened \cap {"raced", "branch lost", "not yet there", "branch ignored"} # {}
       \/ shown.branch.is = repo.branch
    /\ \/ happened \cap {"reordered", "lost", "ignored", "overwritten", "unnoticed"} # {}
       \/ shown.pr.is = IF IsKeyed(repo) THEN repo.pr ELSE "none"
=============================================================================
