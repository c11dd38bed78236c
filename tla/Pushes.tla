------------------------------- MODULE Pushes -------------------------------
(***************************************************************************)
(* Pushes on their way to Jira.  The webhook sends a message with the ids  *)
(* of the commits that name an issue (src/github/push.ts); its handler     *)
(* asks Jira which of those issues there are, and Redis remembers the      *)
(* answers for a while, asks GitHub for the commits, all at once, and      *)
(* sends them in one update (src/transforms/push.ts).  A commit that is    *)
(* not in GitHub any more must not cost the others their place.            *)
(* alwaysSend is off; both SKIP flags are on; the subscription exists.     *)
(***************************************************************************)
EXTENDS Naturals, Sequences, FiniteSets

CONSTANTS
  Pushed,         \* the issue keys of each commit of each push
  PUSH_ATTEMPTS,  \* maxAttempts of the push queue
  MAX_PUSHED,     \* MAX_COMMIT_HISTORY
  MaxGone         \* bound: commits that go

Push == 1..Len(Pushed)
Commit == UNION {{p} \X (1..Len(Pushed[p])) : p \in Push}
KeysOf(c) == Pushed[c[1]][c[2]]
Key == UNION {KeysOf(c) : c \in Commit}

ASSUME PushesAssumption ==
  /\ \A p \in Push : Pushed[p] # <<>>
  /\ PUSH_ATTEMPTS \in Nat \ {0} /\ MAX_PUSHED \in Nat \ {0} /\ MaxGone \in Nat

VARIABLES
  issues,      \* the issues there are in Jira
  remembered,  \* Redis: what it says of each issue, or "nothing"
  gone,        \* commits that GitHub has no more
  arrived,     \* commits that Jira has
  push,        \* per push: position, receives, keys to look up, keys found missing, commits,
               \* and history: keys doubted when looked up, what the last attempt came to
  doubted      \* history: issues that are missing, or were when Redis was told what it still says

pushes == <<issues, remembered, gone, arrived, push, doubted>>

At(pc, receives) ==
  [pc |-> pc, receives |-> receives, keys |-> {}, invalid |-> {}, commits |-> {},
   excused |-> {}, cause |-> "none"]

PushesInit ==
  /\ issues \in SUBSET Key
  /\ remembered = [k \in Key |-> "nothing"]
  /\ gone = {} /\ arrived = {}
  /\ push = [p \in Push |-> At("webhook", 0)]
  /\ doubted = Key \ issues

-----------------------------------------------------------------------------
(* Jira, Redis and GitHub. *)

CreateIssue(k) ==
  /\ k \notin issues
  /\ issues' = issues \cup {k}
  /\ doubted' = IF remembered[k] = "not_exist" THEN doubted ELSE doubted \ {k}
  /\ UNCHANGED <<remembered, gone, arrived, push>>

\* SKIP_PROCESS_QUEUE_IF_ISSUE_NOT_FOUND_TIMEOUT has passed.
Forget(k) ==
  /\ remembered[k] # "nothing"
  /\ remembered' = [remembered EXCEPT ![k] = "nothing"]
  /\ doubted' = doubted \ ({k} \cap issues)
  /\ UNCHANGED <<issues, gone, arrived, push>>

\* A force push, and the commit is collected.
CommitGoes(c) ==
  /\ Cardinality(gone) < MaxGone
  /\ gone' = gone \cup {c}
  /\ UNCHANGED <<issues, remembered, arrived, push, doubted>>

-----------------------------------------------------------------------------
(* The webhook and the queue. *)

Leaves(p, pc) == push' = [push EXCEPT ![p].pc = pc]

\* The first of the commits with issue keys, as they come in the webhook.
FirstCommits(p) == {c \in Commit : c[1] = p /\ c[2] <= MAX_PUSHED}

HandlePush(p) ==
  /\ push[p].pc = "webhook"
  /\ Leaves(p, "queued")
  /\ UNCHANGED <<issues, remembered, gone, arrived, doubted>>

\* An error before the message is sent: it is logged, and GitHub is told that all went well.
LosePush(p) ==
  /\ push[p].pc = "webhook"
  /\ Leaves(p, "discarded")
  /\ UNCHANGED <<issues, remembered, gone, arrived, doubted>>

ReceivePush(p) ==
  /\ push[p].pc = "queued" /\ push[p].receives < PUSH_ATTEMPTS
  /\ push' = [push EXCEPT ![p] = [At("looking", @.receives + 1) EXCEPT
                                    !.keys = UNION {KeysOf(c) : c \in FirstCommits(p)}]]
  /\ UNCHANGED <<issues, remembered, gone, arrived, doubted>>

RedrivePush(p) ==
  /\ push[p].pc = "queued" /\ push[p].receives = PUSH_ATTEMPTS
  /\ Leaves(p, "dead")
  /\ UNCHANGED <<issues, remembered, gone, arrived, doubted>>

\* deleteMessage fails, which is logged.
RedeliverPush(p) ==
  /\ push[p].pc = "done"
  /\ Leaves(p, "queued")
  /\ UNCHANGED <<issues, remembered, gone, arrived, doubted>>

\* Mutant: one attempt too late.
IsPastLast(p) == push[p].receives > PUSH_ATTEMPTS

IsLastAttempt(p) == push[p].receives >= PUSH_ATTEMPTS

-----------------------------------------------------------------------------
(* processPush. *)

\* Redis, or else Jira; any error of either but a 404 is no answer.
KeyStatus(k) ==
  {"unknown", IF remembered[k] # "nothing" THEN remembered[k]
              ELSE IF k \in issues THEN "exist" ELSE "not_exist"}

\* Mutant: no answer is a no.
IsNotKnown(answer) == answer # "exist"

IsInvalid(answer) == answer = "not_exist"

\* processIssueKeyStatusFromJiraApi; Jira's answer and Redis's memory of it are one step.
LookUp(p, k) ==
  /\ push[p].pc = "looking" /\ k \in push[p].keys
  /\ \E answer \in KeyStatus(k) :
       /\ remembered' = IF answer = "unknown" THEN remembered ELSE [remembered EXCEPT ![k] = answer]
       /\ push' = [push EXCEPT ![p] =
            [@ EXCEPT !.keys = push[p].keys \ {k},
                      !.invalid = push[p].invalid \cup {j \in {k} : IsInvalid(answer)},
                      !.excused = push[p].excused \cup ({k} \cap doubted)]]
  /\ UNCHANGED <<issues, gone, arrived, doubted>>

\* Redis does not store a 404 of Jira: no key is taken for invalid.
LookUpFails(p) ==
  /\ push[p].pc = "looking" /\ \E k \in push[p].keys \ issues : remembered[k] = "nothing"
  /\ push' = [push EXCEPT ![p] = [@ EXCEPT !.keys = {}, !.invalid = {}]]
  /\ UNCHANGED <<issues, remembered, gone, arrived, doubted>>

Wanted(p) == {c \in FirstCommits(p) : ~(KeysOf(c) \subseteq push[p].invalid)}

HasAllKeys(p) == push[p].pc = "looking" /\ push[p].keys = {}

\* Nobody waits for the other commits when one is not found, and there is another attempt.
CommitNotFound(p) ==
  /\ HasAllKeys(p) /\ Wanted(p) \cap gone # {} /\ ~IsLastAttempt(p)
  /\ push' = [push EXCEPT ![p] = [At("queued", @.receives) EXCEPT !.cause = "gone"]]
  /\ UNCHANGED <<issues, remembered, gone, arrived, doubted>>

\* On the last attempt those that are not found are left out.
FetchCommits(p) ==
  /\ HasAllKeys(p) /\ (Wanted(p) \cap gone = {} \/ IsLastAttempt(p))
  /\ push' = [push EXCEPT ![p] = [@ EXCEPT !.pc = "sending", !.commits = Wanted(p) \ gone]]
  /\ UNCHANGED <<issues, remembered, gone, arrived, doubted>>

\* With no commits left there is no update.
SendCommits(p) ==
  /\ push[p].pc = "sending"
  /\ arrived' = arrived \cup push[p].commits
  /\ push' = [push EXCEPT ![p] = [At("done", @.receives) EXCEPT !.excused = push[p].excused]]
  /\ UNCHANGED <<issues, remembered, gone, doubted>>

\* An error of GitHub or Jira, to be retried.
PushFails(p) ==
  /\ HasAllKeys(p) \/ push[p].pc = "sending"
  /\ push' = [push EXCEPT ![p] = [At("queued", @.receives) EXCEPT !.cause = "error"]]
  /\ UNCHANGED <<issues, remembered, gone, arrived, doubted>>

\* 401, 403 or 404.
DiscardPush(p) ==
  /\ HasAllKeys(p) \/ push[p].pc = "sending"
  /\ push' = [push EXCEPT ![p] = At("discarded", @.receives)]
  /\ UNCHANGED <<issues, remembered, gone, arrived, doubted>>

PushesNext ==
  \/ \E k \in Key : CreateIssue(k) \/ Forget(k)
  \/ \E c \in Commit : CommitGoes(c)
  \/ \E p \in Push :
       \/ HandlePush(p) \/ LosePush(p) \/ ReceivePush(p) \/ RedrivePush(p) \/ RedeliverPush(p)
       \/ (\E k \in push[p].keys : LookUp(p, k)) \/ LookUpFails(p)
       \/ CommitNotFound(p) \/ FetchCommits(p) \/ SendCommits(p) \/ PushFails(p) \/ DiscardPush(p)

PushesSpec == PushesInit /\ [][PushesNext]_pushes

-----------------------------------------------------------------------------
\* Once a push has been handled, Jira has each of its first commits that GitHub still has
\* and that names an issue which there is, or which there has been for as long as Redis
\* remembers (jira-issue-check-redis-util.ts:21); and a commit that is gone is never why a
\* push is given up (push.ts:148).
CommitsArrive ==
  \A p \in Push :
    /\ push[p].pc = "done" =>
         \A c \in FirstCommits(p) :
           c \in arrived \/ c \in gone \/ KeysOf(c) \subseteq push[p].excused
    /\ push[p].pc = "dead" => push[p].cause # "gone"
=============================================================================
