---------------------------- MODULE JiraPayloads ----------------------------
(***************************************************************************)
(* What goes to Jira and how much of it: the branches and commits of a     *)
(* backfilled page (src/sync/transforms/branch.ts) and the commits of a    *)
(* push (src/transforms/push.ts) through the update of the Jira client     *)
(* (src/jira/client/jira-client.ts) with its limits on issue keys and      *)
(* commits, and the associations of a deployment (src/transforms/          *)
(* transform-deployment.ts).  An entity is its id and its issue keys;      *)
(* alwaysSend is off.                                                      *)
(***************************************************************************)
EXTENDS Integers, Sequences, SequencesExt, FiniteSets

CONSTANTS
  ISSUE_KEY_API_LIMIT,         \* issue keys of an entity
  COMMITS_PER_REQUEST,         \* the 400 of batchedBulkUpdate
  MAX_COMMIT_HISTORY,          \* commits of a push that are looked at
  MAX_ASSOCIATIONS_PER_ENTITY, \* associations of a deployment
  IssueKey, EntityId,               \* issue keys; ids of branches and commits
  BranchPages,                 \* pages of branches GitHub may answer
  CommitLists,                 \* commits of the pushes it may report
  AssociationCounts            \* keys, services and commits of a deployment

ASSUME LimitsAssumption ==
  /\ ISSUE_KEY_API_LIMIT \in Nat /\ COMMITS_PER_REQUEST \in Nat \ {0}
  /\ MAX_COMMIT_HISTORY \in Nat /\ MAX_ASSOCIATIONS_PER_ENTITY \in Nat

\* What jiraIssueKeyParser finds in a text: keys without duplicates.
KeyList == {keys \in Seq(IssueKey) : IsInjective(keys)}

\* A commit of GitHub, and a branch with the keys of its name, those of the title of its last
\* pull request, its last commit, and the history of the commits that are recent enough.
GitHubCommit == [id : EntityId, keys : KeyList]
GitHubBranch ==
  [id : EntityId, name : KeyList, title : KeyList, target : GitHubCommit,
   history : Seq(GitHubCommit)]

ASSUME InputsAssumption ==
  /\ BranchPages \subseteq Seq(GitHubBranch) /\ CommitLists \subseteq Seq(GitHubCommit)
  /\ AssociationCounts \subseteq Nat \X Nat \X Nat

\* slice(0, n), which counts from the end when n is negative.
Shorter(a, b) == IF a < b THEN a ELSE b
Sliced(len, n) == IF n >= 0 THEN Shorter(len, n) ELSE IF len + n > 0 THEN len + n ELSE 0
Slice(s, n) == SubSeq(s, 1, Sliced(Len(s), n))

\* filter: the entries of s at some places, in their order.
Kept(s, places) ==
  LET place(k) == CHOOSE i \in places : Cardinality({j \in places : j < i}) = k - 1
  IN  [k \in 1..Cardinality(places) |-> s[place(k)]]

\* indexOf(s[i]) === i
Firsts(s) == {i \in 1..Len(s) : \A j \in 1..(i - 1) : s[j] # s[i]}

\* uniq: the first of each.
Uniq(s) == Kept(s, Firsts(s))
Union(s, t) == Uniq(s \o t)

-----------------------------------------------------------------------------
(* The callers: what has no keys is not sent. *)

\* Mutant: the keys of the last commit do not count for its branch.
MapOwnKeys(b) ==
  [id |-> b.id, keys |-> Union(b.name, b.title), lastCommit |-> b.target]

MapBranch(b) ==
  [id |-> b.id, keys |-> Union(Union(b.name, b.title), b.target.keys),
   lastCommit |-> b.target]

WithKeys(entities) == Kept(entities, {i \in 1..Len(entities) : entities[i].keys # <<>>})

TransformBranches(page) ==
  [branches |-> WithKeys([i \in 1..Len(page) |-> MapBranch(page[i])]),
   commits |-> WithKeys(FlattenSeq([i \in 1..Len(page) |-> page[i].history]))]

\* A push sends the first commits that have keys.
PushPayload(commits) ==
  [branches |-> <<>>, commits |-> Slice(WithKeys(commits), MAX_COMMIT_HISTORY)]

-----------------------------------------------------------------------------
(* devinfo.repository.update. *)

UpdateIssueKeysFor(entities, F(_)) ==
  [i \in 1..Len(entities) |-> [entities[i] EXCEPT !.keys = F(@)]]

UpdateRepositoryIssueKeys(data, F(_)) ==
  LET branches == UpdateIssueKeysFor(data.branches, F)
  IN  [commits |-> UpdateIssueKeysFor(data.commits, F),
       branches |-> [i \in 1..Len(branches) |-> [branches[i] EXCEPT !.lastCommit.keys = F(@)]]]

WithinIssueKeyLimit(entities) ==
  \A i \in 1..Len(entities) : Len(entities[i].keys) <= ISSUE_KEY_API_LIMIT

Truncate(keys) == Slice(keys, ISSUE_KEY_API_LIMIT)

\* Mutant: only the commits are measured.
CommitsFit(data) == WithinIssueKeyLimit(data.commits)

\* A subscription whose keys were cut gets a syncWarning.
Fits(data) == WithinIssueKeyLimit(data.commits) /\ WithinIssueKeyLimit(data.branches)

Prepared(data) ==
  LET deduped == UpdateRepositoryIssueKeys(data, Uniq)
  IN  IF Fits(deduped) THEN deduped ELSE UpdateRepositoryIssueKeys(deduped, Truncate)
Warns(data) == ~Fits(UpdateRepositoryIssueKeys(data, Uniq))

\* Mutant: the commits of a page are taken as they come.
KeepsCommits(commits) == commits

\* dedupCommits: the first commit of each id.
DedupCommits(commits) == Kept(commits, Firsts([i \in 1..Len(commits) |-> commits[i].id]))

\* The chunks; at least one, which may be empty.
Chunks(commits) ==
  LET n == COMMITS_PER_REQUEST
      count == (Len(commits) + n - 1) \div n
  IN  [i \in 1..(IF count > 0 THEN count ELSE 1) |->
         SubSeq(commits, (i - 1) * n + 1, Shorter(i * n, Len(commits)))]

\* The requests share one object whose commits are set to one chunk after the other
\* before the first of them is turned into text, by an interceptor that is not awaited.
Requests(data) ==
  LET chunks == Chunks(DedupCommits(data.commits))
  IN  [i \in 1..Len(chunks) |-> [data EXCEPT !.commits = Last(chunks)]]

Update(data) == [requests |-> Requests(Prepared(data)), warned |-> Warns(data)]

-----------------------------------------------------------------------------
(* How many issue keys, services and commits a deployment is sent with. *)

\* Mutant: only issue keys count against the limit of commits.
IgnoresServices(issues, services, commits) ==
  LET keys == Sliced(issues, MAX_ASSOCIATIONS_PER_ENTITY)
  IN  [issues |-> keys,
       services |-> Sliced(services, MAX_ASSOCIATIONS_PER_ENTITY - keys),
       commits |-> Sliced(commits, MAX_ASSOCIATIONS_PER_ENTITY - keys)]

Associations(issues, services, commits) ==
  LET keys == Sliced(issues, MAX_ASSOCIATIONS_PER_ENTITY)
      room == MAX_ASSOCIATIONS_PER_ENTITY - keys
  IN  [issues |-> keys, services |-> Sliced(services, room),
       commits |-> Sliced(commits, room - services)]

-----------------------------------------------------------------------------
(* One call of the client: what GitHub said, then what was made of it and sent. *)

VARIABLE call

NoCall == [kind |-> "none"]
Input(kind, of) == [kind |-> kind, done |-> FALSE, of |-> of]

CallsInit ==
  \/ \E page \in BranchPages : call = Input("branches", page)
  \/ \E commits \in CommitLists : call = Input("push", commits)
  \/ \E counts \in AssociationCounts : call = Input("deployment", counts)

Payload(c) == IF c.kind = "branches" THEN TransformBranches(c.of) ELSE PushPayload(c.of)
NothingToSend == [branches |-> <<>>, commits |-> <<>>]

Done(of, to) == call' = [kind |-> call.kind, done |-> TRUE, of |-> of, to |-> to]

SubmitUpdate ==
  /\ call.kind \in {"branches", "push"} /\ ~call.done
  /\ Payload(call) # NothingToSend
  /\ Done(Payload(call), Update(Payload(call)))

SubmitDeployment ==
  /\ call.kind = "deployment" /\ ~call.done
  /\ call.of # <<0, 0, 0>>
  /\ Done(call.of, Associations(call.of[1], call.of[2], call.of[3]))

CallsNext == SubmitUpdate \/ SubmitDeployment
CallsSpec == CallsInit /\ [][CallsNext]_call

-----------------------------------------------------------------------------
Updated == call.kind \in {"branches", "push"} /\ call.done
SentTo(field) == UNION {ToSet(call.to.requests[i][field]) : i \in 1..Len(call.to.requests)}
IdsOf(entities) == {e.id : e \in entities}

\* What goes to Jira fits its limits, and the limits lose nothing unnoticed.
\* * Every commit goes once, no request with more than Jira takes (jira-client.ts:561) --
\*   as long as one request is enough.  With more of them each carries the last chunk, and
\*   the other chunks never go to Jira.
\* * No entity has more keys than Jira takes, the last commit of a branch included, which
\*   is not measured itself (jira-client.ts:361); when a key is cut off anything the
\*   subscription shows a warning.
\* * A deployment has as many associations as fit and no fewer (transform-deployment.ts:271)
\*   -- as long as the issue keys and services alone do not pass the limit: then the room
\*   for commits is counted with services that were not sent, and commits are let through.
LimitsLoseNothing ==
  /\ Updated =>
       LET commits == IdsOf(ToSet(call.of.commits))
           requests == call.to.requests
           branches == SentTo("branches")
       IN  /\ \A i \in 1..Len(requests) : Len(requests[i].commits) <= COMMITS_PER_REQUEST
           /\ Cardinality(commits) <= COMMITS_PER_REQUEST =>
                /\ Len(requests) = 1
                /\ IdsOf(SentTo("commits")) = commits
                /\ Len(requests[1].commits) = Cardinality(commits)
           /\ \A e \in SentTo("commits") \cup branches \cup {b.lastCommit : b \in branches} :
                Len(e.keys) <= ISSUE_KEY_API_LIMIT
           /\ \/ call.to.warned
              \/ /\ SentTo("commits") \subseteq ToSet(call.of.commits)
                 /\ branches = ToSet(call.of.branches)
  /\ call.kind = "deployment" /\ call.done =>
       LET asked == call.of[1] + call.of[2] + call.of[3]
           goes == call.to.issues + call.to.services + call.to.commits
       IN  call.of[1] + call.of[2] <= MAX_ASSOCIATIONS_PER_ENTITY =>
             goes = Shorter(asked, MAX_ASSOCIATIONS_PER_ENTITY)
=============================================================================
