----------------------------- MODULE BuildPages -----------------------------
(***************************************************************************)
(* The build task of one repository (src/sync/build.ts): page after page   *)
(* of a list that GitHub keeps newest first, several pages at a time when  *)
(* a flag says so (src/sync/parallel-page-fetcher.ts), until a page without*)
(* a build that is recent enough.  The cursor of the last edge is stored   *)
(* by updateTaskStatusAndContinue (src/sync/installation.ts).              *)
(*                                                                         *)
(* Builds come and go while the task runs, also between the pages of one   *)
(* parallel fetch, which GitHub may answer in any order.                   *)
(***************************************************************************)
EXTENDS PageCursor, Sequences, FiniteSets

CONSTANTS
  Old,         \* builds older than fromDate when the task starts
  Recent,      \* the other builds that are there when it starts
  New,         \* bound: builds that may be added while it runs
  PageSizes,   \* values of BACKFILL_PAGE_SIZE
  Parallel,    \* values of NUMBER_OF_BUILD_PAGES_TO_FETCH_IN_PARALLEL
  MaxFailures, \* bound: failed fetches
  MaxDeletes   \* bound: builds deleted

ASSUME BuildsAssumption ==
  /\ IsFiniteSet(Old) /\ IsFiniteSet(Recent) /\ IsFiniteSet(New)
  /\ Old \cap Recent = {} /\ Old \cap New = {} /\ Recent \cap New = {}
ASSUME FlagsAssumption ==
  /\ PageSizes \subseteq PageSize
  /\ Parallel \subseteq Nat \ {0}
ASSUME BoundsAssumption == MaxFailures \in Nat /\ MaxDeletes \in Nat

VARIABLES
  list,       \* the builds on GitHub, newest first
  cursor,     \* buildCursor of the RepoSyncState
  status,     \* buildStatus
  fetch,      \* the pages being fetched: scaled cursor, how many, what came back
  sent,       \* builds sent to Jira
  spent,      \* failures and deletions so far, for the bounds
  disturbed   \* history: the list moved under the walk in a way it cannot bear

vars == <<list, cursor, status, fetch, sent, spent, disturbed>>

Build == Old \cup Recent \cup New

\* pages: how many; got: those that came back; edges: those with a recent build; builds:
\* what is on these, to be sent.
NoFetch == [cursor |-> PlainCursor(1), pages |-> 0, got |-> {}, edges |-> {}, builds |-> {}]

Pages(f) == f.cursor.pageNo..(f.cursor.pageNo + f.pages - 1)
Indices(p, perPage) == {i \in 1..Len(list) : (p - 1) * perPage < i /\ i <= p * perPage}
Page(p, perPage) == {list[i] : i \in Indices(p, perPage)}

\* The list is a listing of the builds that were there, the recent ones first.
Listing(s) ==
  /\ s \in Seq(Old \cup Recent)
  /\ \A b \in Old \cup Recent : \E i \in 1..Len(s) : s[i] = b
  /\ \A i, j \in 1..Len(s) : s[i] = s[j] => i = j
  /\ \A i, j \in 1..Len(s) : s[j] \in Recent /\ i < j => s[i] \in Recent

Listings == {s \in [1..Cardinality(Old \cup Recent) -> Old \cup Recent] : Listing(s)}

Init ==
  /\ list \in Listings
  /\ cursor = PlainCursor(1)
  /\ status = "pending"
  /\ fetch = NoFetch
  /\ sent = {}
  /\ spent = [failures |-> 0, deletes |-> 0]
  /\ disturbed = FALSE

\* getBuildTask: the cursor is scaled to today's page size.
StartFetch(perPage, pages) ==
  /\ status = "pending"
  /\ fetch.pages = 0
  /\ fetch' = [NoFetch EXCEPT !.cursor = Scale(cursor, perPage), !.pages = pages]
  /\ UNCHANGED <<list, cursor, status, sent, spent, disturbed>>

\* doGetBuildTask for one page.  Without a build that is recent enough
\* (areAllBuildsEarlierThanFromDate) it has no edges.
FetchOnePage(p) ==
  /\ p \in Pages(fetch) \ fetch.got
  /\ LET builds == Page(p, fetch.cursor.perPage)
         more == builds \cap (Recent \cup New) # {}
     IN  fetch' = [fetch EXCEPT !.got = @ \cup {p},
                                !.edges = IF more THEN @ \cup {p} ELSE @,
                                !.builds = IF more THEN @ \cup builds ELSE @]
  /\ UNCHANGED <<list, cursor, status, sent, spent, disturbed>>

IsLast(p, pages) == p \in pages /\ \A q \in pages : q <= p

\* Mutant: the page after all that were asked for, whatever has come back.
StoresWhenFirstArrives ==
  /\ fetch.pages > 0 /\ fetch.got # {}
  /\ fetch' = NoFetch
  /\ sent' = sent \cup fetch.builds
  /\ IF fetch.edges = {} THEN status' = "complete" /\ UNCHANGED cursor
     ELSE /\ cursor' = CopyWithPageNo(fetch.cursor, fetch.cursor.pageNo + fetch.pages)
          /\ UNCHANGED status
  /\ UNCHANGED <<list, spent, disturbed>>

\* All pages are here: the edges are put together in the order of the pages, their builds
\* sent to Jira, and the cursor of the last edge, the page after it, is stored.
StoreCursor ==
  /\ fetch.pages > 0 /\ fetch.got = Pages(fetch)
  /\ fetch' = NoFetch
  /\ sent' = sent \cup fetch.builds
  /\ \/ fetch.edges = {} /\ status' = "complete" /\ UNCHANGED cursor
     \/ \E p \in fetch.edges :
          /\ IsLast(p, fetch.edges)
          /\ cursor' = CopyWithPageNo(fetch.cursor, p + 1)
          /\ UNCHANGED status
  /\ UNCHANGED <<list, spent, disturbed>>

\* A page rejects, which fails the whole fetch, or Jira does, or the cursor cannot be
\* stored: it is all retried.
FetchFails ==
  /\ fetch.pages > 0
  /\ spent.failures < MaxFailures
  /\ spent' = [spent EXCEPT !.failures = @ + 1]
  /\ fetch' = NoFetch
  /\ \/ UNCHANGED sent
     \/ fetch.got = Pages(fetch) /\ sent' = sent \cup fetch.builds
  /\ UNCHANGED <<list, cursor, status, disturbed>>

\* A page came back before a page that comes ahead of it.
OutOfOrder == \E p, q \in Pages(fetch) : p < q /\ p \notin fetch.got /\ q \in fetch.got

\* A new build moves all others one place down, past a page boundary perhaps.
BuildIsAdded(b) ==
  /\ status = "pending"
  /\ \A i \in 1..Len(list) : list[i] # b
  /\ list' = <<b>> \o list
  /\ disturbed' = (disturbed \/ OutOfOrder)
  /\ UNCHANGED <<cursor, status, fetch, sent, spent>>

\* A deleted build moves all older ones up, onto a page that has been fetched perhaps.
BuildIsDeleted(i) ==
  /\ status = "pending"
  /\ spent.deletes < MaxDeletes
  /\ spent' = [spent EXCEPT !.deletes = @ + 1]
  /\ list' = [j \in 1..(Len(list) - 1) |-> IF j < i THEN list[j] ELSE list[j + 1]]
  /\ disturbed' = TRUE
  /\ UNCHANGED <<cursor, status, fetch, sent>>

FetchStep ==
  \/ \E perPage \in PageSizes, pages \in Parallel : StartFetch(perPage, pages)
  \/ \E p \in Pages(fetch) : FetchOnePage(p)
  \/ StoreCursor

Next ==
  \/ FetchStep
  \/ FetchFails
  \/ \E b \in New : BuildIsAdded(b)
  \/ \E i \in 1..Len(list) : BuildIsDeleted(i)

Spec == Init /\ [][Next]_vars

\* The messages of the backfill keep coming; nothing is assumed of builds and failures.
FairSpec == Spec /\ WF_vars(FetchStep)

-----------------------------------------------------------------------------
(* Properties. *)

TypeOK ==
  /\ list \in Seq(Build)
  /\ cursor \in Cursor
  /\ status \in {"pending", "complete"}
  /\ DOMAIN fetch = {"cursor", "pages", "got", "edges", "builds"}
  /\ fetch.cursor \in Cursor /\ fetch.pages \in Nat
  /\ fetch.got \subseteq Pages(fetch) /\ fetch.edges \subseteq fetch.got
  /\ fetch.builds \subseteq Build
  /\ sent \subseteq Build
  /\ spent \in [failures : 0..MaxFailures, deletes : 0..MaxDeletes]
  /\ disturbed \in BOOLEAN

\* "automatically scale themselves and that would avoid data loss"
\* (page-counter-cursor.ts:10): whatever the page size was from fetch to fetch, no build
\* ahead of the cursor is left out -- as long as no build is deleted, and none is added
\* while a page is here and one ahead of it is not.
NothingAheadOfCursorIsLost ==
  disturbed \/
    \A i \in 1..Len(list) : i <= ProcessedItems(cursor) /\ list[i] \in Recent => list[i] \in sent

\* With the cursor stored by the last page, a task that is complete has sent every
\* build that was there at its start and is recent enough.
CompleteMeansAllSent == status = "complete" /\ ~disturbed => Recent \subseteq sent

\* The cursor never goes back, although scaling rounds it down (installation.ts:149).
CursorMovesOn == [][cursor' # cursor => ProcessedItems(cursor') > ProcessedItems(cursor)]_vars

\* The task ends even if the page size changes before every fetch.
TaskEnds == <>(status = "complete")
=============================================================================
