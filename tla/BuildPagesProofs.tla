-------------------------- MODULE BuildPagesProofs --------------------------
(***************************************************************************)
(* Proofs about PageCursor, BuildPages and TaskPages: a change of the page *)
(* size never skips an item and never stops the walk, and a task that has  *)
(* completed undisturbed has sent every item it should; a task that was    *)
(* given up was given up for a reason.                                     *)
(***************************************************************************)
EXTENDS BuildPages, TaskPages, FiniteSetTheorems, WellFoundedInduction, TLAPS

-----------------------------------------------------------------------------
(* Arithmetic of pages. *)

LEMMA DivisionBounds ==
  ASSUME NEW x \in Nat, NEW n \in Nat \ {0}
  PROVE  /\ x \div n \in Nat
         /\ (x \div n) * n <= x
         /\ x < (x \div n + 1) * n
  BY SMT

LEMMA ProductsAreMonotonic ==
  ASSUME NEW a \in Nat, NEW b \in Nat, NEW n \in Nat, a <= b
  PROVE  /\ a * n \in Nat
         /\ a * n <= b * n
  BY SMT

LEMMA NextPageStarts ==
  ASSUME NEW p \in Nat, NEW n \in Nat
  PROVE  (p + 1) * n = p * n + n
  BY SMT

\* Every place of a list is on a page, and the page lies between any two page starts
\* that the place lies between.
LEMMA PlaceIsOnAPage ==
  ASSUME NEW i \in Nat \ {0}, NEW n \in Nat \ {0},
         NEW first \in Nat \ {0}, NEW last \in Nat,
         (first - 1) * n < i, i <= last * n
  PROVE  \E p \in first..last : (p - 1) * n < i /\ i <= p * n
  <1> DEFINE q == (i - 1) \div n
  <1>1. /\ q \in Nat
        /\ q * n <= i - 1
        /\ i - 1 < (q + 1) * n
    BY DivisionBounds
  <1>2. first - 1 <= q
    <2> SUFFICES ASSUME q + 1 <= first - 1 PROVE FALSE BY <1>1
    <2>1. (q + 1) * n <= (first - 1) * n
      BY <1>1, ProductsAreMonotonic
    <2> QED BY <1>1, <2>1, (first - 1) * n \in Nat, (q + 1) * n \in Nat
  <1>3. q + 1 <= last
    <2> SUFFICES ASSUME last <= q PROVE FALSE BY <1>1
    <2>1. last * n <= q * n
      BY <1>1, ProductsAreMonotonic
    <2> QED BY <1>1, <2>1, last * n \in Nat, q * n \in Nat
  <1>4. ((q + 1) - 1) * n < i /\ i <= (q + 1) * n
    BY <1>1, (q + 1) - 1 = q, q * n \in Nat, (q + 1) * n \in Nat
  <1>5. q + 1 \in first..last
    BY <1>1, <1>2, <1>3
  <1> HIDE DEF q
  <1> WITNESS q + 1 \in first..last
  <1> HIDE DEF q
  <1> QED BY <1>4

\* scale: the new page starts no later than the old one did, and less than a page of the
\* new size earlier, so nothing is skipped and a page from there goes past it.
THEOREM ScaleNeverSkips ==
  ASSUME NEW c \in Cursor, NEW n \in PageSize
  PROVE  /\ Scale(c, n) \in Cursor
         /\ Scale(c, n).perPage = n
         /\ ProcessedItems(Scale(c, n)) <= ProcessedItems(c)
         /\ ProcessedItems(c) < ProcessedItems(Scale(c, n)) + n
  <1>1. ProcessedItems(c) \in Nat
    BY ProductsAreMonotonic DEF ProcessedItems, Cursor, PageSize
  <1>2. CASE c.perPage = n
    BY <1>1, <1>2 DEF Scale, Cursor, PageSize
  <1>3. CASE c.perPage # n
    <2> DEFINE q == ProcessedItems(c) \div n
    <2>1. /\ q \in Nat
          /\ q * n <= ProcessedItems(c)
          /\ ProcessedItems(c) < (q + 1) * n
      BY <1>1, DivisionBounds DEF PageSize
    <2>2. Scale(c, n) = [pageNo |-> q + 1, perPage |-> n]
      BY <1>3 DEF Scale
    <2> HIDE DEF q
    <2>3. ProcessedItems(Scale(c, n)) = q * n
      BY <2>1, <2>2 DEF ProcessedItems
    <2>4. (q + 1) * n = q * n + n
      BY <2>1, NextPageStarts DEF PageSize
    <2> QED BY <2>1, <2>2, <2>3, <2>4 DEF Cursor, PageSize
  <1> QED BY <1>2, <1>3

-----------------------------------------------------------------------------
(* Types. *)

USE DEF PageSize

Fetch == [cursor : Cursor, pages : Nat, got : SUBSET Nat, edges : SUBSET Nat]

LEMMA PlainCursorType == PlainCursor(1) \in Cursor
  BY LegacyAssumption DEF PlainCursor, Cursor

LEMMA FetchType == TypeOK => fetch.got \subseteq Nat /\ fetch.edges \subseteq Nat
  BY DEF TypeOK, Pages, Cursor

LEMMA TypeInit == Init => TypeOK
  <1> SUFFICES ASSUME Init PROVE TypeOK OBVIOUS
  <1>1. list \in Seq(Build)
    <2>1. list \in Seq(Old \cup Recent) BY DEF Init, Listings, Listing
    <2> QED BY <2>1 DEF Build
  <1>2. cursor \in Cursor /\ fetch.cursor \in Cursor
    BY PlainCursorType DEF Init, NoFetch
  <1>3. /\ DOMAIN fetch = {"cursor", "pages", "got", "edges", "builds"}
        /\ fetch.pages = 0 /\ fetch.got = {} /\ fetch.edges = {} /\ fetch.builds = {}
    BY DEF Init, NoFetch
  <1>4. spent \in [failures : 0..MaxFailures, deletes : 0..MaxDeletes]
    BY BoundsAssumption DEF Init
  <1>5. status \in {"pending", "complete"} /\ sent \subseteq Build /\ disturbed \in BOOLEAN
    BY DEF Init
  <1> QED BY <1>1, <1>2, <1>3, <1>4, <1>5 DEF TypeOK

LEMMA TypeStep == TypeOK /\ [Next]_vars => TypeOK'
  <1> SUFFICES ASSUME TypeOK, [Next]_vars PROVE TypeOK' OBVIOUS
  <1> USE DEF TypeOK
  <1>0. NoFetch.cursor \in Cursor /\ NoFetch.pages = 0 /\ NoFetch.got = {} /\ NoFetch.edges = {}
        /\ NoFetch.builds = {}
        /\ DOMAIN NoFetch = {"cursor", "pages", "got", "edges", "builds"}
    BY PlainCursorType DEF NoFetch
  <1>1. ASSUME NEW perPage \in PageSizes, NEW pages \in Parallel, StartFetch(perPage, pages)
        PROVE TypeOK'
    <2>1. Scale(cursor, perPage) \in Cursor BY ScaleNeverSkips, FlagsAssumption
    <2>2. pages \in Nat BY FlagsAssumption
    <2>3. /\ fetch'.cursor = Scale(cursor, perPage) /\ fetch'.pages = pages
          /\ fetch'.got = {} /\ fetch'.edges = {} /\ fetch'.builds = {}
          /\ DOMAIN fetch' = {"cursor", "pages", "got", "edges", "builds"}
      BY <1>1 DEF StartFetch, NoFetch
    <2> QED BY <1>1, <2>1, <2>2, <2>3 DEF StartFetch
  <1>2. ASSUME NEW p \in Pages(fetch), FetchOnePage(p) PROVE TypeOK'
    <2>1. Page(p, fetch.cursor.perPage) \subseteq Build
      BY DEF Page, Indices
    <2>2. /\ fetch'.cursor = fetch.cursor /\ fetch'.pages = fetch.pages
          /\ fetch'.got = fetch.got \cup {p} /\ fetch'.edges \subseteq fetch.edges \cup {p}
          /\ DOMAIN fetch' = {"cursor", "pages", "got", "edges", "builds"}
      BY <1>2 DEF FetchOnePage
    <2>3. fetch'.builds \subseteq Build BY <1>2, <2>1 DEF FetchOnePage
    <2> QED BY <1>2, <2>2, <2>3 DEF FetchOnePage, Pages
  <1>3. CASE StoreCursor
    <2>1. status' \in {"pending", "complete"} BY <1>3 DEF StoreCursor
    <2>2. cursor' \in Cursor
      <3>1. ASSUME NEW p \in fetch.edges, cursor' = CopyWithPageNo(fetch.cursor, p + 1)
            PROVE cursor' \in Cursor
        <4>1. p \in Nat BY FetchType
        <4> QED BY <3>1, <4>1 DEF CopyWithPageNo, Cursor
      <3> QED BY <1>3, <3>1 DEF StoreCursor
    <2> QED BY <1>0, <1>3, <2>1, <2>2 DEF StoreCursor
  <1>4. CASE FetchFails
    <2>1. spent' \in [failures : 0..MaxFailures, deletes : 0..MaxDeletes]
      BY <1>4, BoundsAssumption DEF FetchFails
    <2> QED BY <1>0, <1>4, <2>1 DEF FetchFails
  <1>5. ASSUME NEW b \in New, BuildIsAdded(b) PROVE TypeOK'
    <2>1. list' \in Seq(Build) BY <1>5 DEF BuildIsAdded, Build
    <2> QED BY <1>5, <2>1 DEF BuildIsAdded, OutOfOrder, Pages
  <1>6. ASSUME NEW i \in 1..Len(list), BuildIsDeleted(i) PROVE TypeOK'
    <2>1. Len(list) \in Nat \ {0} /\ \A j \in 1..Len(list) : list[j] \in Build OBVIOUS
    <2>2. list' \in [1..(Len(list) - 1) -> Build]
      BY <1>6, <2>1 DEF BuildIsDeleted
    <2>3. list' \in Seq(Build)
      BY <2>1, <2>2
    <2>4. spent' \in [failures : 0..MaxFailures, deletes : 0..MaxDeletes]
      BY <1>6, BoundsAssumption DEF BuildIsDeleted
    <2> QED BY <1>6, <2>3, <2>4 DEF BuildIsDeleted, Pages
  <1>7. CASE UNCHANGED vars
    BY <1>7 DEF vars, Pages
  <1> QED BY <1>1, <1>2, <1>3, <1>4, <1>5, <1>6, <1>7 DEF Next, FetchStep

\* Types are kept (BuildPages!TypeOK).
THEOREM TypeCorrect == Spec => []TypeOK
  BY TypeInit, TypeStep, PTL DEF Spec

-----------------------------------------------------------------------------
(* What keeps the walk going: a fetch starts within a page of the cursor. *)

ScaleInv ==
  fetch.pages > 0 =>
    /\ ProcessedItems(fetch.cursor) <= ProcessedItems(cursor)
    /\ ProcessedItems(cursor) < ProcessedItems(fetch.cursor) + fetch.cursor.perPage

LEMMA ScaleInvInit == Init => ScaleInv
  BY DEF Init, NoFetch, ScaleInv

LEMMA ScaleInvStep == TypeOK /\ ScaleInv /\ [Next]_vars => ScaleInv'
  <1> SUFFICES ASSUME TypeOK, ScaleInv, [Next]_vars PROVE ScaleInv' OBVIOUS
  <1>1. ASSUME NEW perPage \in PageSizes, NEW pages \in Parallel, StartFetch(perPage, pages)
        PROVE ScaleInv'
    <2>1. perPage \in PageSize /\ cursor \in Cursor BY FlagsAssumption DEF TypeOK
    <2>2. fetch'.cursor = Scale(cursor, perPage) /\ cursor' = cursor
      BY <1>1 DEF StartFetch, NoFetch
    <2> QED BY <2>1, <2>2, ScaleNeverSkips DEF ScaleInv, ProcessedItems
  <1>2. ASSUME NEW p \in Pages(fetch), FetchOnePage(p) PROVE ScaleInv'
    <2>1. fetch'.cursor = fetch.cursor /\ fetch'.pages = fetch.pages /\ cursor' = cursor
      BY <1>2 DEF FetchOnePage, TypeOK
    <2> QED BY <2>1 DEF ScaleInv, ProcessedItems
  <1>3. CASE StoreCursor \/ FetchFails
    BY <1>3 DEF StoreCursor, FetchFails, NoFetch, ScaleInv
  <1>4. ASSUME NEW b \in New, BuildIsAdded(b) PROVE ScaleInv'
    BY <1>4 DEF BuildIsAdded, ScaleInv, ProcessedItems
  <1>5. ASSUME NEW i \in 1..Len(list), BuildIsDeleted(i) PROVE ScaleInv'
    BY <1>5 DEF BuildIsDeleted, ScaleInv, ProcessedItems
  <1>6. CASE UNCHANGED vars
    BY <1>6 DEF vars, ScaleInv, ProcessedItems
  <1> QED BY <1>1, <1>2, <1>3, <1>4, <1>5, <1>6 DEF Next, FetchStep

\* Where the page after a page that was fetched starts.
LEMMA NextPage ==
  ASSUME NEW c \in Cursor, NEW p \in Nat, c.pageNo <= p
  PROVE  /\ CopyWithPageNo(c, p + 1) \in Cursor
         /\ ProcessedItems(CopyWithPageNo(c, p + 1)) = p * c.perPage
         /\ ProcessedItems(c) + c.perPage <= p * c.perPage
         /\ p * c.perPage \in Nat
  <1>1. /\ c.pageNo \in Nat \ {0} /\ c.perPage \in Nat \ {0}
        /\ CopyWithPageNo(c, p + 1) = [pageNo |-> p + 1, perPage |-> c.perPage]
    BY DEF Cursor, CopyWithPageNo
  <1>2. ProcessedItems(c) + c.perPage = c.pageNo * c.perPage
    <2>1. c.pageNo - 1 \in Nat /\ (c.pageNo - 1) + 1 = c.pageNo BY <1>1
    <2> QED BY <1>1, <2>1, NextPageStarts DEF ProcessedItems
  <1>3. c.pageNo * c.perPage <= p * c.perPage /\ p * c.perPage \in Nat
    BY <1>1, ProductsAreMonotonic
  <1>4. ProcessedItems(CopyWithPageNo(c, p + 1)) = p * c.perPage
    BY <1>1, (p + 1) - 1 = p DEF ProcessedItems
  <1> QED BY <1>1, <1>2, <1>3, <1>4 DEF Cursor

LEMMA CursorStep == TypeOK /\ ScaleInv /\ [Next]_vars =>
    (cursor' # cursor => ProcessedItems(cursor') > ProcessedItems(cursor))
  <1> SUFFICES ASSUME TypeOK, ScaleInv, Next, cursor' # cursor
               PROVE  ProcessedItems(cursor') > ProcessedItems(cursor)
    BY DEF vars
  <1>1. StoreCursor
    BY DEF Next, FetchStep, StartFetch, FetchOnePage, FetchFails, BuildIsAdded, BuildIsDeleted
  <1>2. PICK p \in fetch.edges : cursor' = CopyWithPageNo(fetch.cursor, p + 1)
    BY <1>1 DEF StoreCursor
  <1>3. p \in Nat /\ fetch.cursor.pageNo <= p /\ fetch.pages > 0 /\ fetch.cursor \in Cursor
    BY <1>1 DEF TypeOK, Pages, StoreCursor, Cursor
  <1>4. ProcessedItems(cursor) \in Nat /\ ProcessedItems(fetch.cursor) \in Nat
        /\ fetch.cursor.perPage \in Nat
    BY <1>3, ProductsAreMonotonic DEF TypeOK, ProcessedItems, Cursor
  <1>5. ProcessedItems(cursor') = p * fetch.cursor.perPage
        /\ ProcessedItems(fetch.cursor) + fetch.cursor.perPage <= p * fetch.cursor.perPage
        /\ p * fetch.cursor.perPage \in Nat
    BY <1>2, <1>3, NextPage
  <1>6. ProcessedItems(cursor) < ProcessedItems(fetch.cursor) + fetch.cursor.perPage
    BY <1>3 DEF ScaleInv
  <1> QED BY <1>4, <1>5, <1>6

\* The cursor moves on whatever the page sizes are (BuildPages!CursorMovesOn).
THEOREM CursorAlwaysMovesOn == Spec => CursorMovesOn
  <1>1. Init => TypeOK /\ ScaleInv BY TypeInit, ScaleInvInit
  <1>2. TypeOK /\ ScaleInv /\ [Next]_vars => TypeOK' /\ ScaleInv'
    BY TypeStep, ScaleInvStep
  <1>3. TypeOK /\ ScaleInv /\ [Next]_vars =>
          [cursor' # cursor => ProcessedItems(cursor') > ProcessedItems(cursor)]_vars
    BY CursorStep
  <1> QED BY <1>1, <1>2, <1>3, PTL DEF Spec, CursorMovesOn

-----------------------------------------------------------------------------
(* What keeps builds from being left out, as long as nothing disturbs the walk. *)

\* The recent builds at these places have been sent, or at least fetched.
SentAt(places) == \A i \in places : list[i] \in Recent => list[i] \in sent
Reached == sent \cup fetch.builds
ReachedAt(places) == \A i \in places : list[i] \in Recent => list[i] \in Reached
Before(k) == {i \in 1..Len(list) : i <= k}
From(p, perPage) == {i \in 1..Len(list) : (p - 1) * perPage < i}

\* Everything ahead of the cursor is sent; a page that came back is sent; and where a page
\* had no recent build, nothing that comes after it is left to send.
LostInv ==
  ~disturbed =>
    /\ SentAt(Before(ProcessedItems(cursor)))
    /\ \A p \in fetch.got : ReachedAt(Indices(p, fetch.cursor.perPage))
    /\ \A p \in fetch.got \ fetch.edges : ReachedAt(From(p, fetch.cursor.perPage))
    /\ \A b \in Recent : \E i \in 1..Len(list) : list[i] = b
    /\ \A i, j \in 1..Len(list) :
         i < j /\ list[j] \in Recent \cup New => list[i] \in Recent \cup New
    /\ status = "complete" => Recent \subseteq sent

LEMMA LostInvInit == Init => LostInv
  <1> SUFFICES ASSUME Init PROVE LostInv OBVIOUS
  <1>1. /\ ProcessedItems(cursor) = 0 /\ fetch.got = {} /\ status = "pending"
    <2>1. cursor.pageNo = 1 /\ cursor.perPage \in Nat
      BY LegacyAssumption DEF Init, PlainCursor
    <2> QED BY <2>1 DEF Init, NoFetch, ProcessedItems
  <1>2. Listing(list) /\ list \in Seq(Old \cup Recent)
    BY DEF Init, Listings, Listing
  <1>3. Before(0) = {} BY DEF Before
  <1>4. \A i, j \in 1..Len(list) :
          i < j /\ list[j] \in Recent \cup New => list[i] \in Recent \cup New
    <2>1. \A j \in 1..Len(list) : list[j] \in Old \cup Recent BY <1>2
    <2> QED BY <1>2, <2>1, BuildsAssumption DEF Listing
  <1>5. \A b \in Recent : \E i \in 1..Len(list) : list[i] = b
    BY <1>2 DEF Listing
  <1> QED BY <1>1, <1>3, <1>4, <1>5 DEF LostInv, SentAt, ReachedAt

\* The place a build came from when another one was added at the top: on the same page,
\* or the last place of the page ahead of it.
LEMMA PlaceBeforeAdding ==
  ASSUME TypeOK, ScaleInv, LostInv, ~disturbed, ~OutOfOrder,
         NEW p \in fetch.got, NEW j \in 1..Len(list),
         (p - 1) * fetch.cursor.perPage <= j,
         list[j] \in Recent,
         j <= p * fetch.cursor.perPage \/ p \notin fetch.edges
  PROVE  list[j] \in Reached
  <1> DEFINE n == fetch.cursor.perPage
             first == fetch.cursor.pageNo
  <1>1. /\ n \in Nat \ {0} /\ first \in Nat \ {0} /\ p \in Nat /\ first <= p
        /\ fetch.pages > 0
    BY DEF TypeOK, Cursor, Pages
  <1>2. (p - 1) * n \in Nat
    <2>1. p - 1 \in Nat BY <1>1
    <2> HIDE DEF n
    <2> QED BY <1>1, <2>1, ProductsAreMonotonic
  <1>3. CASE (p - 1) * n < j
    BY <1>2, <1>3 DEF LostInv, ReachedAt, From, Indices
  <1>4. CASE (p - 1) * n = j /\ p = first
    <2>1. j = ProcessedItems(fetch.cursor) BY <1>4 DEF ProcessedItems
    <2>2. j <= ProcessedItems(cursor) BY <1>1, <2>1 DEF ScaleInv
    <2> QED BY <2>2 DEF LostInv, SentAt, Reached, Before
  <1>5. CASE (p - 1) * n = j /\ p # first
    <2>1. p - 1 \in Pages(fetch) /\ p \in Pages(fetch)
      BY <1>1, <1>5 DEF Pages, TypeOK
    <2>2. p - 1 \in fetch.got
      BY <2>1, <1>1 DEF OutOfOrder
    <2>3. ((p - 1) - 1) * n < j
      <3> DEFINE k == p - 2
      <3>1. k \in Nat /\ k + 1 = p - 1 /\ (p - 1) - 1 = k BY <1>1, <1>5
      <3> HIDE DEF k, n
      <3>2. (k + 1) * n = k * n + n /\ k * n \in Nat
        BY <1>1, <3>1, NextPageStarts, ProductsAreMonotonic
      <3> QED BY <1>1, <1>5, <3>1, <3>2
    <2>4. j \in Indices(p - 1, n)
      BY <1>5, <2>3 DEF Indices
    <2> QED BY <2>2, <2>4 DEF LostInv, ReachedAt
  <1> QED BY <1>2, <1>3, <1>4, <1>5

LEMMA LostInvStep == TypeOK /\ ScaleInv /\ LostInv /\ [Next]_vars => LostInv'
  <1> SUFFICES ASSUME TypeOK, ScaleInv, LostInv, [Next]_vars, ~disturbed' PROVE LostInv'
    BY DEF LostInv
  <1>0. ~disturbed
    BY DEF Next, FetchStep, StartFetch, FetchOnePage, StoreCursor, FetchFails,
           BuildIsAdded, BuildIsDeleted, vars, TypeOK
  <1> DEFINE n == fetch.cursor.perPage
             first == fetch.cursor.pageNo
  <1>1. ASSUME NEW perPage \in PageSizes, NEW pages \in Parallel, StartFetch(perPage, pages)
        PROVE LostInv'
    BY <1>0, <1>1 DEF StartFetch, NoFetch, LostInv, SentAt, ReachedAt, Before, ProcessedItems
  <1>2. ASSUME NEW p \in Pages(fetch), FetchOnePage(p) PROVE LostInv'
    <2>1. /\ fetch'.cursor = fetch.cursor /\ fetch'.got = fetch.got \cup {p}
          /\ fetch.edges \subseteq fetch'.edges
          /\ fetch.builds \subseteq fetch'.builds
          /\ UNCHANGED <<list, cursor, status, sent>>
      BY <1>2 DEF FetchOnePage, TypeOK
    <2>2. ReachedAt(Indices(p, n))'
      BY <1>2, <2>1 DEF FetchOnePage, ReachedAt, Reached, Page, Indices
    <2>3. ASSUME p \notin fetch'.edges PROVE ReachedAt(From(p, n))'
      <3>1. Page(p, n) \cap (Recent \cup New) = {}
        BY <1>2, <2>3 DEF FetchOnePage, TypeOK
      <3>2. n \in Nat \ {0} /\ p \in Nat \ {0} BY DEF TypeOK, Cursor, Pages
      <3>3. \A i \in From(p, n) : list[i] \notin Recent
        <4> SUFFICES ASSUME NEW i \in From(p, n), list[i] \in Recent PROVE FALSE OBVIOUS
        <4> DEFINE start == (p - 1) * n
                   k == start + 1
        <4>1. start \in Nat /\ p * n = start + n
          <5>1. p - 1 \in Nat /\ (p - 1) + 1 = p BY <3>2
          <5> HIDE DEF n
          <5> QED BY <3>2, <5>1, NextPageStarts, ProductsAreMonotonic
        <4>2. k \in 1..Len(list) /\ k <= i /\ i \in 1..Len(list)
          BY <4>1 DEF From
        <4>3. k \in Indices(p, n)
          BY <3>2, <4>1, <4>2 DEF Indices
        <4>4. list[k] \in Recent \cup New
          BY <1>0, <4>2 DEF LostInv
        <4> QED BY <3>1, <4>3, <4>4 DEF Page
      <3> QED BY <2>1, <3>3 DEF ReachedAt, From
    <2>4. \A q \in fetch.got : ReachedAt(Indices(q, n))'
      BY <1>0, <2>1 DEF LostInv, ReachedAt, Reached, Indices
    <2>5. \A q \in fetch.got \ fetch.edges : ReachedAt(From(q, n))'
      BY <1>0, <2>1 DEF LostInv, ReachedAt, Reached, From
    <2>6. SentAt(Before(ProcessedItems(cursor)))'
      BY <1>0, <2>1 DEF LostInv, SentAt, Before, ProcessedItems
    <2>7. fetch'.cursor.perPage = n BY <2>1
    <2>8. (\A q \in fetch.got : ReachedAt(Indices(q, fetch.cursor.perPage)))'
      BY <2>1, <2>2, <2>4, <2>7 DEF ReachedAt, Indices
    <2>9. (\A q \in fetch.got \ fetch.edges : ReachedAt(From(q, fetch.cursor.perPage)))'
      BY <2>1, <2>3, <2>5, <2>7 DEF ReachedAt, From
    <2> QED BY <1>0, <2>1, <2>6, <2>8, <2>9 DEF LostInv
  <1>3. CASE StoreCursor
    <2>1. /\ fetch' = NoFetch /\ fetch.pages > 0 /\ fetch.got = Pages(fetch)
          /\ list' = list /\ sent' = Reached /\ NoFetch.got = {}
      BY <1>3 DEF StoreCursor, NoFetch, Reached
    <2>2. /\ n \in Nat \ {0} /\ first \in Nat \ {0} /\ first \in fetch.got
          /\ ProcessedItems(fetch.cursor) = (first - 1) * n
          /\ (first - 1) * n <= ProcessedItems(cursor)
      BY <2>1 DEF TypeOK, Cursor, Pages, ScaleInv, ProcessedItems
    <2>3. SentAt(Before((first - 1) * n))
      <3>1. (first - 1) * n \in Nat /\ ProcessedItems(cursor) \in Nat
        <4>1. first - 1 \in Nat /\ cursor.pageNo - 1 \in Nat /\ cursor.perPage \in Nat
          BY <2>2 DEF TypeOK, Cursor
        <4> HIDE DEF n, first
        <4> QED BY <2>2, <4>1, ProductsAreMonotonic DEF ProcessedItems
      <3> QED BY <1>0, <2>2, <3>1 DEF LostInv, SentAt, Before
    <2>4. CASE fetch.edges = {}
      <3>1. ReachedAt(From(first, n))
        BY <1>0, <2>2, <2>4 DEF LostInv
      <3>2. ReachedAt(1..Len(list))
        BY <2>2, <2>3, <3>1 DEF SentAt, ReachedAt, Reached, Before, From
      <3>3. Recent \subseteq sent'
        BY <1>0, <2>1, <3>2 DEF LostInv, ReachedAt
      <3>4. cursor' = cursor BY <1>3, <2>4 DEF StoreCursor
      <3> QED BY <1>0, <2>1, <3>3, <3>4 DEF LostInv, SentAt, ReachedAt, Before, ProcessedItems
    <2>5. ASSUME NEW p \in fetch.edges, cursor' = CopyWithPageNo(fetch.cursor, p + 1),
                 status' = status
          PROVE  LostInv'
      <3>1. p \in Nat /\ first <= p /\ first..p \subseteq fetch.got
        BY <2>1 DEF TypeOK, Pages, Cursor
      <3>2. ProcessedItems(cursor') = p * n
        BY <2>5, <3>1, NextPage DEF TypeOK
      <3>3. ReachedAt(Before(p * n))
        <4> SUFFICES ASSUME NEW i \in Before(p * n), list[i] \in Recent PROVE list[i] \in Reached
          BY DEF ReachedAt
        <4>1. i \in Nat \ {0} /\ i \in 1..Len(list) /\ i <= p * n BY DEF Before
        <4>2. CASE i <= (first - 1) * n
          BY <2>3, <4>1, <4>2 DEF SentAt, Reached, Before
        <4>3. CASE (first - 1) * n < i
          <5> HIDE DEF n, first
          <5>1. PICK q \in first..p : (q - 1) * n < i /\ i <= q * n
            BY <2>2, <3>1, <4>1, <4>3, PlaceIsOnAPage
          <5>2. i \in Indices(q, n) /\ q \in fetch.got
            BY <3>1, <4>1, <5>1 DEF Indices
          <5> QED BY <1>0, <5>2 DEF LostInv, ReachedAt, n
        <4> QED BY <2>2, <4>1, <4>2, <4>3
      <3> QED BY <1>0, <2>1, <2>5, <3>2, <3>3 DEF LostInv, SentAt, ReachedAt, Reached, Before
    <2> QED BY <1>3, <2>4, <2>5 DEF StoreCursor
  <1>4. CASE FetchFails
    BY <1>0, <1>4 DEF FetchFails, NoFetch, LostInv, SentAt, ReachedAt, Before, ProcessedItems
  <1>5. ASSUME NEW b \in New, BuildIsAdded(b) PROVE LostInv'
    <2>1. /\ ~OutOfOrder /\ status = "pending" /\ UNCHANGED <<cursor, status, fetch, sent>>
      BY <1>5 DEF BuildIsAdded
    <2>2. /\ list \in Seq(Build) /\ list' = <<b>> \o list /\ b \notin Recent
      BY <1>5, BuildsAssumption DEF BuildIsAdded, TypeOK
    <2>3. /\ Len(list') = Len(list) + 1 /\ Len(list) \in Nat /\ list'[1] = b
          /\ \A i \in 2..Len(list') : list'[i] = list[i - 1] /\ i - 1 \in 1..Len(list)
      BY <2>2
    <2>4. SentAt(Before(ProcessedItems(cursor)))'
      <3>1. ProcessedItems(cursor) \in Nat
        <4>1. cursor.pageNo - 1 \in Nat /\ cursor.perPage \in Nat BY DEF TypeOK, Cursor
        <4> QED BY <4>1, ProductsAreMonotonic DEF ProcessedItems
      <3>2. ProcessedItems(cursor') = ProcessedItems(cursor) BY <2>1
      <3> SUFFICES ASSUME NEW i \in 1..Len(list'), i <= ProcessedItems(cursor), list'[i] \in Recent
                   PROVE  list'[i] \in sent
        BY <2>1, <3>2 DEF SentAt, Before
      <3>3. i \in 2..Len(list') BY <2>2, <2>3
      <3>4. i - 1 <= ProcessedItems(cursor) BY <3>1
      <3> QED BY <1>0, <2>3, <3>3, <3>4 DEF LostInv, SentAt, Before
    <2>5. ASSUME NEW p \in fetch.got PROVE ReachedAt(Indices(p, n))'
      <3>0. p \in Nat /\ p - 1 \in Nat /\ n \in Nat
        BY <2>5 DEF TypeOK, Pages, Cursor
      <3> SUFFICES ASSUME NEW i \in 1..Len(list'), (p - 1) * n < i, i <= p * n, list'[i] \in Recent
                   PROVE  list'[i] \in Reached
        BY <2>1 DEF ReachedAt, Reached, Indices
      <3>1. i \in 2..Len(list') BY <2>2, <2>3
      <3>2. (p - 1) * n \in Nat /\ p * n \in Nat
        <4> HIDE DEF n
        <4> QED BY <3>0, ProductsAreMonotonic
      <3>3. (p - 1) * n <= i - 1 /\ i - 1 <= p * n BY <3>2
      <3> QED BY <1>0, <2>1, <2>3, <3>1, <3>3, PlaceBeforeAdding
    <2>6. ASSUME NEW p \in fetch.got \ fetch.edges PROVE ReachedAt(From(p, n))'
      <3> SUFFICES ASSUME NEW i \in 1..Len(list'), (p - 1) * n < i, list'[i] \in Recent
                   PROVE  list'[i] \in Reached
        BY <2>1 DEF ReachedAt, Reached, From
      <3>1. i \in 2..Len(list') BY <2>2, <2>3
      <3>2. (p - 1) * n \in Nat
        <4>1. p - 1 \in Nat /\ n \in Nat BY DEF TypeOK, Pages, Cursor
        <4> HIDE DEF n
        <4> QED BY <4>1, ProductsAreMonotonic
      <3>3. (p - 1) * n <= i - 1 BY <3>2
      <3> QED BY <1>0, <2>1, <2>3, <3>1, <3>3, PlaceBeforeAdding
    <2>7. \A c \in Recent : \E i \in 1..Len(list') : list'[i] = c
      <3> SUFFICES ASSUME NEW c \in Recent PROVE \E i \in 1..Len(list') : list'[i] = c OBVIOUS
      <3>1. PICK i \in 1..Len(list) : list[i] = c BY <1>0 DEF LostInv
      <3>2. i + 1 \in 2..Len(list') /\ (i + 1) - 1 = i BY <2>3
      <3>3. list'[i + 1] = c BY <2>3, <3>1, <3>2
      <3>4. i + 1 \in 1..Len(list') BY <3>2
      <3> QED BY <3>3, <3>4
    <2>8. ASSUME NEW i \in 1..Len(list'), NEW j \in 1..Len(list'), i < j,
                 list'[j] \in Recent \cup New
          PROVE  list'[i] \in Recent \cup New
      <3>1. CASE i = 1 BY <2>3, <3>1
      <3>2. CASE i # 1
        <4>1. i \in 2..Len(list') /\ j \in 2..Len(list') BY <2>3, <2>8, <3>2
        <4> QED BY <1>0, <2>3, <2>8, <4>1 DEF LostInv
      <3> QED BY <3>1, <3>2
    <2> QED BY <2>1, <2>4, <2>5, <2>6, <2>7, <2>8 DEF LostInv
  <1>6. ASSUME NEW i \in 1..Len(list), BuildIsDeleted(i) PROVE LostInv'
    BY <1>6 DEF BuildIsDeleted
  <1>7. CASE UNCHANGED vars
    BY <1>0, <1>7 DEF vars, LostInv, SentAt, ReachedAt, Reached, Before, From, Indices, ProcessedItems
  <1> QED BY <1>1, <1>2, <1>3, <1>4, <1>5, <1>6, <1>7 DEF Next, FetchStep

LEMMA Strengthened == Spec => [](TypeOK /\ ScaleInv /\ LostInv)
  <1>1. Init => TypeOK /\ ScaleInv /\ LostInv BY TypeInit, ScaleInvInit, LostInvInit
  <1>2. TypeOK /\ ScaleInv /\ LostInv /\ [Next]_vars => TypeOK' /\ ScaleInv' /\ LostInv'
    BY TypeStep, ScaleInvStep, LostInvStep
  <1> QED BY <1>1, <1>2, PTL DEF Spec

\* Nothing ahead of the cursor is lost (BuildPages!NothingAheadOfCursorIsLost).
THEOREM NothingIsLost == Spec => []NothingAheadOfCursorIsLost
  <1>1. LostInv => NothingAheadOfCursorIsLost
    BY DEF LostInv, SentAt, Before, NothingAheadOfCursorIsLost
  <1> QED BY <1>1, Strengthened, PTL

\* A complete task has sent all it should (BuildPages!CompleteMeansAllSent).
THEOREM CompleteTaskHasSentAll == Spec => []CompleteMeansAllSent
  <1>1. LostInv => CompleteMeansAllSent
    BY DEF LostInv, CompleteMeansAllSent
  <1> QED BY <1>1, Strengthened, PTL

-----------------------------------------------------------------------------
(* TaskPages: sets of items and what is newer than an item. *)

LEMMA LeastItem ==
  ASSUME NEW S \in SUBSET Nat, S # {}
  PROVE  Oldest(S) \in S /\ \A y \in S : Oldest(S) <= y
<1> DEFINE Less == OpToRel(<, Nat)
<1>1. IsWellFoundedOn(Less, Nat)
  BY NatLessThanWellFounded
<1>2. PICK x \in S : \A y \in S : ~(<<y, x>> \in Less)
  <2> HIDE DEF Less
  <2> QED BY <1>1, WFMin
<1>3. ASSUME NEW y \in S PROVE x <= y
  <2>1. ~(<<y, x>> \in Less)
    BY <1>2
  <2>2. ~(y < x)
    BY <2>1 DEF OpToRel
  <2> QED BY <2>2
<1> QED BY <1>2, <1>3 DEF Oldest

LEMMA GreatestItem ==
  ASSUME NEW S \in SUBSET Item, S # {}
  PROVE  \E x \in S : \A y \in S : x >= y
<1> DEFINE T == {MaxItem - x : x \in S}
<1>1. T \in SUBSET Nat /\ T # {}
  <2>1. \A x \in S : MaxItem - x \in Nat
    BY WalksAssumption DEF Item
  <2> QED BY <2>1
<1>2. Oldest(T) \in T /\ \A y \in T : Oldest(T) <= y
  <2> HIDE DEF T
  <2> QED BY <1>1, LeastItem
<1>3. PICK x \in S : Oldest(T) = MaxItem - x
  BY <1>2
<1>4. \A y \in S : MaxItem - x <= MaxItem - y
  BY <1>2, <1>3
<1> QED BY <1>4, WalksAssumption DEF Item

LEMMA ItemFacts == MaxItem \in Nat /\ Item \subseteq Nat \ {0} /\ \A i \in Item : i <= MaxItem
BY WalksAssumption DEF Item

LEMMA ItemsAreFinite == \A S \in SUBSET Item : IsFiniteSet(S)
<1>1. IsFiniteSet(Item)
  BY ItemFacts, FS_Interval DEF Item
<1> QED BY <1>1, FS_Subset

\* Fewer items are ahead of a newer one.
LEMMA AheadFacts ==
  ASSUME NEW S \in SUBSET Item, NEW i \in Item
  PROVE  /\ Ahead(i, S) \in Nat
         /\ \A j \in Item : j >= i => Ahead(j, S) <= Ahead(i, S)
         /\ \A T \in SUBSET S : Ahead(i, T) <= Ahead(i, S)
<1> DEFINE A(j, U) == {k \in U : k > j}
<1>1. \A U \in SUBSET S, j \in Item : IsFiniteSet(A(j, U)) /\ Cardinality(A(j, U)) \in Nat
  BY ItemsAreFinite, FS_CardinalityType
<1>2. ASSUME NEW j \in Item, j >= i PROVE A(j, S) \subseteq A(i, S)
  <2>1. \A k \in S : k \in Nat /\ j \in Nat /\ i \in Nat
    BY ItemFacts
  <2> QED BY <1>2, <2>1
<1>3. ASSUME NEW T \in SUBSET S PROVE A(i, T) \subseteq A(i, S)
  OBVIOUS
<1> HIDE DEF A
<1>4. \A j \in Item : j >= i => Cardinality(A(j, S)) <= Cardinality(A(i, S))
  BY <1>1, <1>2, FS_Subset
<1>5. \A T \in SUBSET S : Cardinality(A(i, T)) <= Cardinality(A(i, S))
  BY <1>1, <1>3, FS_Subset
<1> QED BY <1>1, <1>4, <1>5 DEF A, Ahead

\* A page of the newest has every item that is newer than one it has, and is not empty
\* unless there is nothing.
LEMMA NewestFacts ==
  ASSUME NEW S \in SUBSET Item, NEW n \in PageSize
  PROVE  /\ Newest(S, n) \subseteq S
         /\ \A i \in Newest(S, n), j \in S : j >= i => j \in Newest(S, n)
         /\ S # {} => \E i \in Newest(S, n) : \A j \in S : i >= j
<1>1. Newest(S, n) \subseteq S
  BY DEF Newest
<1>2. ASSUME NEW i \in Newest(S, n), NEW j \in S, j >= i PROVE j \in Newest(S, n)
  <2>1. i \in Item /\ j \in Item /\ Ahead(i, S) < n
    BY <1>1 DEF Newest
  <2>2. Ahead(j, S) <= Ahead(i, S) /\ Ahead(j, S) \in Nat /\ Ahead(i, S) \in Nat
    BY <1>2, <2>1, AheadFacts
  <2> QED BY <2>1, <2>2 DEF Newest, PageSize
<1>3. ASSUME S # {} PROVE \E i \in Newest(S, n) : \A j \in S : i >= j
  <2>1. PICK i \in S : \A j \in S : i >= j
    BY <1>3, GreatestItem
  <2>2. {j \in S : j > i} = {}
    <3>1. \A j \in S : j \in Nat /\ i \in Nat
      BY ItemFacts
    <3> QED BY <2>1, <3>1
  <2>3. Ahead(i, S) = 0
    BY <2>2, FS_EmptySet DEF Ahead
  <2>4. i \in Newest(S, n)
    BY <2>3 DEF Newest, PageSize
  <2> QED BY <2>1, <2>4
<1> QED BY <1>1, <1>2, <1>3

\* Every place up to that of an item is the place of an item that is as new.
LEMMA PlacesAreTaken ==
  ASSUME NEW S \in SUBSET Item, NEW i \in S, NEW r \in Nat, r <= Ahead(i, S)
  PROVE  \E k \in S : k >= i /\ Ahead(k, S) = r
<1> DEFINE T == {k \in S : k >= i /\ Ahead(k, S) >= r}
<1>1. PICK k \in T : \A y \in T : k >= y
  <2>1. T \in SUBSET Item /\ i \in T
    <3>1. i \in Nat /\ Ahead(i, S) \in Nat
      BY AheadFacts, ItemFacts
    <3>2. i >= i /\ Ahead(i, S) >= r
      BY <3>1
    <3> QED BY <3>2
  <2> HIDE DEF T
  <2> QED BY <2>1, GreatestItem
<1>2. k \in S /\ k >= i /\ Ahead(k, S) >= r /\ Ahead(k, S) \in Nat
  BY <1>1, AheadFacts
<1>3. SUFFICES ASSUME Ahead(k, S) > r PROVE FALSE
  BY <1>2
<1> DEFINE N == {j \in S : j > k}
<1>4. N \in SUBSET Nat /\ N \subseteq Item /\ N # {}
  <2>1. Cardinality(N) # 0
    BY <1>2, <1>3 DEF Ahead
  <2>2. N \subseteq Item /\ Item \subseteq Nat
    BY ItemFacts
  <2> HIDE DEF N
  <2> QED BY <2>1, <2>2, FS_EmptySet
<1>5. Oldest(N) \in N /\ \A y \in N : Oldest(N) <= y
  <2> HIDE DEF N
  <2> QED BY <1>4, LeastItem
<1> DEFINE m == Oldest(N)
<1>6. m \in S /\ m > k /\ m \in Item
  BY <1>5
<1>7. N = {j \in S : j > m} \cup {m} /\ m \notin {j \in S : j > m}
  <2>1. \A j \in S : j \in Nat
    BY ItemFacts
  <2>2. m \in S /\ m > k /\ k \in S
    BY <1>2, <1>6
  <2>3. \A y \in N : m <= y
    BY <1>5
  <2> HIDE DEF m
  <2> QED BY <2>1, <2>2, <2>3
<1>8. Cardinality(N) = Ahead(m, S) + 1
  <2>1. IsFiniteSet({j \in S : j > m})
    BY ItemsAreFinite
  <2> HIDE DEF m, N
  <2> QED BY <1>7, <2>1, FS_AddElement DEF Ahead
<1>9. Ahead(k, S) = Ahead(m, S) + 1 /\ Ahead(m, S) \in Nat
  BY <1>6, <1>8, AheadFacts DEF Ahead
<1>10. m \in T
  BY <1>2, <1>3, <1>6, <1>9 DEF Item
<1>11. k >= m
  BY <1>1, <1>10
<1> QED BY <1>2, <1>6, <1>11 DEF Item

-----------------------------------------------------------------------------
(* TaskPages: types. *)

Walked == [after : Nat, page : Cursor]
Told ==
  [lasting : SUBSET Item, shifted : BOOLEAN, gone : BOOLEAN, refused : BOOLEAN, strikes : Nat,
   blind : SUBSET Item, unsaved : BOOLEAN]

PagesTypeOK ==
  /\ task \in Tasks /\ from \in Nat /\ there \subseteq Item
  /\ stored \in Walked
  /\ taskStatus \in {"pending", "complete", "failed"}
  /\ delivered \subseteq Item
  /\ attempt \in [count : Nat, queries : Nat]
  /\ ghost \in Told

LEMMA PagesTypeInit == PagesInit => PagesTypeOK
<1> SUFFICES ASSUME PagesInit PROVE PagesTypeOK
  OBVIOUS
<1>1. there \subseteq Item /\ from \in Nat
  BY WalksAssumption DEF PagesInit, Item
<1>2. stored \in Walked
  BY PlainCursorType, WalksAssumption DEF PagesInit, Walked
<1>3. ghost \in Told
  BY <1>1 DEF PagesInit, NoHistory, Told
<1> QED BY <1>1, <1>2, <1>3 DEF PagesInit, PagesTypeOK

\* What a task returns is on GitHub.
LEMMA EdgesAreItems ==
  ASSUME PagesTypeOK, NEW perPage \in Sizes
  PROVE  Edges(perPage) \subseteq there
BY DEF Edges, AllCommits, AllBranches, RecentPullRequests, RecentDeployments, RecentAlerts,
       UnlessAllEarlier, CommitsQuery, BranchesQuery, PullRequestsQuery, DeploymentsQuery,
       AlertsQuery, PageAfter, NumberedPage, Newest, RecentItems

\* The cursor that a page of items leads to.
LEMMA NextCursorFacts ==
  ASSUME PagesTypeOK, NEW perPage \in Sizes, NEW edges \in SUBSET Item, edges # {}
  PROVE  /\ NextCursor(edges, perPage) \in Walked
         /\ task \notin AlertTasks => NextCursor(edges, perPage).after = Oldest(edges)
         /\ task \in AlertTasks =>
              ProcessedItems(NextCursor(edges, perPage).page) =
                ProcessedItems(Scale(stored.page, perPage)) + perPage
<1>1. perPage \in PageSize /\ stored.page \in Cursor /\ stored.after \in Nat
  BY WalksAssumption DEF PagesTypeOK, Walked
<1>2. CASE task \notin AlertTasks
  <2>1. Oldest(edges) \in Nat
    <3>1. edges \in SUBSET Nat
      BY ItemFacts
    <3> QED BY <3>1, LeastItem
  <2>2. NextCursor(edges, perPage) = [stored EXCEPT !.after = Oldest(edges)]
    BY <1>2 DEF NextCursor
  <2> QED BY <1>2, <2>1, <2>2 DEF PagesTypeOK, Walked
<1>3. CASE task \in AlertTasks
  <2> DEFINE scaled == Scale(stored.page, perPage)
             next == CopyWithPageNo(scaled, scaled.pageNo + 1)
  <2>1. scaled \in Cursor /\ scaled.perPage = perPage
    BY <1>1, ScaleNeverSkips
  <2>2. NextCursor(edges, perPage) = [stored EXCEPT !.page = next]
    BY <1>3 DEF NextCursor
  <2> HIDE DEF scaled
  <2>3. next \in Cursor /\ next.pageNo = scaled.pageNo + 1 /\ next.perPage = perPage
    BY <2>1 DEF Cursor, CopyWithPageNo
  <2> HIDE DEF next
  <2>4. NextCursor(edges, perPage) \in Walked /\ NextCursor(edges, perPage).page = next
    BY <1>1, <2>2, <2>3 DEF PagesTypeOK, Walked
  <2>5. ProcessedItems(next) = ProcessedItems(scaled) + perPage
    <3>1. scaled.pageNo \in Nat \ {0} /\ perPage \in Nat \ {0}
      BY <1>1, <2>1 DEF Cursor
    <3>2. ((scaled.pageNo - 1) + 1) * perPage = (scaled.pageNo - 1) * perPage + perPage
      BY <3>1, NextPageStarts
    <3>3. (scaled.pageNo - 1) + 1 = (scaled.pageNo + 1) - 1
      BY <3>1
    <3> QED BY <2>1, <2>3, <3>2, <3>3 DEF ProcessedItems
  <2> QED BY <1>3, <2>4, <2>5 DEF scaled
<1> QED BY <1>2, <1>3

\* What a fetch changes.
LEMMA FetchFacts ==
  ASSUME PagesTypeOK, NEW perPage \in Sizes, FetchPage(perPage)
  PROVE  LET edges == Edges(perPage)
             found == SuccessfulDeployments(perPage)
         IN  /\ taskStatus = "pending" /\ UNCHANGED <<task, from, there>>
             /\ taskStatus' = IF edges = {} THEN "complete" ELSE "pending"
             /\ attempt' = [count |-> 1, queries |-> 1]
             /\ stored' = IF edges = {} THEN stored ELSE NextCursor(edges, perPage)
             /\ delivered' = delivered \cup edges
             /\ ghost'.lasting = ghost.lasting /\ ghost'.shifted = ghost.shifted
             /\ ghost'.gone = ghost.gone /\ ghost'.refused = ghost.refused /\ ghost'.strikes = 0
             /\ ghost'.unsaved = (ghost.unsaved \/ ~(found \subseteq cached'))
             /\ ghost'.blind = IF task = "deployment"
                               THEN ghost.blind \cup
                                    {i \in edges : ~(LastSuccess(i, perPage) \subseteq cached')}
                               ELSE ghost.blind
             /\ ghost' \in Told
<1> DEFINE edges == Edges(perPage)
           found == SuccessfulDeployments(perPage)
           blind == IF task = "deployment"
                    THEN ghost.blind \cup {i \in edges : ~(LastSuccess(i, perPage) \subseteq cached')}
                    ELSE ghost.blind
           unsaved == ghost.unsaved \/ ~(found \subseteq cached')
<1>1. /\ taskStatus = "pending" /\ UNCHANGED <<task, from, there>>
      /\ taskStatus' = IF edges = {} THEN "complete" ELSE "pending"
      /\ attempt' = [count |-> 1, queries |-> 1]
      /\ stored' = IF edges = {} THEN stored ELSE NextCursor(edges, perPage)
      /\ delivered' = delivered \cup edges
  BY DEF FetchPage, Settles
<1>2. ghost' = [ghost EXCEPT !.strikes = 0, !.unsaved = unsaved, !.blind = blind]
  <2>1. ghost' = [ghost EXCEPT
             !.strikes = 0,
             !.unsaved = @ \/ ~(found \subseteq cached'),
             !.blind = IF task = "deployment"
                       THEN @ \cup {i \in edges : ~(LastSuccess(i, perPage) \subseteq cached')}
                       ELSE @]
    BY DEF FetchPage
  <2> QED BY <2>1
<1>3. blind \subseteq Item /\ unsaved \in BOOLEAN
  BY EdgesAreItems DEF PagesTypeOK, Told
<1> HIDE DEF blind, unsaved
<1>4. /\ ghost'.lasting = ghost.lasting /\ ghost'.shifted = ghost.shifted
      /\ ghost'.gone = ghost.gone /\ ghost'.refused = ghost.refused /\ ghost'.strikes = 0
      /\ ghost'.unsaved = unsaved /\ ghost'.blind = blind /\ ghost' \in Told
  BY <1>2, <1>3 DEF PagesTypeOK, Told
<1> QED BY <1>1, <1>4 DEF blind, unsaved

\* The answers, field by field.
LEMMA AnswerFacts ==
  ASSUME NEW code, NEW says
  PROVE  LET a == Answer(code, says)
         IN  /\ a.status = code /\ a.says = says /\ a.errors = {}
             /\ a.spent <=> says = "rateLimit"
             /\ a.sso <=> says = "sso"
BY DEF Answer

LEMMA ErrorsFacts ==
  ASSUME NEW type, NEW says
  PROVE  LET a == Errors(type, says)
         IN  /\ a.status = 200 /\ a.errors = {[type |-> type, says |-> says]}
             /\ a.sso <=> says = "sso"
BY DEF Errors, Answer

LEMMA RestFacts ==
  ASSUME NEW situation \in Situations
  PROVE  LET a == RestAnswer(situation)
         IN  /\ a.status = CASE situation = "timeout"    -> 408
                             [] situation = "network"    -> 0
                             [] situation = "notFound"   -> 404
                             [] situation = "legal"      -> 451
                             [] situation = "badGateway" -> 502
                             [] OTHER                    -> 403
             /\ a.says = situation /\ a.errors = {}
             /\ a.spent <=> situation = "rateLimit"
             /\ a.sso <=> situation = "sso"
<1> DEFINE n == CASE situation = "timeout"    -> 408
                  [] situation = "network"    -> 0
                  [] situation = "notFound"   -> 404
                  [] situation = "legal"      -> 451
                  [] situation = "badGateway" -> 502
                  [] OTHER                    -> 403
<1>1. RestAnswer(situation) = Answer(n, situation)
  BY DEF RestAnswer
<1> HIDE DEF n
<1>2. LET a == RestAnswer(situation)
      IN  /\ a.status = n /\ a.says = situation /\ a.errors = {}
          /\ a.spent <=> situation = "rateLimit"
          /\ a.sso <=> situation = "sso"
  BY <1>1, AnswerFacts
<1> QED BY <1>2 DEF n

\* What becomes of an error: for each situation as GitHub tells of it by either API.
LEMMA OutcomeFacts ==
  ASSUME NEW situation \in Situations, NEW last \in BOOLEAN,
         NEW error \in {HandleFailedRequest(RestAnswer(situation)), GraphQLErrorOf(GraphQLAnswer(situation))}
  PROVE  LET outcome == HandleTaskError(error, last)
         IN  /\ outcome \in {"failed", "complete", "rescheduled", "retried"}
             /\ situation = "rateLimit" => outcome = "rescheduled"
             /\ outcome = "failed" => situation = "permission" \/ last
             /\ outcome = "retried" => ~last
             /\ outcome = "complete" => situation \in Gone
<1>1. HandleFailedRequest(RestAnswer(situation)) =
        CASE situation = "timeout" -> "timeout"
          [] situation = "network" -> "axios"
          [] situation = "rateLimit" -> "rateLimiting"
          [] situation = "ipAllowList" -> "blockedIp"
          [] situation = "permission" -> "invalidPermissions"
          [] situation = "sso" -> "ssoLogin"
          [] situation = "notFound" -> "notFound"
          [] OTHER -> "error"
  BY RestFacts DEF HandleFailedRequest
<1>2. GraphQLErrorOf(GraphQLAnswer(situation)) =
        CASE situation = "timeout" -> "timeout"
          [] situation = "network" -> "axios"
          [] situation \in {"badGateway", "legal"} -> "error"
          [] situation = "rateLimit" -> "rateLimiting"
          [] situation = "ipAllowList" -> "blockedIp"
          [] situation = "permission" -> "invalidPermissions"
          [] situation = "sso" -> "ssoLogin"
          [] situation = "notFound" -> "notFound"
          [] OTHER -> "graphQL"
  <2>1. CASE situation \in {"timeout", "network", "badGateway", "legal"}
    <3>1. GraphQLAnswer(situation) = RestAnswer(situation)
      BY <2>1 DEF GraphQLAnswer
    <3>2. GraphQLErrorOf(GraphQLAnswer(situation)) = HandleFailedRequest(RestAnswer(situation))
      BY <3>1, RestFacts DEF GraphQLErrorOf
    <3> QED BY <1>1, <2>1, <3>2
  <2>2. CASE situation \notin {"timeout", "network", "badGateway", "legal"}
    <3> DEFINE type == CASE situation = "rateLimit"    -> "RATE_LIMITED"
                         [] situation = "notFound"     -> "NOT_FOUND"
                         [] situation = "nodeLimit"    -> "MAX_NODE_LIMIT_EXCEEDED"
                         [] situation = "changedFiles" -> "SERVICE_UNAVAILABLE"
                         [] OTHER                      -> "FORBIDDEN"
    <3>1. GraphQLAnswer(situation) = Errors(type, situation)
      BY <2>2 DEF GraphQLAnswer
    <3>2. /\ GraphQLAnswer(situation).errors = {[type |-> type, says |-> situation]}
          /\ GraphQLAnswer(situation).sso <=> situation = "sso"
      <4> HIDE DEF type
      <4> QED BY <3>1, ErrorsFacts
    <3> DEFINE g == GraphQLAnswer(situation)
               told(t, says) == \E e \in g.errors : e.type = t /\ e.says \in says
               some(t, says) == type = t /\ situation \in says
    <3>3. \A t, says : told(t, says) <=> some(t, says)
      <4> HIDE DEF type
      <4> QED BY <3>2
    <3>4. g.errors # {}
      BY <3>2
    <3>5. /\ told("RATE_LIMITED", Situations) <=> situation = "rateLimit"
          /\ told("FORBIDDEN", {"permission"}) <=> situation = "permission"
          /\ told("FORBIDDEN", {"ipAllowList"}) <=> situation = "ipAllowList"
          /\ (told("FORBIDDEN", Situations) /\ g.sso) <=> situation = "sso"
          /\ told("NOT_FOUND", Situations) <=> situation = "notFound"
      <4> HIDE DEF told, g
      <4> QED BY <3>2, <3>3, <2>2 DEF g, Situations, Passing, Gone, Standing
    <3>6. GraphQLErrorOf(g) =
            CASE g.errors = {} -> HandleFailedRequest(g)
              [] told("RATE_LIMITED", Situations) -> "rateLimiting"
              [] told("FORBIDDEN", {"permission"}) -> "invalidPermissions"
              [] told("FORBIDDEN", {"ipAllowList"}) -> "blockedIp"
              [] told("FORBIDDEN", Situations) /\ g.sso -> "ssoLogin"
              [] told("NOT_FOUND", Situations) -> "notFound"
              [] OTHER -> "graphQL"
      <4> HIDE DEF g
      <4> QED BY DEF GraphQLErrorOf
    <3> HIDE DEF told, g
    <3>7. GraphQLErrorOf(g) =
            CASE situation = "rateLimit" -> "rateLimiting"
              [] situation = "permission" -> "invalidPermissions"
              [] situation = "ipAllowList" -> "blockedIp"
              [] situation = "sso" -> "ssoLogin"
              [] situation = "notFound" -> "notFound"
              [] OTHER -> "graphQL"
      BY <3>4, <3>5, <3>6
    <3> QED BY <2>2, <3>7 DEF g
  <2> QED BY <2>1, <2>2
<1>3. /\ situation = "rateLimit" => error = "rateLimiting"
      /\ error = "invalidPermissions" => situation = "permission"
      /\ error = "notFound" => situation = "notFound"
  BY <1>1, <1>2
<1> QED BY <1>3 DEF HandleTaskError, Gone

\* What a failed query changes.
LEMMA FailureFacts ==
  ASSUME PagesTypeOK, NEW situation \in Situations, QueryFails(situation)
  PROVE  /\ taskStatus = "pending" /\ UNCHANGED <<task, from, there, stored, delivered, cached>>
         /\ attempt' \in [count : Nat, queries : Nat]
         /\ ghost' \in Told
         /\ ghost'.lasting = ghost.lasting /\ ghost'.shifted = ghost.shifted
         /\ ghost'.blind = ghost.blind /\ ghost'.unsaved = ghost.unsaved
         /\ \/ /\ taskStatus' = "pending" /\ attempt'.count = attempt.count
               /\ ghost'.strikes = ghost.strikes
            \/ taskStatus' = "complete" /\ ghost'.gone
            \/ taskStatus' = "pending" /\ attempt'.count = 1
            \/ /\ taskStatus' = "pending" /\ attempt.count # Attempts
               /\ attempt'.count = attempt.count + 1 /\ ghost'.strikes = ghost.strikes + 1
            \/ taskStatus' = "failed" /\ ghost'.refused
            \/ /\ taskStatus' = "failed" /\ attempt.count = Attempts
               /\ ghost'.strikes = ghost.strikes + 1
<1>1. taskStatus = "pending" /\ UNCHANGED <<task, from, there, stored, delivered, cached>>
  BY DEF QueryFails
<1>2. CASE AskAgain(situation)
  <2>1. attempt' = [attempt EXCEPT !.queries = @ + 1] /\ UNCHANGED <<taskStatus, ghost>>
    BY <1>2 DEF AskAgain
  <2> QED BY <1>1, <2>1 DEF PagesTypeOK
<1>3. CASE EndForNothing(situation)
  <2>1. /\ taskStatus' = "complete" /\ attempt' = [count |-> 1, queries |-> 1]
        /\ ghost' = [ghost EXCEPT !.gone = TRUE]
    BY <1>3 DEF EndForNothing, Settles
  <2> QED BY <1>1, <2>1 DEF PagesTypeOK, Told
<1>4. CASE GiveToErrorHandler(situation)
  <2> DEFINE answer == AnswerTo(situation)
             error == IF task \in AlertTasks THEN HandleFailedRequest(answer)
                      ELSE GraphQLErrorOf(answer)
             last == attempt.count = Attempts
             outcome == HandleTaskError(error, last)
             strikes == IF situation = "rateLimit" THEN ghost.strikes ELSE ghost.strikes + 1
             gone == ghost.gone \/ situation \in Gone
             refused == ghost.refused \/ situation = "permission"
  <2>1. /\ CASE outcome = "retried" -> /\ attempt' = [count |-> attempt.count + 1, queries |-> 1]
                                       /\ UNCHANGED taskStatus
             [] outcome = "rescheduled" -> Settles("pending")
             [] OTHER -> Settles(outcome)
        /\ ghost' = [ghost EXCEPT !.strikes = strikes, !.gone = gone, !.refused = refused]
    BY <1>4 DEF GiveToErrorHandler
  <2>2. error \in {HandleFailedRequest(RestAnswer(situation)),
                   GraphQLErrorOf(GraphQLAnswer(situation))}
    BY DEF AnswerTo
  <2>3. last \in BOOLEAN
    OBVIOUS
  <2> HIDE DEF answer, error
  <2>4. /\ outcome \in {"failed", "complete", "rescheduled", "retried"}
        /\ situation = "rateLimit" => outcome = "rescheduled"
        /\ outcome = "failed" => situation = "permission" \/ last
        /\ outcome = "retried" => ~last
        /\ outcome = "complete" => situation \in Gone
    <3> HIDE DEF last
    <3> QED BY <2>2, <2>3, OutcomeFacts
  <2>5. strikes \in Nat /\ gone \in BOOLEAN /\ refused \in BOOLEAN
    BY DEF PagesTypeOK, Told
  <2> HIDE DEF outcome
  <2>6. /\ ghost' \in Told
        /\ ghost'.lasting = ghost.lasting /\ ghost'.shifted = ghost.shifted
        /\ ghost'.blind = ghost.blind /\ ghost'.unsaved = ghost.unsaved
        /\ ghost'.strikes = strikes /\ ghost'.gone = gone /\ ghost'.refused = refused
    <3> HIDE DEF strikes, gone, refused
    <3> QED BY <2>1, <2>5 DEF PagesTypeOK, Told
  <2>7. CASE outcome = "retried"
    <3>1. /\ taskStatus' = "pending" /\ attempt' = [count |-> attempt.count + 1, queries |-> 1]
      BY <1>1, <2>1, <2>7
    <3>2. attempt.count # Attempts /\ ghost'.strikes = ghost.strikes + 1
      BY <2>4, <2>6, <2>7
    <3>3. attempt' \in [count : Nat, queries : Nat] /\ attempt'.count = attempt.count + 1
      BY <3>1 DEF PagesTypeOK
    <3> QED BY <1>1, <2>6, <3>1, <3>2, <3>3
  <2>8. CASE outcome = "rescheduled"
    <3>1. taskStatus' = "pending" /\ attempt' = [count |-> 1, queries |-> 1]
      BY <2>1, <2>8 DEF Settles
    <3> QED BY <1>1, <2>6, <3>1
  <2>9. CASE outcome = "complete"
    <3>1. taskStatus' = "complete" /\ attempt' = [count |-> 1, queries |-> 1]
      BY <2>1, <2>9 DEF Settles
    <3>2. ghost'.gone
      BY <2>4, <2>6, <2>9
    <3> QED BY <1>1, <2>6, <3>1, <3>2
  <2>10. CASE outcome = "failed"
    <3>1. taskStatus' = "failed" /\ attempt' = [count |-> 1, queries |-> 1]
      BY <2>1, <2>10 DEF Settles
    <3>2. ghost'.refused \/ (attempt.count = Attempts /\ ghost'.strikes = ghost.strikes + 1)
      BY <2>4, <2>6, <2>10
    <3> QED BY <1>1, <2>6, <3>1, <3>2
  <2> QED BY <2>4, <2>7, <2>8, <2>9, <2>10
<1> QED BY <1>2, <1>3, <1>4 DEF QueryFails

\* What a change of the list changes.
LEMMA ChangeFacts ==
  ASSUME PagesTypeOK, NEW i \in Item, Comes(i) \/ Goes(i)
  PROVE  /\ UNCHANGED <<task, from, stored, taskStatus, delivered, attempt>>
         /\ there' \subseteq Item
         /\ ghost' \in Told
         /\ \/ there' = there \cup {i} /\ UNCHANGED ghost
            \/ /\ there' = there \ {i} /\ ghost'.lasting = ghost.lasting \ {i} /\ ghost'.shifted
               /\ ghost'.gone = ghost.gone /\ ghost'.refused = ghost.refused
               /\ ghost'.strikes = ghost.strikes
               /\ ghost'.blind = ghost.blind /\ ghost'.unsaved = ghost.unsaved
<1>1. CASE Comes(i)
  BY <1>1 DEF Comes, PagesTypeOK
<1>2. CASE Goes(i)
  <2>1. /\ ghost' = [ghost EXCEPT !.lasting = ghost.lasting \ {i}, !.shifted = TRUE]
        /\ there' = there \ {i}
        /\ UNCHANGED <<task, from, stored, taskStatus, delivered, attempt>>
    BY <1>2 DEF Goes
  <2> QED BY <2>1 DEF PagesTypeOK, Told
<1> QED BY <1>1, <1>2

LEMMA PagesTypeStep == PagesTypeOK /\ [PagesNext]_pageVars => PagesTypeOK'
<1> SUFFICES ASSUME PagesTypeOK, [PagesNext]_pageVars PROVE PagesTypeOK'
  OBVIOUS
<1>1. ASSUME NEW i \in Item, Comes(i) \/ Goes(i) PROVE PagesTypeOK'
  BY <1>1, ChangeFacts DEF PagesTypeOK
<1>2. ASSUME NEW perPage \in Sizes, FetchPage(perPage) PROVE PagesTypeOK'
  <2> DEFINE edges == Edges(perPage)
  <2>1. edges \subseteq Item
    BY EdgesAreItems DEF PagesTypeOK
  <2>2. /\ UNCHANGED <<task, from, there>>
        /\ taskStatus' = IF edges = {} THEN "complete" ELSE "pending"
        /\ attempt' = [count |-> 1, queries |-> 1]
        /\ stored' = IF edges = {} THEN stored ELSE NextCursor(edges, perPage)
        /\ delivered' = delivered \cup edges
        /\ ghost' \in Told
    BY <1>2, FetchFacts
  <2> HIDE DEF edges
  <2>3. stored' \in Walked
    BY <2>1, <2>2, NextCursorFacts DEF PagesTypeOK
  <2> QED BY <2>1, <2>2, <2>3 DEF PagesTypeOK
<1>3. ASSUME NEW situation \in Situations, QueryFails(situation) PROVE PagesTypeOK'
  BY <1>3, FailureFacts DEF PagesTypeOK
<1>4. CASE UNCHANGED pageVars
  BY <1>4 DEF pageVars, PagesTypeOK
<1> QED BY <1>1, <1>2, <1>3, <1>4 DEF PagesNext

\* The walk of a task stays within its types.
THEOREM WalksAreTyped == PagesSpec => []PagesTypeOK
<1> QED BY PagesTypeInit, PagesTypeStep, PTL DEF PagesSpec

-----------------------------------------------------------------------------
(* TaskPages: a task is given up for a reason.  Each attempt after the first *)
(* was paid for with a strike since the last page.                           *)

AttemptsInv ==
  /\ taskStatus = "pending" => /\ 1 <= attempt.count /\ attempt.count <= Attempts
                               /\ attempt.count <= ghost.strikes + 1
  /\ GivesUpForAReason

LEMMA AttemptsInit == PagesInit => AttemptsInv
BY WalksAssumption DEF PagesInit, NoHistory, AttemptsInv, GivesUpForAReason

LEMMA AttemptsStep == PagesTypeOK /\ AttemptsInv /\ [PagesNext]_pageVars => AttemptsInv'
<1> SUFFICES ASSUME PagesTypeOK, AttemptsInv, [PagesNext]_pageVars PROVE AttemptsInv'
  OBVIOUS
<1>0. Attempts \in Nat \ {0} /\ attempt.count \in Nat /\ ghost.strikes \in Nat
  BY WalksAssumption DEF PagesTypeOK, Told
<1>1. ASSUME NEW i \in Item, Comes(i) \/ Goes(i) PROVE AttemptsInv'
  <2>1. /\ UNCHANGED <<taskStatus, attempt>>
        /\ ghost'.strikes = ghost.strikes /\ ghost'.refused = ghost.refused
    BY <1>1, ChangeFacts
  <2> QED BY <2>1 DEF AttemptsInv, GivesUpForAReason
<1>2. ASSUME NEW perPage \in Sizes, FetchPage(perPage) PROVE AttemptsInv'
  <2>1. taskStatus' # "failed" /\ attempt' = [count |-> 1, queries |-> 1] /\ ghost'.strikes = 0
    BY <1>2, FetchFacts
  <2> QED BY <1>0, <2>1 DEF AttemptsInv, GivesUpForAReason
<1>3. ASSUME NEW situation \in Situations, QueryFails(situation) PROVE AttemptsInv'
  <2>1. taskStatus = "pending" /\ ghost'.strikes \in Nat
    BY <1>3, FailureFacts DEF Told
  <2>2. \/ /\ taskStatus' = "pending" /\ attempt'.count = attempt.count
           /\ ghost'.strikes = ghost.strikes
        \/ taskStatus' = "complete"
        \/ taskStatus' = "pending" /\ attempt'.count = 1
        \/ /\ taskStatus' = "pending" /\ attempt.count # Attempts
           /\ attempt'.count = attempt.count + 1 /\ ghost'.strikes = ghost.strikes + 1
        \/ taskStatus' = "failed" /\ ghost'.refused
        \/ /\ taskStatus' = "failed" /\ attempt.count = Attempts
           /\ ghost'.strikes = ghost.strikes + 1
    BY <1>3, FailureFacts
  <2> QED BY <1>0, <2>1, <2>2 DEF AttemptsInv, GivesUpForAReason
<1>4. CASE UNCHANGED pageVars
  BY <1>4 DEF pageVars, AttemptsInv, GivesUpForAReason
<1> QED BY <1>1, <1>2, <1>3, <1>4 DEF PagesNext

\* A task fails only when GitHub refused it or after as many strikes since the last page as
\* a message has attempts.
THEOREM GivesUpForAReasonEver == PagesSpec => []GivesUpForAReason
<1>1. AttemptsInv => GivesUpForAReason
  BY DEF AttemptsInv
<1> QED BY <1>1, PagesTypeInit, PagesTypeStep, AttemptsInit, AttemptsStep, PTL DEF PagesSpec

-----------------------------------------------------------------------------
(* TaskPages: the walk is whole.  What lies before the stored cursor was     *)
(* sent, and a page without edges says that nothing lies after it.           *)

\* The items a walk is for.
Meant == IF task = "branch" THEN ghost.lasting ELSE RecentItems(ghost.lasting)

\* What the cursor of a walk by cursors, and of one by numbers, has gone past.
PassedByItem(i) == i >= stored.after
PassedByNumber(i) == Ahead(i, there) < ProcessedItems(stored.page)

WalkInv ==
  /\ ghost.lasting \subseteq there
  /\ task \notin AlertTasks => \A i \in Meant : PassedByItem(i) => i \in delivered
  /\ task \in AlertTasks /\ ~ghost.shifted =>
       \A i \in Meant : PassedByNumber(i) => i \in delivered
  /\ taskStatus = "complete" /\ ~ghost.gone /\ ~(task \in AlertTasks /\ ghost.shifted) =>
       Meant \subseteq delivered

LEMMA MeantAreItems ==
  ASSUME PagesTypeOK, WalkInv
  PROVE  /\ Meant \subseteq there /\ Meant \subseteq Item
         /\ task # "branch" => \A i \in Meant : i >= from
BY DEF PagesTypeOK, WalkInv, Meant, RecentItems

\* A page of items after the cursor has what comes next of any set of items.
LEMMA PageAfterFacts ==
  ASSUME NEW S \in SUBSET Item, NEW after \in Nat, NEW n \in PageSize
  PROVE  /\ PageAfter(after, S, n) \subseteq S
         /\ \A i \in PageAfter(after, S, n) : i < after
         /\ \A i \in PageAfter(after, S, n), j \in S :
              j < after /\ j >= i => j \in PageAfter(after, S, n)
         /\ \A j \in S : j < after => \E i \in PageAfter(after, S, n) : i >= j
<1> DEFINE T == {i \in S : i < after}
<1>1. T \in SUBSET Item /\ PageAfter(after, S, n) = Newest(T, n)
  BY DEF PageAfter
<1>2. T \subseteq S /\ \A j \in S : j < after <=> j \in T
  OBVIOUS
<1> HIDE DEF T
<1>3. /\ Newest(T, n) \subseteq T
      /\ \A i \in Newest(T, n), j \in T : j >= i => j \in Newest(T, n)
      /\ T # {} => \E i \in Newest(T, n) : \A j \in T : i >= j
  BY <1>1, NewestFacts
<1> QED BY <1>1, <1>2, <1>3

\* An item after the cursor is on the page or after all of it, also when only the recent
\* ones of the page count and it is one of these.
LEMMA PageWithItem ==
  ASSUME from \in Nat, NEW S \in SUBSET Item, NEW after \in Nat, NEW n \in PageSize,
         NEW i \in S, i < after,
         NEW edges, \/ edges = PageAfter(after, S, n)
                    \/ i >= from /\ edges = RecentItems(PageAfter(after, S, n))
  PROVE  edges # {} /\ (i >= Oldest(edges) => i \in edges)
<1> DEFINE page == PageAfter(after, S, n)
<1>1. PICK x \in page : x >= i
  BY PageAfterFacts
<1>2. page \subseteq Item /\ x \in Nat /\ i \in Nat
  BY PageAfterFacts, ItemFacts
<1>3. \A y \in page : i >= y => i \in page
  BY PageAfterFacts
<1> HIDE DEF page
<1>4. /\ edges \subseteq page /\ x \in edges
      /\ i \in page => i \in edges
  <2>1. CASE edges = page
    BY <2>1
  <2>2. CASE i >= from /\ edges = RecentItems(page)
    <3>1. x >= from
      BY <1>1, <1>2, <2>2
    <3> QED BY <2>2, <3>1 DEF RecentItems
  <2> QED BY <2>1, <2>2 DEF page
<1>5. Oldest(edges) \in edges
  <2>1. edges \in SUBSET Nat
    BY <1>2, <1>4, ItemFacts
  <2> QED BY <1>4, <2>1, LeastItem
<1> QED BY <1>3, <1>4, <1>5

\* A walk by cursors: an item still to come is on the page or after it.
LEMMA EdgesByItem ==
  ASSUME PagesTypeOK, WalkInv, task \notin AlertTasks, NEW perPage \in Sizes,
         NEW i \in Meant, i < stored.after
  PROVE  /\ Edges(perPage) # {}
         /\ i >= Oldest(Edges(perPage)) => i \in Edges(perPage)
<1> DEFINE page(S) == PageAfter(stored.after, S, perPage)
<1>1. /\ i \in there /\ there \subseteq Item /\ (task # "branch" => i >= from) /\ from \in Nat
      /\ stored.after \in Nat /\ perPage \in PageSize
  BY MeantAreItems, WalksAssumption DEF PagesTypeOK, Walked
<1>2. CASE task = "commit"
  <2>1. RecentItems(there) \in SUBSET Item /\ i \in RecentItems(there)
    BY <1>1, <1>2 DEF RecentItems
  <2>2. Edges(perPage) = page(RecentItems(there))
    BY <1>2 DEF Edges, AllCommits, CommitsQuery
  <2> QED BY <1>1, <2>1, <2>2, PageWithItem
<1>3. CASE task = "branch"
  <2>1. Edges(perPage) = page(there)
    BY <1>3 DEF Edges, AllBranches, BranchesQuery
  <2> QED BY <1>1, <2>1, PageWithItem
<1>4. CASE task = "pull"
  <2>1. Edges(perPage) = RecentItems(page(there))
    BY <1>4 DEF Edges, RecentPullRequests, PullRequestsQuery
  <2> QED BY <1>1, <1>4, <2>1, PageWithItem
<1>5. CASE task = "deployment"
  <2>1. Edges(perPage) = UnlessAllEarlier(page(there))
    BY <1>5 DEF Edges, RecentDeployments, DeploymentsQuery
  <2>2. RecentItems(page(there)) # {}
    BY <1>1, <1>5, PageWithItem
  <2>3. Edges(perPage) = page(there)
    BY <2>1, <2>2 DEF UnlessAllEarlier
  <2> QED BY <1>1, <2>3, PageWithItem
<1> QED BY <1>2, <1>3, <1>4, <1>5 DEF PagesTypeOK, Tasks

\* A walk by numbers: an item still to come is on the page or after it.
LEMMA EdgesByNumber ==
  ASSUME PagesTypeOK, WalkInv, task \in AlertTasks, NEW perPage \in Sizes,
         NEW i \in Meant, ~PassedByNumber(i)
  PROVE  /\ Edges(perPage) # {}
         /\ Ahead(i, there) < ProcessedItems(Scale(stored.page, perPage)) + perPage =>
              i \in Edges(perPage)
<1> DEFINE c == Scale(stored.page, perPage)
           page == NumberedPage(c, there)
           start == ProcessedItems(c)
<1>1. /\ i \in there /\ there \subseteq Item /\ i >= from /\ from \in Nat
      /\ perPage \in PageSize /\ stored.page \in Cursor
  BY MeantAreItems, WalksAssumption DEF PagesTypeOK, Walked, AlertTasks
<1>2. Edges(perPage) = UnlessAllEarlier(page)
  BY DEF Edges, RecentAlerts, AlertsQuery, AlertTasks
<1>3. c \in Cursor /\ c.perPage = perPage /\ start <= ProcessedItems(stored.page)
  BY <1>1, ScaleNeverSkips
<1>4. start \in Nat /\ ProcessedItems(stored.page) \in Nat
  BY <1>1, <1>3, ProductsAreMonotonic DEF ProcessedItems, Cursor
<1>5. Ahead(i, there) \in Nat /\ start <= Ahead(i, there)
  BY <1>1, <1>3, <1>4, AheadFacts DEF PassedByNumber
<1> HIDE DEF start
<1>6. page = {k \in there : start <= Ahead(k, there) /\ Ahead(k, there) < start + perPage}
  BY <1>3 DEF NumberedPage, start
<1>7. PICK k \in there : k >= i /\ Ahead(k, there) = start
  BY <1>1, <1>4, <1>5, PlacesAreTaken
<1> HIDE DEF page
<1>8. k \in page /\ k >= from
  <2>1. k \in Nat /\ i \in Nat
    BY <1>1, ItemFacts
  <2> QED BY <1>1, <1>4, <1>6, <1>7, <2>1
<1>9. Edges(perPage) = page
  BY <1>2, <1>8 DEF UnlessAllEarlier, RecentItems
<1>10. Ahead(i, there) < start + perPage => i \in page
  BY <1>1, <1>5, <1>6
<1> QED BY <1>8, <1>9, <1>10 DEF start

LEMMA WalkInit == PagesInit => WalkInv
<1> SUFFICES ASSUME PagesInit PROVE WalkInv
  OBVIOUS
<1>1. PagesTypeOK
  BY PagesTypeInit
<1>2. ghost.lasting = there /\ taskStatus = "pending"
  BY DEF PagesInit, NoHistory
<1>3. Meant \subseteq there /\ there \subseteq Item
  BY <1>1, <1>2 DEF Meant, RecentItems, PagesTypeOK
<1>4. ASSUME NEW i \in Meant PROVE ~PassedByItem(i) /\ ~PassedByNumber(i)
  <2>1. stored.after = MaxItem + 1 /\ ProcessedItems(stored.page) = 0
    BY LegacyAssumption DEF PagesInit, PlainCursor, ProcessedItems
  <2>2. i \in Nat /\ i <= MaxItem /\ MaxItem \in Nat
    BY <1>3, ItemFacts
  <2>3. Ahead(i, there) \in Nat
    BY <1>3, AheadFacts
  <2> QED BY <2>1, <2>2, <2>3 DEF PassedByItem, PassedByNumber
<1> QED BY <1>2, <1>4 DEF WalkInv

LEMMA WalkFetch ==
  ASSUME PagesTypeOK, WalkInv, NEW perPage \in Sizes, FetchPage(perPage)
  PROVE  WalkInv'
<1> DEFINE edges == Edges(perPage)
           c == Scale(stored.page, perPage)
<1>1. edges \subseteq Item
  BY EdgesAreItems DEF PagesTypeOK
<1>2. /\ UNCHANGED <<task, from, there>>
      /\ taskStatus' = IF edges = {} THEN "complete" ELSE "pending"
      /\ stored' = IF edges = {} THEN stored ELSE NextCursor(edges, perPage)
      /\ delivered' = delivered \cup edges
      /\ ghost'.lasting = ghost.lasting /\ ghost'.shifted = ghost.shifted
      /\ ghost'.gone = ghost.gone
  BY FetchFacts
<1>3. Meant' = Meant
  BY <1>2 DEF Meant, RecentItems
<1>4. /\ Meant \subseteq Item /\ Meant \subseteq there /\ there \subseteq Item
      /\ stored.after \in Nat /\ ghost.lasting \subseteq there
  BY MeantAreItems DEF PagesTypeOK, Walked, WalkInv
<1>5. CASE task \notin AlertTasks
  <2>1. ASSUME NEW i \in Meant PROVE PassedByItem(i) => i \in delivered
    BY <1>5 DEF WalkInv
  <2>2. ASSUME NEW i \in Meant, PassedByItem(i)' PROVE i \in delivered'
    <3>1. CASE PassedByItem(i)
      BY <1>2, <2>1, <3>1
    <3>2. CASE ~PassedByItem(i)
      <4>1. i < stored.after
        BY <1>4, <3>2, ItemFacts DEF PassedByItem
      <4>2. edges # {} /\ (i >= Oldest(edges) => i \in edges)
        BY <1>5, <4>1, EdgesByItem
      <4> HIDE DEF edges
      <4>3. stored'.after = Oldest(edges)
        BY <1>1, <1>2, <1>5, <4>2, NextCursorFacts
      <4> QED BY <1>2, <2>2, <4>2, <4>3 DEF PassedByItem
    <3> QED BY <3>1, <3>2
  <2>3. ASSUME taskStatus' = "complete", NEW i \in Meant PROVE i \in delivered'
    <3>1. edges = {}
      BY <1>2, <2>3
    <3>2. ~(i < stored.after) /\ i \in Nat /\ stored.after \in Nat
      BY <1>4, <1>5, <3>1, EdgesByItem, ItemFacts
    <3>3. PassedByItem(i)
      BY <3>2 DEF PassedByItem
    <3> QED BY <1>2, <2>1, <3>3
  <2> QED BY <1>2, <1>3, <1>4, <1>5, <2>2, <2>3 DEF WalkInv
<1>6. CASE task \in AlertTasks
  <2>1. ASSUME ~ghost.shifted, NEW i \in Meant PROVE PassedByNumber(i) => i \in delivered
    BY <1>6, <2>1 DEF WalkInv
  <2>2. ASSUME ~ghost.shifted, NEW i \in Meant, PassedByNumber(i)' PROVE i \in delivered'
    <3>1. CASE PassedByNumber(i)
      BY <1>2, <2>1, <2>2, <3>1
    <3>2. CASE ~PassedByNumber(i)
      <4>1. edges # {} /\ (Ahead(i, there) < ProcessedItems(c) + perPage => i \in edges)
        BY <1>6, <3>2, EdgesByNumber
      <4> HIDE DEF edges
      <4>2. ProcessedItems(stored'.page) = ProcessedItems(c) + perPage
        BY <1>1, <1>2, <1>6, <4>1, NextCursorFacts
      <4>3. Ahead(i, there) < ProcessedItems(stored'.page)
        BY <1>2, <2>2 DEF PassedByNumber, Ahead
      <4> QED BY <1>2, <4>1, <4>2, <4>3
    <3> QED BY <3>1, <3>2
  <2>3. ASSUME ~ghost.shifted, taskStatus' = "complete", NEW i \in Meant PROVE i \in delivered'
    <3>1. edges = {}
      BY <1>2, <2>3
    <3>2. PassedByNumber(i)
      BY <1>6, <3>1, EdgesByNumber
    <3> QED BY <1>2, <2>1, <2>3, <3>2
  <2> QED BY <1>2, <1>3, <1>4, <1>6, <2>2, <2>3 DEF WalkInv
<1> QED BY <1>5, <1>6

LEMMA WalkChange ==
  ASSUME PagesTypeOK, WalkInv, NEW i \in Item, Comes(i) \/ Goes(i)
  PROVE  WalkInv'
<1>1. /\ UNCHANGED <<task, from, stored, taskStatus, delivered>> /\ there' \subseteq Item
      /\ \/ there' = there \cup {i} /\ UNCHANGED ghost
         \/ /\ there' = there \ {i} /\ ghost'.lasting = ghost.lasting \ {i} /\ ghost'.shifted
            /\ ghost'.gone = ghost.gone
  BY ChangeFacts
<1>2. Meant \subseteq Item
  BY MeantAreItems
<1>3. Meant' \subseteq Meant /\ ghost'.lasting \subseteq there'
  BY <1>1 DEF Meant, RecentItems, WalkInv
<1>4. ASSUME ~ghost'.shifted, NEW k \in Meant', PassedByNumber(k)' PROVE PassedByNumber(k)
  <2>1. there \subseteq there' /\ k \in Item
    BY <1>1, <1>2, <1>3, <1>4
  <2>2. Ahead(k, there) <= Ahead(k, there') /\ Ahead(k, there') \in Nat /\ Ahead(k, there) \in Nat
    <3>1. there \in SUBSET there' /\ there' \in SUBSET Item /\ there \in SUBSET Item
      BY <1>1, <2>1 DEF PagesTypeOK
    <3> QED BY <2>1, <3>1, AheadFacts
  <2>3. ProcessedItems(stored.page) \in Nat
    BY ProductsAreMonotonic DEF PagesTypeOK, Walked, Cursor, ProcessedItems
  <2>4. Ahead(k, there') < ProcessedItems(stored.page)
    BY <1>1, <1>4 DEF PassedByNumber, Ahead, ProcessedItems
  <2> QED BY <2>2, <2>3, <2>4 DEF PassedByNumber
<1>5. ASSUME NEW k, PassedByItem(k)' PROVE PassedByItem(k)
  BY <1>1, <1>5 DEF PassedByItem
<1>6. ~ghost'.shifted => ~ghost.shifted
  BY <1>1
<1> QED BY <1>1, <1>3, <1>4, <1>5, <1>6 DEF WalkInv

LEMMA WalkStep == PagesTypeOK /\ WalkInv /\ [PagesNext]_pageVars => WalkInv'
<1> SUFFICES ASSUME PagesTypeOK, WalkInv, [PagesNext]_pageVars PROVE WalkInv'
  OBVIOUS
<1>1. ASSUME NEW i \in Item, Comes(i) \/ Goes(i) PROVE WalkInv'
  BY <1>1, WalkChange
<1>2. ASSUME NEW perPage \in Sizes, FetchPage(perPage) PROVE WalkInv'
  BY <1>2, WalkFetch
<1>3. ASSUME NEW situation \in Situations, QueryFails(situation) PROVE WalkInv'
  <2>1. /\ UNCHANGED <<task, from, there, stored, delivered>>
        /\ ghost'.lasting = ghost.lasting /\ ghost'.shifted = ghost.shifted
        /\ taskStatus' = "complete" => ghost'.gone
    BY <1>3, FailureFacts
  <2>2. Meant' = Meant
    BY <2>1 DEF Meant, RecentItems
  <2>3. /\ task \notin AlertTasks => \A i \in Meant : PassedByItem(i) => i \in delivered
        /\ task \in AlertTasks /\ ~ghost.shifted =>
             \A i \in Meant : PassedByNumber(i) => i \in delivered
        /\ ghost.lasting \subseteq there
    BY DEF WalkInv
  <2>4. /\ task' \notin AlertTasks => \A i \in Meant' : PassedByItem(i)' => i \in delivered'
        /\ task' \in AlertTasks /\ ~ghost'.shifted =>
             \A i \in Meant' : PassedByNumber(i)' => i \in delivered'
        /\ ghost'.lasting \subseteq there'
    <3>1. task' = task /\ delivered' = delivered /\ there' = there
      BY <2>1
    <3>2. ASSUME task \notin AlertTasks, NEW i \in Meant', PassedByItem(i)' PROVE i \in delivered
      <4>1. PassedByItem(i) /\ i \in Meant
        BY <2>1, <2>2, <3>2 DEF PassedByItem
      <4> QED BY <2>3, <3>2, <4>1
    <3>3. ASSUME task \in AlertTasks, ~ghost.shifted, NEW i \in Meant', PassedByNumber(i)'
          PROVE  i \in delivered
      <4>1. PassedByNumber(i) /\ i \in Meant
        BY <2>1, <2>2, <3>3 DEF PassedByNumber, Ahead, ProcessedItems
      <4> QED BY <2>3, <3>3, <4>1
    <3> QED BY <2>1, <2>3, <3>1, <3>2, <3>3
  <2> QED BY <2>1, <2>4 DEF WalkInv
<1>4. CASE UNCHANGED pageVars
  <2>1. UNCHANGED <<task, from, there, stored, taskStatus, delivered, ghost>>
    BY <1>4 DEF pageVars
  <2> QED BY <2>1 DEF WalkInv, Meant, RecentItems, PassedByItem, PassedByNumber, Ahead,
                      ProcessedItems
<1> QED BY <1>1, <1>2, <1>3, <1>4 DEF PagesNext

\* Of a deployment that was sent, the success before it was known, unless it was not saved.
SuccessInv == ghost.blind = {} \/ ghost.unsaved

\* The success before a deployment of a page is on this page or on the next.
LEMMA SuccessIsFound ==
  ASSUME PagesTypeOK, task = "deployment", NEW perPage \in Sizes, NEW i \in Edges(perPage)
  PROVE  LastSuccess(i, perPage) \subseteq SuccessfulDeployments(perPage)
<1> DEFINE page == DeploymentsQuery(stored.after, perPage)
<1>1. /\ there \in SUBSET Item /\ stored.after \in Nat /\ perPage \in PageSize
      /\ page = PageAfter(stored.after, there, perPage)
  BY WalksAssumption DEF PagesTypeOK, Walked, DeploymentsQuery
<1>2. page \subseteq Item /\ i \in page
  BY <1>1, PageAfterFacts DEF Edges, RecentDeployments, UnlessAllEarlier, AlertTasks
<1>3. Oldest(page) \in page /\ Oldest(page) <= i
  <2>1. page \in SUBSET Nat
    BY <1>2, ItemFacts
  <2> HIDE DEF page
  <2> QED BY <1>2, <2>1, LeastItem
<1> DEFINE o == Oldest(page)
<1>4. SuccessfulDeployments(perPage) = Success \cap (page \cup PageAfter(o, there, perPage))
  BY <1>2 DEF SuccessfulDeployments, ExtraDeployments, DeploymentsQuery
<1>5. \A k \in page, j \in there : j < stored.after /\ j >= k => j \in page
  BY <1>1, PageAfterFacts
<1>6. \A k \in page : k < stored.after
  BY <1>1, PageAfterFacts
<1> HIDE DEF page
<1>7. ASSUME NEW j \in LastSuccess(i, perPage)
      PROVE  j \in page \cup PageAfter(o, there, perPage)
  <2>1. j \in Success /\ j \in there /\ j < i /\ j \in PageAfter(i, there, perPage)
    BY DEF LastSuccess
  <2>2. j \in Nat /\ i \in Nat /\ o \in Nat /\ j \in Item
    BY <1>1, <1>2, <1>3, <2>1, ItemFacts
  <2>3. CASE j >= o
    BY <1>1, <1>2, <1>3, <1>5, <1>6, <2>1, <2>2, <2>3
  <2>4. CASE j < o
    <3> DEFINE T == {k \in there : k < o}
               S == {k \in there : k < i}
    <3>1. T \in SUBSET S /\ S \in SUBSET Item /\ T \in SUBSET Item
      <4>1. \A k \in there : k \in Nat
        BY <1>1, ItemFacts
      <4>2. o <= i
        BY <1>3
      <4> HIDE DEF o
      <4>3. \A k \in there : k < o => k < i
        BY <2>2, <4>1, <4>2
      <4> QED BY <1>1, <4>3
    <3>2. Ahead(j, S) < perPage
      BY <2>1 DEF PageAfter, Newest
    <3>3. j \in T
      BY <2>1, <2>4
    <3>4. Ahead(j, T) <= Ahead(j, S) /\ Ahead(j, S) \in Nat /\ Ahead(j, T) \in Nat
      <4> HIDE DEF S, T
      <4> QED BY <2>2, <3>1, AheadFacts
    <3>5. Ahead(j, T) < perPage
      BY <1>1, <3>2, <3>4
    <3> QED BY <3>3, <3>5 DEF PageAfter, Newest
  <2> QED BY <2>2, <2>3, <2>4
<1>8. LastSuccess(i, perPage) \subseteq Success
  BY DEF LastSuccess
<1> QED BY <1>4, <1>7, <1>8

LEMMA SuccessStep == PagesTypeOK /\ SuccessInv /\ [PagesNext]_pageVars => SuccessInv'
<1> SUFFICES ASSUME PagesTypeOK, SuccessInv, [PagesNext]_pageVars PROVE SuccessInv'
  OBVIOUS
<1>1. ASSUME NEW i \in Item, Comes(i) \/ Goes(i) PROVE SuccessInv'
  <2>1. ghost'.blind = ghost.blind /\ ghost'.unsaved = ghost.unsaved
    BY <1>1, ChangeFacts
  <2> QED BY <2>1 DEF SuccessInv
<1>2. ASSUME NEW perPage \in Sizes, FetchPage(perPage) PROVE SuccessInv'
  <2> DEFINE edges == Edges(perPage)
             found == SuccessfulDeployments(perPage)
             last(i) == LastSuccess(i, perPage)
  <2>1. /\ ghost'.unsaved = (ghost.unsaved \/ ~(found \subseteq cached'))
        /\ ghost'.blind = IF task = "deployment"
                          THEN ghost.blind \cup {i \in edges : ~(last(i) \subseteq cached')}
                          ELSE ghost.blind
    BY <1>2, FetchFacts
  <2>2. task = "deployment" => \A i \in edges : last(i) \subseteq found
    BY SuccessIsFound
  <2> HIDE DEF edges, found, last
  <2> QED BY <2>1, <2>2 DEF SuccessInv
<1>3. ASSUME NEW situation \in Situations, QueryFails(situation) PROVE SuccessInv'
  <2>1. ghost'.blind = ghost.blind /\ ghost'.unsaved = ghost.unsaved
    BY <1>3, FailureFacts
  <2> QED BY <2>1 DEF SuccessInv
<1>4. CASE UNCHANGED pageVars
  BY <1>4 DEF pageVars, SuccessInv
<1> QED BY <1>1, <1>2, <1>3, <1>4 DEF PagesNext

\* A walk that ended because its pages did sent every item it was for that was there
\* throughout, for any sizes of its pages, any changes and any failures; and of every
\* deployment it sent, the success before it was known unless it could not be saved.
THEOREM WalksAreWholeEver == PagesSpec => []WalksAreWhole
<1>1. PagesInit => SuccessInv
  BY DEF PagesInit, NoHistory, SuccessInv
<1>2. WalkInv /\ SuccessInv => WalksAreWhole
  BY DEF WalkInv, SuccessInv, WalksAreWhole, Meant
<1> QED BY <1>1, <1>2, PagesTypeInit, PagesTypeStep, WalkInit, WalkStep, SuccessStep, PTL
        DEF PagesSpec
=============================================================================
