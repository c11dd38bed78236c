----------------------------- MODULE PageCursor -----------------------------
(***************************************************************************)
(* src/sync/page-counter-cursor.ts: a page number together with the page   *)
(* size it was counted in.  The page size is a feature flag that may       *)
(* change between two pages, and the cursor scales itself to the new one.  *)
(***************************************************************************)
EXTENDS Integers

CONSTANT LEGACY_PAGE_SIZE   \* page size of the cursors stored as plain numbers

ASSUME LegacyAssumption == LEGACY_PAGE_SIZE \in Nat \ {0}

PageSize == Nat \ {0}
Cursor == [pageNo : Nat \ {0}, perPage : PageSize]

\* The constructor without a stored cursor, or with a plain number.
PlainCursor(pageNo) == [pageNo |-> pageNo, perPage |-> LEGACY_PAGE_SIZE]

\* How many items come before the page a cursor points to.
ProcessedItems(c) == (c.pageNo - 1) * c.perPage

\* Mutants: the page that was begun counts as done; every new size starts over.
RoundsUp(c, newPerPage) ==
  [pageNo |-> ((ProcessedItems(c) + newPerPage - 1) \div newPerPage) + 1, perPage |-> newPerPage]
StartsOver(c, newPerPage) ==
  IF c.perPage = newPerPage THEN c ELSE [pageNo |-> 1, perPage |-> newPerPage]

\* scale: the pages of the new size that were processed in full.
Scale(c, newPerPage) ==
  IF c.perPage = newPerPage THEN c
  ELSE [pageNo |-> (ProcessedItems(c) \div newPerPage) + 1, perPage |-> newPerPage]

\* copyWithPageNo
CopyWithPageNo(c, pageNo) == [c EXCEPT !.pageNo = pageNo]
=============================================================================
