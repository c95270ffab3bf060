----------------------------- MODULE InventoryPages -----------------------------
(***************************************************************************)
(* Lists of the in-memory Inventory store, read page after page by         *)
(* position (listStockTransfers and listReceipts in                        *)
(* features/managed-product-availability/memory-inventory-store.ts): each  *)
(* page starts after the last row of the one before, while transfers are   *)
(* changed and added in between.                                           *)
(***************************************************************************)
EXTENDS Naturals, FiniteSets

CONSTANTS
  Transfers,      \* identities, in their order
  MaxDate,        \* bound: sort dates are 1 .. MaxDate
  Limit,          \* rows of a page
  MaxChanges      \* bound: changes and additions during one walk

ASSUME PagesAssumption ==
  /\ Transfers \subseteq Nat /\ IsFiniteSet(Transfers) /\ MaxDate \in Nat
  /\ Limit \in Nat \ {0} /\ MaxChanges \in Nat

VARIABLES
  view,           \* "open", "closed" or "receipts"
  rows,           \* per transfer: whether it is listed, and its position
  after,          \* the position the next page starts after
  times,          \* history: per transfer, how often a page listed it
  done,           \* the last page was read
  touched         \* history: what changed during the walk

pagesVars == <<view, rows, after, times, done, touched>>

Rows == [listed : BOOLEAN, date : 1 .. MaxDate, updated : 1 .. 2]
FromStart == [date |-> 0, updated |-> 0, id |-> 0]

\* transferSortDate: the date a row is sorted by; updatedAt and the identity
\* settle equal ones.
Position(t) ==
  [date |-> rows[t].date, updated |-> rows[t].updated, id |-> t]

PagesInit ==
  /\ view \in {"open", "closed", "receipts"}
  /\ rows \in [Transfers -> Rows]
  /\ after = FromStart /\ times = [t \in Transfers |-> 0]
  /\ done = FALSE /\ touched = {}

PagesTypeOK ==
  /\ view \in {"open", "closed", "receipts"}
  /\ rows \in [Transfers -> Rows]
  /\ after \in [date : 0 .. MaxDate, updated : 0 .. 2, id : Transfers \cup {0}]
  /\ times \in [Transfers -> Nat]
  /\ done \in BOOLEAN
  /\ touched \subseteq Transfers
-----------------------------------------------------------------------------
\* The order of each list: open transfers by date, closed ones and receipts
\* from the latest; then the last updated first, then by identity, receipts
\* from the highest.  Receipts are filtered by code units and sorted by locale:
\* one order, as their identities are receipt-1, receipt-2, ... and their dates ISO.
BeforeRow(p, q) ==
  \/ IF view = "open" THEN p.date < q.date ELSE p.date > q.date
  \/ /\ p.date = q.date
     /\ IF view = "receipts" THEN p.id > q.id
        ELSE \/ p.updated > q.updated
             \/ p.updated = q.updated /\ p.id < q.id

\* Mutant: a page starts after the date of the last row.
FollowsByDate(p) ==
  after = FromStart \/ (IF view = "open" THEN after.date < p.date
                    ELSE after.date > p.date)

\* The rows of the next page come after the position of the last one.
Follows(p) == after = FromStart \/ BeforeRow(after, p)

ListedRows == {t \in Transfers : rows[t].listed}
RemainingRows == {t \in ListedRows : Follows(Position(t))}

\* The rows of the next page: as many as it holds, the first of what remains.
PageRows(page) ==
  /\ page \subseteq RemainingRows
  /\ Cardinality(page) = IF Cardinality(RemainingRows) < Limit
                         THEN Cardinality(RemainingRows) ELSE Limit
  /\ \A s \in page, t \in RemainingRows \ page :
       BeforeRow(Position(s), Position(t))

LastRow(page, t) ==
  t \in page /\ \A s \in page \ {t} : BeforeRow(Position(s), Position(t))

\* A page that is not full is the last one.
NextPage ==
  /\ ~done
  /\ \E page \in SUBSET Transfers :
       /\ PageRows(page)
       /\ times' = [t \in Transfers |-> times[t] + IF t \in page THEN 1 ELSE 0]
       /\ IF page = {} THEN after' = after
          ELSE \E t \in page : LastRow(page, t) /\ after' = Position(t)
       /\ done' = (Cardinality(page) < Limit)
  /\ UNCHANGED <<view, rows, touched>>

\* A transfer is added, changed or leaves the list between two pages.
ChangeRow(t) ==
  /\ ~done /\ after # FromStart
  /\ Cardinality(touched) < MaxChanges
  /\ t \notin touched
  /\ \E row \in Rows : row # rows[t] /\ rows' = [rows EXCEPT ![t] = row]
  /\ touched' = touched \cup {t}
  /\ UNCHANGED <<view, after, times, done>>

PagesNext == NextPage \/ \E t \in Transfers : ChangeRow(t)

PagesSpec == PagesInit /\ [][PagesNext]_pagesVars
-----------------------------------------------------------------------------
\* A whole walk lists every row that did not change meanwhile exactly once,
\* whatever was added, moved or taken away between its pages.
WalkMissesNothing ==
  done => \A t \in Transfers \ touched :
    times[t] = IF rows[t].listed THEN 1 ELSE 0
=============================================================================
