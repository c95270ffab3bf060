---------------------------- MODULE ScheduledSales ----------------------------
(***************************************************************************)
(* The sweep that puts scheduled pages' products on sale                   *)
(* (sellScheduledPages in features/product-on-sale/index.ts), for one page.*)
(* A sweep reads its records first and handles them one by one; a record   *)
(* in hand is one slot here, so it may be as old as the sweep it is of.    *)
(* Which batch a sweep reads, its cursor and its interval decide only      *)
(* which records come into hand.  Every await is one step.                 *)
(***************************************************************************)
EXTENDS Naturals

CONSTANTS
  Slots,          \* the records isolates have in hand at once
  SaleProducts,   \* the products the page's panel can pick
  MaxPuts,        \* bound: revisions handed out
  SweepFaults     \* out of "refused", "lost", "unread", "dies"

VARIABLES
  salePage,       \* the CMS page, and the product Commerce links to it
  pending,        \* the revision of each stored record; 0: there is none
  saleRecord,     \* what the page's own record says
  saleRevision,   \* revisions handed out
  selling,        \* Commerce: the product on sale through the page
  slots,          \* per slot: the record in hand and the await it is at
  unpublish,      \* the await a person's unpublish is at
  saleLog         \* history: what the sweep cannot answer for

saleVars == <<salePage, pending, saleRecord, saleRevision, selling, slots,
              unpublish, saleLog>>

\* A page's own record, its list of newest titles, a take-back per product.
Keys == {"page", "retitle"} \cup SaleProducts
NoSale == "none"
FreeRow == [at |-> "idle", key |-> "none", revision |-> 0, listed |-> 0,
         sale |-> [published |-> FALSE, granted |-> FALSE], product |-> NoSale,
         read |-> [published |-> FALSE, scheduled |-> FALSE], fits |-> FALSE]
SlotStages == {"idle", "content", "link", "visitor", "unchanged", "on", "after",
               "afterLink", "granted", "list", "listed", "off", "remove",
               "rename", "drop"}

ASSUME SalesAssumption ==
  /\ {"page", "retitle", NoSale} \cap SaleProducts = {}
  /\ MaxPuts \in Nat
  /\ SweepFaults \subseteq {"refused", "lost", "unread", "dies"}

SaleTypeOK ==
  /\ salePage \in [published : BOOLEAN, scheduled : BOOLEAN, product : SaleProducts]
  /\ pending \in [Keys -> 0 .. MaxPuts]
  /\ saleRecord \in [published : BOOLEAN, granted : BOOLEAN]
  /\ saleRevision \in 0 .. MaxPuts
  /\ selling \in SaleProducts \cup {NoSale}
  /\ \A s \in Slots : /\ slots[s].at \in SlotStages
                      /\ slots[s].key \in Keys \cup {"none"}
                      /\ slots[s].revision \in 0 .. MaxPuts
  /\ unpublish \in {"none", "hook", "off"}
  /\ saleLog \subseteq {"lostOn", "owing", "offFailed"}

SaleInit ==
  /\ salePage \in [published : {FALSE}, scheduled : {FALSE}, product : SaleProducts]
  /\ pending = [k \in Keys |-> 0]
  /\ saleRecord = [published |-> FALSE, granted |-> FALSE]
  /\ saleRevision = 0 /\ selling = NoSale
  /\ slots = [s \in Slots |-> FreeRow]
  /\ unpublish = "none" /\ saleLog = {}
-----------------------------------------------------------------------------
Is(s, stage) == slots[s].at = stage
Now(s, next) == slots' = [slots EXCEPT ![s] = next]
Move(s, stage) == Now(s, [slots[s] EXCEPT !.at = stage])
Leaves(s) == Now(s, FreeRow)

StoredAnew(k) ==
  /\ saleRevision < MaxPuts
  /\ saleRevision' = saleRevision + 1
  /\ pending' = [pending EXCEPT ![k] = saleRevision + 1]

\* compareAndDelete
RemoveRevision(k, rev) ==
  pending' = IF pending[k] = rev THEN [pending EXCEPT ![k] = 0] ELSE pending

DropSale(s) == RemoveRevision(slots[s].key, slots[s].revision) /\ Leaves(s)

\* What a write that Commerce answers, refuses or applies unheard leaves.
SaleAnswers == {"done"} \cup (SweepFaults \cap {"refused", "lost"})
Sells(answer, what) ==
  selling' = IF answer = "refused" THEN selling ELSE what

\* sellScheduledPages takes up a record for an allowed visitor.
TakeRecord(s) ==
  /\ Is(s, "idle")
  /\ \E k \in {x \in Keys : pending[x] # 0} :
       Now(s, [FreeRow EXCEPT
         !.key = k, !.revision = pending[k],
         !.listed = IF k \in SaleProducts THEN pending[k] ELSE 0,
         !.sale = IF k = "page" THEN saleRecord ELSE @,
         !.product = IF k \in SaleProducts THEN k ELSE NoSale,
         !.at = IF k \in SaleProducts THEN "visitor" ELSE "content"])
  /\ UNCHANGED <<salePage, pending, saleRecord, saleRevision, selling, unpublish, saleLog>>

Unreadable == "unread" \in SweepFaults

\* productPage, first await.
ReadSaleContent(s) ==
  /\ Is(s, "content")
  /\ \/ Now(s, [slots[s] EXCEPT !.at = "link",
            !.read = [published |-> salePage.published, scheduled |-> salePage.scheduled]])
     \/ Unreadable /\ Leaves(s)
  /\ UNCHANGED <<salePage, pending, saleRecord, saleRevision, selling, unpublish, saleLog>>

\* productPage, second await, and what is decided from the page: a record of a
\* page that is scheduled again waits; one whose publish is not done is dropped
\* once it is stale; one that allows nothing, or whose scheduler may no longer,
\* is dropped.
ReadSaleLink(s) ==
  LET copy == slots[s].sale
      read == slots[s].read
      waits == slots[s].key = "page" /\ (read.scheduled \/ ~copy.published)
      goesOn == read.published
                  /\ (slots[s].key = "page" => ~waits /\ copy.granted) IN
  /\ Is(s, "link")
  /\ \/ (waits \/ Unreadable) /\ Leaves(s) /\ UNCHANGED pending
     \/ ~(slots[s].key = "page" /\ read.scheduled) /\ DropSale(s)
     \/ /\ goesOn
        /\ Now(s, [slots[s] EXCEPT !.at = "visitor", !.product = salePage.product,
                                   !.sale = FreeRow.sale, !.read = FreeRow.read])
        /\ UNCHANGED pending
  /\ UNCHANGED <<salePage, saleRecord, saleRevision, selling, unpublish, saleLog>>

\* visitorNow: the sweep ends for a visitor who may no longer.
VisitorNow(s) ==
  /\ Is(s, "visitor")
  /\ \/ Leaves(s)
     \/ Move(s, CASE slots[s].key = "page" -> "unchanged"
                  [] slots[s].key = "retitle" -> "rename"
                  [] OTHER -> "off")
  /\ UNCHANGED <<salePage, pending, saleRecord, saleRevision, selling, unpublish, saleLog>>

\* The record must still be the one read.
UnchangedRecord(s) ==
  /\ Is(s, "unchanged")
  /\ IF pending["page"] = slots[s].revision THEN Move(s, "on") ELSE Leaves(s)
  /\ UNCHANGED <<salePage, pending, saleRecord, saleRevision, selling, unpublish, saleLog>>

\* A write that failed keeps the record for a later sweep.
PutSaleOn(s) ==
  /\ Is(s, "on")
  /\ \E answer \in SaleAnswers :
       /\ Sells(answer, salePage.product)
       /\ IF answer = "done" THEN Move(s, "after") ELSE Leaves(s)
       /\ saleLog' = saleLog \cup (IF answer = "lost" THEN {"lostOn"} ELSE {})
  /\ UNCHANGED <<salePage, pending, saleRecord, saleRevision, unpublish>>

\* The page is read again, then what it sells, then the record.
ReadAfter(s) ==
  /\ Is(s, "after")
  /\ \/ Now(s, [slots[s] EXCEPT !.at = "afterLink", !.fits = salePage.published])
     \/ Unreadable /\ Move(s, "granted")
  /\ UNCHANGED <<salePage, pending, saleRecord, saleRevision, selling, unpublish, saleLog>>

LinkAfter(s) ==
  /\ Is(s, "afterLink")
  /\ \E fits \in {salePage.product = slots[s].product}
                  \cup (IF Unreadable THEN {FALSE} ELSE {}) :
       Now(s, [slots[s] EXCEPT !.at = "granted", !.fits = @ /\ fits])
  /\ UNCHANGED <<salePage, pending, saleRecord, saleRevision, selling, unpublish, saleLog>>

StillGranted(s) ==
  /\ Is(s, "granted")
  /\ Now(s, [slots[s] EXCEPT !.fits = FALSE,
       !.at = IF pending["page"] = slots[s].revision /\ slots[s].fits
              THEN "rename" ELSE "list"])
  /\ UNCHANGED <<salePage, pending, saleRecord, saleRevision, selling, unpublish, saleLog>>

\* renameToTitle never changes what is for sale.  A title that is unfinished
\* stays listed, or is listed after a sale.
RenameSale(s) ==
  /\ Is(s, "rename")
  /\ \/ DropSale(s) /\ UNCHANGED saleRevision
     \/ slots[s].key = "retitle" /\ Leaves(s) /\ UNCHANGED <<pending, saleRevision>>
     \/ slots[s].key = "page" /\ StoredAnew("retitle") /\ Move(s, "drop")
  /\ UNCHANGED <<salePage, saleRecord, selling, unpublish, saleLog>>

\* A take-back is listed before it is tried, with a fixed key per product.
ListTakeback(s) ==
  /\ Is(s, "list")
  /\ StoredAnew(slots[s].product)
  /\ Move(s, "listed")
  /\ UNCHANGED <<salePage, saleRecord, selling, unpublish, saleLog>>

\* Its revision is read; one removed meanwhile was answered by another sweep.
ReadTakeback(s) ==
  LET listed == pending[slots[s].product] IN
  /\ Is(s, "listed")
  /\ Now(s, [slots[s] EXCEPT !.at = IF listed = 0 THEN "drop" ELSE "off",
                             !.listed = listed])
  /\ UNCHANGED <<salePage, pending, saleRecord, saleRevision, selling, unpublish, saleLog>>

Onward(s) ==
  IF slots[s].key = "page"
  THEN Now(s, [slots[s] EXCEPT !.at = "drop", !.listed = 0, !.product = NoSale])
  ELSE Leaves(s)

\* Mutant: the listing is removed although Commerce refused.
TakeOffRegardless(s) ==
  /\ Is(s, "off")
  /\ \E answer \in SaleAnswers : Sells(answer, NoSale) /\ Move(s, "remove")
  /\ UNCHANGED <<salePage, pending, saleRecord, saleRevision, unpublish, saleLog>>

\* offSale: only once Commerce confirms is the listing removed.
TakeSaleOff(s) ==
  /\ Is(s, "off")
  /\ \E answer \in SaleAnswers :
       /\ Sells(answer, NoSale)
       /\ IF answer = "done" THEN Move(s, "remove") ELSE Onward(s)
  /\ UNCHANGED <<salePage, pending, saleRecord, saleRevision, unpublish, saleLog>>

RemoveTakeback(s) ==
  /\ Is(s, "remove")
  /\ RemoveRevision(slots[s].product, slots[s].listed)
  /\ Onward(s)
  /\ UNCHANGED <<salePage, saleRecord, saleRevision, selling, unpublish, saleLog>>

DropSaleRecord(s) ==
  /\ Is(s, "drop") /\ DropSale(s)
  /\ UNCHANGED <<salePage, saleRecord, saleRevision, selling, unpublish, saleLog>>

\* What the sweep still does about a sale it may have to take back.
Owing(s) == slots[s].at \in {"after", "afterLink", "granted", "list"}

\* The isolate drops the sweep between two awaits, or storage fails it.
SweepDies(s) ==
  /\ "dies" \in SweepFaults /\ ~Is(s, "idle")
  /\ Leaves(s)
  /\ saleLog' = saleLog \cup (IF Owing(s) THEN {"owing"} ELSE {})
  /\ UNCHANGED <<salePage, pending, saleRecord, saleRevision, selling, unpublish>>
-----------------------------------------------------------------------------
(***************************************************************************)
(* EmDash, the plugin's hooks (ScheduleGrants) and people beside the sweep.*)
(***************************************************************************)
\* A schedule, and what content:afterSchedule confirms of its scheduler.
ScheduleSale ==
  /\ ~salePage.scheduled
  /\ salePage' = [salePage EXCEPT !.scheduled = TRUE]
  /\ StoredAnew("page")
  /\ \E granted \in BOOLEAN :
       saleRecord' = [published |-> FALSE, granted |-> granted]
  /\ UNCHANGED <<selling, slots, unpublish, saleLog>>

PublishScheduled ==
  /\ salePage.scheduled
  /\ salePage' = [salePage EXCEPT !.scheduled = FALSE, !.published = TRUE]
  /\ UNCHANGED <<pending, saleRecord, saleRevision, selling, slots, unpublish, saleLog>>

\* content:afterPublish marks the record whose publish began; a schedule
\* stored since has put it back to waiting.
RecordPublished ==
  /\ salePage.published /\ ~salePage.scheduled
  /\ pending["page"] # 0 /\ ~saleRecord.published
  /\ StoredAnew("page")
  /\ saleRecord' = [saleRecord EXCEPT !.published = TRUE]
  /\ UNCHANGED <<salePage, selling, slots, unpublish, saleLog>>

\* A person's unpublish, after its first off-sale write: the page, the record,
\* and the off-sale write that follows (ProductOnSale).
Unpublish ==
  /\ salePage.published /\ unpublish = "none"
  /\ salePage' = [salePage EXCEPT !.published = FALSE]
  /\ unpublish' = "hook"
  /\ UNCHANGED <<pending, saleRecord, saleRevision, selling, slots, saleLog>>

\* The record goes when the page is unscheduled, unpublished or deleted.
RecordRemoved ==
  /\ pending' = [pending EXCEPT !["page"] = 0]
  /\ unpublish' = IF unpublish = "hook" THEN "off" ELSE unpublish
  /\ pending' # pending \/ unpublish' # unpublish
  /\ UNCHANGED <<salePage, saleRecord, saleRevision, selling, slots, saleLog>>

\* The off-sale write after the page change; one that fails is warned about.
SaleOffAgain ==
  /\ unpublish = "off" /\ unpublish' = "none"
  /\ \E answer \in SaleAnswers :
       /\ Sells(answer, NoSale)
       /\ saleLog' = saleLog \cup (IF answer = "done" THEN {}
                                  ELSE {"offFailed"})
  /\ UNCHANGED <<salePage, pending, saleRecord, saleRevision, slots>>

PanelSalePicks(p) ==
  /\ salePage.product # p
  /\ salePage' = [salePage EXCEPT !.product = p]
  /\ UNCHANGED <<pending, saleRecord, saleRevision, selling, slots, unpublish, saleLog>>

SweepStep(s) ==
  \/ ReadSaleContent(s) \/ ReadSaleLink(s) \/ VisitorNow(s) \/ UnchangedRecord(s)
  \/ PutSaleOn(s) \/ ReadAfter(s) \/ LinkAfter(s) \/ StillGranted(s)
  \/ RenameSale(s) \/ ListTakeback(s) \/ ReadTakeback(s) \/ TakeSaleOff(s)
  \/ RemoveTakeback(s) \/ DropSaleRecord(s)

SaleNext ==
  \/ \E s \in Slots : TakeRecord(s) \/ SweepStep(s) \/ SweepDies(s)
  \/ ScheduleSale \/ PublishScheduled \/ RecordPublished
  \/ Unpublish \/ RecordRemoved \/ SaleOffAgain
  \/ \E p \in SaleProducts : PanelSalePicks(p)

SaleSpec == SaleInit /\ [][SaleNext]_saleVars
-----------------------------------------------------------------------------
\* A product that a sweep put on sale behind a page that is no longer published
\* is still owed an off-sale write: by a sweep that has yet to look at the page
\* again, by a take-back that is listed, or by the unpublish; unless a sweep
\* was dropped before it listed one, or Commerce applied an on-sale write it
\* did not answer, or failed the unpublish.
SweepSaleOwed ==
  selling # NoSale /\ ~salePage.published =>
    \/ \E s \in Slots : Owing(s)
    \/ \E p \in SaleProducts : pending[p] # 0
    \/ unpublish # "none"
    \/ saleLog # {}
=============================================================================
