---------------------------- MODULE PlaygroundTour ----------------------------
(***************************************************************************)
(* The playground tour (features/playground-tour): every look at the tour  *)
(* reads the visitor's store afresh and ticks the steps that are done; the *)
(* admin card also says well done for steps it has not praised before.     *)
(* A look is a chain of reads, one await each, and looks of several tabs   *)
(* overlap with each other, with the visitor's work and with the example   *)
(* order the demo account's sign-in adds.  They overlap with the store's   *)
(* own seeding too: the middleware lets a request go on while another one  *)
(* seeds the store, or after a pass that failed (PlaygroundSeed).          *)
(*                                                                         *)
(* A version of the product pages or of the catalog stands for its digest. *)
(* Left out: wording, links and the blocks of the card.                    *)
(***************************************************************************)
EXTENDS Naturals, FiniteSets

CONSTANTS
  Looks,         \* looks at the tour under way at once
  CheckoutOpen,  \* whether the playground's test checkout is open
  MaxVersion,    \* bound: versions of the pages and of the catalog
  MaxExamples    \* EXAMPLE_ORDER_IDS: the orders the store adds itself, at most

ASSUME TourAssumption ==
  CheckoutOpen \in BOOLEAN /\ MaxVersion \in Nat \ {0} /\ MaxExamples \in Nat \ {0}

VARIABLES
  store,         \* the visitor's store, as the tour reads it
  note,          \* the tour's options: baselines, celebrated steps
  look,          \* per look: how far it is and what it read
  earned,        \* history: steps the visitor did
  intruded       \* history: steps whose reads the store's own writes came between

tourVars == <<store, note, look, earned, intruded>>

TourSteps == {"edit-product", "connect-payments", "place-order", "ship-order"}
Versions == 0 .. MaxVersion
NoBaseline == MaxVersion + 1
Digests == {"pages", "catalog"}
NoLook == [at |-> "idle", admin |-> FALSE, read |-> 0, examples |-> 0,
           done |-> {}, seen |-> {}]
Points == {"idle", "pages", "note pages", "set pages", "catalog", "note catalog",
           "set catalog", "connect", "examples", "orders", "sample", "labels",
           "shop", "seen", "praise"}

\* The store, the tour's notes and the looks keep to their types.
TourTypeOK ==
  /\ store.pages \in Versions /\ store.catalog \in Versions
  /\ store.unseeded \subseteq Digests
  /\ store.examples \in 0 .. MaxExamples /\ store.own \in 0 .. 1
  /\ store.sample \in 0 .. 1 /\ store.labels \in 0 .. 1
  /\ note.pages \in Versions \cup {NoBaseline}
  /\ note.catalog \in Versions \cup {NoBaseline}
  /\ note.celebrated \subseteq TourSteps
  /\ \A l \in Looks : /\ look[l].at \in Points /\ look[l].done \subseteq TourSteps
                      /\ look[l].seen \subseteq TourSteps
  /\ earned \subseteq TourSteps /\ intruded \subseteq TourSteps

\* `welcome`: the baseline a visitor from before the tour has.  The store may be
\* new, half seeded, or an older one that a newer seed still adds to.
TourInit ==
  /\ \E welcome \in {NoBaseline, 0} :
       note = [pages |-> NoBaseline, catalog |-> NoBaseline,
               welcome |-> welcome, celebrated |-> {}]
  /\ \E unseeded \in SUBSET Digests :
       store = [pages |-> 0, catalog |-> 0, unseeded |-> unseeded,
                connected |-> FALSE, examples |-> 0, own |-> 0, sample |-> 0,
                labels |-> 0, visited |-> FALSE]
  /\ look = [l \in Looks |-> NoLook]
  /\ earned = {} /\ intruded = {}

Reaches(l, at) == look' = [look EXCEPT ![l].at = at]
Reads(l, at, read) == look' = [look EXCEPT ![l].at = at, ![l].read = read]
Finds(l, at, steps) ==
  look' = [look EXCEPT ![l].at = at, ![l].done = @ \cup steps,
                       ![l].read = 0, ![l].examples = 0]
Given(steps, condition) == {s \in steps : condition}
-----------------------------------------------------------------------------
\* recordShopVisit, as the shop's pages make before they look.
OpensShop(l) ==
  /\ look[l].at = "idle"
  /\ look' = [look EXCEPT ![l] = [NoLook EXCEPT !.at = "pages"]]
  /\ store' = [store EXCEPT !.visited = TRUE]
  /\ earned' = earned \cup Given({"place-order"}, ~CheckoutOpen)
  /\ UNCHANGED <<note, intruded>>

OpensCard(l) ==
  /\ look[l].at = "idle"
  /\ look' = [look EXCEPT ![l] = [NoLook EXCEPT !.at = "pages", !.admin = TRUE]]
  /\ UNCHANGED <<store, note, earned, intruded>>

(***************************************************************************)
(* productEdited: the digest of the pages, then its baseline (changedSince)*)
(* and, unless the pages differ, the same for the catalog.                 *)
(***************************************************************************)
ReadsPages(l) ==
  /\ look[l].at = "pages"
  /\ Reads(l, "note pages", store.pages)
  /\ UNCHANGED <<store, note, earned, intruded>>

ReadsCatalog(l) ==
  /\ look[l].at = "catalog"
  /\ Reads(l, "note catalog", store.catalog)
  /\ UNCHANGED <<store, note, earned, intruded>>

\* Pages that differ spare the look the catalog.
PagesCompared(l, baseline) ==
  IF look[l].read = baseline THEN Reads(l, "catalog", 0)
  ELSE Finds(l, "connect", {"edit-product"})

CatalogCompared(l, baseline) ==
  Finds(l, "connect", Given({"edit-product"}, look[l].read # baseline))

NotesPages(l) ==
  /\ look[l].at = "note pages"
  /\ IF note.pages = NoBaseline THEN Reaches(l, "set pages")
     ELSE PagesCompared(l, note.pages)
  /\ UNCHANGED <<store, note, earned, intruded>>

NotesCatalog(l) ==
  /\ look[l].at = "note catalog"
  /\ IF note.catalog = NoBaseline THEN Reaches(l, "set catalog")
     ELSE CatalogCompared(l, note.catalog)
  /\ UNCHANGED <<store, note, earned, intruded>>

\* The first look makes what it read the baseline; the catalog's takes the one
\* of the welcome card before the tour.
SetsPages(l) ==
  /\ look[l].at = "set pages"
  /\ note' = [note EXCEPT !.pages = look[l].read]
  /\ PagesCompared(l, look[l].read)
  /\ UNCHANGED <<store, earned, intruded>>

SetsCatalog(l) ==
  /\ look[l].at = "set catalog"
  /\ LET baseline == IF note.welcome # NoBaseline THEN note.welcome ELSE look[l].read
     IN note' = [note EXCEPT !.catalog = baseline] /\ CatalogCompared(l, baseline)
  /\ UNCHANGED <<store, earned, intruded>>

\* A part that cannot be read counts as not done: orFalse around the pages, and
\* around the whole of productEdited.
PagesUnread(l) ==
  /\ look[l].at \in {"pages", "note pages", "set pages"}
  /\ Reads(l, "catalog", 0)
  /\ UNCHANGED <<store, note, earned, intruded>>

CatalogUnread(l) ==
  /\ look[l].at \in {"catalog", "note catalog", "set catalog"}
  /\ Finds(l, "connect", {})
  /\ UNCHANGED <<store, note, earned, intruded>>
-----------------------------------------------------------------------------
ReadsConnected(l) ==
  /\ look[l].at = "connect"
  /\ Finds(l, "examples", Given({"connect-payments"}, store.connected))
  /\ UNCHANGED <<store, note, earned, intruded>>

\* visitorOrderCount: the example orders there are, then all orders.
CountsExamples(l) ==
  /\ look[l].at = "examples"
  /\ look' = [look EXCEPT ![l].at = "orders", ![l].examples = store.examples]
  /\ UNCHANGED <<store, note, earned, intruded>>

\* A mutant: the examples count too.
AllOrders(l) == store.examples + store.own

VisitorOrders(l) == store.examples + store.own - look[l].examples

CountsOrders(l) ==
  /\ look[l].at = "orders"
  /\ Finds(l, "sample", Given({"place-order"}, CheckoutOpen /\ VisitorOrders(l) > 0))
  /\ UNCHANGED <<store, note, earned, intruded>>

\* visitorLabelCount: the sample's label, if it is there, then all labels.
CountsSample(l) ==
  /\ look[l].at = "sample"
  /\ look' = [look EXCEPT ![l].at = "labels", ![l].examples = store.sample]
  /\ UNCHANGED <<store, note, earned, intruded>>

VisitorLabels(l) == store.sample + store.labels - look[l].examples

CountsLabels(l) ==
  /\ look[l].at = "labels"
  /\ Finds(l, "shop", Given({"ship-order"}, VisitorLabels(l) > 0))
  /\ UNCHANGED <<store, note, earned, intruded>>

\* The tour page and the shop guide end here, having shown what is done.
ReadsVisit(l) ==
  /\ look[l].at = "shop"
  /\ IF look[l].admin
     THEN Finds(l, "seen", Given({"place-order"}, ~CheckoutOpen /\ store.visited))
     ELSE look' = [look EXCEPT ![l] = NoLook]
  /\ UNCHANGED <<store, note, earned, intruded>>

PartUnread(l) ==
  /\ \E p \in {<<"connect", "examples">>, <<"examples", "sample">>,
               <<"orders", "sample">>, <<"sample", "shop">>, <<"labels", "shop">>} :
       look[l].at = p[1] /\ Finds(l, p[2], {})
  /\ UNCHANGED <<store, note, earned, intruded>>
-----------------------------------------------------------------------------
(***************************************************************************)
(* newlyDoneSteps: the celebrated steps are read, and those that are done  *)
(* now and not among them are added and praised.  When that fails, nothing *)
(* is praised.                                                             *)
(***************************************************************************)
ReadsCelebrated(l) ==
  /\ look[l].at = "seen"
  /\ look' = [look EXCEPT ![l].seen = note.celebrated, ![l].at =
                IF look[l].done \subseteq note.celebrated THEN "idle" ELSE "praise"]
  /\ UNCHANGED <<store, note, earned, intruded>>

Celebrated(l) == look[l].seen \cup look[l].done

Praises(l) ==
  /\ look[l].at = "praise"
  /\ note' = [note EXCEPT !.celebrated = Celebrated(l)]
  /\ look' = [look EXCEPT ![l] = NoLook]
  /\ UNCHANGED <<store, earned, intruded>>

PraiseFails(l) ==
  /\ look[l].at \in {"seen", "praise"}
  /\ look' = [look EXCEPT ![l] = NoLook]
  /\ UNCHANGED <<store, note, earned, intruded>>
-----------------------------------------------------------------------------
(***************************************************************************)
(* External: the visitor's work in the store.                              *)
(***************************************************************************)
EditsProduct(digest) ==
  /\ \E v \in Versions : v # store[digest] /\ store' = [store EXCEPT ![digest] = v]
  /\ earned' = earned \cup {"edit-product"}
  /\ UNCHANGED <<note, look, intruded>>

Does(field, value, step) ==
  /\ store' = [store EXCEPT ![field] = value]
  /\ earned' = earned \cup {step}
  /\ UNCHANGED <<note, look, intruded>>

VisitorWorks ==
  \/ \E d \in Digests : EditsProduct(d)
  \/ ~store.connected /\ Does("connected", TRUE, "connect-payments")
  \/ CheckoutOpen /\ store.own = 0 /\ Does("own", 1, "place-order")
  \/ store.labels = 0 /\ Does("labels", 1, "ship-order")
-----------------------------------------------------------------------------
(***************************************************************************)
(* What the store does itself: the passes that seed it, while they have    *)
(* not made all there is to make, and the demo account's order when its    *)
(* visitor signs in.  What a pass makes again, the visitor had edited.     *)
(***************************************************************************)
Intrudes(step, read) == intruded' = intruded \cup Given({step}, read)

\* A baseline of this digest is kept, or a look holds what it read of it.
Relied(digest) ==
  IF digest = "pages"
  THEN \/ note.pages # NoBaseline
       \/ \E l \in Looks : look[l].at \in {"note pages", "set pages"}
  ELSE \/ note.catalog # NoBaseline \/ note.welcome # NoBaseline
       \/ \E l \in Looks : look[l].at \in {"note catalog", "set catalog"}

\* A page, or a product with its options, prices and sale; maybe the last one.
Seeds(digest) ==
  /\ digest \in store.unseeded
  /\ \E v \in Versions \ {store[digest]}, rest \in {{}, {digest}} :
       store' = [store EXCEPT ![digest] = v, !.unseeded = (@ \ {digest}) \cup rest]
  /\ Intrudes("edit-product", Relied(digest))
  /\ UNCHANGED <<note, look, earned>>

\* A sample order or the demo account's, each written once.
AddsExample ==
  /\ store.examples < MaxExamples
  /\ store' = [store EXCEPT !.examples = @ + 1]
  /\ Intrudes("place-order", \E l \in Looks : look[l].at = "orders")
  /\ UNCHANGED <<note, look, earned>>

AddsLabel ==
  /\ store.sample = 0
  /\ store' = [store EXCEPT !.sample = 1]
  /\ Intrudes("ship-order", \E l \in Looks : look[l].at = "labels")
  /\ UNCHANGED <<note, look, earned>>

StoreWorks == (\E d \in Digests : Seeds(d)) \/ AddsExample \/ AddsLabel

TourNext ==
  \/ \E l \in Looks :
       \/ OpensShop(l) \/ OpensCard(l) \/ ReadsPages(l) \/ ReadsCatalog(l)
       \/ NotesPages(l) \/ NotesCatalog(l) \/ SetsPages(l) \/ SetsCatalog(l)
       \/ PagesUnread(l) \/ CatalogUnread(l) \/ ReadsConnected(l)
       \/ CountsExamples(l) \/ CountsOrders(l) \/ CountsSample(l) \/ CountsLabels(l)
       \/ ReadsVisit(l) \/ PartUnread(l) \/ ReadsCelebrated(l)
       \/ Praises(l) \/ PraiseFails(l)
  \/ VisitorWorks \/ StoreWorks

TourSpec == TourInit /\ [][TourNext]_tourVars
-----------------------------------------------------------------------------
\* However looks, work and the store's own writes overlap, a step is ticked or
\* praised only once the visitor did it ("placing a test order means one of the
\* visitor's own"), or the store wrote between two reads the tick compares: a page
\* or a product it seeded after the baseline, or the look that will set it, read
\* the digest; an example order or label it added between the two counts.  The
\* comment of productEdited says that the first of these cannot be.
TicksAreEarned ==
  LET ticked == note.celebrated \cup UNION {look[l].done : l \in Looks}
  IN ticked \subseteq earned \cup intruded
=============================================================================
