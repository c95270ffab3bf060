----------------------------- MODULE CartPrices -----------------------------
(***************************************************************************)
(* The prices the cart page shows (features/guest-cart/guest-cart-client.ts*)
(* and present.ts): one page's copy of the browser's cart, and the check   *)
(* of its prices, which is asked for one at a time.  Other tabs and the    *)
(* page's tools change the stored cart; the browser tells the page later.  *)
(* The checkout itself is GuestCheckout; here it only locks the page.      *)
(***************************************************************************)
EXTENDS GuestCart

CONSTANT MaxCartEdits     \* bound: changes of the stored cart

ASSUME PricesAssumption == MaxCartEdits \in Nat

VARIABLES
  saved,         \* the cart the browser stores
  edits,         \* changes so far
  told,          \* whether the browser still owes the page a storage event
  page,          \* the page's own cart, whether it could not be saved, the lock
  check,         \* the check of prices: what it asked, what waits, how it failed
  prices,        \* per line: what the last check that counted said
  priceLog       \* history: "unconfirmed", "unseen"

priceVars == <<saved, edits, told, page, check, prices, priceLog>>

NoCheck == [asked |-> {}, queued |-> FALSE, failed |-> FALSE, retrying |-> FALSE]
NoPrices == [l \in Lines |-> "none"]
Ids == Held(page.cart)
Pending == check.asked # {}

PricesTypeOK ==
  /\ CartTypeOK(saved) /\ edits \in 0 .. MaxCartEdits /\ told \in BOOLEAN
  /\ page.cart \in Carts /\ page.unsaved \in BOOLEAN /\ page.locked \in BOOLEAN
  /\ check \in [asked : SUBSET Lines, queued : BOOLEAN, failed : BOOLEAN, retrying : BOOLEAN]
  /\ prices \in [Lines -> {"none", "priced", "blocked"}]
  /\ priceLog \subseteq {"unconfirmed", "unseen"}

\* hydrateGuestCartPage: the cart as stored, and a first check.
PricesInit ==
  /\ saved \in {c \in Carts : CartTypeOK(c)}
  /\ page = [cart |-> saved, unsaved |-> FALSE, locked |-> FALSE]
  /\ check = [NoCheck EXCEPT !.asked = Held(saved)]
  /\ prices = NoPrices
  /\ edits = 0 /\ told = FALSE /\ priceLog = {}
-----------------------------------------------------------------------------
\* refreshSnapshot: one at a time, the next one waits; none for an empty cart.
\* A check after a failed one is a retry.
Refresh(cart, c) ==
  IF c.asked # {}
  THEN check' = [c EXCEPT !.queued = TRUE] /\ UNCHANGED <<prices, priceLog>>
  ELSE IF cart = Empty
  THEN check' = NoCheck /\ prices' = NoPrices /\ priceLog' = {}
  ELSE /\ check' = [asked |-> Held(cart), queued |-> FALSE, failed |-> FALSE,
                    retrying |-> c.failed \/ c.retrying]
       /\ priceLog' = priceLog \ {"unseen"}
       /\ UNCHANGED prices

\* A page that takes up lines it was not told of, and asks no prices for them.
TakesUp(next) ==
  priceLog' = priceLog \cup (IF Held(next) \subseteq Ids THEN {} ELSE {"unseen"})

\* The cart a control starts from: the stored one, or the page's that could not
\* be saved.
Base == IF page.unsaved THEN page.cart ELSE saved

\* persist: kept in memory when the browser cannot store it.
Persists(cart) ==
  \/ saved' = cart /\ page' = [page EXCEPT !.cart = cart, !.unsaved = FALSE]
  \/ UNCHANGED saved /\ page' = [page EXCEPT !.cart = cart, !.unsaved = TRUE]

Edits == edits < MaxCartEdits /\ edits' = edits + 1
-----------------------------------------------------------------------------
RemoveCartLine(l) ==
  /\ ~page.locked /\ Edits
  /\ AcceptsChange(Base, l)
  /\ Persists(RemoveLine(Base, l))
  /\ Refresh(RemoveLine(Base, l), check)
  /\ UNCHANGED told

\* A quantity asks no price: every line has one.
ChangeLine(l) ==
  /\ ~page.locked /\ Edits
  /\ AcceptsChange(Base, l)
  /\ \E q \in 1 .. MaxQuantity : Persists(SetQuantity(Base, l, q))
  /\ TakesUp(Base)
  /\ UNCHANGED <<told, check, prices>>

\* Either, of a line that is gone by now.
TooLate(l) ==
  /\ ~page.locked /\ ~page.unsaved
  /\ l \in Ids /\ ~AcceptsChange(saved, l)
  /\ page' = [page EXCEPT !.cart = saved]
  /\ TakesUp(saved)
  /\ UNCHANGED <<saved, edits, told, check, prices>>

\* guest-cart-updated, from the page's own tools and add buttons; the reload on
\* dinkus:guest-cart-hydrate that follows a tool's finds the same cart.
CartUpdated ==
  /\ Edits
  /\ \E cart \in {c \in Carts : CartTypeOK(c)} :
       /\ saved' = cart
       /\ page' = [page EXCEPT !.cart = cart, !.unsaved = FALSE]
       /\ Refresh(cart, check)
  /\ UNCHANGED told

OtherTab ==
  /\ Edits /\ told' = TRUE
  /\ saved' \in {c \in Carts : CartTypeOK(c)} \ {saved}
  /\ UNCHANGED <<page, check, prices, priceLog>>

\* Mutant: the page shows the stored cart and asks no prices.
SyncRepaints ==
  /\ told' = FALSE
  /\ ~page.unsaved /\ ~page.locked /\ saved # page.cart
  /\ page' = [page EXCEPT !.cart = saved]
  /\ UNCHANGED <<saved, edits, check, prices, priceLog>>

\* syncStoredCart, on a storage event, a focus or a return to the page.
Sync ==
  /\ told' = FALSE
  /\ ~page.unsaved /\ ~page.locked /\ saved # page.cart
  /\ page' = [page EXCEPT !.cart = saved]
  /\ Refresh(saved, check)
  /\ UNCHANGED <<saved, edits>>

\* It has nothing to take up, or may not.
SyncNothing ==
  /\ told /\ told' = FALSE
  /\ page.unsaved \/ page.locked \/ saved = page.cart
  /\ UNCHANGED <<saved, edits, page, check, prices, priceLog>>

Lock ==
  /\ ~page.locked
  /\ page' = [page EXCEPT !.locked = TRUE]
  /\ UNCHANGED <<saved, edits, told, check, prices, priceLog>>

\* The checkout ends; one that settled has taken lines off the stored cart, and
\* the page loads it.
Unlock ==
  /\ page.locked
  /\ \/ page' = [page EXCEPT !.locked = FALSE] /\ UNCHANGED <<saved, priceLog>>
     \/ /\ \E bought \in Carts :
             /\ saved' = Remaining(saved, bought)
             /\ page' = [cart |-> saved', unsaved |-> FALSE, locked |-> FALSE]
             /\ TakesUp(saved')
  /\ UNCHANGED <<edits, told, check, prices>>

RetryPrices ==
  /\ check.failed /\ ~Pending
  /\ Refresh(page.cart, [check EXCEPT !.retrying = TRUE])
  /\ UNCHANGED <<saved, edits, told, page>>
-----------------------------------------------------------------------------
\* Whether the lines are those that were asked for.  Their ids are compared in
\* order: one taken off and added again stands last, and differs.
StillAsked == {Ids = check.asked} \cup (IF \E a, b \in Ids : a # b THEN {FALSE} ELSE {})

\* The check is answered, fails, or times out.  One of other lines than the page
\* has by now counts for nothing and is asked again, as is one that waited.
CheckAnswered ==
  /\ Pending
  /\ \E current \in StillAsked, ok \in BOOLEAN, said \in [check.asked -> {"priced", "blocked"}] :
       LET again == check.queued \/ ~current
           failed == current /\ ~ok
           log == IF ~current THEN priceLog
                  ELSE IF ok THEN {} ELSE priceLog \cup {"unconfirmed"} IN
       IF again /\ page.cart = Empty
       THEN check' = NoCheck /\ prices' = NoPrices /\ priceLog' = {}
       ELSE /\ prices' = IF current /\ ok
                         THEN [l \in Lines |-> IF l \in check.asked THEN said[l] ELSE "none"]
                         ELSE prices
            /\ check' = [asked |-> IF again THEN Ids ELSE {}, queued |-> FALSE,
                          failed |-> ~again /\ failed, retrying |-> again /\ failed]
            /\ priceLog' = IF again THEN log \ {"unseen"} ELSE log
  /\ UNCHANGED <<saved, edits, told, page>>

PricesNext ==
  \/ \E l \in Lines : RemoveCartLine(l) \/ ChangeLine(l) \/ TooLate(l)
  \/ CartUpdated \/ OtherTab \/ Sync \/ SyncNothing \/ Lock \/ Unlock \/ RetryPrices
  \/ CheckAnswered

PricesSpec == PricesInit /\ [][PricesNext]_priceVars
-----------------------------------------------------------------------------
\* presentGuestCart offers the checkout.
CheckoutOffered ==
  /\ page.cart # Empty /\ ~Pending /\ ~check.failed
  /\ \A l \in Ids : prices[l] = "priced"

\* A page at rest knows the price of every line it shows, or says that it could
\* not load them: no change of the cart, however it raced with a check, leaves a
\* line waiting for a check nobody asked for; except lines that an edit or a
\* settled order took up from another tab before the page was told of them.
RestKnowsPrices ==
  ~Pending /\ ~check.failed /\ "unseen" \notin priceLog =>
    \A l \in Ids : prices[l] # "none"

\* Checkout is offered on prices of the last check, never on older ones that a
\* failed check left in place.
OfferIsConfirmed == CheckoutOffered => "unconfirmed" \notin priceLog

\* What the page says of prices is so: none is awaited that nobody asked for,
\* and none is offered that a later check did not confirm.
PricesAreTold == RestKnowsPrices /\ OfferIsConfirmed
=============================================================================
