------------------------------ MODULE CartTools ------------------------------
(***************************************************************************)
(* The tools an agent in the page may call on the guest cart               *)
(* (features/guest-cart/webmcp.ts), over the cart that the browser's tabs  *)
(* share (storage.ts).  A call runs to its next fetch of prices in one     *)
(* step; other calls of the tab, the page's own controls and other tabs    *)
(* run between.  In the playground every page names the store it came      *)
(* from, and a newer store takes the browser's cart over; stores are       *)
(* numbered in the order they started.                                     *)
(*                                                                         *)
(* Left out: the order of the cart's lines (a cart that differs only in it *)
(* counts as changed in the code), collisions of the 32-bit fingerprint,   *)
(* and pages that name no store.                                           *)
(***************************************************************************)
EXTENDS GuestCart

CONSTANTS
  Tabs,          \* the browser's tabs
  AgentTabs,     \* those an agent is in
  ToolCalls,     \* tool calls at once
  MaxStores,     \* bound: playground stores this browser sees
  CartFaults     \* out of "writeFails", "unpriced"

VARIABLES
  cart,          \* what the browser stores
  writers,       \* history: the stores whose pages wrote its lines
  owner,         \* the store that has the browser's cart; 0: none yet
  newest,        \* the playground's store by now
  pageStore,     \* the store each tab's page came from
  catalog,       \* what Commerce says of the lines' price
  review,        \* per page: the quote under review, the confirmed one, the cart
  calls,         \* per tool call: where it waits
  asked,         \* history: the quote each page last asked to review, until it
                 \* saw the cart change
  handoff        \* history: what the last step handed over, if it did

toolVars == <<cart, writers, owner, newest, pageStore, catalog, review, calls,
              asked, handoff>>

ASSUME ToolsAssumption ==
  /\ AgentTabs \subseteq Tabs
  /\ MaxStores \in Nat \ {0}
  /\ CartFaults \subseteq {"writeFails", "unpriced"}

\* A line that is not sellable, and prices that are not heard, are refused alike.
Quotes == {"low", "high"}
Unpriced == "unpriced"

\* computeCartReviewFingerprint: equal for equal lines at equal prices.
Fingerprints == [lines : Carts, quote : Quotes]
NoQuote == [lines |-> Empty, quote |-> "none"]
NoReview == [pending |-> NoQuote, confirmed |-> NoQuote, of |-> NoQuote.lines, open |-> FALSE]
NoHandoff == [tab |-> "none"]
NoCall == [tab |-> "none", kind |-> "none", tries |-> 0, loaded |-> Empty,
           before |-> Empty, supplied |-> NoQuote]

ToolsTypeOK ==
  /\ CartTypeOK(cart) /\ catalog \in Quotes
  /\ owner \in 0 .. newest /\ newest \in 1 .. MaxStores
  /\ writers \subseteq 0 .. newest
  /\ pageStore \in [Tabs -> 1 .. newest]
  /\ \A t \in Tabs : /\ {review[t].pending, review[t].confirmed} \subseteq Fingerprints \cup {NoQuote}
                     /\ review[t].of \in Carts /\ review[t].open \in BOOLEAN
                     /\ asked[t] \in Fingerprints \cup {NoQuote}
  /\ \A k \in ToolCalls : /\ calls[k].tab \in Tabs \cup {"none"}
                          /\ calls[k].kind \in {"none", "read", "proceed"}
                          /\ calls[k].tries \in 0 .. 2 /\ calls[k].loaded \in Carts

ToolsInit ==
  /\ cart \in {Empty} \cup {[l \in Lines |-> 1]} /\ CartTypeOK(cart)
  /\ writers = {0} /\ owner = 0 /\ newest = 1
  /\ pageStore = [t \in Tabs |-> 1]
  /\ catalog = "low"
  /\ review = [t \in Tabs |-> NoReview]
  /\ calls = [k \in ToolCalls |-> NoCall]
  /\ asked = [t \in Tabs |-> NoQuote]
  /\ handoff = NoHandoff
-----------------------------------------------------------------------------
\* Mutant: a tab left open takes the cart back.
AdmittedAlways(t) == TRUE

\* admitPlaygroundStoreStorage: not for a page of an older store.
Admitted(t) == owner <= pageStore[t]

\* The cart a page finds: a newer store clears the one it takes over, the first
\* one keeps it; an older page finds no storage.
Found(t) ==
  IF Admitted(t) /\ owner \in {0, pageStore[t]} THEN cart ELSE Empty

\* Reading it, and reading it before it is written, admit the page's store.
Opens(t) ==
  /\ owner' = IF Admitted(t) THEN pageStore[t] ELSE owner
  /\ cart' = IF Admitted(t) THEN Found(t) ELSE cart
  /\ writers' = IF Admitted(t) /\ owner \notin {0, pageStore[t]} THEN {} ELSE writers

WritesCart(t, next) ==
  /\ Admitted(t)
  /\ owner' = pageStore[t] /\ cart' = next
  /\ writers' = (IF owner \in {0, pageStore[t]} THEN writers ELSE {}) \cup {pageStore[t]}

HandsNothing == handoff' = NoHandoff
-----------------------------------------------------------------------------
Idle(k) == calls[k].kind = "none"
EndsCall(k) == calls' = [calls EXCEPT ![k] = NoCall]

\* getCart up to its first fetch; an empty cart needs none.
Fetches(k, call) ==
  IF call.loaded = Empty THEN EndsCall(k) ELSE calls' = [calls EXCEPT ![k] = call]

\* get_cart, get_checkout_preview.
CallRead(k, t) ==
  /\ Idle(k) /\ Opens(t)
  /\ Fetches(k, [NoCall EXCEPT !.tab = t, !.kind = "read", !.loaded = Found(t)])
  /\ HandsNothing
  /\ UNCHANGED <<newest, pageStore, catalog, review, asked>>

\* proceed_to_checkout: an agent may send any fingerprint, or none.
CallProceed(k, t) ==
  /\ Idle(k) /\ Opens(t)
  /\ \E supplied \in [lines : Carts \ {Empty}, quote : Quotes] \cup {NoQuote} :
       Fetches(k, [NoCall EXCEPT !.tab = t, !.kind = "proceed", !.supplied = supplied,
                                 !.loaded = Found(t), !.before = Found(t)])
  /\ HandsNothing
  /\ UNCHANGED <<newest, pageStore, catalog, review, asked>>

\* What add_to_cart, update_cart_lines, cancel_cart and a patch with quantity 0
\* make of a cart; a patch with one bad line changes nothing.
Patched(c) ==
  {AddLine(c, a[1], a[2]) : a \in {x \in Lines \X (1 .. MaxQuantity) : AcceptsAdd(c, x[1], x[2])}}
    \cup {next \in Carts : CartTypeOK(next)}
    \cup {RemoveLine(c, l) : l \in {x \in Lines : AcceptsChange(c, x)}}

\* Mutant: it does not.
KeepsReview(t) == UNCHANGED review

\* A change of the cart ends its review.
EndsReview(t) == review' = [review EXCEPT ![t] = NoReview]
Withdraws(t) == asked' = [asked EXCEPT ![t] = NoQuote]

\* updateCart: saved, and the prices of the new cart read.
CallUpdate(k, t) ==
  /\ Idle(k)
  /\ \E next \in Patched(Found(t)) :
       /\ WritesCart(t, next)
       /\ Fetches(k, [NoCall EXCEPT !.tab = t, !.kind = "read", !.loaded = next])
  /\ EndsReview(t) /\ Withdraws(t) /\ HandsNothing
  /\ UNCHANGED <<newest, pageStore, catalog>>

\* It is refused, or its write fails.
UpdateFails(k, t) ==
  /\ Idle(k)
  /\ ~Admitted(t) \/ "writeFails" \in CartFaults
  /\ Opens(t) /\ HandsNothing
  /\ UNCHANGED <<newest, pageStore, catalog, review, calls, asked>>
-----------------------------------------------------------------------------
\* The page's own add button says that the cart changed; its other controls and
\* other tabs do not.
PageEdits(t) ==
  /\ \E next \in {c \in Carts : CartTypeOK(c)} :
       /\ WritesCart(t, next)
       /\ \/ UNCHANGED <<review, asked>>
          \/ review[t].open /\ next # review[t].of /\ EndsReview(t) /\ Withdraws(t)
  /\ HandsNothing
  /\ UNCHANGED <<newest, pageStore, catalog, calls>>

CatalogChanges ==
  /\ catalog' \in Quotes \ {catalog} /\ HandsNothing
  /\ UNCHANGED <<cart, writers, owner, newest, pageStore, review, calls, asked>>

StoreRestarts ==
  /\ newest < MaxStores /\ newest' = newest + 1 /\ HandsNothing
  /\ UNCHANGED <<cart, writers, owner, pageStore, catalog, review, calls, asked>>

\* A load drops the page's calls and its review, and reads the cart anew.
LoadTab(t) ==
  /\ pageStore' = [pageStore EXCEPT ![t] = newest]
  /\ owner' = newest
  /\ cart' = IF owner \in {0, newest} THEN cart ELSE Empty
  /\ writers' = IF owner \in {0, newest} THEN writers ELSE {}
  /\ review' = [review EXCEPT ![t] = NoReview]
  /\ asked' = [asked EXCEPT ![t] = NoQuote]
  /\ calls' = [k \in ToolCalls |-> IF calls[k].tab = t THEN NoCall ELSE calls[k]]
  /\ HandsNothing
  /\ UNCHANGED <<newest, catalog>>
-----------------------------------------------------------------------------
\* Mutant: the fingerprint that the agent sends is trusted.
ConfirmsQuote(r, call, quote, now) ==
  call.supplied = quote /\ call.before = now

\* The second of proceed_to_checkout's two steps: this very quote was asked to
\* be reviewed, of the cart as it was before, and is now.
Confirms(r, call, quote, now) ==
  /\ call.supplied = quote /\ quote \in {r.pending, r.confirmed}
  /\ call.before = now /\ r.open /\ r.of = now

\* getCart found the prices of `lines`; the stored cart is `now`.
Concludes(k, lines, got, now) ==
  LET t == calls[k].tab
      quote == [lines |-> lines, quote |-> got]
      priced == calls[k].kind = "proceed" /\ lines # Empty /\ got # Unpriced IN
  /\ EndsCall(k)
  /\ IF ~priced THEN UNCHANGED <<review, asked>> /\ HandsNothing
     ELSE IF Confirms(review[t], calls[k], quote, now)
     THEN /\ review' = [review EXCEPT ![t].confirmed = quote, ![t].of = now]
          /\ handoff' = [tab |-> t, quote |-> quote]
          /\ UNCHANGED asked
     ELSE /\ review' = [review EXCEPT ![t] =
               [pending |-> quote, confirmed |-> NoQuote, of |-> now, open |-> TRUE]]
          /\ asked' = [asked EXCEPT ![t] = quote]
          /\ HandsNothing

\* getCart, answered: a cart that changed meanwhile ends the review and is
\* priced again, twice at most.
Answered(k) ==
  LET call == calls[k]
      now == Found(call.tab) IN
  /\ ~Idle(k) /\ Opens(call.tab)
  /\ IF call.tries = 2 \/ now = call.loaded
     THEN \E got \in {catalog} \cup (IF "unpriced" \in CartFaults THEN {Unpriced} ELSE {}) :
            Concludes(k, call.loaded, got, now)
     ELSE /\ EndsReview(call.tab) /\ Withdraws(call.tab)
          /\ Fetches(k, [call EXCEPT !.loaded = now, !.tries = @ + 1])
          /\ HandsNothing
  /\ UNCHANGED <<newest, pageStore, catalog>>

ToolsNext ==
  \/ \E k \in ToolCalls, t \in AgentTabs :
       CallRead(k, t) \/ CallProceed(k, t) \/ CallUpdate(k, t) \/ UpdateFails(k, t)
  \/ \E k \in ToolCalls : Answered(k)
  \/ \E t \in Tabs : PageEdits(t) \/ LoadTab(t)
  \/ CatalogChanges \/ StoreRestarts

ToolsSpec == ToolsInit /\ [][ToolsNext]_toolVars
-----------------------------------------------------------------------------
\* "Second call requires both buyerConfirmed: true and the exact matching
\* reviewFingerprint": a page is handed to checkout only on the very quote it
\* last asked the shopper to review, and never once the page has seen the cart
\* change since, not even when it is as it was again; whatever other tabs,
\* other calls and prices did meanwhile.
HandsOverReviewed ==
  handoff # NoHandoff => handoff.quote = asked[handoff.tab]

\* The newest playground store whose page the browser loaded keeps its cart: no
\* page of an older store takes it back, and no line of a store that is gone is
\* left in it, only those from before the first one.
NewestKeepsCart ==
  /\ writers \subseteq {0, owner}
  /\ owner # 0 => \A t \in Tabs : pageStore[t] <= owner
=============================================================================
