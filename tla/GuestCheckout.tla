---------------------------- MODULE GuestCheckout ----------------------------
(***************************************************************************)
(* Guest checkout as the browser runs it (features/guest-cart): the        *)
(* controller of checkout-protocol.ts, the cart and return pages of        *)
(* guest-cart-client.ts that drive it, and the settlement of the cart      *)
(* after a paid order (checkout-cart-settlement.ts).                       *)
(*                                                                         *)
(* The tabs of one browser share its localStorage: the cart and one        *)
(* retained checkout capability.  A tab keeps the rest in memory, so a     *)
(* reload forgets it.  Every stretch of code between two awaits is one     *)
(* step.  Commerce is external: what it holds is read off the calls the    *)
(* code makes and how it reads their answers.                              *)
(***************************************************************************)
EXTENDS GuestCart

CONSTANTS
  Tabs,
  MaxCapabilities,  \* bound: capabilities Commerce issues
  MaxAttempts,      \* bound: attempts started on one capability
  Faults            \* what can go wrong, out of FaultKinds

(***************************************************************************)
(* "lost": a call fails or its answer does not arrive.  "late": Commerce   *)
(* takes a start after the tab gave up on it.  "unwritable": localStorage  *)
(* refuses a write of the checkout (quota).                                *)
(***************************************************************************)
FaultKinds == {"lost", "late", "unwritable"}

ASSUME CheckoutAssumption ==
  /\ MaxCapabilities \in Nat \ {0}
  /\ MaxAttempts \in Nat \ {0}
  /\ Faults \subseteq FaultKinds

VARIABLES
  cart,      \* localStorage: dinkus.guest-cart.v1
  retained,  \* localStorage: dinkus.guest-checkout.v1
  tab,       \* per tab: its page and what the page keeps in memory
  issued,    \* Commerce: capabilities issued, 1 .. issued
  attempts,  \* Commerce: per capability, its current attempt
  late,      \* starts on the wire whose tab gave up on them
  cleaned,   \* history: orders whose lines were removed from the cart
  settled,   \* history: orders whose settlement was recorded as finished
  fresh      \* history: lines set since the retained order was cleaned

commerceVars == <<issued, attempts, late>>
historyVars == <<cleaned, settled, fresh>>
vars == <<cart, retained, tab, issued, attempts, late, cleaned, settled, fresh>>

Capabilities == 1 .. MaxCapabilities
Pages == {"shop", "checkout", "return"}

\* A capability has at most one paid attempt, so it names the order too.  An
\* attempt of 0, like a capability or an order of 0, is null.
NoRetention == [capability |-> 0, attempt |-> 0, awaitingStart |-> FALSE,
                order |-> 0, print |-> Empty, pending |-> FALSE]
NoAnswer == [attempt |-> 0, state |-> "none"]
NoCall == [capability |-> 0, had |-> 0, asked |-> 0, lines |-> Empty,
           answer |-> NoAnswer]
NoSnapshot == [retained |-> NoRetention, cart |-> Empty]

Attempts == 0 .. MaxAttempts
Unpaid == {"pending", "recoverable-failure"}
States == Unpaid \cup {"paid", "released-retry"}
Retentions == [capability : 0 .. MaxCapabilities, attempt : Attempts,
               awaitingStart : BOOLEAN, order : 0 .. MaxCapabilities,
               print : Carts, pending : BOOLEAN]
Answers == [attempt : Attempts,
            state : {"none", "error"} \cup States]
Calls == [capability : 0 .. MaxCapabilities, had : Attempts, asked : Attempts,
          lines : Carts, answer : Answers]

(***************************************************************************)
(* A tab: the page it shows; `intent`, the page's session cart; whether    *)
(* the page may prepare a capability (checkoutAdmitted); the controller's  *)
(* startAllowed and confirmedOrderId; whether the page offers a status     *)
(* check (checkoutRecovery); what it awaits (`doing`) and with which call; *)
(* whether it probes once the check made on load is over (`auto`); what a  *)
(* settlement read before it awaited the digest; and, as history, whether  *)
(* the page's own tools rewrote the cart while a clicked checkout's call   *)
(* was in flight.                                                          *)
(***************************************************************************)
TabStates == [page : Pages, intent : Carts, admitted : BOOLEAN,
              startAllowed : BOOLEAN, confirmed : 0 .. MaxCapabilities,
              recovery : BOOLEAN, auto : BOOLEAN,
              doing : {"idle", "probe", "prepare", "start", "check", "settle"},
              call : Calls, snapshot : [retained : Retentions, cart : Carts],
              rewritten : BOOLEAN]

\* Storage, tabs and Commerce keep to their types; in particular no line
\* passes the cart's quantity limit.
TypeOK ==
  /\ CartTypeOK(cart)
  /\ retained \in Retentions
  /\ tab \in [Tabs -> TabStates]
  /\ issued \in 0 .. MaxCapabilities
  /\ attempts \in [Capabilities -> [number : Attempts,
                     state : {"none"} \cup States,
                     lines : Carts]]
  /\ late \subseteq [capability : Capabilities, lines : Carts]
  /\ cleaned \subseteq Capabilities
  /\ settled \subseteq Capabilities
  /\ fresh \subseteq Lines

Blank(p) == [page |-> p, intent |-> cart, admitted |-> FALSE,
             startAllowed |-> FALSE, confirmed |-> 0, recovery |-> FALSE,
             auto |-> FALSE, doing |-> "idle", call |-> NoCall,
             snapshot |-> NoSnapshot, rewritten |-> FALSE]

Init ==
  /\ cart = Empty
  /\ retained = NoRetention
  /\ tab = [t \in Tabs |-> [Blank("shop") EXCEPT !.intent = Empty]]
  /\ issued = 0
  /\ attempts = [c \in Capabilities |->
                   [number |-> 0, state |-> "none", lines |-> Empty]]
  /\ late = {}
  /\ cleaned = {} /\ settled = {} /\ fresh = {}
-----------------------------------------------------------------------------
(***************************************************************************)
(* The controller.  `s` is a tab and `ret` the retention it reads.         *)
(***************************************************************************)
Fault(f) == f \in Faults
Retains(ret) == ret.capability # 0
Becomes(t, s) == tab' = [tab EXCEPT ![t] = s]

CanPrepareNew(s, ret) ==
  s.confirmed # 0 /\ ret.order = s.confirmed /\ ~ret.pending

\* Mutant: a call in flight does not lock the page.
LockedByRetention(s) ==
  Retains(retained) /\ ~s.startAllowed /\ ~CanPrepareNew(s, retained)

\* checkoutLocked: no cart edits and no checkout click.
Locked(s) ==
  \/ s.doing # "idle"
  \/ Retains(retained) /\ ~s.startAllowed /\ ~CanPrepareNew(s, retained)

Idle(s) == [s EXCEPT !.doing = "idle", !.call = NoCall, !.snapshot = NoSnapshot,
                     !.rewritten = FALSE]

\* status: permission to start is dropped and asked for again.  A retention
\* that awaits a start asks for the capability's current attempt.
Asked(ret) == IF ret.awaitingStart THEN 0 ELSE ret.attempt
Checking(s, ret) ==
  [s EXCEPT !.doing = "check", !.startAllowed = FALSE, !.confirmed = 0,
            !.call = [NoCall EXCEPT !.capability = ret.capability,
                                    !.had = ret.attempt, !.asked = Asked(ret)]]

\* Mutant: what is retained does not keep the probe from preparing.
ProbesAnyway(s, ret) == s.admitted /\ s.intent # Empty /\ ~s.startAllowed

\* prepare is worth asking for: probeGuestCheckout's guards.
Probes(s, ret) ==
  /\ s.admitted
  /\ s.intent # Empty
  /\ ~s.startAllowed
  /\ Retains(ret) => CanPrepareNew(s, ret)

\* A status check has ended; the one made on load is followed by a probe.
AfterCheck(s, ret) ==
  LET rest == [Idle(s) EXCEPT !.auto = FALSE]
  IN  IF s.auto /\ Probes(rest, ret) THEN [rest EXCEPT !.doing = "probe"]
      ELSE rest

\* updateGuestCheckoutAttempt: a null attempt keeps the retained locator.
Updated(ret, answer) ==
  [ret EXCEPT !.awaitingStart = FALSE,
              !.attempt = IF answer.attempt # 0 THEN answer.attempt ELSE @]

\* Mutant: the retention does not say that a start may be on its way.
SentUnmarked(ret) == ret

Sent(ret) == [ret EXCEPT !.awaitingStart = TRUE]

\* start: the retention is marked before the request leaves.
Start(t, s, ret, lines) ==
  \/ /\ retained' = Sent(ret)
     /\ Becomes(t, [s EXCEPT !.startAllowed = FALSE, !.doing = "start",
                       !.recovery = FALSE,
                       !.call = [NoCall EXCEPT !.capability = ret.capability,
                                               !.lines = lines]])
  \/ /\ Fault("unwritable")
     /\ retained' = ret
     /\ Becomes(t, [Idle(s) EXCEPT !.startAllowed = FALSE, !.recovery = TRUE])
-----------------------------------------------------------------------------
(***************************************************************************)
(* A page loads.  Whatever the tab was awaiting is dropped; a start that   *)
(* had not reached Commerce may still reach it.                            *)
(***************************************************************************)
Abandons(t) ==
  LET s == tab[t]
      request == [capability |-> s.call.capability, lines |-> s.call.lines]
  IN  late' \in {late} \cup
        (IF Fault("late") /\ s.doing = "start" /\ s.call.answer = NoAnswer
         THEN {late \cup {request}} ELSE {})

PreparedOnly ==
  Retains(retained) /\ retained.attempt = 0
    /\ ~retained.awaitingStart /\ retained.order = 0

\* hydrateGuestCartPage: a capability only prepared here, or a settlement
\* begun, is checked at once; anything else waits for the shopper.
LoadedCheckout(s) ==
  LET ready == [s EXCEPT !.admitted = TRUE,
                         !.recovery = Retains(retained) /\ ~PreparedOnly]
  IN  IF PreparedOnly \/ retained.order # 0
      THEN [Checking(ready, retained) EXCEPT !.auto = TRUE]
      ELSE AfterCheck([ready EXCEPT !.auto = TRUE], retained)

\* hydrateGuestCheckoutReturn checks the retained attempt at once.
LoadedReturn(s) ==
  IF Retains(retained) THEN Checking(s, retained) ELSE s

Open(t, p) ==
  /\ Becomes(t, CASE p = "checkout" -> LoadedCheckout(Blank(p))
                  [] p = "return" -> LoadedReturn(Blank(p))
                  [] p = "shop" -> Blank(p))
  /\ Abandons(t)
  /\ UNCHANGED <<cart, retained, issued, attempts, historyVars>>

\* The shopper clicks Checkout on the checkout page.
ClickCheckout(t) ==
  LET s == tab[t] IN
  /\ s.page = "checkout"
  /\ ~Locked(s)
  /\ s.admitted \/ s.startAllowed
  /\ s.intent # Empty
  /\ IF ~Retains(retained) \/ CanPrepareNew(s, retained)
     THEN /\ Becomes(t, [s EXCEPT !.doing = "prepare", !.recovery = FALSE,
                                  !.call = [NoCall EXCEPT !.lines = s.intent]])
          /\ UNCHANGED retained
     ELSE Start(t, s, retained, s.intent)
  /\ UNCHANGED <<cart, commerceVars, historyVars>>

\* The shopper asks for the status again.
ClickRecover(t) ==
  LET s == tab[t] IN
  /\ s.recovery
  /\ s.doing = "idle"
  /\ Retains(retained)
  /\ Becomes(t, Checking(s, retained))
  /\ UNCHANGED <<cart, retained, commerceVars, historyVars>>
-----------------------------------------------------------------------------
(***************************************************************************)
(* Commerce.  It starts an attempt when the capability has none or its     *)
(* attempt was released; otherwise it refuses or answers the current one.  *)
(***************************************************************************)
Startable(c) ==
  attempts[c].state \in {"none", "released-retry"}
    /\ attempts[c].number < MaxAttempts

Started(c, lines) ==
  attempts' = [attempts EXCEPT ![c] =
                 [number |-> @.number + 1, state |-> "pending", lines |-> lines]]

CommerceStarts(t) ==
  LET s == tab[t]
      c == s.call.capability
      Answered(answer) == Becomes(t, [s EXCEPT !.call.answer = answer])
  IN
  /\ s.doing = "start"
  /\ s.call.answer = NoAnswer
  /\ \/ /\ Startable(c)
        /\ Started(c, s.call.lines)
        /\ Answered([attempt |-> attempts[c].number + 1, state |-> "pending"])
     \/ /\ attempts[c].state \in Unpaid \cup {"paid"}
        /\ Answered([attempt |-> attempts[c].number, state |-> attempts[c].state])
        /\ UNCHANGED attempts
     \/ Answered([NoAnswer EXCEPT !.state = "error"]) /\ UNCHANGED attempts
  /\ UNCHANGED <<cart, retained, issued, late, historyVars>>

\* The status of the attempt asked about, else of the current one.
StatusOf(c, asked) ==
  CASE asked \notin {0, attempts[c].number} ->
         [attempt |-> asked, state |-> "released-retry"]
    [] attempts[c].number = 0 -> [attempt |-> 0, state |-> "pending"]
    [] OTHER -> [attempt |-> attempts[c].number, state |-> attempts[c].state]

CommerceReports(t) ==
  LET s == tab[t] IN
  /\ s.doing = "check"
  /\ s.call.answer = NoAnswer
  /\ \E answer \in {StatusOf(s.call.capability, s.call.asked),
                    [NoAnswer EXCEPT !.state = "error"]} :
       Becomes(t, [s EXCEPT !.call.answer = answer])
  /\ UNCHANGED <<cart, retained, commerceVars, historyVars>>

LateStart(request) ==
  /\ late' = late \ {request}
  /\ IF Startable(request.capability)
     THEN Started(request.capability, request.lines)
     ELSE UNCHANGED attempts
  /\ UNCHANGED <<cart, retained, tab, issued, historyVars>>

\* The hosted payment moves on: it fails and can be tried again on the same
\* attempt, it is paid, or the attempt is released for a new one.
PaymentMoves(c) ==
  /\ attempts[c].state \in Unpaid
  /\ \E next \in States \ {attempts[c].state} :
       attempts' = [attempts EXCEPT ![c].state = next]
  /\ UNCHANGED <<cart, retained, tab, issued, late, historyVars>>
-----------------------------------------------------------------------------
(***************************************************************************)
(* Answers arrive.                                                         *)
(***************************************************************************)
\* prepare answers a new capability, which replaces what is retained.  After
\* a click the start follows at once; a probe leaves it to the shopper.
PrepareAnswered(t) ==
  LET s == tab[t]
      c == issued + 1
      new == [NoRetention EXCEPT !.capability = c]
      ready == [Idle(s) EXCEPT !.startAllowed = TRUE, !.confirmed = 0,
                               !.rewritten = s.rewritten]
  IN
  /\ s.doing \in {"probe", "prepare"}
  /\ c \in Capabilities
  /\ issued' = c
  /\ IF s.doing = "probe"
     THEN retained' = new /\ Becomes(t, ready)
     ELSE Start(t, ready, new, s.call.lines)
  /\ fresh' = {}
  /\ UNCHANGED <<cart, attempts, late, cleaned, settled>>

\* prepare was refused or lost, or its answer could not be retained.
PrepareFailed(t) ==
  LET s == tab[t] IN
  /\ s.doing \in {"probe", "prepare"}
  /\ Becomes(t, IF s.doing = "probe"
                THEN [Idle(s) EXCEPT !.admitted = FALSE]
                ELSE [Idle(s) EXCEPT !.recovery = Retains(retained)])
  /\ UNCHANGED <<cart, retained, commerceVars, historyVars>>

\* The checkout page reports a failed start or status and offers a check; a
\* failed check on the return page offers none.
Failed(s, ret) ==
  IF s.page = "return" THEN [Idle(s) EXCEPT !.recovery = FALSE]
  ELSE IF s.doing = "start" THEN [Idle(s) EXCEPT !.recovery = Retains(ret)]
  ELSE AfterCheck([s EXCEPT !.recovery = TRUE], ret)

CallFailed(t) ==
  LET s == tab[t] IN
  /\ s.doing \in {"start", "check"}
  /\ s.call.answer.state = "error" \/ Fault("lost")
  /\ Becomes(t, Failed(s, retained))
  /\ Abandons(t)
  /\ UNCHANGED <<cart, retained, issued, attempts, historyVars>>

\* The retention is another capability's now, or cannot be updated.
Unassociated(t) ==
  LET s == tab[t] IN
  /\ s.doing \in {"start", "check"}
  /\ s.call.answer.state \in States
  /\ retained.capability # s.call.capability \/ Fault("unwritable")
  /\ Becomes(t, Failed(s, retained))
  /\ UNCHANGED <<cart, retained, commerceVars, historyVars>>

\* A started attempt: its redirect takes the tab to the hosted payment, which
\* the shopper leaves by loading a page; a paid one is checked at once.
StartAnswered(t) ==
  LET s == tab[t]
      next == Updated(retained, s.call.answer)
  IN
  /\ s.doing = "start"
  /\ s.call.answer.state \in Unpaid \cup {"paid"}
  /\ retained.capability = s.call.capability
  /\ retained' = next
  /\ Becomes(t, IF s.call.answer.state = "paid"
                THEN Checking([Idle(s) EXCEPT !.recovery = TRUE], next)
                ELSE [Idle(s) EXCEPT !.recovery = TRUE])
  /\ UNCHANGED <<cart, commerceVars, historyVars>>

\* status: what the tab may do next.  Only a paid order is settled.
StatusAnswered(t) ==
  LET s == tab[t]
      answer == s.call.answer
      next == Updated(retained, answer)
      none == answer.state = "pending" /\ s.call.had = 0 /\ answer.attempt = 0
      may == none \/ answer.state = "released-retry"
      known == [s EXCEPT !.startAllowed = may,
                 !.recovery = IF s.page = "return" THEN answer.state = "pending"
                              ELSE answer.state \in Unpaid /\ ~(none /\ s.auto)]
  IN
  /\ s.doing = "check"
  /\ answer.state \in Unpaid \cup {"released-retry"}
  /\ retained.capability = s.call.capability
  /\ retained' = next
  /\ Becomes(t, AfterCheck(known, next))
  /\ UNCHANGED <<cart, commerceVars, historyVars>>
-----------------------------------------------------------------------------
(***************************************************************************)
(* settleGuestCheckoutCart.  The retention and the cart are read, the      *)
(* cart's digest is awaited, and only then are both written.               *)
(***************************************************************************)
\* Mutant: a settlement already finished is not recognised.
NeverAlreadySettled(ret) == FALSE

AlreadySettled(ret) == ret.order = ret.capability /\ ~ret.pending

\* What the page does once the settlement said whether it succeeded.
Confirmed(s, ret, done) ==
  AfterCheck([s EXCEPT !.recovery = s.page = "checkout" /\ ~done], ret)

PaidAnswered(t) ==
  LET s == [tab[t] EXCEPT !.confirmed = tab[t].call.capability,
                          !.startAllowed = FALSE]
      next == Updated(retained, s.call.answer)
  IN
  /\ s.doing = "check"
  /\ s.call.answer.state = "paid"
  /\ retained.capability = s.call.capability
  /\ retained' = next
  /\ IF AlreadySettled(next)
     THEN Becomes(t, Confirmed([s EXCEPT !.intent = cart], next, TRUE))
     ELSE Becomes(t, [s EXCEPT !.doing = "settle",
                        !.snapshot = [retained |-> next, cart |-> cart]])
  /\ UNCHANGED <<cart, commerceVars, historyVars>>

\* The marker: whose order, and the cart it was first settled against.
Marked(read) ==
  IF read.retained.order = read.retained.capability
  THEN read.retained
  ELSE [read.retained EXCEPT !.order = read.retained.capability,
                             !.print = read.cart, !.pending = TRUE]

\* Three writes in turn (the marker, the cart, the marker as finished); with
\* "unwritable" any of them may be the one that fails.
Settle(t) ==
  LET s == tab[t]
      read == s.snapshot
      order == read.retained.capability
      marker == Marked(read)
      bought == attempts[order].lines
      cleans == marker.print = read.cart
  IN
  /\ s.doing = "settle"
  /\ \E done \in IF Fault("unwritable") THEN 0 .. 3 ELSE {3} :
       /\ retained' = CASE done = 0 -> retained
                        [] done = 3 -> [marker EXCEPT !.pending = FALSE]
                        [] OTHER -> marker
       /\ cart' = IF done >= 2 /\ cleans THEN Remaining(read.cart, bought)
                  ELSE cart
       /\ cleaned' = IF done >= 2 /\ cleans THEN cleaned \cup {order} ELSE cleaned
       /\ settled' = IF done = 3 THEN settled \cup {order} ELSE settled
       /\ fresh' = IF done >= 2 /\ cleans THEN {} ELSE fresh
       /\ Becomes(t, Confirmed([s EXCEPT !.intent = cart'], retained', done = 3))
  /\ UNCHANGED commerceVars
-----------------------------------------------------------------------------
(***************************************************************************)
(* The shopper edits the cart: a product page adds without asking whether  *)
(* a checkout is open; the checkout page's controls are locked then.       *)
(***************************************************************************)
EditCart(t) ==
  LET s == tab[t] IN
  /\ \E l \in Lines :
       /\ \/ /\ s.page = "shop"
             /\ \E q \in 1 .. MaxQuantity :
                  AcceptsAdd(cart, l, q) /\ cart' = AddLine(cart, l, q)
          \/ /\ s.page = "checkout"
             /\ ~Locked(s)
             /\ AcceptsChange(cart, l)
             /\ \/ \E q \in 1 .. MaxQuantity : cart' = SetQuantity(cart, l, q)
                \/ cart' = RemoveLine(cart, l)
       /\ fresh' = IF retained.capability \in cleaned THEN fresh \cup {l}
                   ELSE fresh
  /\ Becomes(t, [s EXCEPT !.intent = cart'])
  /\ UNCHANGED <<retained, commerceVars, cleaned, settled>>

\* syncStoredCart: another tab's cart is taken over unless checkout is open.
SyncCart(t) ==
  LET s == tab[t] IN
  /\ s.intent # cart
  /\ ~Locked(s)
  /\ Becomes(t, [s EXCEPT !.intent = cart])
  /\ UNCHANGED <<cart, retained, commerceVars, historyVars>>

\* A cart page probes when it is told that the cart was updated.  A probe that
\* finds the controller busy is refused, and closes admission.
Notified(s) ==
  CASE s.page = "checkout" /\ s.doing = "idle" /\ Probes(s, retained) ->
         [s EXCEPT !.doing = "probe"]
    [] s.page = "checkout" /\ s.doing = "prepare" /\ ~Retains(retained)
         /\ Probes(s, retained) -> [s EXCEPT !.admitted = FALSE]
    [] OTHER -> s

\* The page shows the cart its tool wrote, a clicked checkout's call in flight
\* or not.
Rewritten(s) ==
  IF s.doing \in {"prepare", "start"}
  THEN [s EXCEPT !.intent = cart', !.rewritten = TRUE]
  ELSE [s EXCEPT !.intent = cart']

\* A page's cart tools (webmcp.ts) replace the stored cart or change lines of
\* it, and the page then shows what is stored: neither asks whether checkout
\* is open.  Left out: a probe begun beside a settlement that another tab has
\* finished meanwhile.
ToolWrites(t) ==
  LET s == tab[t] IN
  /\ \E next \in Carts :
       /\ CartTypeOK(next)
       /\ cart' = next
       /\ fresh' = IF retained.capability \in cleaned
                   THEN fresh \cup {l \in Lines : next[l] # cart[l]} ELSE fresh
  /\ Becomes(t, Notified(Rewritten(s)))
  /\ UNCHANGED <<retained, commerceVars, cleaned, settled>>

TabStep(t) ==
  \/ \E p \in Pages : Open(t, p)
  \/ ClickCheckout(t) \/ ClickRecover(t)
  \/ EditCart(t) \/ ToolWrites(t) \/ SyncCart(t)
  \/ CommerceStarts(t) \/ CommerceReports(t)
  \/ PrepareAnswered(t) \/ PrepareFailed(t) \/ CallFailed(t) \/ Unassociated(t)
  \/ StartAnswered(t) \/ StatusAnswered(t) \/ PaidAnswered(t) \/ Settle(t)

Next ==
  \/ \E t \in Tabs : TabStep(t)
  \/ \E request \in late : LateStart(request)
  \/ \E c \in Capabilities : PaymentMoves(c)

Spec == Init /\ [][Next]_vars
-----------------------------------------------------------------------------
\* An attempt the shopper can still pay, or has paid without the cart's
\* settlement being finished.
Live(c) ==
  \/ attempts[c].state \in Unpaid
  \/ attempts[c].state = "paid" /\ c \notin settled

\* "Keep guest capability and attempt identity across reload, network retry
\* and delayed return": the capability of an attempt that is open, or paid and
\* not settled, is the one the browser retains.  So there is at most one.
AttemptRecoverable == \A c \in Capabilities : Live(c) => retained.capability = c

\* "An active checkout also keeps its reviewed intent": while the call of a
\* checkout click is in flight the page shows the lines that Commerce is sent,
\* though other tabs edit the cart both share; unless its own tools rewrote
\* the cart since the click, which the page then shows.
ReviewedIsSent ==
  \A t \in Tabs :
    tab[t].doing \in {"prepare", "start"} /\ ~tab[t].rewritten
      => tab[t].intent = tab[t].call.lines

\* "A lost successor response must recover the capability's CURRENT attempt
\* rather than re-query its released parent": the next status check never asks
\* about an attempt that has a successor.
AsksCurrent ==
  \A c \in Capabilities :
    retained.capability = c /\ attempts[c].number > 0
      => Asked(retained) \in {0, attempts[c].number}

SettlesNow(t) == tab[t].doing = "settle" /\ tab'[t].doing # "settle"

\* "Clear only the purchased cart after that authoritative confirmation and
\* preserve unrelated newer intent": a settlement removes a line only when a
\* paid order bought exactly that quantity, and changes nothing else.
ClearsOnlyPurchased ==
  [][\A t \in Tabs : SettlesNow(t) /\ cart' # cart =>
       LET order == attempts[tab[t].snapshot.retained.capability]
       IN  /\ order.state = "paid"
           /\ \A l \in Lines : cart'[l] # cart[l] =>
                cart'[l] = 0 /\ cart[l] = order.lines[l]]_vars

\* What is left of that with tools and other tabs about, across reloads and
\* repeated checks: a settlement that changes the cart is of a paid order, and
\* the first to clean its lines; a line that nobody set while it awaited the
\* digest goes only when the order bought exactly that quantity; and one that
\* was set is put back to what it was, or goes with what the order bought.
ClearsOnceWhatItRead ==
  [][\A t \in Tabs : SettlesNow(t) /\ cart' # cart =>
       LET read == tab[t].snapshot
           order == attempts[read.retained.capability]
       IN  /\ order.state = "paid"
           /\ read.retained.capability \notin cleaned
           /\ \A l \in Lines : cart'[l] # cart[l] =>
                \/ cart'[l] = 0 /\ read.cart[l] = order.lines[l]
                \/ cart'[l] = read.cart[l]]_vars

\* "A failed write or later changed cart cannot make a repeated paid callback
\* erase newly added intent": once an order's lines were removed, a settlement
\* leaves every line set since then alone.
NewIntentKept ==
  [][\A t \in Tabs : SettlesNow(t) =>
       \A l \in fresh : cart'[l] = cart[l]]_vars
=============================================================================
