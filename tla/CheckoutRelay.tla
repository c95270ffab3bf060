---------------------------- MODULE CheckoutRelay ----------------------------
(***************************************************************************)
(* The answer to a status check on its way to the return page.  Commerce   *)
(* answers the store's route (pages/api/checkout/status.ts), which reads   *)
(* the answer, rebuilds it from what it read and relays that; the page     *)
(* reads what was relayed (checkout-protocol.ts) and shows the confirmed   *)
(* order (guest-cart-client.ts).  So every fact of an order is read twice, *)
(* with the fallbacks of each reading.                                     *)
(*                                                                         *)
(* A text, an address or an amount is a model value, None where the field  *)
(* is missing, Bad where it does not pass its shape check, or Blank.  Two  *)
(* names of one field (contact and contactSnapshot, delivery and           *)
(* shippingAddress) are one field.  Left out: headers, sku, alternative    *)
(* texts and the rows of the pricing.  What Commerce holds and when it is  *)
(* paid are external; GuestCheckout has the controller, the retention and  *)
(* the settlement.                                                         *)
(***************************************************************************)
EXTENDS Naturals, Sequences, FiniteSets

CONSTANTS
  Checkouts,   \* open checkouts Commerce may hold, as it writes them
  Orders,      \* orders it may make of one, as it writes them
  Retentions,  \* what the browser may have retained: contact and attempt
  MaxChecks,   \* MAX_GUEST_CHECKOUT_STATUS_CHECKS
  MaxOrderLines,    \* the cart's limits, which an order keeps to as well
  MaxOrderQuantity

None == "none"
Bad == "bad"
Blank == "blank"
NoContact == [email |-> None, delivery |-> None]
Nothing == [at |-> None]

\* The states a checkout may be in.
HeldStates == {"pending", "paid", "recoverable-failure", "released-retry"}

\* A contact, a checkout and an order have their fields and no others; what
\* stands in them is left open, but for the state.
IsContact(c) == c = [email |-> c.email, delivery |-> c.delivery]

IsCheckout(c) ==
  /\ c = [state |-> c.state, attempt |-> c.attempt, redirect |-> c.redirect,
          retryAfter |-> c.retryAfter, order |-> c.order,
          contact |-> c.contact, email |-> c.email, delivery |-> c.delivery,
          method |-> c.method, shipping |-> c.shipping, total |-> c.total]
  /\ c.state \in HeldStates /\ c.order \in Orders \cup {Nothing}
  /\ IsContact(c.contact)

ASSUME RelayAssumption ==
  /\ MaxChecks \in Nat \ {0} /\ MaxOrderLines \in Nat
  /\ \A c \in Checkouts : IsCheckout(c)
  /\ \A o \in Orders : o # Nothing /\ IsContact(o.contact)

VARIABLES
  held,        \* Commerce: the checkout, with its state
  kept,        \* the browser's retention: the contact and attempt it kept
  relayed,     \* what the route answered: Nothing, an error or a wire form
  shopper      \* the return page

relayVars == <<held, kept, relayed, shopper>>

Says == {None, "checking", "unconfirmed", "released", "pending", "protected",
         "confirmed", "cart not updated", "limited"}

\* The return page keeps to its states and never makes more checks than the
\* limit (canRetryGuestCheckoutStatus).
RelayTypeOK ==
  /\ held.state \in HeldStates
  /\ held.order \in Orders \cup {Nothing}
  /\ kept \in Retentions
  /\ relayed.at \in {None, "error", "wire"}
  /\ shopper.checks \in 0 .. MaxChecks
  /\ shopper.checking \in BOOLEAN /\ shopper.again \in BOOLEAN
  /\ shopper.link \in BOOLEAN /\ shopper.says \in Says

RelayInit ==
  /\ held \in Checkouts
  /\ kept \in Retentions
  /\ relayed = Nothing
  /\ shopper = [checks |-> 0, checking |-> FALSE, again |-> FALSE,
                link |-> FALSE, says |-> None, order |-> Nothing]
-----------------------------------------------------------------------------
(***************************************************************************)
(* Reading an answer (projectCheckout).  A ?? B is Else(A, B); what fails  *)
(* its shape check is read as missing (boundedText, parseDelivery).        *)
(***************************************************************************)
Else(a, b) == IF a = None THEN b ELSE a
Well(field) == IF field \in {Bad, Blank} THEN None ELSE field

\* A contact with no email address is none; one with no delivery address takes
\* the one that stands beside it.
ParsedContact(contact, fallback) ==
  IF Well(contact.email) = None THEN NoContact
  ELSE [email |-> contact.email, delivery |-> Else(Well(contact.delivery), fallback)]

ContactOf(contact, email, fallback) ==
  IF Well(contact.email) # None THEN ParsedContact(contact, fallback)
  ELSE ParsedContact([NoContact EXCEPT !.email = email], fallback)

\* parseGuestCartIntent reads the purchased lines as it reads a cart.
Purchased(lines) ==
  /\ Len(lines) \in 1 .. MaxOrderLines
  /\ \A i \in 1 .. Len(lines) : /\ lines[i].id # None
                                /\ lines[i].quantity \in 1 .. MaxOrderQuantity
  /\ \A i, j \in 1 .. Len(lines) : i # j => lines[i].id # lines[j].id

\* The chosen variant: named on the line, spelled out in its selections, or
\* listed for the item beside the lines.
Variant(line, listed) ==
  Else(Else(line.variant, line.selections),
       IF line.id \in DOMAIN listed THEN listed[line.id] ELSE None)

ParsedLine(line, listed) ==
  [id |-> line.id, quantity |-> line.quantity, name |-> line.name,
   variant |-> Variant(line, listed), image |-> line.image,
   unitPrice |-> line.unitPrice]

ParsedOrder(order, topContact, topDelivery, topMethod) ==
  LET delivery == Else(Well(order.delivery), topDelivery)
      own == ContactOf(order.contact, order.email, delivery)
      contact == IF own = NoContact THEN topContact ELSE own
  IN [at |-> "order", id |-> order.id,
      lines |-> [i \in 1 .. Len(order.lines) |->
                   ParsedLine(order.lines[i], order.listed)],
      total |-> Well(order.total), test |-> order.test, contact |-> contact,
      delivery |-> IF contact.delivery = None THEN delivery ELSE None,
      method |-> Else(Well(order.method), topMethod)]

Malformed(checkout) ==
  \/ checkout.order # Nothing /\ ~Purchased(checkout.order.lines)
  \/ checkout.state = "paid" /\ checkout.order = Nothing
  \/ /\ checkout.state = "released-retry"
     /\ checkout.attempt = None \/ checkout.retryAfter # checkout.attempt

\* Fields that were read stand over the answer's own; what was not, stays as it
\* came (...value).
Project(checkout) ==
  LET delivery == Well(checkout.delivery)
      contact == ContactOf(checkout.contact, checkout.email, delivery)
  IN [checkout EXCEPT
        !.contact = IF contact = NoContact THEN @ ELSE contact,
        !.order = IF @ = Nothing THEN Nothing
                  ELSE ParsedOrder(@, contact, delivery, Well(checkout.method))]
-----------------------------------------------------------------------------
(***************************************************************************)
(* The wire form (guestCheckoutWire): the fields that were read go back    *)
(* under Commerce's names, the rest is not there.                          *)
(***************************************************************************)
WireLine(line) ==
  [id |-> line.id, quantity |-> line.quantity, name |-> line.name,
   variant |-> line.variant, selections |-> None, image |-> line.image,
   unitPrice |-> line.unitPrice]

\* A mutant: the address kept beside a contact without one is not sent.
WireOrderBare(order) ==
  [at |-> "order", id |-> order.id,
   lines |-> [i \in 1 .. Len(order.lines) |-> WireLine(order.lines[i])],
   listed |-> <<>>, total |-> order.total, test |-> order.test,
   contact |-> order.contact, email |-> None, delivery |-> None,
   method |-> order.method]

WireOrder(order) ==
  [at |-> "order", id |-> order.id,
   lines |-> [i \in 1 .. Len(order.lines) |-> WireLine(order.lines[i])],
   listed |-> <<>>, total |-> order.total, test |-> order.test,
   contact |-> order.contact, email |-> None, delivery |-> order.delivery,
   method |-> order.method]

\* Free and flat shipping with a well-formed charge; shipping without one, and of
\* another kind, is not carried.
Carried == {"free", "flat"}

\* A total beside the order is not carried either, nor is a blank text.
Wire(checkout) ==
  [state |-> checkout.state, attempt |-> checkout.attempt,
   redirect |-> checkout.redirect, retryAfter |-> checkout.retryAfter,
   order |-> IF checkout.order = Nothing THEN Nothing
             ELSE WireOrder(checkout.order),
   contact |-> checkout.contact, email |-> None,
   delivery |-> checkout.delivery,
   method |-> IF checkout.method = Blank THEN None ELSE checkout.method,
   shipping |-> IF checkout.shipping \in Carried THEN checkout.shipping ELSE None,
   total |-> None]
-----------------------------------------------------------------------------
(***************************************************************************)
(* What the page shows of a confirmed order.                               *)
(***************************************************************************)
CanConfirm(checkout) ==
  checkout.state = "paid" /\ checkout.attempt # None /\ checkout.order # Nothing

\* The name of a shipping that has none: its mode, or else that it has a charge.
Derived(shipping, delivery) ==
  CASE shipping = "free bare" -> "free"
    [] shipping = "other" /\ delivery = None -> None
    [] OTHER -> shipping

DeliveredTo(checkout, contact) ==
  LET order == checkout.order
  IN Else(Else(Else(Else(order.delivery, order.contact.delivery), checkout.delivery),
               checkout.contact.delivery), contact.delivery)

Destination(checkout, contact) ==
  LET order == checkout.order
      delivery == DeliveredTo(checkout, contact)
  IN [email |-> Else(Else(order.contact.email, checkout.contact.email),
                     contact.email),
      delivery |-> delivery,
      method |-> Else(Else(order.method, checkout.method),
                      Derived(checkout.shipping, delivery))]

Confirmation(checkout, contact) ==
  [at |-> "order", id |-> checkout.order.id, test |-> checkout.order.test,
   destination |-> Destination(checkout, contact),
   total |-> Well(Else(checkout.order.total, checkout.total)),
   lines |-> [i \in 1 .. Len(checkout.order.lines) |->
                LET line == checkout.order.lines[i]
                IN [label |-> Else(line.name, line.id),
                    quantity |-> line.quantity, variant |-> line.variant,
                    thumbnail |-> line.image,
                    unitPrice |-> line.unitPrice]]]
-----------------------------------------------------------------------------
CanCheck == shopper.checks < MaxChecks

\* The page checks once on load, then when its button is pressed.
CheckStatus ==
  /\ ~shopper.checking
  /\ shopper.checks = 0 \/ shopper.again
  /\ CanCheck
  /\ shopper' = [shopper EXCEPT !.checking = TRUE, !.checks = @ + 1,
                                !.link = FALSE, !.says = "checking"]
  /\ UNCHANGED <<held, kept, relayed>>

\* The route: no dispatch, a Commerce that fails, an answer too large for it,
\* and, on a playground with its test checkout, a terminal status of another
\* visitor's payment are all answered with an error.
RouteRefuses ==
  /\ shopper.checking /\ relayed = Nothing
  /\ relayed' = [at |-> "error"]
  /\ UNCHANGED <<held, kept, shopper>>

RouteRelays ==
  /\ shopper.checking /\ relayed = Nothing
  /\ relayed' = IF Malformed(held) THEN [at |-> "error"]
                ELSE [at |-> "wire", checkout |-> Wire(Project(held))]
  /\ UNCHANGED <<held, kept, shopper>>

CheckFailed(page) == [page EXCEPT !.says = "unconfirmed", !.again = FALSE,
                            !.checking = FALSE]

\* The page reads an error, or nothing at all, or an answer too large, late or
\* not its own: the check failed.
CheckFails ==
  /\ shopper.checking /\ relayed # Nothing
  /\ shopper' = CheckFailed(shopper)
  /\ relayed' = Nothing
  /\ UNCHANGED <<held, kept>>

\* A retained attempt is the only one the page accepts an answer about.
Associated(checkout) == kept.attempt \in {None, checkout.attempt}

Shows(checkout, done) ==
  shopper' = [shopper EXCEPT
    !.checking = FALSE, !.again = FALSE, !.link = FALSE,
    !.says = IF done THEN "confirmed" ELSE "cart not updated",
    !.order = Confirmation(checkout, kept.contact)]

Waits(checkout) ==
  LET pending == checkout.state = "pending"
  IN shopper' = [shopper EXCEPT
       !.checking = FALSE, !.again = pending,
       !.link = /\ checkout.state \notin {"paid", "released-retry"}
                /\ checkout.redirect = "stripe",
       !.says = CASE checkout.state = "released-retry" -> "released"
                  [] pending /\ ~CanCheck -> "limited"
                  [] pending /\ CanCheck -> "pending"
                  [] OTHER -> "protected"]

CheckReads ==
  /\ shopper.checking /\ relayed.at = "wire"
  /\ ~Malformed(relayed.checkout)
  /\ LET checkout == Project(relayed.checkout)
     IN /\ Associated(checkout)
        /\ IF CanConfirm(checkout)
           THEN \E done \in BOOLEAN : Shows(checkout, done)
           ELSE Waits(checkout)
  /\ relayed' = Nothing
  /\ UNCHANGED <<held, kept>>

Pictured(line) == [line EXCEPT !.thumbnail = Else(@, "catalog")]

WithCatalog(order) ==
  [order EXCEPT !.lines = [i \in DOMAIN @ |-> Pictured(@[i])]]

\* Lines without a picture are looked up in the catalog and shown again.
LooksUpMedia ==
  /\ shopper.order # Nothing /\ relayed = Nothing
  /\ \E i \in 1 .. Len(shopper.order.lines) :
       shopper.order.lines[i].thumbnail = None
  /\ shopper' = [shopper EXCEPT !.order = WithCatalog(@)]
  /\ UNCHANGED <<held, kept, relayed>>

\* External: the payment of a pending checkout is made, fails or is released.
\* Some of these answers lack what their state calls for.
CommerceMoves ==
  /\ held.state = "pending"
  /\ \/ \E order \in Orders \cup {Nothing} :
          held' = [held EXCEPT !.state = "paid", !.order = order]
     \/ held' = [held EXCEPT !.state = "recoverable-failure"]
     \/ \E after \in {None, held.attempt} :
          held' = [held EXCEPT !.state = "released-retry", !.retryAfter = after]
  /\ UNCHANGED <<kept, relayed, shopper>>

RelayNext ==
  \/ CheckStatus \/ RouteRefuses \/ RouteRelays
  \/ CheckFails \/ CheckReads \/ LooksUpMedia \/ CommerceMoves

RelaySpec == RelayInit /\ [][RelayNext]_relayVars
-----------------------------------------------------------------------------
\* What the wire form leaves of an answer.
Plain(checkout) ==
  [checkout EXCEPT
     !.total = None,
     !.method = IF @ = Blank THEN None ELSE @,
     !.shipping = IF @ \in Carried THEN @ ELSE None]

\* "A store route relaying a status answer sends this, so the return page can
\* parse what it relays" (guestCheckoutWire): nothing the route relays is
\* malformed to the page; and the order the page shows, with its destination,
\* its lines and its total, is the one Commerce's own answer would have shown
\* without a total beside the order, a blank method and shipping that is not
\* free or flat with a charge.  Reading twice loses just those three.
RelayLosesOnly ==
  /\ relayed.at = "wire" => ~Malformed(relayed.checkout)
  /\ shopper.order # Nothing =>
       LET direct == Confirmation(Project(Plain(held)), kept.contact)
       IN shopper.order \in {direct, WithCatalog(direct)}
=============================================================================
