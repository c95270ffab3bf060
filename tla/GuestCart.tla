------------------------------ MODULE GuestCart ------------------------------
(***************************************************************************)
(* The guest cart's intent (features/guest-cart/intent.ts): which products *)
(* a shopper means to buy and how many of each.  A quantity of 0 stands    *)
(* for a line that is not there; the order of the lines is left out.  The  *)
(* operators answer the next cart, and `Accepts...` says when the code     *)
(* accepts the change; a refused one leaves the cart as it is.             *)
(***************************************************************************)
EXTENDS Naturals, FiniteSets

CONSTANTS
  Lines,        \* product ids
  MaxQuantity,  \* GUEST_CART_MAX_QUANTITY, 99 in the code
  MaxLines      \* GUEST_CART_MAX_LINES, 40 in the code

ASSUME CartAssumption ==
  /\ IsFiniteSet(Lines)
  /\ MaxQuantity \in Nat \ {0}
  /\ MaxLines \in Nat \ {0}

Carts == [Lines -> 0 .. MaxQuantity]
Empty == [l \in Lines |-> 0]
Held(c) == {l \in Lines : c[l] > 0}
CartTypeOK(c) == c \in Carts /\ Cardinality(Held(c)) <= MaxLines

\* Mutant: the quantity on top of the line's own is not checked.
AcceptsAnyAdd(c, l, q) ==
  /\ q \in 1 .. MaxQuantity
  /\ c[l] = 0 => Cardinality(Held(c)) < MaxLines
  /\ c[l] + q <= MaxQuantity + 1

\* addGuestCartLine: a full cart takes no new line, and a sum past the limit
\* is refused, not clamped.
AcceptsAdd(c, l, q) ==
  /\ q \in 1 .. MaxQuantity
  /\ c[l] = 0 => Cardinality(Held(c)) < MaxLines
  /\ c[l] + q <= MaxQuantity

AddLine(c, l, q) == [c EXCEPT ![l] = @ + q]

\* setGuestCartLineQuantity and removeGuestCartLine: only a line that is there.
AcceptsChange(c, l) == c[l] > 0
SetQuantity(c, l, q) == [c EXCEPT ![l] = q]
RemoveLine(c, l) == [c EXCEPT ![l] = 0]

\* Mutant: the whole cart goes.
NothingRemaining(c, bought) == Empty

\* What a settled order leaves: a line goes when the order bought exactly its
\* quantity (checkout-cart-settlement.ts).
Remaining(c, bought) ==
  [l \in Lines |-> IF c[l] = bought[l] THEN 0 ELSE c[l]]
=============================================================================
