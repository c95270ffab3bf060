--------------------------- MODULE GuestCartProofs ---------------------------
(***************************************************************************)
(* What the cart's operations keep, for any limits and any products: the   *)
(* facts the proofs about the checkout rest on.                            *)
(***************************************************************************)
EXTENDS GuestCart, FiniteSetTheorems, TLAPS

\* The lines a cart holds are finitely many, and fewer lines count for less.
LEMMA HeldFinite ==
  ASSUME NEW c
  PROVE  IsFiniteSet(Held(c)) /\ Cardinality(Held(c)) \in Nat
BY CartAssumption, FS_Subset, FS_CardinalityType DEF Held

\* A cart that holds no line another does not is within the limit with it.
LEMMA FewerLines ==
  ASSUME NEW c, CartTypeOK(c), NEW d \in Carts, Held(d) \subseteq Held(c)
  PROVE  CartTypeOK(d)
<1>1. Cardinality(Held(d)) <= Cardinality(Held(c))
  BY HeldFinite, FS_Subset
<1> QED BY <1>1, HeldFinite, CartAssumption DEF CartTypeOK

\* The empty cart is a cart.
LEMMA EmptyIsCart == CartTypeOK(Empty)
<1>1. Held(Empty) = {}
  BY DEF Held, Empty
<1>2. Empty \in Carts
  BY CartAssumption DEF Empty, Carts
<1> QED BY <1>1, <1>2, FS_EmptySet, CartAssumption DEF CartTypeOK

\* An accepted addition keeps both limits: the sum is checked, not clamped.
THEOREM AddKeepsCart ==
  ASSUME NEW c, CartTypeOK(c), NEW l \in Lines, NEW q, AcceptsAdd(c, l, q)
  PROVE  CartTypeOK(AddLine(c, l, q))
<1> DEFINE d == AddLine(c, l, q)
<1>1. c \in Carts /\ q \in 1 .. MaxQuantity /\ c[l] + q \in 0 .. MaxQuantity
  BY CartAssumption DEF CartTypeOK, AcceptsAdd, Carts
<1>2. d \in Carts /\ \A k \in Lines : d[k] = IF k = l THEN c[l] + q ELSE c[k]
  BY <1>1 DEF AddLine, Carts
<1>3. CASE c[l] = 0
  <2>1. Held(d) = Held(c) \cup {l} /\ l \notin Held(c)
    BY <1>1, <1>2, <1>3, CartAssumption DEF Held, Carts
  <2>2. Cardinality(Held(d)) = Cardinality(Held(c)) + 1
    BY <2>1, HeldFinite, FS_AddElement
  <2>3. Cardinality(Held(c)) < MaxLines
    BY <1>3 DEF AcceptsAdd
  <2> QED BY <1>2, <2>2, <2>3, HeldFinite, CartAssumption DEF CartTypeOK
<1>4. CASE c[l] # 0
  <2>1. Held(d) \subseteq Held(c)
    BY <1>1, <1>2, <1>4, CartAssumption DEF Held, Carts
  <2> QED BY <1>2, <2>1, FewerLines
<1> QED BY <1>3, <1>4

\* So do a change of quantity and the removal of a line.
THEOREM ChangeKeepsCart ==
  ASSUME NEW c, CartTypeOK(c), NEW l \in Lines
  PROVE  /\ \A q \in 1 .. MaxQuantity :
              AcceptsChange(c, l) => CartTypeOK(SetQuantity(c, l, q))
         /\ CartTypeOK(RemoveLine(c, l))
<1>1. c \in Carts
  BY DEF CartTypeOK
<1>2. ASSUME NEW q \in 1 .. MaxQuantity, AcceptsChange(c, l)
      PROVE  CartTypeOK(SetQuantity(c, l, q))
  <2>1. /\ SetQuantity(c, l, q) \in Carts
        /\ Held(SetQuantity(c, l, q)) \subseteq Held(c)
    BY <1>1, <1>2, CartAssumption DEF SetQuantity, Held, Carts, AcceptsChange
  <2> QED BY <2>1, FewerLines
<1>3. CartTypeOK(RemoveLine(c, l))
  <2>1. RemoveLine(c, l) \in Carts /\ Held(RemoveLine(c, l)) \subseteq Held(c)
    BY <1>1, CartAssumption DEF RemoveLine, Held, Carts
  <2> QED BY <2>1, FewerLines
<1> QED BY <1>2, <1>3

\* A settlement leaves a cart, and in it only what was there.
THEOREM SettlementKeepsCart ==
  ASSUME NEW c, CartTypeOK(c), NEW bought \in Carts
  PROVE  /\ CartTypeOK(Remaining(c, bought))
         /\ Held(Remaining(c, bought)) \subseteq Held(c)
<1>1. c \in Carts
  BY DEF CartTypeOK
<1>2. /\ Remaining(c, bought) \in Carts
      /\ Held(Remaining(c, bought)) \subseteq Held(c)
  BY <1>1, CartAssumption DEF Remaining, Held, Carts
<1> QED BY <1>2, FewerLines
=============================================================================
