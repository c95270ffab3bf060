--------------------------- MODULE PracticeShipping ---------------------------
(***************************************************************************)
(* The pretend Ship of a playground store                                  *)
(* (playground-plugins/dinkuskit-stand-in.ts): it makes and cancels the    *)
(* practice labels of the store's orders.  A label is kept in the          *)
(* stand-in's own storage; making one also completes the order in          *)
(* Commerce's storage, cancelling it opens the order again.  Nothing ties  *)
(* the two writes together, nor a write to the read before it: every await *)
(* of a call ends a step, and calls of several tabs overlap.               *)
(*                                                                         *)
(* Left out: tokens, passes and Connect; boxes, weights and addresses (an  *)
(* order without a United States address is one that gets no label); the   *)
(* list of orders, a read.  Commerce's own changes of an order are         *)
(* external.                                                               *)
(***************************************************************************)
EXTENDS Naturals, FiniteSets

CONSTANTS
  ShipOrders,    \* orders Commerce holds
  Mailable,      \* those with an address Ship takes
  ShipCalls,     \* calls under way at once
  LabelPage,     \* labels one query returns (100 in the code)
  MaxLabels,     \* bound: labels made
  MaxEdits       \* bound: changes Commerce makes to an order

ASSUME ShippingAssumption ==
  Mailable \subseteq ShipOrders /\ LabelPage \in Nat /\ MaxLabels \in Nat

VARIABLES
  orders,        \* Commerce: revision, its own changes, and the label it was
                 \* completed with (0: it is processing)
  labels,        \* the stand-in: per label number, its order and status
  ship,          \* per call: what it does, how far it is and what it read
  crossed,       \* history: orders something else changed under a call
  cutOff         \* history: orders a call was cut off on

shipVars == <<orders, labels, ship, crossed, cutOff>>

LabelNumbers == 1 .. MaxLabels
NoOrder == "none"
NoLabel == [order |-> NoOrder, status |-> "none"]
NoRow == [revision |-> 0, edits |-> 0, completed |-> 0]
NoShipCall == [at |-> "idle", for |-> NoOrder, label |-> 0, version |-> 0,
               row |-> NoRow]

\* An order is completed by a label that was made, and no call holds a
\* revision the order has not reached.
ShippingTypeOK ==
  /\ \A o \in ShipOrders : /\ orders[o].revision \in Nat \ {0}
                           /\ orders[o].completed \in LabelNumbers \cup {0}
  /\ \A l \in LabelNumbers : /\ labels[l].order \in ShipOrders \cup {NoOrder}
                             /\ labels[l].status \in {"none", "bought", "cancelled"}
  /\ \A c \in ShipCalls :
       ship[c].at \in {"idle", "find", "check", "label", "complete",
                       "get", "cancel", "find again", "open again"}

ShippingInit ==
  /\ orders = [o \in ShipOrders |-> [NoRow EXCEPT !.revision = 1]]
  /\ labels = [l \in LabelNumbers |-> NoLabel]
  /\ ship = [c \in ShipCalls |-> NoShipCall]
  /\ crossed = {} /\ cutOff = {}

Made == {l \in LabelNumbers : labels[l] # NoLabel}
Bought(o) == {l \in Made : labels[l] = [order |-> o, status |-> "bought"]}

To(c, at) == ship' = [ship EXCEPT ![c].at = at]
Ends(c) == ship' = [ship EXCEPT ![c] = NoShipCall]

\* A write under another call that acts on what it read of the order before.
Crosses(o, self) ==
  crossed' = crossed \cup
    {p \in {o} : \E c \in ShipCalls \ {self} :
       /\ ship[c].for = o
       /\ ship[c].at \in {"check", "label", "complete", "cancel", "open again"}}
-----------------------------------------------------------------------------
(***************************************************************************)
(* Making a label: POST /v1/admin/orders/<order>/labels, with the version  *)
(* the page showed: the order's, or an older one.                          *)
(***************************************************************************)
AsksLabel(c) ==
  /\ ship[c].at = "idle"
  /\ \E o \in ShipOrders : \E v \in {orders[o].revision, orders[o].revision - 1} :
       ship' = [ship EXCEPT ![c] = [NoShipCall EXCEPT !.at = "find", !.for = o,
                                                      !.version = v]]
  /\ UNCHANGED <<orders, labels, crossed, cutOff>>

FindsOrder(c) ==
  /\ ship[c].at = "find"
  /\ ship' = [ship EXCEPT ![c].at = "check", ![c].row = orders[ship[c].for]]
  /\ UNCHANGED <<orders, labels, crossed, cutOff>>

\* labelsFor: one query of the store's labels, in no particular order, then
\* the order's own among them.
LabelsFor(o) ==
  {read \cap Bought(o) :
     read \in {s \in SUBSET Made :
       Cardinality(s) = IF Cardinality(Made) <= LabelPage
                        THEN Cardinality(Made) ELSE LabelPage}}

\* A mutant: an order that has a label gets another.
LabelsAnother(c, found) ==
  ship[c].version = ship[c].row.revision /\ ship[c].for \in Mailable

\* STALE, LABEL_EXISTS, ADDRESS.
MayLabel(c, found) ==
  /\ ship[c].version = ship[c].row.revision
  /\ found = {}
  /\ ship[c].for \in Mailable

ChecksOrder(c) ==
  /\ ship[c].at = "check"
  /\ \E found \in LabelsFor(ship[c].for) :
       IF MayLabel(c, found) THEN To(c, "label") ELSE Ends(c)
  /\ UNCHANGED <<orders, labels, crossed, cutOff>>

PutsLabel(c) ==
  /\ ship[c].at = "label"
  /\ Cardinality(Made) < MaxLabels
  /\ LET l == Cardinality(Made) + 1
     IN /\ labels' = [labels EXCEPT ![l] = [order |-> ship[c].for,
                                            status |-> "bought"]]
        /\ ship' = [ship EXCEPT ![c].at = "complete", ![c].label = l]
  /\ Crosses(ship[c].for, c)
  /\ UNCHANGED <<orders, cutOff>>

\* The whole order as it was read, completed, goes back.
CompletesOrder(c) ==
  /\ ship[c].at = "complete"
  /\ orders' = [orders EXCEPT ![ship[c].for] =
       [ship[c].row EXCEPT !.revision = @ + 1, !.completed = ship[c].label]]
  /\ Crosses(ship[c].for, c)
  /\ Ends(c)
  /\ UNCHANGED <<labels, cutOff>>
-----------------------------------------------------------------------------
(***************************************************************************)
(* Cancelling one: POST /v1/admin/labels/<label>/cancel.                   *)
(***************************************************************************)
AsksCancel(c) ==
  /\ ship[c].at = "idle"
  /\ \E l \in Made :
       ship' = [ship EXCEPT ![c] = [NoShipCall EXCEPT !.at = "get", !.label = l,
                                                      !.for = labels[l].order]]
  /\ UNCHANGED <<orders, labels, crossed, cutOff>>

\* One that was cancelled already is answered at once; its order is not looked
\* at again.
GetsLabel(c) ==
  /\ ship[c].at = "get"
  /\ IF labels[ship[c].label].status = "cancelled" THEN Ends(c) ELSE To(c, "cancel")
  /\ UNCHANGED <<orders, labels, crossed, cutOff>>

CancelsLabel(c) ==
  /\ ship[c].at = "cancel"
  /\ labels' = [labels EXCEPT ![ship[c].label].status = "cancelled"]
  /\ To(c, "find again")
  /\ Crosses(ship[c].for, c)
  /\ UNCHANGED <<orders, cutOff>>

\* An order some other label completed stays completed.
FindsAgain(c) ==
  /\ ship[c].at = "find again"
  /\ LET row == orders[ship[c].for]
     IN IF row.completed = ship[c].label
        THEN ship' = [ship EXCEPT ![c].at = "open again", ![c].row = row]
        ELSE Ends(c)
  /\ UNCHANGED <<orders, labels, crossed, cutOff>>

OpensAgain(c) ==
  /\ ship[c].at = "open again"
  /\ orders' = [orders EXCEPT ![ship[c].for] =
       [ship[c].row EXCEPT !.revision = @ + 1, !.completed = 0]]
  /\ Crosses(ship[c].for, c)
  /\ Ends(c)
  /\ UNCHANGED <<labels, cutOff>>
-----------------------------------------------------------------------------
\* External: Commerce changes an order of its own accord.
CommerceEdits(o) ==
  /\ orders[o].edits < MaxEdits
  /\ orders' = [orders EXCEPT ![o].revision = @ + 1, ![o].edits = @ + 1]
  /\ Crosses(o, "none")
  /\ UNCHANGED <<labels, ship, cutOff>>

\* External: the isolate is dropped, or storage fails, in the middle of a call.
ShipCutOff(c) ==
  /\ ship[c].at # "idle"
  /\ cutOff' = cutOff \cup {ship[c].for}
  /\ Ends(c)
  /\ UNCHANGED <<orders, labels, crossed>>

MakesLabel(c) ==
  AsksLabel(c) \/ FindsOrder(c) \/ ChecksOrder(c) \/ PutsLabel(c) \/ CompletesOrder(c)
Cancels(c) ==
  AsksCancel(c) \/ GetsLabel(c) \/ CancelsLabel(c) \/ FindsAgain(c) \/ OpensAgain(c)

ShippingNext ==
  \/ \E c \in ShipCalls : MakesLabel(c) \/ Cancels(c) \/ ShipCutOff(c)
  \/ \E o \in ShipOrders : CommerceEdits(o)

ShippingSpec == ShippingInit /\ [][ShippingNext]_shipVars
-----------------------------------------------------------------------------
\* "This order already has a label. Cancel it to make another", "a label marks
\* the order Completed": once its calls have ended, an order has one bought
\* label at most and is completed exactly by that one, unless calls or Commerce
\* crossed on it, a call was cut off, or the store's labels have outgrown what
\* labelsFor reads.
LabelAndOrderAgree ==
  \A o \in ShipOrders \ (crossed \cup cutOff) :
    (Cardinality(Made) <= LabelPage /\ \A c \in ShipCalls : ship[c].for # o)
      => Bought(o) = {orders[o].completed} \ {0}
=============================================================================
