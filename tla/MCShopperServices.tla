-------------------------- MODULE MCShopperServices --------------------------
(***************************************************************************)
(* The parts of the store that serve its shoppers and the visitors of a    *)
(* playground, each on a small instance: accounts, the prices on the guest *)
(* cart, the relay of a checkout's status, test checkout, the seeding of a *)
(* playground and its tour.  As in MCStoreServices, a behaviour is one of  *)
(* a single part.                                                          *)
(***************************************************************************)
EXTENDS ShopperAccounts, CartPrices, CheckoutRelay,
        PlaygroundCheckout, PlaygroundSeed, PlaygroundTour, TLC

VARIABLE focus

Parts == {"accounts", "prices", "relay", "payment", "seed", "tour"}

\* Those who act at once are interchangeable, and so are the store's keys and
\* the lines of a cart: no definition names one.  The instance gives every part
\* the same actors.
Interchangeable ==
  {f @@ g @@ h : f \in Permutations(Clicks), g \in Permutations(StoreKeys),
                 h \in Permutations(Lines)}

(***************************************************************************)
(* What a checkout or an order may say of where it goes: a contact with or *)
(* without an address, an address beside it, an email address of its own;  *)
(* how it is shipped and what it costs; and that some of it fails its      *)
(* shape check.                                                            *)
(***************************************************************************)
ContactForms ==
  {NoContact, [email |-> None, delivery |-> "d2"], [email |-> Bad, delivery |-> "d1"],
   [email |-> "e1", delivery |-> None], [email |-> "e1", delivery |-> "d1"],
   [email |-> "e2", delivery |-> "d2"], [email |-> "e2", delivery |-> Bad]}

CheckoutForms ==
  [state : {"pending"}, attempt : {None, "a1"}, redirect : {None, "stripe"},
   retryAfter : {None}, order : {Nothing}, contact : {NoContact}, email : {None},
   delivery : {None}, method : {None}, shipping : {None}, total : {None}]
  \cup
  [state : {"pending"}, attempt : {"a1"}, redirect : {"stripe"},
   retryAfter : {None}, order : {Nothing}, contact : ContactForms,
   email : {None, "e1"}, delivery : {None, "d1", "d2", Bad}, method : {None},
   shipping : {None}, total : {None}]
  \cup
  [state : {"pending"}, attempt : {"a1"}, redirect : {"stripe"},
   retryAfter : {None}, order : {Nothing}, contact : {NoContact}, email : {None},
   delivery : {None, "d1"}, method : {None, "m1", Blank},
   shipping : {None, "free", "flat", "free bare", "flat bare", "other"},
   total : {None, "t2"}]

PlainLine == [id |-> "p", quantity |-> 1, name |-> "n", variant |-> None,
              selections |-> None, image |-> None, unitPrice |-> None]

LineForms ==
  [id : {"p", "q"}, quantity : {1}, name : {None, "n"}, variant : {None, "v"},
   selections : {None, "s"}, image : {None, "own"}, unitPrice : {"1"}]
  \cup {[PlainLine EXCEPT !.id = None], [PlainLine EXCEPT !.quantity = 0]}

OrderForms ==
  [at : {"order"}, id : {"o"}, lines : {<<PlainLine>>}, listed : {<<>>},
   total : {"t"}, test : {TRUE}, contact : ContactForms,
   email : {None, "e1"}, delivery : {None, "d1", Bad}, method : {None}]
  \cup
  [at : {"order"}, id : {"o"}, lines : {<<PlainLine>>}, listed : {<<>>},
   total : {None, "t", Bad}, test : {TRUE}, contact : {NoContact},
   email : {None}, delivery : {None, "d2"}, method : {None, "m2", Bad}]
  \cup
  [at : {"order"}, id : {"o"},
   lines : {<<>>} \cup {<<l>> : l \in LineForms}
           \cup {<<PlainLine, l>> : l \in LineForms},
   listed : {<<>>, [q |-> "l"]}, total : {"t"}, test : {FALSE},
   contact : {NoContact}, email : {None}, delivery : {None}, method : {None}]

RetentionForms == {[contact |-> NoContact, attempt |-> None],
                   [contact |-> [email |-> "e2", delivery |-> "d2"],
                    attempt |-> "a1"]}

\* A part that is not looked at has one beginning.
ServicesInit ==
  /\ focus \in Parts
  /\ AccountInit
  /\ PricesInit
  /\ focus = "prices" \/ saved = Empty
  /\ RelayInit
  /\ \/ focus = "relay"
     \/ /\ held = CHOOSE c \in Checkouts : c.contact = NoContact
        /\ kept = CHOOSE r \in Retentions : r.attempt = None
  /\ PayInit
  /\ focus = "payment" \/ key = CHOOSE k \in StoreKeys : TRUE
  /\ SeedInit
  /\ TourInit
  /\ focus = "tour" \/ note.welcome = 0

ServicesNext ==
  /\ UNCHANGED focus
  /\ \/ focus = "accounts" /\ AccountNext
     \/ focus # "accounts" /\ UNCHANGED accountVars
  /\ \/ focus = "prices" /\ PricesNext
     \/ focus # "prices" /\ UNCHANGED priceVars
  /\ \/ focus = "relay" /\ RelayNext
     \/ focus # "relay" /\ UNCHANGED relayVars
  /\ \/ focus = "payment" /\ PayNext
     \/ focus # "payment" /\ UNCHANGED payVars
  /\ \/ focus = "seed" /\ SeedNext
     \/ focus # "seed" /\ UNCHANGED seedVars
  /\ \/ focus = "tour" /\ TourNext
     \/ focus # "tour" /\ UNCHANGED tourVars

ServicesSpec ==
  ServicesInit
    /\ [][ServicesNext]_<<focus, accountVars, priceVars, relayVars,
                          payVars, seedVars, tourVars>>

\* Bound: the steps of the tour are read apart, so one of them at a time is worked
\* on, by the visitor and by the store.
OneStepWorkedOn == Cardinality(earned \cup intruded) <= 1

\* States of one part differ in nothing but its own variables.
PartView ==
  <<focus,
    CASE focus = "accounts" -> accountVars
      [] focus = "prices" -> priceVars
      [] focus = "relay" -> relayVars
      [] focus = "payment" -> payVars
      [] focus = "seed" -> seedVars
      [] focus = "tour" -> tourVars>>

\* The part looked at keeps to its types; the others never move.
ServicesTypeOK ==
  CASE focus = "accounts" -> AccountTypeOK
    [] focus = "prices" -> PricesTypeOK
    [] focus = "relay" -> RelayTypeOK
    [] focus = "payment" -> PayTypeOK
    [] focus = "seed" -> SeedTypeOK
    [] focus = "tour" -> TourTypeOK
=============================================================================
