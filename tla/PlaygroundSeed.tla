---------------------------- MODULE PlaygroundSeed ----------------------------
(***************************************************************************)
(* Setting up a visitor's playground store (middleware.ts and              *)
(* features/playground: demo-commerce-seed, demo-registry-seed,            *)
(* demo-orders).  The first request an isolate sees of a store seeds it    *)
(* before it is answered; other requests of that isolate do not wait, and  *)
(* another isolate seeds the same store again.  A pass is cut short by a   *)
(* refused call or by its isolate's end, and is then run anew.             *)
(*                                                                         *)
(* Left out: what the pages and the products say, and their order; the     *)
(* store's indexes, pages and connection, each made only if missing by one *)
(* call; a store made before the Registry build, which is not seeded.      *)
(***************************************************************************)
EXTENDS Naturals, FiniteSets

CONSTANTS
  Isolates,
  DemoProducts,    \* the demo catalog
  MaxOrders        \* bound: orders the visitor places

VARIABLES
  seeded,          \* seededPlaygroundSessions: isolates that need not seed the store
  seeding,         \* per isolate: its seeding pass
  merchant,        \* who saved the merchant settings: nobody, the seed, the visitor
  product,         \* per demo product: created, its options, its prices, on sale
  sample,          \* per sample order: its number; 0: none yet
  label,           \* the number on the shipped sample's practice label; 0: none yet
  ordered,         \* the numbers of the visitor's own orders
  counter,         \* Commerce's next order number; 0: none yet
  crossed          \* history: something else took numbers while a pass did

seedVars ==
  <<seeded, seeding, merchant, product, sample, label, ordered, counter, crossed>>

ASSUME SeedAssumption == IsFiniteSet(Isolates) /\ MaxOrders \in Nat

Samples == {"shipped", "paid"}

\* Order numbers count from FIRST_NUMBER, 1001, less 1000; the shopper account's
\* own demo orders have the first two.
First == 1
Reserved == {1, 2}
\* As far as they go: an isolate numbers a sample once after it is there.
Numbers ==
  1 .. Cardinality(Reserved) + Cardinality(Samples) * (Cardinality(Isolates) + 1)
         + MaxOrders + 1

NoPass0 == [at |-> "none", todo |-> {}, on |-> "none", read |-> 0,
            taken |-> {}, next |-> 0, left |-> {}]

SeedTypeOK ==
  /\ seeded \subseteq Isolates
  /\ merchant \in {"nobody", "seed", "visitor"}
  /\ \A i \in Isolates :
       /\ seeding[i].at \in {"none", "merchant", "save", "list", "create", "options",
                             "prices", "sale", "orders", "scan", "number", "put",
                             "counter"}
       /\ seeding[i].todo \subseteq DemoProducts /\ seeding[i].left \subseteq Samples
       /\ seeding[i].taken \subseteq Numbers /\ seeding[i].next \in Numbers \cup {0}
       /\ seeding[i].read \in Numbers \cup {0}
  /\ \A p \in DemoProducts : /\ product[p].made \in BOOLEAN /\ product[p].sized \in BOOLEAN
                             /\ product[p].onSale \in BOOLEAN
                             /\ product[p].prices \in {"none", "demo", "visitor"}
  /\ \A s \in Samples : sample[s] \in Numbers \cup {0}
  /\ label \in Numbers \cup {0}
  /\ ordered \subseteq Numbers /\ counter \in Numbers \cup {0}
  /\ crossed \in BOOLEAN

SeedInit ==
  /\ seeded = {} /\ seeding = [i \in Isolates |-> NoPass0]
  /\ merchant = "nobody"
  /\ product = [p \in DemoProducts |-> [made |-> FALSE, sized |-> FALSE,
                                        prices |-> "none", onSale |-> FALSE]]
  /\ sample = [s \in Samples |-> 0] /\ label = 0
  /\ ordered = {} /\ counter = 0 /\ crossed = FALSE

At0(i, at) == seeding[i].at = at
Goes(i, pass) == seeding' = [seeding EXCEPT ![i] = pass]
GoesTo(i, at) == Goes(i, [seeding[i] EXCEPT !.at = at])
Numbering(i) == seeding[i].at \in {"scan", "number", "put", "counter"}
Others(i) == \E j \in Isolates \ {i} : Numbering(j)
-----------------------------------------------------------------------------
\* The store is marked as seeded before the pass is waited for.
Request(i) ==
  /\ i \notin seeded /\ At0(i, "none")
  /\ seeded' = seeded \cup {i} /\ GoesTo(i, "merchant")
  /\ UNCHANGED <<merchant, product, sample, label, ordered, counter, crossed>>

\* A call of the pass is refused, or its isolate ends: the next request seeds again.
CutShort(i) ==
  /\ ~At0(i, "none")
  /\ seeded' = seeded \ {i} /\ Goes(i, NoPass0)
  /\ UNCHANGED <<merchant, product, sample, label, ordered, counter, crossed>>

ReadMerchant(i) ==
  /\ At0(i, "merchant")
  /\ GoesTo(i, IF merchant = "nobody" THEN "save" ELSE "list")
  /\ UNCHANGED <<seeded, merchant, product, sample, label, ordered, counter, crossed>>

\* expectedRevision: null, as it was read.
StillUnsaved == merchant = "nobody"

SaveMerchant(i) ==
  /\ At0(i, "save") /\ StillUnsaved
  /\ merchant' = "seed" /\ GoesTo(i, "list")
  /\ UNCHANGED <<seeded, product, sample, label, ordered, counter, crossed>>

\* The demo products Commerce does not list, by their SKU.
ListProducts(i) ==
  /\ At0(i, "list")
  /\ Goes(i, [seeding[i] EXCEPT !.at = "create", !.todo = {p \in DemoProducts : ~product[p].made}])
  /\ UNCHANGED <<seeded, merchant, product, sample, label, ordered, counter, crossed>>

\* createProduct: made for its page (the command repeated gets the same item), its
\* options, whose sizes are items of their own, its prices, on sale.  A pass cut
\* short in between leaves the rest undone: later ones find the product listed.
CreateDemo(i) ==
  /\ At0(i, "create")
  /\ IF seeding[i].todo = {}
       THEN GoesTo(i, "orders") /\ UNCHANGED product
       ELSE \E p \in seeding[i].todo :
              /\ product' = [product EXCEPT ![p].made = TRUE]
              /\ Goes(i, [seeding[i] EXCEPT !.at = "options", !.on = p, !.todo = @ \ {p}])
  /\ UNCHANGED <<seeded, merchant, sample, label, ordered, counter, crossed>>

AddOptions(i) ==
  /\ At0(i, "options")
  /\ product' = [product EXCEPT ![seeding[i].on].sized = TRUE]
  /\ GoesTo(i, "prices")
  /\ UNCHANGED <<seeded, merchant, sample, label, ordered, counter, crossed>>

SetPrices(i) ==
  /\ At0(i, "prices")
  /\ product' = [product EXCEPT ![seeding[i].on].prices = "demo"]
  /\ GoesTo(i, "sale")
  /\ UNCHANGED <<seeded, merchant, sample, label, ordered, counter, crossed>>

SetOnSale(i) ==
  /\ At0(i, "sale")
  /\ product' = [product EXCEPT ![seeding[i].on].onSale = TRUE]
  /\ Goes(i, [seeding[i] EXCEPT !.at = "create", !.on = "none"])
  /\ UNCHANGED <<seeded, merchant, sample, label, ordered, counter, crossed>>

\* The items a sample order is for: the paid one's is a size.
Seedable(s) == \A p \in DemoProducts : product[p].made /\ (s = "paid" => product[p].sized)

Missing == {s \in Samples : Seedable(s) /\ sample[s] = 0}

\* ensurePlaygroundSampleOrders: those that are there, then every number in use.
ReadSamples(i) ==
  /\ At0(i, "orders")
  /\ Goes(i, IF Missing = {} THEN NoPass0 ELSE [seeding[i] EXCEPT !.at = "scan", !.left = Missing])
  /\ crossed' = (crossed \/ (Missing # {} /\ Others(i)))
  /\ UNCHANGED <<seeded, merchant, product, sample, label, ordered, counter>>

InUse == ordered \cup ({sample[s] : s \in Samples} \ {0})

\* Mutant: the samples are counted on from the counter alone.
ReadNone == Reserved

Taken == Reserved \cup InUse

FreeFrom(n, taken) == CHOOSE k \in Numbers \ taken : /\ k >= n
                                                     /\ \A j \in n .. k - 1 : j \in taken

\* The order numbers in use, and Commerce's counter.
ScanNumbers(i) ==
  /\ At0(i, "scan")
  /\ Goes(i, [seeding[i] EXCEPT !.at = "number", !.taken = Taken,
                                !.read = counter,
                                !.next = IF counter = 0 THEN First ELSE counter])
  /\ UNCHANGED <<seeded, merchant, product, sample, label, ordered, counter, crossed>>

\* The samples in their order, each under the next number free in what was read.
NextFor(i) == FreeFrom(seeding[i].next, seeding[i].taken)

\* The shipped sample's practice label is there before its order.
PutLabel(i) ==
  /\ At0(i, "number") /\ "shipped" \in seeding[i].left
  /\ label' = NextFor(i) /\ GoesTo(i, "put")
  /\ UNCHANGED <<seeded, merchant, product, sample, ordered, counter, crossed>>

PutSample(i) ==
  LET s == IF "shipped" \in seeding[i].left THEN "shipped" ELSE "paid"
      n == NextFor(i)
      left == seeding[i].left \ {s} IN
  /\ At0(i, IF s = "shipped" THEN "put" ELSE "number")
  /\ sample' = [sample EXCEPT ![s] = n]
  /\ Goes(i, [seeding[i] EXCEPT !.left = left, !.taken = @ \cup {n}, !.next = n,
                                !.at = IF left = {} THEN "counter" ELSE "number"])
  /\ UNCHANGED <<seeded, merchant, product, label, ordered, counter, crossed>>

\* The counter as it was read decides whether it is moved past the samples; one
\* an order moved since then is moved back.
PutCounter(i) ==
  /\ At0(i, "counter")
  /\ counter' = IF seeding[i].read < NextFor(i) THEN NextFor(i) ELSE counter
  /\ Goes(i, NoPass0)
  /\ UNCHANGED <<seeded, merchant, product, sample, label, ordered, crossed>>
-----------------------------------------------------------------------------
\* The visitor, whose other requests no pass holds up.
SavesSettings ==
  /\ merchant' = "visitor"
  /\ UNCHANGED <<seeded, seeding, product, sample, label, ordered, counter, crossed>>

EditsPrices(p) ==
  /\ product[p].made
  /\ product' = [product EXCEPT ![p].prices = "visitor"]
  /\ UNCHANGED <<seeded, seeding, merchant, sample, label, ordered, counter, crossed>>

\* Commerce numbers a paid order on from its counter, past the ones it holds.
PlacesOrder ==
  LET n == FreeFrom(IF counter = 0 THEN First ELSE counter, Reserved \cup InUse) IN
  /\ Cardinality(ordered) < MaxOrders
  /\ ordered' = ordered \cup {n} /\ counter' = n + 1
  /\ crossed' = (crossed \/ \E i \in Isolates : Numbering(i))
  /\ UNCHANGED <<seeded, seeding, merchant, product, sample, label>>

SeedNext ==
  \/ \E i \in Isolates :
       \/ Request(i) \/ CutShort(i) \/ ReadMerchant(i) \/ SaveMerchant(i)
       \/ ListProducts(i) \/ CreateDemo(i) \/ AddOptions(i) \/ SetPrices(i) \/ SetOnSale(i)
       \/ ReadSamples(i) \/ ScanNumbers(i) \/ PutLabel(i) \/ PutSample(i)
       \/ PutCounter(i)
  \/ SavesSettings
  \/ \E p \in DemoProducts : EditsPrices(p)
  \/ PlacesOrder

SeedSpec == SeedInit /\ [][SeedNext]_seedVars
-----------------------------------------------------------------------------
Apart == /\ \A s \in Samples : sample[s] # 0 => sample[s] \notin ordered \cup Reserved
         /\ sample["shipped"] # 0 => sample["shipped"] # sample["paid"]
         /\ sample["shipped"] # 0 => label = sample["shipped"]

\* Passes cut short anywhere and run anew leave every order a number of its own,
\* and the shipped sample a label with its number, unless two of them, or a pass
\* and an order, took numbers at the same time (demo-orders); such a crossing is
\* left out, not caught.
OrdersApartAlone == crossed \/ Apart
=============================================================================
