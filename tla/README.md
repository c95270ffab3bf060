# Template store: a TLA+ verification project

These modules model the parts of the store template where several requests,
browser tabs, isolates or hooks overlap, fail or repeat, and check or prove what
keeps them right. `PROJECT.json` lists the runs, the mutants that show each
property can fail, the source lines every definition stands for, the hazards and
the theorems. Paths below are relative to the repository's `src/features/`.

Run a module with `tlc -config <Name>.cfg <MC module>.tla`, and check its proofs
with `tlapm <Module>Proofs.tla`.

## 1. The system

A template store is an Astro site on EmDash (a CMS) with the Dinkus Commerce
plugin. Every request passes `middleware.ts`, which runs the store's upgrades
once per isolate, sweeps scheduled sales at most once a minute, wraps EmDash's
own handler of a publish with the publish check, seeds a playground visitor's
store, and admits or refuses checkout and account routes. EmDash, Commerce,
Payments and the Inventory library are other repositories: they are modelled
from the calls this one makes and the answers it expects, and marked external in
the map.

| Component | State it keeps | Operations | Talks to |
|---|---|---|---|
| `product-on-sale`, publish check | none of its own: locals of each request; `retitle:` records | publish, unpublish, trash, permanent delete of a product page | EmDash (page), Commerce (`set-on-sale`, page link) |
| `product-on-sale`, sweep | cursor and clock per isolate; `takeback:` and `retitle:` records | one sweep over pending records | the plugin's records, EmDash, Commerce |
| `product-url-plugin` | one `PendingSale` record per page | EmDash's content hooks | EmDash calls it; the sweep reads it |
| `guest-cart`, intent and storage | the cart in localStorage, its owner store and line writers | add, set quantity, remove, take over | pages, tools, checkout |
| `guest-cart`, prices | per page: its copy of the cart, one check of prices at a time | edit, refresh, hear of another tab's change | Commerce's snapshot |
| `guest-cart`, WebMCP | per page: the cart last reviewed | tool calls of an agent, a review, a hand-over to checkout | the stored cart, the page |
| `guest-cart`, checkout | the retained capability in localStorage; a controller per tab | prepare, start, status, probe, recover, settle | Commerce checkout, the store's relay |
| `store-shell`, storefront upgrades | option `dinkus:storefront-upgrades`; a promise per isolate | run what is missing; `search:upgrade` reruns all | the database |
| `store-shell`, the rest | none | pages, menus, search filters, one step's schema change | EmDash |
| `managed-product-availability` | the in-memory inventory store and its queue; record storages; the bootstrap promise | bootstrap, adjust stock, reserve batches, transfers, replays, lists | the Inventory library, Commerce |
| `unmanaged-product-sellability` | record storages; the bootstrap promise | bootstrap, put a status, read | Commerce |
| `shopper-account` | the session in localStorage; codes, sessions and leads of the store | sign in, verify, revoke, demonstration session, orders | plugin storage, mail |
| `playground` | a database per visitor; a set of seeded stores per isolate | seeding of settings, products, prices and sample orders | Commerce, EmDash |
| `playground-checkout` | the pass and its exchange per isolate; bindings in the visitor's store | exchange, start a payment, show a status | DinkusKit, Payments |
| `playground-tour` | a note in the visitor's store: baselines, welcome, steps praised | look at the tour, praise | EmDash, Commerce |
| `playground-plugins` | practice labels in the stand-in's storage | make, cancel | Commerce's orders |
| `test-checkout-host` | none: wakes live at Payments | list, look up, store the order, acknowledge | Payments, Commerce |
| `commerce-catalog`, `-feeds`, `-profile`, `paired-checkout`, `security` | none | pure reads, formatting, decisions | Commerce |

What is hard here, and what correctness means:

- **Publish check.** Every await lets another request, the panel, EmDash's
  scheduler or a change of the person's role in. Correct means: a product that is
  on sale behind an unpublished page is still owed an off-sale write; Commerce
  ends with the newest title; a failed page change puts the product back.
- **Schedule grants and sweep.** A grant is written by hooks of overlapping
  requests and used later by somebody else's request, by sweeps of several
  isolates at once. Correct means: nobody's schedule is sold on another person's
  authority, never with a higher role than was asked with, and what a sweep sold
  behind a page that is gone is taken back.
- **Cart, tools and checkout.** Tabs share localStorage without locks, calls are
  lost or arrive late, pages reload at any await, an agent acts beside the
  shopper. Correct means: an attempt that can be paid, or is paid and not
  settled, can always be found again; a settlement clears once, and of the cart
  it read only what was bought; an agent checks out only what the shopper
  reviewed; a page never shows prices nobody confirmed; the order shown is the
  one Commerce made, less what its wire form does not carry.
- **Storefront upgrades and wakes.** Runs overlap, fail and are repeated. Correct
  means: steps run oldest first, the list never lies, every step runs; every paid
  attempt comes to an order.
- **Managed availability.** Transactions queue on one promise, are planned from
  older reads, fail half way and are repeated. Correct means: each command counts
  once and wholly or not at all, one that throws leaves nothing and stops nobody,
  no compare-and-set writes over what its writer did not read, and a list read
  page after page misses nothing.
- **Accounts and playground.** One browser slot is shared by concurrent sign-ins
  and late denials; a pass is shared by calls and outlived by redeployments;
  seeding is cut short and runs twice; looks at the tour overlap. Correct means:
  nobody gets a session before its lead, no newer sign-in is discarded by an
  older denial, no visitor is denied their own open payment, sample orders have
  numbers of their own unless two crossed, and a step is ticked only when the
  visitor did it or the store itself wrote between the two reads compared.

`PROJECT.json` names each such hazard at its line, with the properties that
cover it or why none does.

## 2. Modules

| Module | Models | Grain |
|---|---|---|
| `ProductOnSale` | `product-on-sale/index.ts`, the publish check | one action per await |
| `ScheduledSales` | `product-on-sale/index.ts`, the sweep | one action per await of a record in hand |
| `ScheduleGrants` | `product-url-plugin/index.ts` | one action per hook and per EmDash change |
| `GuestCart` | `guest-cart/intent.ts`, `remaining` of the settlement | operators on carts |
| `GuestCheckout` | `checkout-protocol.ts`, `guest-cart-client.ts`, `checkout-cart-settlement.ts` | one action per stretch between awaits; EXTENDS `GuestCart` |
| `CartPrices` | `guest-cart-client.ts`, `present.ts`: the prices of the cart page | one action per callback; EXTENDS `GuestCart` |
| `CartTools` | `guest-cart/webmcp.ts`, `storage.ts` | one action per fetch of prices; EXTENDS `GuestCart` |
| `CheckoutRelay` | `pages/api/checkout/status.ts`, the parsing of `checkout-protocol.ts`, the confirmed order | one action per await |
| `StorefrontUpgrades` | `store-shell/storefront-upgrades.ts` | one action per await of a runner |
| `InventoryAtomic` | what the inventory store promises: abstract | a call is one step |
| `InventoryStore` | `memory-inventory-store.ts` | one action per record a transaction writes; implements `InventoryAtomic` |
| `InventoryPages` | its `listStockTransfers`, `listReceipts` | one action per page read |
| `ManagedStock` | the two `runtime.ts` of the product proofs | one action per await |
| `CatalogStorage` | `memory-catalog-storage.ts`, `memory-storage.ts` | one action per call |
| `ShopperAccounts` | `shopper-account-client.ts`, `playground-runtime.ts`, the account routes | one action per await |
| `PlaygroundCheckout` | `playground-checkout/*`, the checkout routes | one action per await |
| `PlaygroundSeed` | `playground/demo-*.ts` and their middleware | one action per await |
| `PlaygroundTour` | `playground-tour/*` | one action per await of a look |
| `PracticeShipping` | `playground-plugins/dinkuskit-stand-in.ts` | one action per await |
| `PaymentWakes` | `test-checkout-host/*` | one action per call of a run |
| `MC<Name>` | constants and symmetry of small instances; three compose several parts | |
| `<Name>Proofs` | inductive invariants, lemmas, theorems | |

### ProductOnSale

One page, the product Commerce sells through it, and any number of requests.
`status` and `title` are EmDash's page; `picked`, `selling` and `name` are
Commerce's link, the product on sale and its name; `retitle` says the page is
listed for the sweep. A request's `pc` names the await it is at: `content` and
`link` are the two reads of `productPage`, `authorize` the permission checks,
`off` the first off-sale write, `change` EmDash's handler, `check`/`on` the
on-sale write, `readBack`/`linkBack` the fresh read after it, `takeOff` the
write that takes it back, `rename*` the loop of title-only writes, `undo*` the
on-sale write after a failed change, `offAgain` the second off-sale write,
`plain` a change with no Commerce half, `delete` and `release` a permanent
delete and the release of its link. `log` is history: it holds the warnings the
code prints and a few events the properties need as excuses.

Assumed of what is external: EmDash's handler is atomic and an error means it
changed nothing; a write that names an id Commerce does not have, or a page it
links to nothing, is answered with the code the store takes as done. The 409 of
a product another page sells, other pages, and the refusal of title-only writes
by Commerce 0.6.0 are not modelled.

### ScheduleGrants

One page's `PendingSale` record, EmDash's page and schedule, and any number of
requests. A schedule runs `BeforeSchedule`, `StoreSchedule` (EmDash),
`ReadPage`, `AfterSchedule`; a publish `BeforePublish`, `PublishPage`
(EmDash), `AfterPublish`; an unschedule, unpublish or trash `WithdrawPage`
(EmDash), `DropRecord`. `changePending` retries its compare-and-set, so the
change of a record is one step; the fault "raced" is the hook that lost every
race and removes the record. `asked` and `publishedFor` are history.

Assumed: EmDash takes no schedule for a moment that has passed, a schedule's
before-hook runs before its moment, and five lost removals in a row do not
happen.

### GuestCart and GuestCheckout

`cart` and `retained` are the two localStorage values; `tab` is per tab its
page, controller and pending call. A capability and an attempt are numbers, the
SHA-256 print of a cart is the cart. `Open` loads a page (a reload forgets the
tab's memory at any await), `ClickCheckout` and `ClickRecover` are the shopper,
`PrepareAnswered`, `StartAnswered`, `StatusAnswered`, `PaidAnswered` and their
failures are the continuations, `Settle` the three writes of a settlement of
which any may be refused. `ToolWrites` is the cart tools of a page: they write the
stored cart and the page then shows it, whether its checkout is locked or not.
`rewritten` marks a click whose page showed a cart its tools wrote while the call
was in flight; a page that is told of a new cart may probe (`Notified`).
Commerce keeps one current attempt per capability
(`CommerceStarts`, `CommerceReports`, `PaymentMoves`); `late` holds starts
whose tab gave up on them.

Not modelled here: prices (`CartPrices`), what the tools review and hand over
(`CartTools`), the relay of an answer and the limit of status checks
(`CheckoutRelay`), rendering, damaged storage, admission, the paid answer that
names no order, and a probe begun beside a settlement that another tab has
finished. A tab that was redirected to payment stays as it was until it loads
another page.

### StorefrontUpgrades

Runners are isolates and command-line repairs, each built from a template with
its own last step (`Version`). A runner reads the list (`ReadList`), runs the
oldest step it misses (`RunUpgrade`), and writes its own list back whole
(`RecordUpgrade`); each may fail, and `RecordFails` also stands for a write
whose answer was lost. `Evict` ends an isolate at any await. What a step does to
the schema is abstracted to whether it ran to its end; it is safe to run twice.

### ScheduledSales

One page and the records two isolates have in hand. `pending` holds the revision
of each stored record: the page's own, its list of newest titles (`retitle`) and
a take-back per product; `slots` are records in hand, each at an await of
`sellScheduledPages`: `content`, `link` and `visitor` read the page,
`unchanged` reads the record again, `on` sells, `after`/`afterLink` read the page
afresh, `granted` asks whether the record still stands, `list` puts a take-back,
`off` and `remove` take the sale back, `rename` and `drop` finish. Around them
EmDash publishes, a person unpublishes (with the publish check's two off-sale
writes), a schedule is stored, and the panel picks another product. `saleLog` is
history: what the sweep cannot answer for.

### InventoryStore and InventoryAtomic

`store` is what `memory-inventory-store.ts` keeps, reduced to versions:
balances, transfers, locations, SKUs, confirmations and reservations have a
version each, commands a result, receipts a command. What the store finds
records by is kept beside them: `index` finds the active reservation, and
`finds` the managed SKU of a visible SKU and the transfer of a reference, which
the records themselves bear (`bears`). Calls are numbered in the order the queue
takes them. `Serve(c)` is the turn of one: `Replay` (the command has a result),
`Drifts` (a record is not at the version the plan names, or the SKU's name is
taken, `Stale`: the draft is dropped), `WriteNext` (one more record written to
the draft), `StoreRejection` and `Finish` (the draft becomes the store).
`InventoryAtomic` keeps only the versions, the commands with a result and the
calls' answers, and answers each call in one step. The refinement maps `store`
to them and every write to a draft to a stutter; what a call is to change comes
from `plan`. Which operation writes which records is `Writes`, in the order the
code writes them.

### InventoryPages, CatalogStorage, ManagedStock

`InventoryPages` walks one list page by page; a row changes its date, leaves or
joins between two pages, and `Follows` is the code's comparison with the last
row listed. `CatalogStorage` is one storage: which of `put`, `delete`, compare-
and-set and compare-and-delete it has, and which fields are unique, are the
parameters that make it each of the nine in-memory storages. `ManagedStock` is
the two runtimes: the shared bootstrap promise, which may be rejected and is
then kept as it is (`BootstrapFails`, and `Unbooted` for all who await it), the
chain that takes changes in turn, the remembered commands and their replays,
visitors' reads, and the Inventory library, external, which keeps a result per
command.

### CartTools, CartPrices, CheckoutRelay

`CartTools`: tabs share `cart`; each has a page from some playground store, and
`owner` is the store that has the browser's cart. A tool call reads the cart,
awaits prices and goes on (`CallRead`, `CallProceed`, `CallUpdate`, `Answered`);
pages edit, other tabs write, stores restart between. `review` is the page's
review state, `asked` the history the property needs. The fingerprint of a cart
is its lines and their quote: collisions of the 32-bit hash are ignored.

`CartPrices`: `page` is one page's copy of the stored cart, `check` the one check
that may be under way and what waits behind it, `told` a storage event the browser
still owes. Actions are the page's callbacks: an edit, a storage event, the
answer or failure of a check, a retry, the checkout's lock. The code compares the
lines of an answer with the page's in order: a line taken off and added again
differs (`StillAsked`).

`CheckoutRelay`: Commerce's answer (`held`), what the route relays of it
(`relayed`) and what the return page shows (`shopper`). `Project`, `Wire` and
`Confirmation` are the three readings with their fallbacks; a text is a model
value, `None` where it is missing, `Bad` where it fails its shape check and
`Blank` where it is empty. A field that was not read stays as it came; an order
may have its total beside it; shipping is free, flat, one of these without what
the wire form needs, or of another kind.

### ShopperAccounts

Operations of an account page, `clicks`, of any tab: a load with the stored
session, a request for a code, its verification, the demonstration sign-in, a
profile change, a sign-out. Each is at an await of the client or of the store's
route (`record` and `revoke` are the lead and its compensation). `stored` is the
browser's one session slot, `sessions` what Commerce honours. A request may be
dropped at any await, also at those two; a profile may come without an email; a
revocation may fail. `accountLog` is history: the sessions these leave behind.

### PlaygroundCheckout, PlaygroundSeed, PlaygroundTour, PracticeShipping

`PlaygroundCheckout`: `pass` and `flight` are an isolate's cached pass and the
exchange others join; `step` a call of Commerce through the guard; `binding`
what ties a payment to the visitor; `view` what a status showed. Time counts in
exchange timeouts, the finest interval a property is about. `PlaygroundSeed`:
each isolate's pass over settings, products, options, prices and sample orders,
cut short at any await while the visitor works; a sample is made once the items
it is for are there (`Seedable`), the shipped one's label before its order, and
the counter moves by what it was when read. `PlaygroundTour`: a look is a chain
of reads; `note` holds baselines and praise, `earned` what the visitor really
did. A look may find the store new or half seeded, since other requests do not
wait for a pass: `StoreWorks` is what the passes and the demo account still
write, a digest, an example order or the sample's label at a time, and `intruded`
the steps whose two reads such a write came between.
`PracticeShipping`: making a label reads the order and its labels, puts the label
and then completes the order; cancelling reads, puts and opens it again; nothing
ties the writes together. `crossed` and `cutOff` are history.

### PaymentWakes

Payments keeps a wake per attempt under a delivery generation; a run lists,
checks the whole list, looks each attempt up, stores the order of a paid one and
acknowledges the generation it listed. Any call may fail or its answer be lost.
The loop over the list is external and goes by the driver's tests.

### MCStoreServices, MCShopperServices, MCFairServices

These EXTEND the modules of several parts and choose with `focus` which one a
behaviour is about; the others keep their first state, so the state space is the
sum of the parts and not their product. The parts of one such run share no
variable and no step of the models. Where the code's parts do write each other's
state, the module that is disturbed has those writes as actions of its own: the
sweep has the hooks' and the publish check's, the checkout has the tools' writes
of the cart (`ToolWrites`) and the tools have the checkout's hand-over, the tour
has seeding's (`StoreWorks`). They are there as any write the other part could
make, without its control: no run composes `GuestCheckout` with `CartTools`, or
`PlaygroundTour` with `PlaygroundSeed`. `VIEW PartView` leaves the constant rest
out of the comparison of states.

## 3. What is checked

| Run | Instance | Shows |
|---|---|---|
| `ProductOnSale` | 2 requests of every kind, every fault, 1 title | `OffSaleOwed` |
| `ProductOnSaleFair` | 2 fair requests, 2 titles, 1 title-only write, refusals, a demonstration page | `TypeOK`, `NewestTitle`, `FailedChangeKeepsSale`, `ExposureEnds` |
| `ScheduleGrants` | 3 requests, 2 people, 2 roles, 1 moment, 2 proposals kept, unreadable pages, dropped requests | `TypeOK`, `GrantNamesScheduler`, `GrantWeakest` |
| `GuestCheckout` | 1 tab, 2 products, quantities to 2, 2 capabilities, 3 attempts, lost calls | `AttemptRecoverable`, `AsksCurrent`, `ClearsOnceWhatItRead`, `NewIntentKept` |
| `GuestCheckoutTabs` | 2 tabs, 1 product, 1 capability, 2 attempts, lost and late calls, unwritable storage | `TypeOK`, `ReviewedIsSent` |
| `StoreServices` | the seven parts below | `ServicesTypeOK` and a property or more per part |
| `ShopperServices` | the six parts below | `ServicesTypeOK` and a property or more per part |
| `FairServices` | 3 runners of two templates and 2 steps; 2 attempts, lists of 2, 2 deliveries each | `TypeOK`, `OldestFirst`, `RecordedRan`, `DoneMeansRun`, `UpgradesComeToEnd`, `PaidComesToOrder` |

| Part of `StoreServices` | Instance | Shows |
|---|---|---|
| inventory | 3 calls of every operation, 2 commands, 2 balances, 2 reservations, 2 SKUs that want one name, 2 transfers that want one reference, 1 record of each other kind | `StoreIsAtomic` (the refinement), `StoreAgrees`, `CallsGoOn` |
| stock | 4 requests, 2 commands, opening stock of 4, changes of 3 | `EachCommandOnce` |
| storage | each of 9 storages, 2 records, 2 writers, 2 values of the unique fields, 3 revisions | `NoWriteLost` |
| pages | 3 rows, 2 dates, pages of 1, 1 change | `WalkMissesNothing` |
| sales | 2 records in hand, 2 products, 4 puts, every fault | `SweepSaleOwed` |
| shipping | 1 order, 2 calls, 3 labels, pages of 2, 1 edit of Commerce | `LabelAndOrderAgree` |
| tools | 2 tabs, an agent in one, 2 calls, 1 line of quantity to 2, 2 stores, unwritable storage, unheard prices | `HandsOverReviewed`, `NewestKeepsCart` |

| Part of `ShopperServices` | Instance | Shows |
|---|---|---|
| accounts | 2 operations, 3 sessions, 3 codes, every fault | `SessionHasLead`, `LiveSessionKept` |
| prices | 2 lines, quantities to 2, 3 edits | `PricesAreTold` |
| relay | checkouts and orders with each fact there, missing or malformed, a total in or beside the order, every kind of shipping, lists of 2 lines, 2 checks | `RelayLosesOnly` |
| payment | 2 calls, 1 attempt, 2 keys, margin and session 2, time to 3 | `DeniedOnlyLate`, `PassLasts` |
| seed | 2 isolates, 1 product with its options, 1 order of the visitor | `OrdersApartAlone` |
| tour | 1 look at a time, a store seeded or not, 2 versions, 2 example orders, checkout open | `TicksAreEarned` |

Why these bounds are enough to be interesting: every race in the publish check is
between a request and one other change of the page, and slots are used again by
later requests; one title more than a request may rename to makes the budget run
out; two products and quantity two tell "bought" from "added since"; three
attempts give an attempt both a released parent and a successor; two steps and
an older template let a shorter list be put back; two kept proposals and three
requests reach the overflow. In the services, two actors at once and a state
that changes once between any two of their steps is what each race in the code
needs; three calls of the inventory are one that changes, one that was planned
before and one that reads; four puts give the sweep a record, its replacement, a
take-back and that one listed again; three labels are one more than a query
returns; three revisions are a record made, deleted and made again; a time of
3 passes both the end of a pass and the end of a payment. `PlaygroundTour` is
checked with one look and proved for any number. The theorems below take
the bounds away for most of these properties.

Symmetry is declared only over actors and values that no definition names.
`CONSTRAINT Answerable` ends a behaviour of the sweep once something it cannot
answer for is logged: the log only grows and excuses all that follows.
`CONSTRAINT OneStepWorkedOn` ends one of the tour once two of its steps were
worked on: the steps are read apart and praised by their names.
`CHECK_DEADLOCK FALSE` stands where a bounded instance really stops: all calls
served, all revisions handed out, all moments passed.

Each property has a mutant in `PROJECT.json`: a change of a mapped definition
that a plausible bug would make (a fresh read that trusts the write, a second
off-sale write dropped, a failed step that counts as done, a draft that is kept
when a later record drifts, a denial that clears whatever is stored) and under
which the same run finds the property violated.

### Where the code does not keep what it says

Four runs end in a counterexample, each against a sentence of the repository:

- `ProductOnSaleTrashRace`: "a product is never left buyable behind an
  unpublished or trashed page". A trash request that read its page while it was
  already in the trash trashes it again, after a restore and a publish, with no
  Commerce half.
- `GuestCheckoutTwoCarts`: "Clear only the purchased cart". The cart is read
  before an await and written after it: a line that another tab, or the page's
  own cart tools, set meanwhile is erased. One tab is enough.
- `GuestCheckoutFailedWrite`: "A failed write or later changed cart cannot make a
  repeated paid callback erase newly added intent". It can, when the last write
  fails and the same line is added again.
- `ScheduleGrantsTwoMoments`: "never lends one request's authority to another's
  stored schedule". The page read by `content:afterSchedule` can be older than
  the schedule EmDash publishes for.

The properties name their excuses. `OffSaleOwed`: an off-sale write that failed
(warned about), an on-sale write that failed after Commerce applied it (no fresh
read follows it), a page change with no working Commerce half, a request dropped
while it owed. `SweepSaleOwed`: a sweep dropped before it listed a take-back, an
on-sale write Commerce applied and did not answer, an unpublish whose off-sale
write failed. `SessionHasLead`: a request dropped while it recorded a lead or
revoked its session, a profile without an email, a revocation that failed
unheard; nobody was given any of these sessions. `ReviewedIsSent`: the page's own
tools rewrote the cart after the click. `ClearsOnceWhatItRead`: a line set between
the read and the write may be put back, or go with what was bought.
`RelayLosesOnly`: a total beside the order, a blank shipping method, and shipping
that is not free or flat with a charge.
`LabelAndOrderAgree`: calls that crossed, a call cut off, more labels than one
query returns. `OrdersApartAlone`: passes or orders that took numbers at the same
time. `TicksAreEarned`: a page or product seeded after the baseline, or an example
order or label added between the two reads of a count.

Met while modelling, with no run of its own because the property named with it
states the exception, or the sentence is too loose or the case too small:

- "An active checkout also keeps its reviewed intent"
  (`guest-cart/guest-cart-client.ts:755`) is kept against other tabs but not
  against the page's own tools: they write the cart with no check of the lock
  (`guest-cart/webmcp.ts:309-314`, `473-488`) and the page reloads it
  (`guest-cart-client.ts:978-983`). See `ReviewedIsSent`.
- The tour's baseline may be taken of a half-seeded store, against the comment on
  `productEdited` (`playground-tour/state.ts:109-111`): the middleware lets other
  requests go on unseeded. See `TicksAreEarned`.
- The return page falls back to a total beside the order
  (`guest-cart-client.ts:1208`), which the relay does not carry
  (`guest-cart/checkout-protocol.ts:376-400`). See `RelayLosesOnly`.
- A verification dropped after Commerce made the session, or whose profile has no
  email (`middleware.ts:689-694`), leaves it live with no lead, though in nobody's
  hands. See `SessionHasLead`.
- Sample orders: "Each takes the next number no order in the store has"
  (`playground/demo-orders.ts:5`) does not hold for two isolates that seed one
  store at once; they may both number a sample 4 (`crossed` in `PlaygroundSeed`).
- Tour: "says well done once for each" (`playground-tour/tour-plugin.ts:5`):
  overlapping looks praise a step twice; a baseline taken after an edit hides it.
- Totals: "A failed price check, and its retry, may leave older prices in place;
  show no totals until a check succeeds" (`guest-cart/present.ts:280-281`). When
  the cart changes during a retry, a further check follows it with `retrying`
  reset (`guest-cart-client.ts:679-684`), and older totals show while it is
  pending. `PricesAreTold` shows that checkout is not offered on them.
- A late `prepare` of another tab replaces a capability whose attempt was started
  (`guest-cart/checkout-protocol.ts:706`): `AttemptKept` is proved for one tab.
- A cart that changes under each of the three reads of one tool call
  (`guest-cart/webmcp.ts:351-368`) is handed over with the quote that was
  reviewed, which is then not the stored cart's; it takes three different carts.
- The return page says "Check status again." where the button is hidden
  (`guest-cart-client.ts:1354-1362`), once its checks are used up.
- A start the browser gave up on may be taken after its parent was released
  and a successor made; the next check then asks about the parent, which
  `AsksCurrent` excludes ("late" in `GuestCheckout`).
- An off-sale write that was applied and whose answer was lost refuses the
  unpublish, and the product of the page that stays published is off sale ("lost"
  against `FailedChangeKeepsSale`).
- On a demonstration page, a title change whose link read fails takes the seed's
  product for the page's own, sees another one on sale and stops without listing
  the page, so the title stays old ("unread" against `NewestTitle`, and so does
  "relink").
- Wakes: one malformed wake blocks its whole list (`test-checkout-host`), and
  unpaid wakes that stay can fill it; `PaidComesToOrder` excludes both.

### Fairness

`ProductOnSaleFair` assumes weak fairness of each request's next step: the
runtime resumes an await whose answer has come. The upgrades of `FairServices`
assume that the store is set up, that requests keep coming (weak fairness of
`Begin`), strong fairness of reading the list, and, for each step, strong
fairness of running it and of recording it *by some runner*: no step or write
fails, or meets an eviction, every time it is tried. The code retries a failed
run on a later request, so nothing weaker brings it to its end. The wakes assume
that a run goes on (weak fairness of its steps), that not every list fails and
that not every lookup of one attempt fails (strong fairness of `ListsWakes` and
of `LooksUp(a)`): the scheduler starts a run after every failure. Nothing is
assumed of acknowledgements. The other specifications assume no fairness.

## 4. What is proved

| Theorem | States |
|---|---|
| `ProductOnSaleProofs!TypeCorrect`, `SaleOwed` | `TypeOK`, `OffSaleOwed` for any requests, products, seeds and faults |
| `ProductOnSaleProofs!NothingLeftBuyable` | with no faults, no trash and no seed: no product is left buyable once requests have ended |
| `ProductOnSaleProofs!SaleRestored` | `FailedChangeKeepsSale` with every fault but a lost answer |
| `ProductOnSaleProofs!NewestSettles` | `NewestTitle` with every fault but the panel picking another product; a link that cannot be read only on a page that is no demonstration page |
| `GuestCartProofs!AddKeepsCart`, `ChangeKeepsCart`, `SettlementKeepsCart` | every operation leaves a cart within its limits |
| `GuestCheckoutProofs!CheckoutTyped`, `IntentIsSent` | `TypeOK`, `ReviewedIsSent` for any tabs and faults |
| `GuestCheckoutProofs!AttemptKept`, `IntentKept` | with one tab: `AttemptRecoverable` with every fault, `NewIntentKept` with storage that can be written |
| `GuestCheckoutProofs!ClearedOnce` | with one tab: `ClearsOnceWhatItRead` with storage that can be written |
| `GuestCheckoutProofs!CurrentAsked` | with one tab: `AsksCurrent` with every fault but a start taken late |
| `StorefrontUpgradesProofs!UpgradesTyped`, `StepsInOrder`, `ListTells`, `DoneIsRun` | the four safety properties for any runners, templates and evictions |
| `ScheduleGrantsProofs!GrantsTyped`, `NoStrongerGrant` | `TypeOK`, `GrantWeakest` for every kind of change, fault, person, role and moment |
| `ScheduleGrantsProofs!GrantIsSchedulers` | `GrantNamesScheduler` when all schedules are for one moment |
| `InventoryStoreProofs!StoreImplementsAtomic` | `StoreIsAtomic`: the drafting store implements `InventoryAtomic` for any calls, commands, records and write sets |
| `InventoryStoreProofs!TheStoreAgrees` | `StoreAgrees`, all three indexes and the receipts, for any calls, commands, records, names and operations |
| `InventoryStoreProofs!WalksMissNothing` | `WalkMissesNothing` for any rows, dates, changes and each order |
| `InventoryStoreProofs!CommandCountsOnce` | `EachCommandOnce` for any requests, commands, inputs and opening stock |
| `StoreServicesProofs!SweepOwesSale` | `SweepSaleOwed` for any records in hand, products, revisions and faults |
| `StoreServicesProofs!StorageTyped`, `WritesKept` | types and unique values of a storage; `NoWriteLost` for any writers and records |
| `StoreServicesProofs!LabelsAgree` | `LabelAndOrderAgree` for any orders, calls and labels |
| `StoreServicesProofs!HandoffReviewed`, `NewestStoreKeeps` | `HandsOverReviewed`, `NewestKeepsCart` for any tabs, calls, lines and stores |
| `ShopperServicesProofs!AccountsTyped`, `LeadsRecorded`, `NewerSignInKept` | types, `SessionHasLead`, `LiveSessionKept` for any operations, sessions, codes and faults |
| `ShopperServicesProofs!DenialsAreLate`, `PassesLast` | `DeniedOnlyLate`, `PassLasts` for any calls, attempts, keys, margin and session |
| `ShopperServicesProofs!TicksOnlyEarned` | `TicksAreEarned` for any number of overlapping looks, in a store seeded or not |
| `ShopperServicesProofs!PagePricesTold` | `PricesAreTold` for any lines, limits and edits |
| `ShopperServicesProofs!RelayIsTrue` | `RelayLosesOnly` for whatever Commerce answers and the browser retained |
| `ShopperServicesProofs!OrdersStayApart` | `OrdersApartAlone` for any isolates and orders |
| `ShopperServicesProofs!ShopperServicesTyped`, `InventoryStoreProofs!StoreServicesTyped` | the two `ServicesTypeOK`, for any sizes and bounds of the instances |
| `InventoryStoreProofs!QueueNeverStops` | the guards behind `CallsGoOn`: while a call waits, some call can take its next step |
| `ProductOnSaleProofs!RequestsGoOn`, `RequestsComeNearer` | a request in flight can go on, has at most `11 + 3 * NameWrites` steps left, and nothing sets it back |
| `StorefrontUpgradesProofs!NoStepPassedOver`, `UpgradesGoForward` | a step that has not run is behind no runner; runs go forward |
| `StorefrontUpgradesProofs!WakeOutlivesFailures` | a paid attempt keeps its newest wake until its order is stored |

They rest on the `ASSUME`s of the modules only, which state what the constants
are. The arguments:

- *ProductOnSale.* `OffSaleOwed` is inductive beside the types once two facts are
  added: a request's title-only writes stay within the budget of the stage it is
  at, and what is on sale is what Commerce links to the page. Each stage that
  puts the product on sale leads to one in `Owes`; each that leaves `Owes` has
  just seen the page published or written off sale, or logs an excuse. In the
  calm store no excuse can happen, which is an invariant of its own. For
  `FailedChangeKeepsSale`: while the page has never left published, a product
  that is off sale was taken off by a request that knows it did (`tookOff`) and
  is still to put it back, unless the log tells of it. For `NewestTitle`: while
  the product's name is not the page's title, the page is listed for the sweep,
  or some request is yet to write a title, or yet to find that the one it wrote
  is not the newest.
- *GuestCheckout.* Types come first, for any tabs. With one tab, a capability is
  replaced only when `CanPrepareNew` holds, so the invariant says of every state
  at which a tab awaits an answer what the retained capability then owes, that
  every live attempt is of the last capability issued, and that a marker saying
  finished is true. What a click sends is what its page shows, in any tabs, because
  a call in flight locks the page's cart against its shopper and against other
  tabs, a product page, whose cart nothing locks, makes no call, and the page's
  tools, which heed no lock, set `rewritten`. `ClearsOnceWhatItRead` says nothing of
  the cart as it is when a settlement writes; it needs that the retention a
  settlement read is still the one retained, that its order is paid and, where
  storage can be written, that an order not marked as finished was never
  cleaned. `AsksCurrent` needs that the retention names the
  current attempt or none, or says that a start may be on its way, and that the
  tab asked, and was answered, about just that one.
- *StorefrontUpgrades.* A runner's own list has no gap up to the step it works
  on and everything in it has run; so has the stored list, whichever runner's
  copy it is.
- *ScheduleGrants.* A record is sound when what it grants is `GrantFor` of
  proposals that include all of `asked` at that moment unless it overflowed.
  Adding a proposal only weakens `GrantFor`. For one moment, every schedule in
  flight or stored was proposed before, so whoever is published for is among
  those the grant is the least of.
- *InventoryStore.* Between transactions the draft says nothing; within one it
  differs from the store in just the records of the plan written so far, each one
  version on, and the store still has the versions it had when the turn began.
  So a transaction that drops its draft stutters, and the one step that
  makes it the store changes exactly what the plan names. A plan writes at most
  one record that an index finds, and writes it last: until then the draft's
  indexes are the store's, and after it the record bears the one name that finds
  it. Calls are answered in the order they were made.
- *InventoryPages.* The order of a list is strict, so a row the walk has passed
  stays passed. Each row nobody touched has been shown once if the walk passed it
  and else not at all; a walk that ended has passed every row.
- *ManagedStock.* Changes are taken in turn, so the one under way was planned
  from the balance as it is; what a request was answered is what Inventory keeps
  of its command, and nothing keeps two of one.
- *ScheduledSales.* A listed take-back stands unless a sweep is about to remove
  just that revision; that sweep has taken the product off sale, so whoever sold
  it since still owes or listed it anew. A sweep that is going to leave a sale
  has read the page published after selling, and while its record still stands
  the page is published or an unpublish has yet to remove that record.
- *CatalogStorage.* A revision is handed out once, so a record at the revision a
  writer holds is the record it read, though it was deleted and made again.
- *PracticeShipping.* Of an order on which nothing crossed, the call that writes
  is alone. Between a label's put and its completion the order's one label is that
  call's; between a cancellation and the reopening the order is completed by the
  cancelled label.
- *CartTools.* A page's pending and confirmed quotes are the one it last asked
  for or none, whatever its calls return in whichever order. The owner of the cart
  only grows, so a page of an older store finds a newer owner before each write.
- *ShopperAccounts.* A session that expired is one Commerce no longer honours, so
  a page that clears the session it was denied with clears no live one. A live
  session without a lead is held by the one operation that made it, at the record
  or the revocation, or is in the log.
- *PlaygroundCheckout.* A joined exchange is of the key its caller asked with; a
  fresh pass outlives its refresh by the margin. A binding ends with
  the payment, and the page is told of a start only after the binding was put.
- *PlaygroundTour.* Until an edit or an intrusion, what a look holds of a digest and
  what is noted as its baseline are what the store has; the examples a look
  counted are all of them, and so is the sample's label, unless one was added since.
- *CartPrices.* Whatever gives the page a line asks for its price, leaves a check
  under way to be asked again, or leaves a trace the page shows; what is
  unconfirmed is confirmed only by an answered check.
- *CheckoutRelay.* A contact that was read is read the same again. A second
  reading may move an order's address into its contact, but not to another
  place in the order the page looks in. An answer that says paid is Commerce's
  for good, since a paid checkout no longer changes. What the wire form leaves out
  it leaves out of every answer, so reading what was relayed is reading the
  answer without it. The assumption says which fields an answer has, not what
  stands in them.
- *PlaygroundSeed.* Unless two took numbers at once, the numbers in use have no
  gap, the counter is at most one past them, and the pass that numbers is alone
  and has read just those; so the next free number is the one after them.

- *Types of the services.* What a bounded number of calls can make needs an
  argument of its own for most parts. Inventory's versions stay within the number
  of calls because the call that is being served has a number above those of all
  the receipts and no lower than any version. A stock adjustment commits no more
  commands than there are requests, since each committed one is of a request of
  its own. Every operation of a cart leaves it within its limits (`GuestCartProofs`).
  Of the order numbers of the playground, those in use and those the passes under
  way may still take stay, together, within what the samples, isolates and the
  visitor's orders come to.
- *What the liveness properties rest on.* `RequestsGoOn` goes through the guards
  of `Step`: only the page change asks more of a request than to be there, and
  permanent deletion never comes to it. `RequestsComeNearer` counts the awaits to
  the answer, with three for each title-only write not yet made. With `SaleOwed`
  and weak fairness of `Step` they give `ExposureEnds` for any number of requests:
  while the product is exposed some request owes, and that request ends. Lists
  name only steps that ran, so whoever reads one is left with all that has not
  run (`NoStepPassedOver`), however often an older list is put back. An
  acknowledgement is made only of an attempt whose order is stored, so no failure
  costs a paid attempt its wake (`WakeOutlivesFailures`).

Three theorems leave a fault out, because TLC violates the property with it:
see the last entries of *Met while modelling*.

Model-checked only: the liveness properties `ExposureEnds`, `UpgradesComeToEnd`
and `PaidComesToOrder`, and `CallsGoOn` in the form with ENABLED. Liveness under
fairness and ENABLED are beyond the prover; the theorems of the last argument
above, and `QueueNeverStops`, state what can be said of them without. `Ready(c)` there is
what the guards of `Serve(c)` ask, and `CanGoOn(r)` what those of `Step(r)` ask.
Induction over data (what a recursive definition computes for every input) is
beyond the prover too; no module here declares a RECURSIVE operator, which it
cannot look through.

## 5. What is left to do

In this order:

1. The publish check and the sweep as two implementations of one abstract
   register of sales (on sale only while published, or owed), which would state
   `OffSaleOwed` and `SweepSaleOwed` once.
2. Admission and the public boundary as operators over bounded requests, with
   the order in which `middleware.ts` applies them.

## 6. Not modelled, and why

Rendering, formatting and pure reads (`commerce-catalog`, `commerce-feeds`,
`commerce-profile`, menus, structured data) keep no state that a step of another
component could disturb. Admission and `security/public-boundary` decide on one
request with no state. Configuration (`paired-checkout`, profiles) is constant
while the program runs. The bodies of the storefront upgrades are sequences of
EmDash writes that repeat harmlessly; `StorefrontUpgrades` has each as one step.
Scripts, CI and the registry sandbox build and release the program. EmDash,
Commerce, Payments and the Inventory library are external: what their answers
may be is modelled, what they do inside is not. Each module's comment says what
it leaves out of its own part; `PROJECT.json` repeats it per component.
