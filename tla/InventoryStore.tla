----------------------------- MODULE InventoryStore -----------------------------
(***************************************************************************)
(* The in-memory Inventory store behind the stock proofs                   *)
(* (features/managed-product-availability/memory-inventory-store.ts).      *)
(* Calls queue on one promise.  A transaction works on a draft, record     *)
(* after record, and the draft becomes the store only when nothing threw.  *)
(* What a transaction wants to write was planned from an earlier read, so  *)
(* it may be out of date.  The Inventory library that plans is external.   *)
(***************************************************************************)
EXTENDS Naturals, Sequences, FiniteSets

CONSTANTS
  MaxCalls,       \* bound: calls of the store, numbered as they are made
  CommandIds,     \* numbered as they are first used
  Balances, TransferRows, Locations, Skus, Confirmations,
  Reservations,   \* all of one order line, which has one active at most
  SkuNames, ReferenceKeys,   \* the visible SKUs, the references of transfers
  CallKinds           \* which operations are called

VARIABLES
  store,          \* StoreState
  draft,          \* the draft of the transaction that runs
  written,        \* how many records of its plan are written to the draft
  receiptCounter, \* of the receipts made, kept or not
  called,         \* calls made so far
  plan,           \* per call: what it is to do
  answer,         \* per call
  seen            \* per read: the calls whose changes it saw

inventoryVars ==
  <<store, draft, written, receiptCounter, called, plan, answer, seen>>

Calls == 1 .. MaxCalls
None == 0
Records == Balances \cup TransferRows \cup Locations \cup Skus
             \cup Confirmations \cup Reservations
Named == Skus \cup TransferRows
Names == SkuNames \cup ReferenceKeys
Receipts == 1 .. MaxCalls
Versions == 0 .. (MaxCalls + 2)
Operations == {"opening", "adjust", "location", "sku", "confirm", "bound",
               "transfer", "reserve", "batch", "read"}
NoPlan == [kind |-> "none", command |-> None, opens |-> FALSE, name |-> "none",
           puts |-> <<>>]

\* A version per record (0: absent), the reservations that are active and the
\* index that finds them, the visible SKU or reference each record bears and
\* the two indexes that find it by that, the receipts and the commands.
StoreStates ==
  [version : [Records -> Versions], open : SUBSET Reservations,
   index : Reservations \cup {"none"},
   bears : [Named -> Names \cup {"none"}], finds : [Names -> Named \cup {"none"}],
   receipts : [Receipts -> CommandIds \cup {None}],
   commands : SUBSET CommandIds]

ASSUME InventoryAssumption ==
  /\ MaxCalls \in Nat /\ CommandIds \subseteq Nat \ {None}
  /\ CallKinds \subseteq Operations
  /\ Reservations # {} /\ "none" \notin Reservations
  /\ "none" \notin Named \cup Names
  /\ Reservations \cap (Named \cup Balances \cup Locations \cup Confirmations) = {}
  /\ Named \cap (Balances \cup Locations \cup Confirmations) = {}
  /\ Skus \cap TransferRows = {} /\ SkuNames \cap ReferenceKeys = {}

InventoryTypeOK ==
  /\ store \in StoreStates /\ draft \in StoreStates
  /\ written \in Nat /\ receiptCounter \in 0 .. MaxCalls
  /\ called \in 0 .. MaxCalls
  /\ answer \in [Calls -> {"none", "committed", "refused", "replayed", "threw",
                           "read"}]
  /\ seen \in [Calls -> SUBSET Calls]
  /\ \A c \in Calls : plan[c].kind \in CallKinds \cup {"none"}

AnyReservation == CHOOSE x \in Reservations : TRUE

StoreWith(stocked, reserved) ==
  [version |-> [r \in Records |->
     CASE r \in Balances -> stocked
       [] r \in Locations -> 1
       [] r = AnyReservation -> reserved
       [] OTHER -> 0],
   open |-> {r \in Reservations : reserved = 1 /\ r = AnyReservation},
   index |-> IF reserved = 1 THEN AnyReservation ELSE "none",
   bears |-> [r \in Named |-> "none"], finds |-> [n \in Names |-> "none"],
   receipts |-> [i \in Receipts |-> None],
   commands |-> {}]

\* Opened balances, or none; an active reservation, or none.
InventoryInit ==
  /\ \E stocked, reserved \in {0, 1} :
       reserved <= stocked /\ store = StoreWith(stocked, reserved)
  /\ draft = store /\ written = 0 /\ receiptCounter = 0 /\ called = 0
  /\ plan = [c \in Calls |-> NoPlan]
  /\ answer = [c \in Calls |-> "none"]
  /\ seen = [c \in Calls |-> {}]
-----------------------------------------------------------------------------
(***************************************************************************)
(* The records each operation writes, in its order, and whether it may     *)
(* make them.  A plan names the versions the store holds when it is made.  *)
(***************************************************************************)
There(r) == store.version[r] > 0

OpeningBalance == {<<b>> : b \in {x \in Balances : ~There(x)}}
StockAdjustment == {<<b>> : b \in {x \in Balances : There(x)}}
LocationCommit == {<<l>> : l \in Locations}
ManagedSku == {<<s>> : s \in {x \in Skus : ~There(x)}}
Confirmation == {<<k>> : k \in {x \in Confirmations : ~There(x)}}
BoundAdjustment ==
  {<<k, b>> : k \in {x \in Confirmations : store.version[x] = 1},
              b \in {x \in Balances : There(x)}}
StockTransfer ==
  {<<p[1], p[2], t>> : p \in {q \in Balances \X Balances : q[1] # q[2]},
                     t \in TransferRows}
StockReservation ==
  {<<b, r>> : b \in {x \in Balances : There(x)}, r \in Reservations}
ReservationBatch ==
  {<<a, b, r>> : a, b \in {x \in Balances : There(x)},
                 r \in {x \in Reservations : There(x)}}

Writes(kind) ==
  CASE kind = "opening" -> OpeningBalance
    [] kind = "adjust" -> StockAdjustment
    [] kind = "location" -> LocationCommit
    [] kind = "sku" -> ManagedSku
    [] kind = "confirm" -> Confirmation
    [] kind = "bound" -> BoundAdjustment
    [] kind = "transfer" -> StockTransfer
    [] kind = "reserve" -> StockReservation
    [] kind = "batch" -> ReservationBatch
    [] kind = "read" -> {<<>>}

HasReceipt(kind) == kind \notin {"sku", "confirm", "read"}

Planned(kind, command, opens, name, rs) ==
  [kind |-> kind, command |-> command, opens |-> opens, name |-> name,
   puts |-> [i \in DOMAIN rs |-> [record |-> rs[i],
                                  previous |-> store.version[rs[i]]]]]

CommandsFor(kind) ==
  IF kind \in {"confirm", "read"} THEN {None}
  ELSE {m \in CommandIds : m <= called + 1}

OpensFor(kind) == IF kind \in {"reserve", "batch"} THEN BOOLEAN ELSE {FALSE}

\* The visible SKU or the reference a call is about.
NamesFor(kind) ==
  CASE kind = "sku" -> SkuNames
    [] kind = "transfer" -> ReferenceKeys
    [] OTHER -> {"none"}

Plans(kind) ==
  {Planned(kind, command, opens, name, rs) :
     command \in CommandsFor(kind), opens \in OpensFor(kind),
     name \in NamesFor(kind), rs \in Writes(kind)}

\* A transaction runs without a pause: no call is made in the middle of one.
Call ==
  /\ called < MaxCalls /\ written = 0
  /\ called' = called + 1
  /\ \E kind \in CallKinds : \E p \in Plans(kind) :
       plan' = [plan EXCEPT ![called + 1] = p]
  /\ UNCHANGED <<store, draft, written, receiptCounter, answer, seen>>
-----------------------------------------------------------------------------
Waiting == {c \in 1 .. called : answer[c] = "none"}

\* Mutant: a read does not wait for the transactions called before it.
TurnUnlessRead(c) ==
  c \in Waiting /\ (plan[c].kind # "read" => \A d \in Waiting : c <= d)

\* Mutant: what one transaction threw stops the ones behind it.
TurnUntilThrow(c) ==
  /\ c \in Waiting /\ \A d \in Waiting : c <= d
  /\ \A d \in Calls : answer[d] # "threw"

\* Calls take turns as they were made, whatever became of the ones before.
CallTurn(c) == c \in Waiting /\ \A d \in Waiting : c <= d

\* A call ends; its plan is done with.
Answer(c, how) ==
  /\ answer' = [answer EXCEPT ![c] = how]
  /\ plan' = [plan EXCEPT ![c] = NoPlan]

\* await tail: a read sees what every call before it left.
Read(c) ==
  /\ CallTurn(c) /\ plan[c].kind = "read"
  /\ Answer(c, "read")
  /\ seen' = [seen EXCEPT ![c] = {d \in Calls : answer[d] = "committed"}]
  /\ UNCHANGED <<store, draft, written, receiptCounter, called>>

Running(c) == CallTurn(c) /\ plan[c].kind # "read"

\* The library looks in the index first: it reserves for an order line that
\* has no active reservation and makes a transfer under a reference that has
\* none, and changes only what it finds there.
OffIndex(s, c) ==
  \E i \in DOMAIN plan[c].puts :
    LET r == plan[c].puts[i].record
        unused == IF s.version[r] = 0 THEN {"none"} ELSE {} IN
    \/ r \in Reservations
         /\ s.index \notin {r} \cup (IF plan[c].opens THEN unused ELSE {})
    \/ r \in TransferRows /\ s.finds[plan[c].name] \notin {r} \cup unused

\* The library may answer a command it knows from its stored result.
Replay(c) ==
  /\ Running(c) /\ written = 0
  /\ plan[c].command \in store.commands
  /\ Answer(c, "replayed")
  /\ UNCHANGED <<store, draft, written, receiptCounter, called, seen>>

\* storeRejection: the command is remembered, no record changes.
StoreRejection(c) ==
  /\ Running(c) /\ written = 0
  /\ plan[c].command \notin store.commands \cup {None}
  /\ store' = [store EXCEPT !.commands = @ \cup {plan[c].command}]
  /\ draft' = store'
  /\ Answer(c, "refused")
  /\ UNCHANGED <<written, receiptCounter, called, seen>>

\* Mutant: a reservation that ends stays in the index.
IndexKept(s, r, opens) == IF opens THEN r ELSE s.index

\* activeReservationIdsByOrderLineKey: set for an active reservation, removed
\* for any other.
Indexed(s, r, opens) == IF opens THEN r ELSE "none"

\* managedSkuIdsByVisibleSku, transferIdsByReferenceKey: set with the record.
Written(s, r, opens, name) ==
  LET next == [s EXCEPT !.version[r] = @ + 1] IN
  IF r \in Reservations
  THEN [next EXCEPT !.open = IF opens THEN @ \cup {r} ELSE @ \ {r},
                    !.index = Indexed(s, r, opens)]
  ELSE IF r \in Named
  THEN [next EXCEPT !.bears[r] = name, !.finds[name] = r]
  ELSE next

\* What a commit finds instead of what its plan names: a newer version, or a
\* managed SKU of that id or of that visible SKU.
Stale(s, put, name) ==
  \/ s.version[put.record] # put.previous
  \/ put.record \in Skus /\ (s.version[put.record] > 0 \/ s.finds[name] # "none")

Source(c) == IF written = 0 THEN store ELSE draft

\* Mutant: there is no draft; what is written is in the store.
Drafted(next) == draft' = next /\ store' = next

\* A transaction writes to its own copy.
Draft(next) == draft' = next /\ UNCHANGED store

\* The next record of the plan is written, from the version the plan names.
WriteNext(c) ==
  /\ Running(c)
  /\ written < Len(plan[c].puts)
  /\ written = 0 => ~OffIndex(store, c)
  /\ LET put == plan[c].puts[written + 1]
         s == Source(c) IN
     /\ ~Stale(s, put, plan[c].name)
     /\ Draft(Written(s, put.record, plan[c].opens, plan[c].name))
  /\ written' = written + 1
  /\ UNCHANGED <<receiptCounter, called, plan, answer, seen>>

\* "version drifted during commit", "already exists": the draft is dropped.
Drifts(c) ==
  /\ Running(c)
  /\ written < Len(plan[c].puts)
  /\ Stale(Source(c), plan[c].puts[written + 1], plan[c].name)
  /\ written' = 0
  /\ Answer(c, "threw")
  /\ draft' = store
  /\ UNCHANGED <<store, receiptCounter, called, seen>>

\* Mutant: a command may be stored again.
NewCommandOrNot(s, command) == TRUE

\* storeCommandResult throws for a command that has a result.
NewCommand(s, command) == command \notin s.commands

\* The receipt and the command's result are stored and the draft becomes the
\* store; a command that has a result already throws, and nothing is kept.
Finish(c) ==
  LET command == plan[c].command
      receipt == receiptCounter + 1 IN
  /\ Running(c)
  /\ written = Len(plan[c].puts)
  /\ written' = 0
  /\ receiptCounter' = IF HasReceipt(plan[c].kind) THEN receipt
                       ELSE receiptCounter
  /\ IF NewCommand(draft, command)
     THEN /\ store' = [draft EXCEPT
               !.commands = IF command = None THEN @ ELSE @ \cup {command},
               !.receipts = IF HasReceipt(plan[c].kind)
                            THEN [@ EXCEPT ![receipt] = command] ELSE @]
          /\ Answer(c, "committed")
     ELSE /\ Answer(c, "threw")
          /\ UNCHANGED store
  /\ draft' = store'
  /\ UNCHANGED <<called, seen>>

Serve(c) ==
  \/ Read(c) \/ Replay(c) \/ StoreRejection(c)
  \/ WriteNext(c) \/ Drifts(c) \/ Finish(c)

InventoryNext == Call \/ \E c \in Calls : Serve(c)

InventorySpec == InventoryInit /\ [][InventoryNext]_inventoryVars
-----------------------------------------------------------------------------
(***************************************************************************)
(* The versions a call names, and the abstract store it implements.        *)
(***************************************************************************)
From(c) ==
  [r \in {plan[c].puts[i].record : i \in DOMAIN plan[c].puts} |->
     (CHOOSE p \in {plan[c].puts[i] : i \in DOMAIN plan[c].puts} :
        p.record = r).previous]

Atomic == INSTANCE InventoryAtomic WITH
  version <- store.version, commands <- store.commands,
  changes <- [c \in Calls |-> From(c)]

\* All or nothing: however a transaction's records were planned and however
\* far it came before it threw, the store only ever moves from one whole
\* commit to the next, each from the versions the commit was made for.
StoreIsAtomic ==
  /\ Atomic!AtomicInit
  /\ [][\E c \in {d \in Calls : answer'[d] # answer[d]} :
          \/ \E command \in CommandIds \cup {None} : Atomic!Commit(c, command)
          \/ \E command \in CommandIds : Atomic!Refuse(c, command)
          \/ Atomic!Leave(c)]_<<store.version, store.commands, answer>>

\* The index finds the one active reservation of the order line, or none, when
\* reservations are made, changed and ended one by one and in batches.
IndexFindsActive ==
  store.open = IF store.index = "none" THEN {} ELSE {store.index}

\* A visible SKU finds the one managed SKU that bears it and a reference its
\* transfer, and every managed SKU and transfer is found by what it bears.
NamesFindRecords ==
  \A r \in Named :
    /\ There(r) <=> store.bears[r] # "none"
    /\ \A n \in Names : store.finds[n] = r <=> store.bears[r] = n

\* A command that is repeated, at once or after it threw, is kept once: no two
\* receipts name it, and a receipt's command has its result.
OneReceiptPerCommand ==
  \A i \in Receipts : store.receipts[i] # None =>
    /\ store.receipts[i] \in store.commands
    /\ \A j \in Receipts : store.receipts[j] = store.receipts[i] => i = j

\* A read sees exactly the changes of the calls made before it.
ReadsSeeEarlierCalls ==
  \A c \in Calls : answer[c] = "read" =>
    seen[c] = {d \in 1 .. (c - 1) : answer[d] = "committed"}

\* What the store keeps twice agrees (the active reservation, the visible SKU,
\* the transfer's reference and the receipt's command, each beside the record
\* it finds), and so does what it tells, after every call, also one that threw
\* half way.
StoreAgrees ==
  /\ IndexFindsActive /\ NamesFindRecords
  /\ OneReceiptPerCommand /\ ReadsSeeEarlierCalls

\* The queue never stops: whatever threw, was refused or names a version that
\* is gone, one of the calls that wait can go on.
CallsGoOn == Waiting # {} => \E c \in Calls : ENABLED Serve(c)
=============================================================================
