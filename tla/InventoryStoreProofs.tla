------------------------- MODULE InventoryStoreProofs -------------------------
(***************************************************************************)
(* InventoryStore implements InventoryAtomic, for any number of calls, of  *)
(* commands and of records of each kind, and whatever operations are       *)
(* called; what it keeps twice agrees; in ManagedStock, what the store's   *)
(* commands are worth to those who adjust stock; in InventoryPages, that a *)
(* walk of its lists misses nothing; and that all of the store's services  *)
(* keep to their types (MCStoreServices).                                  *)
(***************************************************************************)
EXTENDS MCStoreServices, StoreServicesProofs, SequenceTheorems,
        FiniteSetTheorems, TLAPS

(***************************************************************************)
(* The inductive invariant.  The store is between commits, and the draft   *)
(* is the store; or one transaction runs, the first that waits, and its    *)
(* draft is the store with the records written so far one version on, each *)
(* from the version its plan names.  A plan may name a record twice: both  *)
(* times with the version read once, so the second write drifts.           *)
(***************************************************************************)
StoreRecords ==
  [version : [Records -> Nat], open : SUBSET Reservations,
   index : Reservations \cup {"none"},
   bears : [Named -> Names \cup {"none"}], finds : [Names -> Named \cup {"none"}],
   receipts : [Receipts -> CommandIds \cup {None}],
   commands : SUBSET CommandIds]
Puts == [record : Records, previous : Nat]
PlanRecords ==
  [kind : CallKinds \cup {"none"}, command : CommandIds \cup {None},
   opens : BOOLEAN, name : Names \cup {"none"}, puts : Seq(Puts)]

\* What is written under a visible SKU or a reference is written with one.
Indexables == Reservations \cup Named
Bears(p) == (\E i \in DOMAIN p.puts : p.puts[i].record \in Named) => p.name \in Names

ReadOnce(puts) ==
  \A i, j \in 1 .. Len(puts) :
    puts[i].record = puts[j].record => puts[i].previous = puts[j].previous

StoreTyped ==
  /\ store \in StoreRecords /\ draft \in StoreRecords
  /\ written \in Nat /\ receiptCounter \in Nat /\ called \in 0 .. MaxCalls
  /\ plan \in [Calls -> PlanRecords] /\ DOMAIN answer = Calls
  /\ \A c \in Calls : ReadOnce(plan[c].puts) /\ Bears(plan[c])

\* The draft holds the first k writes of a plan and nothing else.
Holds(puts, k) ==
  /\ k \in 0 .. Len(puts)
  /\ \A i \in 1 .. k : store.version[puts[i].record] = puts[i].previous
  /\ \A r \in Records :
       draft.version[r] = IF \E i \in 1 .. k : puts[i].record = r
                          THEN store.version[r] + 1 ELSE store.version[r]
  /\ draft.commands = store.commands

Between == written = 0 /\ draft = store
Within ==
  written > 0 /\ \E c \in Calls : Running(c) /\ Holds(plan[c].puts, written)

StoreInv == StoreTyped /\ (Between \/ Within)

-----------------------------------------------------------------------------
\* It is one call's turn at a time.
LEMMA OneTurn ==
  ASSUME NEW c \in Calls, NEW d \in Calls, CallTurn(c), CallTurn(d)
  PROVE  c = d
BY InventoryAssumption DEF CallTurn, Waiting, Calls

\* What a sequence of puts holds.
LEMMA SequenceOfPuts ==
  ASSUME NEW puts \in Seq(Puts)
  PROVE  /\ Len(puts) \in Nat /\ DOMAIN puts = 1 .. Len(puts)
         /\ \A i \in 1 .. Len(puts) : /\ puts[i] \in Puts
                                      /\ puts[i].record \in Records
                                      /\ puts[i].previous \in Nat
<1>1. Len(puts) \in Nat /\ DOMAIN puts = 1 .. Len(puts)
  BY LenProperties
<1>2. \A i \in 1 .. Len(puts) : puts[i] \in Puts
  BY ElementOfSeq
<1> QED BY <1>1, <1>2 DEF Puts

\* In its turn a transaction's draft holds what it has written so far, and the
\* next write is made from the draft.
LEMMA DraftHolds ==
  ASSUME StoreInv, NEW c \in Calls, Running(c)
  PROVE  Holds(plan[c].puts, written) /\ Source(c) = draft
<1>1. plan[c].puts \in Seq(Puts)
  BY DEF StoreInv, StoreTyped, PlanRecords
<1>2. Source(c) = draft
  BY DEF StoreInv, Between, Within, Source
<1>3. ASSUME Between PROVE Holds(plan[c].puts, written)
  <2>1. Len(plan[c].puts) \in Nat
    BY <1>1, SequenceOfPuts
  <2> QED BY <1>3, <2>1 DEF Between, Holds
<1>4. ASSUME Within PROVE Holds(plan[c].puts, written)
  <2>1. PICK d \in Calls : Running(d) /\ Holds(plan[d].puts, written)
    BY <1>4 DEF Within
  <2>2. c = d
    BY <2>1, OneTurn DEF Running
  <2> QED BY <2>1, <2>2
<1> QED BY <1>2, <1>3, <1>4 DEF StoreInv

\* A write changes the version of its record and the indexes.
Changes(end, s, r, opens, name) ==
  /\ end.version = [s.version EXCEPT ![r] = @ + 1]
  /\ end.commands = s.commands /\ end.receipts = s.receipts
  /\ r \notin Reservations => end.open = s.open /\ end.index = s.index
  /\ r \in Reservations =>
       /\ end.open = IF opens THEN s.open \cup {r} ELSE s.open \ {r}
       /\ end.index = IF opens THEN r ELSE "none"
  /\ r \notin Named => end.bears = s.bears /\ end.finds = s.finds
  /\ r \in Named => /\ end.bears = [s.bears EXCEPT ![r] = name]
                    /\ end.finds = [s.finds EXCEPT ![name] = r]

\* It changes nothing else.
LEMMA WrittenChanges ==
  ASSUME NEW s \in StoreRecords, NEW r \in Records, NEW opens \in BOOLEAN,
         NEW name \in Names \cup {"none"}, r \in Named => name \in Names
  PROVE  /\ Written(s, r, opens, name) \in StoreRecords
         /\ Changes(Written(s, r, opens, name), s, r, opens, name)
<1> DEFINE next == [s EXCEPT !.version[r] = @ + 1]
<1>1. /\ next \in StoreRecords /\ next.version = [s.version EXCEPT ![r] = @ + 1]
      /\ next.open = s.open /\ next.index = s.index /\ next.receipts = s.receipts
      /\ next.commands = s.commands /\ next.bears = s.bears /\ next.finds = s.finds
  BY DEF StoreRecords
<1>2. Reservations \cap Named = {}
  BY InventoryAssumption
<1>3. CASE r \in Reservations
  <2> DEFINE open == IF opens THEN next.open \cup {r} ELSE next.open \ {r}
             index == IF opens THEN r ELSE "none"
  <2>1. Written(s, r, opens, name) = [next EXCEPT !.open = open, !.index = index]
    BY <1>3 DEF Written, Indexed
  <2>2. next.open \subseteq Reservations
    BY <1>1 DEF StoreRecords
  <2>3. open \in SUBSET Reservations /\ index \in Reservations \cup {"none"}
    BY <1>3, <2>2
  <2>4. /\ open = IF opens THEN s.open \cup {r} ELSE s.open \ {r}
        /\ index = IF opens THEN r ELSE "none"
    BY <1>1
  <2> HIDE DEF next, open, index
  <2>5. /\ Written(s, r, opens, name) \in StoreRecords
        /\ Written(s, r, opens, name).open = open
        /\ Written(s, r, opens, name).index = index
        /\ Written(s, r, opens, name).version = next.version
        /\ Written(s, r, opens, name).commands = next.commands
        /\ Written(s, r, opens, name).receipts = next.receipts
        /\ Written(s, r, opens, name).bears = next.bears
        /\ Written(s, r, opens, name).finds = next.finds
    BY <1>1, <2>1, <2>3 DEF StoreRecords
  <2> QED BY <1>1, <1>2, <1>3, <2>4, <2>5 DEF Changes
<1>4. CASE r \in Named
  <2> DEFINE bears == [next.bears EXCEPT ![r] = name]
             finds == [next.finds EXCEPT ![name] = r]
  <2>1. Written(s, r, opens, name) = [next EXCEPT !.bears = bears, !.finds = finds]
    BY <1>2, <1>4 DEF Written
  <2>2. /\ next.bears \in [Named -> Names \cup {"none"}]
        /\ next.finds \in [Names -> Named \cup {"none"}]
    BY <1>1 DEF StoreRecords
  <2>3. /\ bears \in [Named -> Names \cup {"none"}]
        /\ finds \in [Names -> Named \cup {"none"}]
    BY <1>4, <2>2
  <2>4. /\ bears = [s.bears EXCEPT ![r] = name]
        /\ finds = [s.finds EXCEPT ![name] = r]
    BY <1>1
  <2> HIDE DEF next, bears, finds
  <2>5. /\ Written(s, r, opens, name) \in StoreRecords
        /\ Written(s, r, opens, name).bears = bears
        /\ Written(s, r, opens, name).finds = finds
        /\ Written(s, r, opens, name).version = next.version
        /\ Written(s, r, opens, name).commands = next.commands
        /\ Written(s, r, opens, name).receipts = next.receipts
        /\ Written(s, r, opens, name).open = next.open
        /\ Written(s, r, opens, name).index = next.index
    BY <1>1, <2>1, <2>3 DEF StoreRecords
  <2> QED BY <1>1, <1>2, <1>4, <2>4, <2>5 DEF Changes
<1>5. CASE r \notin Reservations /\ r \notin Named
  <2>1. Written(s, r, opens, name) = next
    BY <1>5 DEF Written
  <2> HIDE DEF next
  <2> QED BY <1>1, <1>5, <2>1 DEF Changes
<1> QED BY <1>3, <1>4, <1>5

-----------------------------------------------------------------------------
\* One, two or three records make a sequence.
LEMMA RecordTuples ==
  ASSUME NEW a \in Records, NEW b \in Records, NEW c \in Records
  PROVE  <<a>> \in Seq(Records) /\ <<a, b>> \in Seq(Records)
         /\ <<a, b, c>> \in Seq(Records)
OBVIOUS

\* The write set of every operation is a sequence of records.
LEMMA WritesRecords ==
  ASSUME NEW kind \in CallKinds, NEW rs \in Writes(kind)
  PROVE  rs \in Seq(Records)
<1>1. kind \in Operations
  BY InventoryAssumption
<1>2. \/ kind = "read" /\ rs = <<>>
      \/ rs \in OpeningBalance \cup StockAdjustment \cup LocationCommit
                  \cup ManagedSku \cup Confirmation
      \/ rs \in BoundAdjustment \cup StockReservation
      \/ rs \in StockTransfer
      \/ rs \in ReservationBatch
  BY <1>1 DEF Operations, Writes
<1>3. CASE rs = <<>>
  BY <1>3, EmptySeq
<1>4. CASE rs \in OpeningBalance \cup StockAdjustment \cup LocationCommit
                    \cup ManagedSku \cup Confirmation
  <2>1. \E a \in Records : rs = <<a>>
    BY <1>4 DEF OpeningBalance, StockAdjustment, LocationCommit, ManagedSku,
       Confirmation, Records
  <2> QED BY <2>1, RecordTuples
<1>5. CASE rs \in BoundAdjustment \cup StockReservation
  <2>1. \E a, b \in Records : rs = <<a, b>>
    BY <1>5 DEF BoundAdjustment, StockReservation, Records
  <2> QED BY <2>1, RecordTuples
<1>6. CASE rs \in StockTransfer
  <2>1. \E q \in Balances \X Balances, t \in TransferRows : rs = <<q[1], q[2], t>>
    BY <1>6 DEF StockTransfer
  <2>2. \E a, b, c \in Records : rs = <<a, b, c>>
    BY <2>1 DEF Records
  <2> QED BY <2>2, RecordTuples
<1>7. CASE rs \in ReservationBatch
  <2>1. \E a, b, c \in Records : rs = <<a, b, c>>
    BY <1>7 DEF ReservationBatch, Records
  <2> QED BY <2>1, RecordTuples
<1> QED BY <1>2, <1>3, <1>4, <1>5, <1>6, <1>7

\* Only a new managed SKU and a transfer are kept under a name.
LEMMA WritesNamed ==
  ASSUME NEW kind \in CallKinds, NEW rs \in Writes(kind),
         NEW i \in 1 .. Len(rs), rs[i] \in Named
  PROVE  kind \in {"sku", "transfer"}
<1> SUFFICES ASSUME kind \notin {"sku", "transfer"} PROVE FALSE
  OBVIOUS
<1>1. kind \in Operations
  BY InventoryAssumption
<1> DEFINE Other == Balances \cup Locations \cup Confirmations \cup Reservations
<1>2. Other \cap Named = {}
  BY InventoryAssumption
<1>3. \/ rs = <<>>
      \/ \E a \in Other : rs = <<a>>
      \/ \E a, b \in Other : rs = <<a, b>>
      \/ \E a, b, d \in Other : rs = <<a, b, d>>
  <2>1. CASE kind \in {"opening", "adjust", "location", "confirm", "read"}
    BY <2>1 DEF Writes, OpeningBalance, StockAdjustment, LocationCommit, Confirmation
  <2>2. CASE kind = "bound"
    BY <2>2 DEF Writes, BoundAdjustment
  <2>3. CASE kind = "reserve"
    BY <2>3 DEF Writes, StockReservation
  <2>4. CASE kind = "batch"
    BY <2>4 DEF Writes, ReservationBatch
  <2> QED BY <1>1, <2>1, <2>2, <2>3, <2>4 DEF Operations
<1> HIDE DEF Other
<1>4. CASE rs = <<>>
  BY <1>4
<1>5. ASSUME NEW a \in Other, rs = <<a>> PROVE rs[i] \in Other
  BY <1>5
<1>6. ASSUME NEW a \in Other, NEW b \in Other, rs = <<a, b>> PROVE rs[i] \in Other
  BY <1>6
<1>7. ASSUME NEW a \in Other, NEW b \in Other, NEW d \in Other, rs = <<a, b, d>>
      PROVE  rs[i] \in Other
  BY <1>7
<1> QED BY <1>2, <1>3, <1>4, <1>5, <1>6, <1>7

\* A plan names records, with the version the store holds of each.
LEMMA PlansTyped ==
  ASSUME StoreTyped, NEW kind \in CallKinds, NEW p \in Plans(kind)
  PROVE  p \in PlanRecords /\ ReadOnce(p.puts) /\ Bears(p)
<1>1. PICK command \in CommandsFor(kind), opens \in OpensFor(kind),
           name \in NamesFor(kind), rs \in Writes(kind) :
             p = Planned(kind, command, opens, name, rs)
  BY DEF Plans
<1>0. /\ command \in CommandIds \cup {None} /\ opens \in BOOLEAN
      /\ name \in Names \cup {"none"}
  BY DEF CommandsFor, OpensFor, NamesFor, Names
<1>2. rs \in Seq(Records)
  BY WritesRecords
<1>3. /\ Len(rs) \in Nat /\ DOMAIN rs = 1 .. Len(rs)
      /\ \A i \in 1 .. Len(rs) : rs[i] \in Records
  BY <1>2, LenProperties, ElementOfSeq
<1> DEFINE puts == [i \in 1 .. Len(rs) |-> [record |-> rs[i],
                                            previous |-> store.version[rs[i]]]]
<1>4. \A i \in 1 .. Len(rs) : /\ puts[i].record = rs[i]
                              /\ puts[i].previous = store.version[rs[i]]
                              /\ puts[i] \in Puts
  BY <1>3 DEF StoreTyped, StoreRecords, Puts
<1>5. puts \in Seq(Puts) /\ Len(puts) = Len(rs)
  <2>1. puts \in [1 .. Len(rs) -> Puts]
    BY <1>4
  <2>2. puts \in Seq(Puts)
    BY <1>3, <2>1, SeqDef
  <2> QED BY <1>3, <2>2, LenProperties
<1>6. ReadOnce(puts)
  BY <1>4, <1>5 DEF ReadOnce
<1>7. p = [kind |-> kind, command |-> command, opens |-> opens, name |-> name,
           puts |-> puts]
  BY <1>1, <1>3 DEF Planned
<1>8. (\E i \in DOMAIN puts : puts[i].record \in Named) => name \in Names
  <2>1. kind \in {"sku", "transfer"} => name \in Names
    BY DEF NamesFor, Names
  <2>2. (\E i \in 1 .. Len(rs) : rs[i] \in Named) => kind \in {"sku", "transfer"}
    BY WritesNamed
  <2> QED BY <1>3, <1>4, <2>1, <2>2
<1> HIDE DEF puts
<1> QED BY <1>0, <1>5, <1>6, <1>7, <1>8 DEF PlanRecords, Bears

\* A call that has planned nothing has a plan of the type.
LEMMA NoPlanTyped ==
  NoPlan \in PlanRecords /\ ReadOnce(NoPlan.puts) /\ Bears(NoPlan)
BY EmptySeq DEF NoPlan, PlanRecords, ReadOnce, Bears

\* A call that is answered has its plan done with.
LEMMA AnswerTyped ==
  ASSUME StoreTyped, NEW c \in Calls, NEW how, Answer(c, how)
  PROVE  /\ plan' \in [Calls -> PlanRecords] /\ DOMAIN answer' = Calls
         /\ \A d \in Calls : ReadOnce(plan'[d].puts) /\ Bears(plan'[d])
         /\ answer'[c] = how
<1>1. /\ plan' \in [Calls -> PlanRecords]
      /\ \A d \in Calls : plan'[d] = IF d = c THEN NoPlan ELSE plan[d]
  BY NoPlanTyped DEF StoreTyped, Answer
<1>2. DOMAIN answer' = Calls /\ answer'[c] = how
  BY DEF StoreTyped, Answer
<1> QED BY <1>1, <1>2, NoPlanTyped DEF StoreTyped

\* The parts of a plan.
LEMMA PlanTyped ==
  ASSUME StoreTyped, NEW c \in Calls
  PROVE  /\ plan[c] \in PlanRecords /\ plan[c].puts \in Seq(Puts)
         /\ plan[c].command \in CommandIds \cup {None}
         /\ plan[c].opens \in BOOLEAN
         /\ plan[c].name \in Names \cup {"none"} /\ Bears(plan[c])
BY DEF StoreTyped, PlanRecords

\* A result that is kept with the records, and the receipt beside it.
LEMMA CommandKept ==
  ASSUME NEW s \in StoreRecords, NEW kept \in SUBSET CommandIds
  PROVE  /\ [s EXCEPT !.commands = kept] \in StoreRecords
         /\ [s EXCEPT !.commands = kept].version = s.version
         /\ [s EXCEPT !.commands = kept].commands = kept
BY DEF StoreRecords

-----------------------------------------------------------------------------
\* The empty store keeps the invariant.
LEMMA StoreBegins == InventoryInit => StoreInv
<1> SUFFICES ASSUME InventoryInit PROVE StoreInv
  OBVIOUS
<1>1. AnyReservation \in Reservations
  BY InventoryAssumption DEF AnyReservation
<1>2. PICK stocked, reserved \in {0, 1} : store = StoreWith(stocked, reserved)
  BY DEF InventoryInit
<1>3. store \in StoreRecords
  <2> DEFINE v == [r \in Records |->
                     CASE r \in Balances -> stocked
                       [] r \in Locations -> 1
                       [] r = AnyReservation -> reserved
                       [] OTHER -> 0]
  <2>1. v \in [Records -> Nat]
    <3>1. \A r \in Records : v[r] \in {stocked, 1, reserved, 0}
      OBVIOUS
    <3>2. v = [r \in Records |-> v[r]] /\ {stocked, 1, reserved, 0} \subseteq Nat
      OBVIOUS
    <3> QED BY <3>1, <3>2
  <2>2. store = [version |-> v,
                 open |-> {r \in Reservations : reserved = 1 /\ r = AnyReservation},
                 index |-> IF reserved = 1 THEN AnyReservation ELSE "none",
                 bears |-> [r \in Named |-> "none"], finds |-> [n \in Names |-> "none"],
                 receipts |-> [i \in Receipts |-> None], commands |-> {}]
    BY <1>2 DEF StoreWith
  <2> HIDE DEF v
  <2> QED BY <1>1, <2>1, <2>2 DEF StoreRecords
<1>4. StoreTyped
  BY <1>3, NoPlanTyped, InventoryAssumption DEF InventoryInit, StoreTyped
<1> QED BY <1>4 DEF InventoryInit, StoreInv, Between

\* A call that joins the queue leaves those before it their turn.
LEMMA CallKeeps == StoreInv /\ Call => StoreInv'
<1> SUFFICES ASSUME StoreInv, Call PROVE StoreInv'
  OBVIOUS
<1>1. StoreTyped /\ Between
  BY DEF StoreInv, Within, Call
<1>2. PICK kind \in CallKinds : \E p \in Plans(kind) :
        plan' = [plan EXCEPT ![called + 1] = p]
  BY DEF Call
<1>3. PICK p \in Plans(kind) : plan' = [plan EXCEPT ![called + 1] = p]
  BY <1>2
<1>4. p \in PlanRecords /\ ReadOnce(p.puts) /\ Bears(p)
  BY <1>1, PlansTyped
<1>5. /\ plan' \in [Calls -> PlanRecords]
      /\ \A c \in Calls : ReadOnce(plan'[c].puts) /\ Bears(plan'[c])
  BY <1>1, <1>3, <1>4 DEF StoreTyped
<1>6. called' \in 0 .. MaxCalls
  BY <1>1, InventoryAssumption DEF StoreTyped, Call
<1> QED BY <1>1, <1>5, <1>6 DEF Call, StoreInv, StoreTyped, Between

\* A call that ends leaves the draft as the store is.
LEMMA EndKeeps ==
  ASSUME StoreInv, NEW c \in Calls, NEW how, Answer(c, how),
         written' = 0, draft' = store', store' \in StoreRecords,
         receiptCounter' \in Nat, called' = called
  PROVE  StoreInv'
<1>1. StoreTyped
  BY DEF StoreInv
<1>2. StoreTyped'
  BY <1>1, AnswerTyped DEF StoreTyped
<1> QED BY <1>2 DEF StoreInv, Between

\* A read changes nothing that is stored.
LEMMA ReadKeeps ==
  ASSUME StoreInv, NEW c \in Calls, Read(c)
  PROVE  StoreInv'
<1>1. ~Within
  BY OneTurn DEF Within, Running, Read
<1>2. StoreTyped /\ Between
  BY <1>1 DEF StoreInv
<1> QED BY <1>2, EndKeeps DEF Read, Between, StoreTyped

\* A command the store refuses leaves its receipt and nothing else.
LEMMA RejectionStores ==
  ASSUME StoreInv, NEW c \in Calls, StoreRejection(c)
  PROVE  /\ store' \in StoreRecords /\ store'.version = store.version
         /\ store'.commands = store.commands \cup {plan[c].command}
         /\ plan[c].command \in CommandIds
<1>1. StoreTyped /\ plan[c].command \in CommandIds
  BY PlanTyped DEF StoreInv, StoreRejection
<1>2. store \in StoreRecords
        /\ store.commands \cup {plan[c].command} \in SUBSET CommandIds
  BY <1>1 DEF StoreTyped, StoreRecords
<1> QED BY <1>1, <1>2, CommandKept DEF StoreRejection

\* What a call that finishes leaves in the store.
LEMMA FinishStores ==
  ASSUME StoreInv, NEW c \in Calls, Finish(c), NewCommand(draft, plan[c].command)
  PROVE  /\ store' \in StoreRecords /\ store'.version = draft.version
         /\ store'.commands \in {draft.commands,
                                 draft.commands \cup {plan[c].command}}
         /\ plan[c].command \notin draft.commands
         /\ Answer(c, "committed")
<1> DEFINE command == plan[c].command
           kept == IF command = None THEN draft.commands
                  ELSE draft.commands \cup {command}
           receipt == receiptCounter + 1
<1>1. StoreTyped /\ command \in CommandIds \cup {None}
  BY PlanTyped DEF StoreInv
<1>2. draft \in StoreRecords /\ kept \in SUBSET CommandIds
  BY <1>1 DEF StoreTyped, StoreRecords
<1>3. PICK receipts \in {draft.receipts,
                        [draft.receipts EXCEPT ![receipt] = command]} :
        store' = [draft EXCEPT !.commands = kept, !.receipts = receipts]
  BY DEF Finish
<1>4. kept \in {draft.commands, draft.commands \cup {command}}
  OBVIOUS
<1>5. command \notin draft.commands /\ Answer(c, "committed")
  BY DEF Finish, NewCommand
<1> HIDE DEF command, kept, receipt
<1>6. /\ store' \in StoreRecords /\ store'.version = draft.version
      /\ store'.commands = kept
  <2>1. command \in CommandIds \cup {None}
    BY <1>1 DEF command
  <2>2. receipts \in [Receipts -> CommandIds \cup {None}]
    BY <1>2, <2>1 DEF StoreRecords
  <2> QED BY <1>2, <1>3, <2>2 DEF StoreRecords
<1> QED BY <1>4, <1>5, <1>6 DEF command

\* The turn that ends leaves no draft behind.
LEMMA EndsKeep ==
  ASSUME StoreInv, NEW c \in Calls,
         Replay(c) \/ StoreRejection(c) \/ Drifts(c) \/ Finish(c)
  PROVE  StoreInv'
<1>1. StoreTyped
  BY DEF StoreInv
<1>2. CASE Replay(c)
  <2>1. Between
    BY <1>2 DEF Replay, StoreInv, Within
  <2> QED BY <1>1, <1>2, <2>1, EndKeeps DEF Replay, Between, StoreTyped
<1>3. CASE StoreRejection(c)
  <2>1. store' \in StoreRecords
    BY <1>3, RejectionStores
  <2> QED BY <1>1, <1>3, <2>1, EndKeeps DEF StoreRejection, StoreTyped
<1>4. CASE Drifts(c)
  BY <1>1, <1>4, EndKeeps DEF Drifts, StoreTyped
<1>5. CASE Finish(c)
  <2>1. receiptCounter' \in Nat
    BY <1>1, <1>5 DEF Finish, StoreTyped
  <2>2. store' \in StoreRecords
    <3>1. CASE NewCommand(draft, plan[c].command)
      BY <1>5, <3>1, FinishStores
    <3>2. CASE ~NewCommand(draft, plan[c].command)
      BY <1>1, <1>5, <3>2 DEF Finish, StoreTyped
    <3> QED BY <3>1, <3>2
  <2>3. PICK how : Answer(c, how)
    BY <1>5 DEF Finish
  <2> QED BY <1>5, <2>1, <2>2, <2>3, EndKeeps DEF Finish
<1> QED BY <1>2, <1>3, <1>4, <1>5

\* A record is written once by a plan, from the version the store holds: the
\* draft still has that version, so no earlier write was of this record.
LEMMA WriteHolds ==
  ASSUME StoreInv, NEW c \in Calls, WriteNext(c)
  PROVE  /\ Holds(plan[c].puts, written)'
         /\ draft' \in StoreRecords
<1> DEFINE puts == plan[c].puts
           put == puts[written + 1]
<1>1. /\ StoreTyped /\ plan[c].puts \in Seq(Puts) /\ plan[c].opens \in BOOLEAN
      /\ plan[c].name \in Names \cup {"none"} /\ Bears(plan[c])
      /\ written \in Nat /\ draft \in StoreRecords /\ store \in StoreRecords
  BY PlanTyped DEF StoreInv, StoreTyped
<1>2. /\ Len(puts) \in Nat
      /\ \A i \in 1 .. Len(puts) : puts[i].record \in Records
                                   /\ puts[i].previous \in Nat
  BY <1>1, SequenceOfPuts
<1>3. Holds(puts, written) /\ Source(c) = draft
  BY DraftHolds DEF WriteNext
<1>4. /\ draft.version[put.record] = put.previous
      /\ draft' = Written(draft, put.record, plan[c].opens, plan[c].name)
      /\ store' = store /\ plan' = plan
      /\ written + 1 \in 1 .. Len(puts)
  BY <1>1, <1>2, <1>3 DEF WriteNext, Draft, Stale
<1>5. /\ put.record \in Records /\ put.previous \in Nat
      /\ put.record \in Named => plan[c].name \in Names
  <2>1. written + 1 \in DOMAIN plan[c].puts
    BY <1>1, <1>4, SequenceOfPuts
  <2>2. put.record \in Named => plan[c].name \in Names
    BY <1>1, <2>1 DEF Bears
  <2> QED BY <1>2, <1>4, <2>2
<1>6. /\ draft' \in StoreRecords /\ draft'.commands = draft.commands
      /\ draft'.version = [draft.version EXCEPT ![put.record] = @ + 1]
  <2>1. /\ draft' \in StoreRecords
        /\ Changes(draft', draft, put.record, plan[c].opens, plan[c].name)
    BY <1>1, <1>4, <1>5, WrittenChanges
  <2> QED BY <2>1 DEF Changes
<1>7. ReadOnce(puts)
  BY <1>1 DEF StoreTyped
<1> HIDE DEF put
<1>8. put = puts[written + 1]
  BY DEF put
<1> HIDE DEF puts
<1>9. store.version \in [Records -> Nat] /\ draft.version \in [Records -> Nat]
  BY <1>1 DEF StoreRecords
<1>10. \A i \in 1 .. written : puts[i].record # put.record
  <2> SUFFICES ASSUME NEW i \in 1 .. written, puts[i].record = put.record
               PROVE  FALSE
    OBVIOUS
  <2>1. i \in 1 .. Len(puts) /\ written + 1 \in 1 .. Len(puts)
    BY <1>1, <1>2, <1>4
  <2>2. puts[i].previous = put.previous
    BY <1>7, <1>8, <2>1 DEF ReadOnce
  <2>3. store.version[put.record] = put.previous
    BY <1>3, <2>2 DEF Holds
  <2>4. draft.version[put.record] = store.version[put.record] + 1
    BY <1>3, <1>5 DEF Holds
  <2> QED BY <1>4, <1>5, <2>3, <2>4
<1>11. store.version[put.record] = put.previous
  BY <1>3, <1>4, <1>5, <1>10 DEF Holds
<1>12. \A i \in 1 .. (written + 1) : i \in 1 .. written \/ i = written + 1
  BY <1>1
<1>13. \A i \in 1 .. (written + 1) : store.version[puts[i].record] = puts[i].previous
  BY <1>3, <1>8, <1>11, <1>12 DEF Holds
<1>14. ASSUME NEW r \in Records
       PROVE  draft'.version[r] = IF \E i \in 1 .. (written + 1) : puts[i].record = r
                                  THEN store.version[r] + 1 ELSE store.version[r]
  <2>1. CASE r = put.record
    <3>1. draft'.version[r] = draft.version[r] + 1
      BY <1>6, <1>9, <2>1
    <3>2. written + 1 \in 1 .. (written + 1)
      BY <1>1
    <3> QED BY <1>4, <1>8, <1>11, <2>1, <3>1, <3>2
  <2>2. CASE r # put.record
    <3>1. draft'.version[r] = draft.version[r]
      BY <1>6, <1>9, <2>2
    <3>2. (\E i \in 1 .. (written + 1) : puts[i].record = r)
             <=> \E i \in 1 .. written : puts[i].record = r
      BY <1>1, <1>8, <1>12, <2>2
    <3> QED BY <1>3, <3>1, <3>2 DEF Holds
  <2> QED BY <2>1, <2>2
<1>15. Holds(puts, written)'
  <2>1. puts' = puts /\ written' = written + 1
    BY <1>4 DEF puts, WriteNext
  <2>2. written' \in 0 .. Len(puts)
    BY <1>1, <1>2, <1>4, <2>1
  <2> QED BY <1>2, <1>3, <1>4, <1>6, <1>13, <1>14, <2>1, <2>2 DEF Holds
<1> QED BY <1>6, <1>15 DEF puts

\* One more write of a transaction goes to its draft only.
LEMMA WriteKeeps ==
  ASSUME StoreInv, NEW c \in Calls, WriteNext(c)
  PROVE  StoreInv'
<1>1. /\ StoreTyped /\ written' = written + 1 /\ written' \in Nat /\ written' > 0
      /\ UNCHANGED <<store, receiptCounter, called, plan, answer>>
  BY DEF StoreInv, StoreTyped, WriteNext, Draft
<1>2. draft' \in StoreRecords
  BY WriteHolds
<1>3. Running(c)'
  BY <1>1 DEF WriteNext, Running, CallTurn, Waiting
<1>4. Holds(plan[c].puts, written)'
  BY WriteHolds
<1>5. StoreTyped'
  BY <1>1, <1>2 DEF StoreTyped
<1> QED BY <1>1, <1>3, <1>4, <1>5 DEF StoreInv, Within

\* Every step of the store keeps the invariant.
LEMMA StoreGoesOn == StoreInv /\ [InventoryNext]_inventoryVars => StoreInv'
<1> SUFFICES ASSUME StoreInv, [InventoryNext]_inventoryVars PROVE StoreInv'
  OBVIOUS
<1>1. CASE Call
  BY <1>1, CallKeeps
<1>2. ASSUME NEW c \in Calls, Serve(c) PROVE StoreInv'
  BY <1>2, ReadKeeps, EndsKeep, WriteKeeps DEF Serve
<1>3. CASE UNCHANGED inventoryVars
  BY <1>3 DEF inventoryVars, StoreInv, StoreTyped, Between, Within, Running,
     CallTurn, Waiting, Holds, ReadOnce, Bears
<1> QED BY <1>1, <1>2, <1>3 DEF InventoryNext

-----------------------------------------------------------------------------
\* What a plan names of a record is what any of its writes to it names.
LEMMA FromNames ==
  ASSUME StoreTyped, NEW c \in Calls
  PROVE  LET puts == plan[c].puts IN
         /\ DOMAIN From(c) = {puts[i].record : i \in 1 .. Len(puts)}
         /\ \A i \in 1 .. Len(puts) : From(c)[puts[i].record] = puts[i].previous
<1> DEFINE puts == plan[c].puts
           Naming(r) == CHOOSE p \in {puts[i] : i \in DOMAIN puts} : p.record = r
<1>1. puts \in Seq(Puts) /\ ReadOnce(puts)
  BY PlanTyped DEF StoreTyped
<1>2. DOMAIN puts = 1 .. Len(puts)
  BY <1>1, SequenceOfPuts
<1>3. From(c) = [r \in {puts[i].record : i \in 1 .. Len(puts)} |-> Naming(r).previous]
  BY <1>2 DEF From
<1>4. ASSUME NEW i \in 1 .. Len(puts)
      PROVE  Naming(puts[i].record).previous = puts[i].previous
  <2>1. /\ Naming(puts[i].record) \in {puts[j] : j \in DOMAIN puts}
        /\ Naming(puts[i].record).record = puts[i].record
    BY <1>2
  <2>2. PICK j \in 1 .. Len(puts) : Naming(puts[i].record) = puts[j]
    BY <1>2, <2>1
  <2> HIDE DEF Naming, puts
  <2> QED BY <1>1, <2>1, <2>2 DEF ReadOnce
<1> HIDE DEF puts, Naming
<1>5. DOMAIN From(c) = {puts[i].record : i \in 1 .. Len(puts)}
  BY <1>3
<1>6. \A i \in 1 .. Len(puts) : From(c)[puts[i].record] = puts[i].previous
  BY <1>3, <1>4
<1> QED BY <1>5, <1>6 DEF puts

\* A finished plan has moved each record it names by one version, and no other.
LEMMA DraftMoves ==
  ASSUME StoreTyped, NEW c \in Calls, Holds(plan[c].puts, Len(plan[c].puts))
  PROVE  /\ \A r \in DOMAIN From(c) : store.version[r] = From(c)[r]
         /\ draft.version = [r \in Records |-> IF r \in DOMAIN From(c)
                                               THEN From(c)[r] + 1
                                               ELSE store.version[r]]
<1> DEFINE puts == plan[c].puts
           F == From(c)
<1>1. /\ DOMAIN F = {puts[i].record : i \in 1 .. Len(puts)}
      /\ \A i \in 1 .. Len(puts) : F[puts[i].record] = puts[i].previous
  BY FromNames
<1>2. draft.version \in [Records -> Nat]
  BY DEF StoreTyped, StoreRecords
<1> HIDE DEF puts, F
<1>3. Holds(puts, Len(puts))
  BY DEF puts
<1>4. \A r \in DOMAIN F : store.version[r] = F[r]
  BY <1>1, <1>3 DEF Holds
<1>5. \A r \in Records :
        draft.version[r] = IF r \in DOMAIN F THEN F[r] + 1 ELSE store.version[r]
  BY <1>1, <1>3, <1>4 DEF Holds
<1>6. draft.version = [r \in Records |-> draft.version[r]]
  BY <1>2
<1>7. draft.version = [r \in Records |-> IF r \in DOMAIN F THEN F[r] + 1
                                         ELSE store.version[r]]
  BY <1>5, <1>6
<1> QED BY <1>4, <1>7 DEF F

AtomicStep(c) ==
  \/ \E command \in CommandIds \cup {None} : Atomic!Commit(c, command)
  \/ \E command \in CommandIds : Atomic!Refuse(c, command)
  \/ Atomic!Leave(c)

\* A call that commits finishes a plan in one abstract step; one that leaves
\* the store as it was has only its answer to show; every other step shows
\* nothing.
LEMMA FinishCommits ==
  ASSUME StoreInv, NEW c \in Calls, Finish(c), NewCommand(draft, plan[c].command)
  PROVE  \E command \in CommandIds \cup {None} : Atomic!Commit(c, command)
<1>1. /\ store'.version = draft.version
      /\ store'.commands \in {draft.commands,
                              draft.commands \cup {plan[c].command}}
      /\ plan[c].command \notin draft.commands
      /\ Answer(c, "committed")
  BY FinishStores
<1>2. Holds(plan[c].puts, written) /\ written = Len(plan[c].puts)
  BY DraftHolds DEF Finish
<1>3. StoreTyped /\ draft.commands = store.commands
  BY <1>2 DEF StoreInv, Holds
<1>4. /\ \A r \in DOMAIN From(c) : store.version[r] = From(c)[r]
      /\ draft.version = [r \in Records |-> IF r \in DOMAIN From(c)
                                            THEN From(c)[r] + 1
                                            ELSE store.version[r]]
  BY <1>2, <1>3, DraftMoves
<1>5. answer[c] = "none"
  BY DEF Finish, Running, CallTurn, Waiting
<1>6. plan[c].command \in CommandIds \cup {None}
  BY <1>3, PlanTyped
<1>7. [d \in Calls |-> From(d)][c] = From(c)
  OBVIOUS
<1>8. Atomic!Commit(c, plan[c].command)
  BY <1>1, <1>3, <1>4, <1>5, <1>7 DEF Atomic!Commit, Atomic!Ends, Answer
<1> QED BY <1>6, <1>8

\* A turn that ends is the one step InventoryAtomic makes of the call.
LEMMA ServeIsAtomic ==
  ASSUME StoreInv, NEW c \in Calls, Serve(c), ~WriteNext(c)
  PROVE  AtomicStep(c) /\ answer'[c] # answer[c]
<1>1. /\ answer[c] = "none" /\ StoreTyped /\ DOMAIN answer = Calls
  BY DEF StoreInv, StoreTyped, Serve, Read, Replay, StoreRejection, WriteNext,
     Drifts, Finish, Running, CallTurn, Waiting
<1>2. ASSUME NEW how \in {"threw", "replayed", "read"}, Answer(c, how),
             store' = store
      PROVE  AtomicStep(c) /\ answer'[c] # answer[c]
  BY <1>1, <1>2 DEF AtomicStep, Atomic!Leave, Atomic!Ends, Answer
<1>3. CASE Read(c)
  BY <1>2, <1>3 DEF Read
<1>4. CASE Replay(c)
  BY <1>2, <1>4 DEF Replay
<1>5. CASE StoreRejection(c)
  <2>1. /\ store'.version = store.version /\ plan[c].command \in CommandIds
        /\ store'.commands = store.commands \cup {plan[c].command}
        /\ Answer(c, "refused")
    BY <1>5, RejectionStores DEF StoreRejection
  <2>2. Atomic!Refuse(c, plan[c].command)
    BY <1>1, <2>1 DEF Atomic!Refuse, Atomic!Ends, Answer
  <2> QED BY <1>1, <2>1, <2>2 DEF AtomicStep, Answer
<1>6. CASE Drifts(c)
  BY <1>2, <1>6 DEF Drifts
<1>7. CASE Finish(c)
  <2>1. CASE NewCommand(draft, plan[c].command)
    <3>1. Answer(c, "committed")
      BY <1>7, <2>1, FinishStores
    <3> QED BY <1>1, <1>7, <2>1, <3>1, FinishCommits DEF AtomicStep, Answer
  <2>2. CASE ~NewCommand(draft, plan[c].command)
    BY <1>2, <1>7, <2>2 DEF Finish
  <2> QED BY <2>1, <2>2
<1> QED BY <1>3, <1>4, <1>5, <1>6, <1>7 DEF Serve

\* Every step of the store is a step of the abstract one or changes nothing
\* that it shows.
LEMMA StepIsAtomic ==
  ASSUME StoreInv, [InventoryNext]_inventoryVars
  PROVE  [\E c \in {d \in Calls : answer'[d] # answer[d]} :
            \/ \E command \in CommandIds \cup {None} : Atomic!Commit(c, command)
            \/ \E command \in CommandIds : Atomic!Refuse(c, command)
            \/ Atomic!Leave(c)]_<<store.version, store.commands, answer>>
<1>1. CASE Call \/ UNCHANGED inventoryVars \/ \E c \in Calls : WriteNext(c)
  BY <1>1 DEF Call, inventoryVars, WriteNext, Draft
<1>2. CASE \E c \in Calls : Serve(c) /\ ~WriteNext(c)
  BY <1>2, ServeIsAtomic DEF AtomicStep
<1> QED BY <1>1, <1>2 DEF InventoryNext

\* The store keeps all or nothing of a call: however a transaction's writes
\* were planned, drifted, repeated or threw half way, every behaviour of the
\* draft-and-replace store is one of the abstract store whose commits are single
\* steps, for any number of calls and records.
THEOREM StoreImplementsAtomic == InventorySpec => StoreIsAtomic
<1>1. InventoryInit => Atomic!AtomicInit
  BY DEF InventoryInit, Atomic!AtomicInit
<1>2. StoreInv /\ [InventoryNext]_inventoryVars =>
        [\E c \in {d \in Calls : answer'[d] # answer[d]} :
            \/ \E command \in CommandIds \cup {None} : Atomic!Commit(c, command)
            \/ \E command \in CommandIds : Atomic!Refuse(c, command)
            \/ Atomic!Leave(c)]_<<store.version, store.commands, answer>>
  BY StepIsAtomic
<1> QED BY <1>1, <1>2, StoreBegins, StoreGoesOn, PTL
        DEF InventorySpec, StoreIsAtomic

-----------------------------------------------------------------------------
(***************************************************************************)
(* InventoryStore, what the store keeps twice.  A plan writes at most one  *)
(* record that an index finds, and writes it last; until then the draft's  *)
(* indexes are the store's, in which the library found that record, or     *)
(* none.  A managed SKU's commit looks for itself.  Calls are answered as  *)
(* they were made, so what a read found committed is all that was called   *)
(* before it.                                                              *)
(***************************************************************************)
LastIsIndexed(puts) ==
  \A i \in 1 .. Len(puts) : puts[i].record \in Indexables => i = Len(puts)

NamesAgree(s) ==
  \A r \in Named :
    /\ s.version[r] > 0 <=> s.bears[r] # "none"
    /\ \A n \in Names : s.finds[n] = r <=> s.bears[r] = n

Agrees(s) ==
  /\ s.open = IF s.index = "none" THEN {} ELSE {s.index}
  /\ NamesAgree(s)

AnsweredInTurn ==
  \A d \in Calls : answer[d] # "none" =>
    d <= called /\ \A e \in Calls : e < d => answer[e] # "none"

IndexUntilLast(c) ==
  Running(c) /\ written > 0 =>
    /\ ~OffIndex(store, c)
    /\ written < Len(plan[c].puts) =>
         /\ draft.open = store.open /\ draft.index = store.index
         /\ draft.bears = store.bears /\ draft.finds = store.finds

AgreeInv ==
  /\ StoreInv
  /\ \A c \in Calls : LastIsIndexed(plan[c].puts) /\ IndexUntilLast(c)
  /\ Agrees(store) /\ Agrees(draft)
  /\ draft.receipts = store.receipts
  /\ OneReceiptPerCommand
  /\ DOMAIN seen = Calls /\ AnsweredInTurn /\ ReadsSeeEarlierCalls

-----------------------------------------------------------------------------
\* No operation writes a record that an index finds but as its last.
LEMMA WritesOneIndexed ==
  ASSUME NEW kind \in CallKinds, NEW rs \in Writes(kind)
  PROVE  \A i \in 1 .. Len(rs) : rs[i] \in Indexables => i = Len(rs)
<1>1. kind \in Operations
  BY InventoryAssumption
<1> DEFINE Kept == Balances \cup Locations \cup Confirmations
<1>2. \/ rs = <<>>
      \/ \E a \in Kept \cup Indexables : rs = <<a>>
      \/ \E a \in Kept, b \in Kept \cup Indexables : rs = <<a, b>>
      \/ \E a, b \in Kept, d \in Kept \cup Indexables : rs = <<a, b, d>>
  <2>1. CASE kind \in {"opening", "adjust", "location", "sku", "confirm", "read"}
    BY <2>1 DEF Writes, OpeningBalance, StockAdjustment, LocationCommit, ManagedSku,
                Confirmation, Indexables, Named
  <2>2. CASE kind = "bound"
    BY <2>2 DEF Writes, BoundAdjustment
  <2>3. CASE kind = "transfer"
    <3>1. rs \in StockTransfer
      BY <2>3 DEF Writes
    <3>2. PICK q \in Balances \X Balances, t \in TransferRows : rs = <<q[1], q[2], t>>
      BY <3>1 DEF StockTransfer
    <3>3. t \in Indexables /\ q[1] \in Kept /\ q[2] \in Kept
      BY DEF Indexables, Named
    <3> HIDE DEF Kept
    <3> QED BY <3>2, <3>3
  <2>4. CASE kind = "reserve"
    BY <2>4 DEF Writes, StockReservation, Indexables
  <2>5. CASE kind = "batch"
    BY <2>5 DEF Writes, ReservationBatch, Indexables
  <2> QED BY <1>1, <2>1, <2>2, <2>3, <2>4, <2>5 DEF Operations
<1>3. Kept \cap Indexables = {}
  BY InventoryAssumption DEF Indexables
<1> HIDE DEF Kept
<1>4. CASE rs = <<>>
  BY <1>4
<1>5. ASSUME NEW a \in Kept \cup Indexables, rs = <<a>>, NEW i \in 1 .. Len(rs)
      PROVE  i = Len(rs)
  BY <1>5
<1>6. ASSUME NEW a \in Kept, NEW b \in Kept \cup Indexables, rs = <<a, b>>,
             NEW i \in 1 .. Len(rs), rs[i] \in Indexables
      PROVE  i = Len(rs)
  <2>1. Len(rs) = 2 /\ i \in 1 .. 2 /\ rs[1] = a
    BY <1>6
  <2>2. i # 1
    BY <1>3, <1>6, <2>1
  <2> QED BY <2>1, <2>2
<1>7. ASSUME NEW a \in Kept, NEW b \in Kept, NEW d \in Kept \cup Indexables,
             rs = <<a, b, d>>, NEW i \in 1 .. Len(rs), rs[i] \in Indexables
      PROVE  i = Len(rs)
  <2>1. Len(rs) = 3 /\ i \in 1 .. 3 /\ rs[1] = a /\ rs[2] = b
    BY <1>7
  <2>2. i # 1 /\ i # 2
    BY <1>3, <1>7, <2>1
  <2> QED BY <2>1, <2>2
<1> QED BY <1>2, <1>4, <1>5, <1>6, <1>7

\* Nor does a plan, whatever versions it names.
LEMMA PlansOneIndexed ==
  ASSUME StoreTyped, NEW kind \in CallKinds, NEW p \in Plans(kind)
  PROVE  LastIsIndexed(p.puts)
<1>1. PICK command \in CommandsFor(kind), opens \in OpensFor(kind),
           name \in NamesFor(kind), rs \in Writes(kind) :
             p = Planned(kind, command, opens, name, rs)
  BY DEF Plans
<1>2. rs \in Seq(Records) /\ Len(rs) \in Nat /\ DOMAIN rs = 1 .. Len(rs)
  BY WritesRecords, LenProperties
<1>3. /\ DOMAIN p.puts = 1 .. Len(rs)
      /\ \A i \in 1 .. Len(rs) : p.puts[i].record = rs[i]
  BY <1>1, <1>2 DEF Planned
<1>4. p.puts \in Seq(Puts)
  BY PlansTyped DEF PlanRecords
<1>5. Len(p.puts) = Len(rs)
  BY <1>2, <1>3, <1>4, LenProperties
<1> QED BY <1>3, <1>5, WritesOneIndexed DEF LastIsIndexed

\* The empty store agrees with its index.
LEMMA AgreeBegins == InventoryInit => AgreeInv
<1> SUFFICES ASSUME InventoryInit PROVE AgreeInv
  OBVIOUS
<1>1. StoreInv
  BY StoreBegins
<1>2. \A c \in Calls : LastIsIndexed(plan[c].puts) /\ IndexUntilLast(c)
  BY EmptySeq DEF InventoryInit, NoPlan, LastIsIndexed, IndexUntilLast
<1>3. PICK stocked, reserved \in {0, 1} : store = StoreWith(stocked, reserved)
  BY DEF InventoryInit
<1>4. AnyReservation \in Reservations /\ AnyReservation # "none"
  BY InventoryAssumption DEF AnyReservation
<1>8. NamesAgree(store)
  <2>1. /\ store.bears = [r \in Named |-> "none"] /\ store.finds = [n \in Names |-> "none"]
        /\ \A r \in Named : r \in Records /\ r \notin Balances \cup Locations
                                /\ r # AnyReservation
    BY <1>3, <1>4, InventoryAssumption DEF StoreWith, Named, Records
  <2>2. \A r \in Named : store.version[r] = 0
    BY <1>3, <2>1 DEF StoreWith
  <2> QED BY <2>1, <2>2, InventoryAssumption DEF NamesAgree
<1>5. /\ store.open = {r \in Reservations : reserved = 1 /\ r = AnyReservation}
      /\ store.index = IF reserved = 1 THEN AnyReservation ELSE "none"
      /\ store.receipts = [i \in Receipts |-> None]
  BY <1>3 DEF StoreWith
<1>6. Agrees(store)
  BY <1>4, <1>5, <1>8 DEF Agrees
<1>7. OneReceiptPerCommand
  BY <1>5 DEF OneReceiptPerCommand
<1> QED BY <1>1, <1>2, <1>6, <1>7 DEF InventoryInit, AgreeInv, AnsweredInTurn,
                                      ReadsSeeEarlierCalls

-----------------------------------------------------------------------------
\* A call answered in its turn, and, if it reads, what it sees.
LEMMA AnswersStay ==
  ASSUME AgreeInv, NEW c \in Calls, CallTurn(c), NEW how, Answer(c, how), how # "none",
         called' = called,
         IF how = "read" THEN seen' = [seen EXCEPT ![c] = {d \in Calls : answer[d] = "committed"}]
                         ELSE seen' = seen
  PROVE  /\ DOMAIN seen' = Calls /\ AnsweredInTurn' /\ ReadsSeeEarlierCalls'
         /\ \A d \in Calls : LastIsIndexed(plan'[d].puts)
<1>1. /\ \A d \in Calls : answer'[d] = IF d = c THEN how ELSE answer[d]
      /\ \A d \in Calls : plan'[d] = IF d = c THEN NoPlan ELSE plan[d]
  BY DEF Answer, AgreeInv, StoreInv, StoreTyped
<1>2. /\ c \in 1 .. called /\ answer[c] = "none" /\ called \in 0 .. MaxCalls
      /\ MaxCalls \in Nat
  BY InventoryAssumption DEF CallTurn, Waiting, AgreeInv, StoreInv, StoreTyped
<1>3. \A e \in Calls : e < c => answer[e] # "none"
  BY <1>2 DEF CallTurn, Waiting, Calls
<1>4. \A d \in Calls : answer[d] # "none" => d < c
  BY <1>2 DEF AgreeInv, AnsweredInTurn, Calls
<1>5. AnsweredInTurn'
  <2> SUFFICES ASSUME NEW d \in Calls, answer'[d] # "none"
               PROVE  d <= called /\ \A e \in Calls : e < d => answer'[e] # "none"
    BY DEF AnsweredInTurn
  <2>1. CASE d = c
    BY <1>1, <1>2, <1>3, <2>1 DEF Calls
  <2>2. CASE d # c
    BY <1>1, <2>2 DEF AgreeInv, AnsweredInTurn
  <2> QED BY <2>1, <2>2
<1>6. ReadsSeeEarlierCalls'
  <2> SUFFICES ASSUME NEW b \in Calls, answer'[b] = "read"
               PROVE  seen'[b] = {d \in 1 .. (b - 1) : answer'[d] = "committed"}
    BY DEF ReadsSeeEarlierCalls
  <2>1. CASE b = c
    <3>1. how = "read" /\ seen'[b] = {d \in Calls : answer[d] = "committed"}
      BY <1>1, <2>1 DEF AgreeInv
    <3>2. \A d : d \in 1 .. (c - 1) <=> d \in Calls /\ d < c
      BY <1>2 DEF Calls
    <3> QED BY <1>1, <1>4, <2>1, <3>1, <3>2
  <2>2. CASE b # c
    <3>1. answer[b] = "read" /\ seen'[b] = seen[b] /\ b < c
      BY <1>1, <1>4, <2>2 DEF AgreeInv
    <3>2. \A d \in 1 .. (b - 1) : d \in Calls /\ d # c
      BY <1>2, <3>1 DEF Calls
    <3> QED BY <1>1, <3>1, <3>2 DEF AgreeInv, ReadsSeeEarlierCalls
  <2> QED BY <2>1, <2>2
<1>7. \A d \in Calls : LastIsIndexed(plan'[d].puts)
  BY <1>1, EmptySeq DEF AgreeInv, LastIsIndexed, NoPlan
<1> QED BY <1>5, <1>6, <1>7 DEF AgreeInv

\* The end of a call: the draft is the store again.
LEMMA EndAgrees ==
  ASSUME AgreeInv, StoreInv', NEW c \in Calls, CallTurn(c), NEW how, Answer(c, how),
         how # "none", called' = called, written' = 0, draft' = store',
         IF how = "read" THEN seen' = [seen EXCEPT ![c] = {d \in Calls : answer[d] = "committed"}]
                         ELSE seen' = seen,
         Agrees(store'), OneReceiptPerCommand'
  PROVE  AgreeInv'
<1>1. \A d \in Calls : IndexUntilLast(d)'
  BY DEF IndexUntilLast
<1> QED BY <1>1, AnswersStay DEF AgreeInv

\* A call that joins the queue reads and changes nothing yet.
LEMMA CallAgreed == ASSUME AgreeInv, Call PROVE AgreeInv'
<1>1. StoreInv'
  BY CallKeeps DEF AgreeInv
<1>2. PICK kind \in CallKinds : \E p \in Plans(kind) :
        plan' = [plan EXCEPT ![called + 1] = p]
  BY DEF Call
<1>3. PICK p \in Plans(kind) : plan' = [plan EXCEPT ![called + 1] = p]
  BY <1>2
<1>4. LastIsIndexed(p.puts)
  BY PlansOneIndexed DEF AgreeInv, StoreInv
<1>5. \A c \in Calls : LastIsIndexed(plan'[c].puts)
  BY <1>3, <1>4 DEF AgreeInv, StoreInv, StoreTyped
<1>6. \A c \in Calls : IndexUntilLast(c)'
  BY DEF Call, IndexUntilLast
<1>7. AnsweredInTurn'
  BY InventoryAssumption DEF Call, AgreeInv, AnsweredInTurn, StoreInv, StoreTyped, Calls
<1>8. Agrees(store') /\ Agrees(draft')
  BY DEF Call, AgreeInv
<1> QED BY <1>1, <1>5, <1>6, <1>7, <1>8 DEF Call, AgreeInv, OneReceiptPerCommand,
                                            ReadsSeeEarlierCalls

\* A read is answered from the calls made before it.
LEMMA ReadAgrees == ASSUME AgreeInv, NEW c \in Calls, Read(c) PROVE AgreeInv'
<1>1. StoreInv' /\ CallTurn(c) /\ Answer(c, "read") /\ called' = called
  BY ReadKeeps DEF AgreeInv, Read
<1>2. ~Within
  BY OneTurn DEF Within, Running, Read
<1>3. Between
  BY <1>2 DEF AgreeInv, StoreInv
<1>4. written' = 0 /\ draft' = store' /\ store' = store
  BY <1>3 DEF Read, Between
<1>5. Agrees(store') /\ OneReceiptPerCommand'
  BY <1>4 DEF AgreeInv, OneReceiptPerCommand
<1> QED BY <1>1, <1>4, <1>5, EndAgrees DEF Read

\* A repeated command is answered from its receipt.
LEMMA ReplayAgrees == ASSUME AgreeInv, NEW c \in Calls, Replay(c) PROVE AgreeInv'
<1>1. /\ StoreInv' /\ CallTurn(c) /\ Answer(c, "replayed") /\ called' = called
      /\ seen' = seen
  BY EndsKeep DEF AgreeInv, Replay, Running
<1>2. Between
  BY DEF AgreeInv, StoreInv, Within, Replay
<1>3. written' = 0 /\ draft' = store' /\ store' = store
  BY <1>2 DEF Replay, Between
<1>4. Agrees(store') /\ OneReceiptPerCommand'
  BY <1>3 DEF AgreeInv, OneReceiptPerCommand
<1> QED BY <1>1, <1>3, <1>4, EndAgrees

\* A transaction that meets a newer version leaves no trace.
LEMMA DriftAgrees == ASSUME AgreeInv, NEW c \in Calls, Drifts(c) PROVE AgreeInv'
<1>1. /\ StoreInv' /\ CallTurn(c) /\ Answer(c, "threw") /\ called' = called
      /\ seen' = seen /\ written' = 0 /\ draft' = store' /\ store' = store
  BY EndsKeep DEF AgreeInv, Drifts, Running
<1>2. Agrees(store') /\ OneReceiptPerCommand'
  BY <1>1 DEF AgreeInv, OneReceiptPerCommand
<1> QED BY <1>1, <1>2, EndAgrees

\* A refusal adds a receipt of a command that had none.
LEMMA RejectionAgrees ==
  ASSUME AgreeInv, NEW c \in Calls, StoreRejection(c) PROVE AgreeInv'
<1>1. /\ StoreInv' /\ CallTurn(c) /\ Answer(c, "refused") /\ called' = called
      /\ seen' = seen /\ written' = 0 /\ draft' = store'
  BY EndsKeep DEF AgreeInv, StoreRejection, Running
<1>2. store \in StoreRecords
  BY DEF AgreeInv, StoreInv, StoreTyped
<1>3. /\ store'.open = store.open /\ store'.index = store.index
      /\ store'.bears = store.bears /\ store'.finds = store.finds
      /\ store'.version = store.version
      /\ store'.receipts = store.receipts /\ store.commands \subseteq store'.commands
  BY <1>2 DEF StoreRejection, StoreRecords
<1>4. Agrees(store') /\ OneReceiptPerCommand'
  BY <1>3 DEF AgreeInv, Agrees, NamesAgree, OneReceiptPerCommand
<1> QED BY <1>1, <1>4, EndAgrees

\* A receipt is kept for a command that has none.
LEMMA ReceiptAgrees ==
  ASSUME OneReceiptPerCommand, NEW command, command \notin store.commands,
         store.receipts \in [Receipts -> CommandIds \cup {None}],
         NEW receipt, store.commands \subseteq store'.commands,
         command # None => command \in store'.commands,
         store'.receipts \in {store.receipts,
                              [store.receipts EXCEPT ![receipt] = command]}
  PROVE  OneReceiptPerCommand'
<1>1. \A i \in Receipts : store'.receipts[i] = store.receipts[i]
                          \/ (i = receipt /\ store'.receipts[i] = command)
  <2>1. CASE store'.receipts = store.receipts
    BY <2>1
  <2>2. CASE store'.receipts = [store.receipts EXCEPT ![receipt] = command]
    BY <2>2
  <2> QED BY <2>1, <2>2
<1>2. \A i \in Receipts : store.receipts[i] # None => store.receipts[i] # command
  BY DEF OneReceiptPerCommand
<1> QED BY <1>1, <1>2 DEF OneReceiptPerCommand

\* The draft that becomes the store brings its index with it.
LEMMA FinishAgrees == ASSUME AgreeInv, NEW c \in Calls, Finish(c) PROVE AgreeInv'
<1> DEFINE command == plan[c].command
           receipt == receiptCounter + 1
           kept == IF command = None THEN draft.commands ELSE draft.commands \cup {command}
<1>1. /\ StoreInv' /\ CallTurn(c) /\ called' = called /\ seen' = seen
      /\ written' = 0 /\ draft' = store'
  BY EndsKeep DEF AgreeInv, Finish, Running
<1>2. /\ draft \in StoreRecords /\ store \in StoreRecords
      /\ draft.commands = store.commands /\ draft.receipts = store.receipts
  BY DraftHolds DEF AgreeInv, StoreInv, StoreTyped, Finish, Holds
<1>3. CASE NewCommand(draft, command)
  <2>1. PICK receipts \in {draft.receipts, [draft.receipts EXCEPT ![receipt] = command]} :
          store' = [draft EXCEPT !.commands = kept, !.receipts = receipts]
    BY <1>3 DEF Finish
  <2>2. Answer(c, "committed") /\ command \notin store.commands
    BY <1>2, <1>3 DEF Finish, NewCommand
  <2>3. store.commands \subseteq kept /\ (command # None => command \in kept)
    BY <1>2
  <2> HIDE DEF command, kept, receipt
  <2>4. /\ store'.open = draft.open /\ store'.index = draft.index
        /\ store'.bears = draft.bears /\ store'.finds = draft.finds
        /\ store'.version = draft.version
        /\ store'.receipts = receipts /\ store'.commands = kept
    BY <1>2, <2>1 DEF StoreRecords
  <2>5. Agrees(store')
    BY <2>4 DEF AgreeInv, Agrees, NamesAgree
  <2>6. store.receipts \in [Receipts -> CommandIds \cup {None}]
    BY <1>2 DEF StoreRecords
  <2>7. OneReceiptPerCommand'
    BY <1>2, <2>1, <2>2, <2>3, <2>4, <2>6, ReceiptAgrees DEF AgreeInv
  <2> QED BY <1>1, <2>2, <2>5, <2>7, EndAgrees
<1>4. CASE ~NewCommand(draft, command)
  <2>1. Answer(c, "threw") /\ store' = store
    BY <1>4 DEF Finish
  <2>2. Agrees(store') /\ OneReceiptPerCommand'
    BY <2>1 DEF AgreeInv, OneReceiptPerCommand
  <2> QED BY <1>1, <2>1, <2>2, EndAgrees
<1> QED BY <1>3, <1>4

\* A record kept under a name that finds nothing, or finds it already.
LEMMA NamedWrite ==
  ASSUME NEW s \in StoreRecords, NamesAgree(s), NEW r \in Named, NEW name \in Names,
         NEW opens \in BOOLEAN,
         s.finds[name] = r \/ (s.finds[name] = "none" /\ s.bears[r] = "none")
  PROVE  NamesAgree(Written(s, r, opens, name))
<1> DEFINE end == Written(s, r, opens, name)
<1>1. r \in Records
  BY DEF Named, Records
<1>2. /\ end.version = [s.version EXCEPT ![r] = @ + 1]
      /\ end.bears = [s.bears EXCEPT ![r] = name]
      /\ end.finds = [s.finds EXCEPT ![name] = r]
  <2>1. Changes(end, s, r, opens, name)
    BY <1>1, WrittenChanges
  <2> QED BY <2>1 DEF Changes
<1> HIDE DEF end
<1>3. /\ s.version \in [Records -> Nat] /\ s.bears \in [Named -> Names \cup {"none"}]
      /\ s.finds \in [Names -> Named \cup {"none"}]
  BY DEF StoreRecords
<1>4. "none" \notin Named \cup Names /\ \A x \in Named : x \in Records
  BY InventoryAssumption DEF Named, Records
<1>5. ASSUME NEW x \in Named
      PROVE  /\ end.version[x] > 0 <=> end.bears[x] # "none"
             /\ \A n \in Names : end.finds[n] = x <=> end.bears[x] = n
  <2>1. CASE x = r
    <3>1. end.version[x] > 0 /\ end.bears[x] = name
      BY <1>1, <1>2, <1>3, <2>1
    <3>2. ASSUME NEW n \in Names PROVE end.finds[n] = x <=> name = n
      <4>1. CASE n = name
        BY <1>2, <1>3, <2>1, <4>1
      <4>2. CASE n # name
        <5>1. end.finds[n] = s.finds[n]
          BY <1>2, <1>3, <4>2
        <5>2. s.finds[n] # r
          BY <1>4, <4>2 DEF NamesAgree
        <5> QED BY <2>1, <4>2, <5>1, <5>2
      <4> QED BY <4>1, <4>2
    <3> QED BY <1>4, <3>1, <3>2
  <2>2. CASE x # r
    <3>1. end.version[x] = s.version[x] /\ end.bears[x] = s.bears[x]
      BY <1>2, <1>3, <1>4, <2>2
    <3>2. ASSUME NEW n \in Names PROVE end.finds[n] = x <=> s.finds[n] = x
      <4>1. CASE n = name
        <5>1. s.finds[n] # x
          BY <1>4, <2>2, <4>1
        <5>2. end.finds[n] = r
          BY <1>2, <1>3, <4>1
        <5> QED BY <2>2, <5>1, <5>2
      <4>2. CASE n # name
        BY <1>2, <1>3, <4>2
      <4> QED BY <4>1, <4>2
    <3> QED BY <3>1, <3>2 DEF NamesAgree
  <2> QED BY <2>1, <2>2
<1> QED BY <1>5 DEF NamesAgree, end

\* A write of another record leaves the names as they are.
LEMMA UnnamedWrite ==
  ASSUME NEW s \in StoreRecords, NamesAgree(s), NEW r \in Records \ Named,
         NEW name \in Names \cup {"none"}, NEW opens \in BOOLEAN
  PROVE  NamesAgree(Written(s, r, opens, name))
<1> DEFINE end == Written(s, r, opens, name)
<1>1. /\ end.version = [s.version EXCEPT ![r] = @ + 1]
      /\ end.bears = s.bears /\ end.finds = s.finds
  <2>1. Changes(end, s, r, opens, name)
    BY WrittenChanges
  <2> QED BY <2>1 DEF Changes
<1> HIDE DEF end
<1>2. s.version \in [Records -> Nat] /\ \A x \in Named : x \in Records
  BY DEF StoreRecords, Named, Records
<1>3. \A x \in Named : end.version[x] = s.version[x]
  BY <1>1, <1>2
<1> QED BY <1>1, <1>3 DEF NamesAgree, end

\* Until its last record is written a draft's indexes are the store's.
LEMMA WriteAgrees == ASSUME AgreeInv, NEW c \in Calls, WriteNext(c) PROVE AgreeInv'
<1> DEFINE puts == plan[c].puts
           put == puts[written + 1]
           r == put.record
           name == plan[c].name
           opens == plan[c].opens
<1>1. /\ StoreInv' /\ Running(c) /\ Source(c) = draft
      /\ UNCHANGED <<store, called, plan, answer, seen, receiptCounter>>
      /\ written' = written + 1 /\ written \in Nat
      /\ draft \in StoreRecords /\ store \in StoreRecords
      /\ opens \in BOOLEAN /\ name \in Names \cup {"none"} /\ Bears(plan[c])
  BY WriteKeeps, DraftHolds, PlanTyped
     DEF AgreeInv, StoreInv, StoreTyped, WriteNext, Draft
<1>2. puts \in Seq(Puts)
  BY PlanTyped DEF AgreeInv, StoreInv
<1>3. /\ Len(puts) \in Nat /\ written + 1 \in 1 .. Len(puts) /\ r \in Records
      /\ written + 1 \in DOMAIN puts
  <2>1. /\ Len(puts) \in Nat /\ \A i \in 1 .. Len(puts) : puts[i].record \in Records
        /\ DOMAIN puts = 1 .. Len(puts)
    BY <1>2, SequenceOfPuts
  <2> QED BY <1>1, <2>1 DEF WriteNext
<1>4. draft' = Written(draft, r, opens, name) /\ ~Stale(draft, put, name)
  BY <1>1 DEF WriteNext, Draft
<1>5. /\ draft.open = store.open /\ draft.index = store.index
      /\ draft.bears = store.bears /\ draft.finds = store.finds
      /\ ~OffIndex(store, c)
  <2>1. CASE written = 0
    BY <1>1, <2>1 DEF WriteNext, AgreeInv, StoreInv, Between, Within
  <2>2. CASE written # 0
    BY <1>1, <2>2 DEF WriteNext, AgreeInv, IndexUntilLast
  <2> QED BY <2>1, <2>2
<1>6. r \in Indexables => written + 1 = Len(puts)
  BY <1>3 DEF AgreeInv, LastIsIndexed
<1>10. r \in Named => name \in Names
  BY <1>1, <1>3 DEF Bears
<1>11. ASSUME r \in Reservations, store.index # r
       PROVE  opens /\ store.index = "none"
  <2> DEFINE unused == IF store.version[r] = 0 THEN {"none"} ELSE {}
  <2>1. ~(store.index \notin {r} \cup (IF opens THEN unused ELSE {}))
    BY <1>3, <1>5, <1>11 DEF OffIndex
  <2>2. opens
    BY <1>11, <2>1
  <2>3. store.index = "none"
    BY <1>11, <2>1
  <2> QED BY <2>2, <2>3
<1>12. ASSUME r \in TransferRows, store.finds[name] # r
       PROVE  store.finds[name] = "none" /\ store.version[r] = 0
  <2> DEFINE unused == IF store.version[r] = 0 THEN {"none"} ELSE {}
  <2>1. ~(store.finds[name] \notin {r} \cup unused)
    BY <1>3, <1>5, <1>12 DEF OffIndex
  <2>2. store.version[r] = 0
    BY <1>12, <2>1
  <2>3. store.finds[name] = "none"
    BY <1>12, <2>1
  <2> QED BY <2>2, <2>3
<1>13. r \in Skus => ~(draft.version[r] > 0) /\ draft.finds[name] = "none"
  BY <1>4 DEF Stale
<1> HIDE DEF puts, put, name, opens
<1>20. r = put.record
  OBVIOUS
<1> HIDE DEF r
<1>9. Changes(draft', draft, r, opens, name)
  BY <1>1, <1>3, <1>4, <1>10, WrittenChanges
<1>14. NamesAgree(draft')
  <2>1. NamesAgree(draft) /\ NamesAgree(store)
    BY DEF AgreeInv, Agrees
  <2>2. CASE r \notin Named
    BY <1>1, <1>3, <1>4, <2>1, <2>2, UnnamedWrite
  <2>3. CASE r \in Named
    <3>1. draft.finds[name] = r \/ (draft.finds[name] = "none" /\ draft.bears[r] = "none")
      <4>1. CASE r \in Skus
        BY <1>13, <2>1, <2>3, <4>1 DEF NamesAgree
      <4>2. CASE r \in TransferRows
        <5>1. CASE store.finds[name] = r
          BY <1>5, <5>1
        <5>2. CASE store.finds[name] # r
          <6>1. store.finds[name] = "none" /\ ~(store.version[r] > 0)
            BY <1>12, <4>2, <5>2
          <6> QED BY <1>5, <2>1, <2>3, <6>1 DEF NamesAgree
        <5> QED BY <5>1, <5>2
      <4> QED BY <2>3, <4>1, <4>2 DEF Named
    <3> QED BY <1>1, <1>4, <1>10, <2>1, <2>3, <3>1, NamedWrite
  <2> QED BY <2>2, <2>3
<1>7. draft'.receipts = draft.receipts /\ Agrees(draft')
  <2>1. CASE r \notin Reservations
    BY <1>9, <1>14, <2>1 DEF AgreeInv, Agrees, Changes
  <2>2. CASE r \in Reservations
    <3>1. r # "none"
      BY <2>2, InventoryAssumption
    <3>2. store.open = {r} \/ (opens /\ store.open = {})
      BY <1>11, <2>2, <3>1 DEF AgreeInv, Agrees
    <3>3. /\ draft'.open = IF opens THEN draft.open \cup {r} ELSE draft.open \ {r}
          /\ draft'.index = IF opens THEN r ELSE "none"
          /\ draft'.receipts = draft.receipts
      BY <1>9, <2>2 DEF Changes
    <3>4. draft'.open = IF opens THEN {r} ELSE {}
      BY <1>5, <3>2, <3>3
    <3> QED BY <1>14, <3>1, <3>3, <3>4 DEF Agrees
  <2> QED BY <2>1, <2>2
<1>8. ASSUME NEW d \in Calls PROVE IndexUntilLast(d)'
  <2> SUFFICES ASSUME Running(d)'
               PROVE  /\ ~OffIndex(store, d)'
                      /\ written' < Len(plan'[d].puts) =>
                           /\ draft'.open = store'.open /\ draft'.index = store'.index
                           /\ draft'.bears = store'.bears /\ draft'.finds = store'.finds
    BY DEF IndexUntilLast
  <2>1. Running(d)
    BY <1>1 DEF Running, CallTurn, Waiting
  <2>2. d = c
    BY <1>1, <2>1, OneTurn DEF Running
  <2>3. ~OffIndex(store, d)'
    BY <1>1, <1>5, <2>2 DEF OffIndex
  <2>4. ASSUME written' < Len(puts)
        PROVE  /\ draft'.open = draft.open /\ draft'.index = draft.index
               /\ draft'.bears = draft.bears /\ draft'.finds = draft.finds
    <3>1. r \notin Reservations /\ r \notin Named
      BY <1>1, <1>3, <1>6, <2>4 DEF Indexables
    <3> QED BY <1>9, <3>1 DEF Changes
  <2> QED BY <1>1, <1>5, <2>2, <2>3, <2>4 DEF puts
<1> QED BY <1>1, <1>7, <1>8 DEF AgreeInv, OneReceiptPerCommand, AnsweredInTurn,
                                ReadsSeeEarlierCalls

\* Every step of the store keeps the agreement.
LEMMA AgreeGoesOn == AgreeInv /\ [InventoryNext]_inventoryVars => AgreeInv'
<1> SUFFICES ASSUME AgreeInv, [InventoryNext]_inventoryVars PROVE AgreeInv'
  OBVIOUS
<1>1. CASE Call
  BY <1>1, CallAgreed
<1>2. ASSUME NEW c \in Calls, Serve(c) PROVE AgreeInv'
  BY <1>2, ReadAgrees, ReplayAgrees, RejectionAgrees, WriteAgrees, DriftAgrees,
     FinishAgrees DEF Serve
<1>3. CASE UNCHANGED inventoryVars
  <2>1. StoreInv'
    BY <1>3, StoreGoesOn DEF AgreeInv
  <2>2. /\ Agrees(store') /\ Agrees(draft') /\ draft'.receipts = store'.receipts
        /\ \A c \in Calls : LastIsIndexed(plan'[c].puts)
        /\ DOMAIN seen' = Calls
    BY <1>3 DEF inventoryVars, AgreeInv
  <2>3. \A c \in Calls : IndexUntilLast(c)'
    BY <1>3 DEF inventoryVars, AgreeInv, IndexUntilLast, OffIndex, Running, CallTurn, Waiting
  <2>4. OneReceiptPerCommand' /\ AnsweredInTurn' /\ ReadsSeeEarlierCalls'
    BY <1>3 DEF inventoryVars, AgreeInv, OneReceiptPerCommand, AnsweredInTurn,
                ReadsSeeEarlierCalls
  <2> QED BY <2>1, <2>2, <2>3, <2>4 DEF AgreeInv
<1> QED BY <1>1, <1>2, <1>3 DEF InventoryNext

\* The indexes find the order line's one active reservation, the managed SKU of
\* a visible SKU and the transfer of a reference, and nothing else; no two
\* receipts name one command, and a read sees just the calls made before it:
\* after every call,
\* for any number of calls, commands, records and operations
\* (memory-inventory-store.ts).
THEOREM TheStoreAgrees == InventorySpec => []StoreAgrees
<1>1. AgreeInv => StoreAgrees
  BY DEF AgreeInv, StoreAgrees, IndexFindsActive, NamesFindRecords, Agrees, NamesAgree,
         There
<1> QED BY <1>1, AgreeBegins, AgreeGoesOn, PTL DEF InventorySpec

-----------------------------------------------------------------------------
(***************************************************************************)
(* The queue never stops.  What a call waits for is its turn: a read is    *)
(* answered then; a transaction that has begun goes on with its next       *)
(* record, finds that it drifted, or is through; and one that would leave  *)
(* the order line's index alone has a command to refuse.  Ready(c) is what *)
(* the disjuncts of Serve(c) ask of a state, one by one.                   *)
(***************************************************************************)
MayWrite(c) ==
  /\ Running(c) /\ written < Len(plan[c].puts) /\ (written = 0 => ~OffIndex(store, c))
  /\ ~Stale(Source(c), plan[c].puts[written + 1], plan[c].name)
HasDrifted(c) ==
  /\ Running(c) /\ written < Len(plan[c].puts)
  /\ Stale(Source(c), plan[c].puts[written + 1], plan[c].name)

Ready(c) ==
  \/ CallTurn(c) /\ plan[c].kind = "read"
  \/ Running(c) /\ written = 0 /\ plan[c].command \in store.commands
  \/ Running(c) /\ written = 0 /\ plan[c].command \notin store.commands \cup {None}
  \/ MayWrite(c) \/ HasDrifted(c)
  \/ Running(c) /\ written = Len(plan[c].puts)

\* No call is served that is not ready.
LEMMA ServedWhenReady == ASSUME NEW c \in Calls, Serve(c) PROVE Ready(c)
BY DEF Serve, Ready, Read, Replay, StoreRejection, WriteNext, Drifts, Finish, MayWrite,
       HasDrifted

\* What touches a reservation or makes a transfer has a command.
Commanded(p) ==
  (\E i \in DOMAIN p.puts : p.puts[i].record \in Reservations \cup TransferRows) =>
    p.command # None

\* Every plan that writes one names a command.
LEMMA PlansCommanded ==
  ASSUME NEW kind \in CallKinds, NEW p \in Plans(kind)
  PROVE  Commanded(p)
<1>1. PICK command \in CommandsFor(kind), opens \in OpensFor(kind),
           name \in NamesFor(kind), rs \in Writes(kind) :
             p = Planned(kind, command, opens, name, rs)
  BY DEF Plans
<1>2. DOMAIN p.puts = DOMAIN rs /\ p.command = command
      /\ \A i \in DOMAIN rs : p.puts[i].record = rs[i]
  BY <1>1 DEF Planned
<1>3. CASE kind \in {"confirm", "read"}
  <2>1. ASSUME NEW i \in DOMAIN rs, rs[i] \in Reservations \cup TransferRows PROVE FALSE
    <3>1. CASE kind = "read"
      <4>1. rs = <<>>
        BY <3>1 DEF Writes
      <4> QED BY <4>1, <2>1
    <3>2. CASE kind = "confirm"
      <4>1. PICK k \in Confirmations : rs = <<k>>
        BY <3>2 DEF Writes, Confirmation
      <4>2. rs[i] = k
        BY <4>1
      <4> QED BY <2>1, <4>2, InventoryAssumption DEF Named
    <3> QED BY <1>3, <3>1, <3>2
  <2> QED BY <1>2, <2>1 DEF Commanded
<1>4. CASE kind \notin {"confirm", "read"}
  <2>1. command \in CommandIds
    BY <1>4 DEF CommandsFor
  <2> QED BY <1>2, <2>1, InventoryAssumption DEF Commanded
<1> QED BY <1>3, <1>4

AllCommanded == \A c \in Calls : Commanded(plan[c])

\* No call has planned anything at the start.
LEMMA CommandedAtFirst == InventoryInit => AllCommanded
BY DEF InventoryInit, AllCommanded, Commanded, NoPlan

\* Nobody plans to write a reservation without a command.
LEMMA StayCommanded ==
  ASSUME StoreInv, AllCommanded, [InventoryNext]_inventoryVars
  PROVE  AllCommanded'
<1>0. plan \in [Calls -> PlanRecords]
  BY DEF StoreInv, StoreTyped
<1>1. ASSUME NEW c, NEW p, plan' = [plan EXCEPT ![c] = p], Commanded(p) PROVE AllCommanded'
  <2>1. \A d \in Calls : plan'[d] \in {p, plan[d]}
    BY <1>0, <1>1
  <2>2. \A d \in Calls : Commanded(plan'[d])
    BY <1>1, <2>1 DEF AllCommanded
  <2> QED BY <2>2 DEF AllCommanded, Commanded
<1>2. CASE Call
  <2>1. PICK kind \in CallKinds : \E p \in Plans(kind) :
          plan' = [plan EXCEPT ![called + 1] = p]
    BY <1>2 DEF Call
  <2>2. PICK p \in Plans(kind) : plan' = [plan EXCEPT ![called + 1] = p]
    BY <2>1
  <2> QED BY <1>1, <2>2, PlansCommanded
<1>3. ASSUME NEW c \in Calls, Serve(c) PROVE AllCommanded'
  <2>1. UNCHANGED plan \/ plan' = [plan EXCEPT ![c] = NoPlan]
    BY <1>3 DEF Serve, Read, Replay, StoreRejection, WriteNext, Drifts, Finish, Answer
  <2>2. Commanded(NoPlan)
    BY DEF Commanded, NoPlan
  <2>3. CASE UNCHANGED plan
    BY <2>3 DEF AllCommanded, Commanded
  <2> QED BY <1>1, <2>1, <2>2, <2>3
<1>4. CASE UNCHANGED inventoryVars
  BY <1>4 DEF inventoryVars, AllCommanded, Commanded
<1> QED BY <1>2, <1>3, <1>4 DEF InventoryNext

\* The first of the calls that wait has its turn.
LEMMA FirstWaits ==
  ASSUME StoreInv, Waiting # {}
  PROVE  \E c \in Calls : CallTurn(c)
<1>1. Waiting \subseteq Nat /\ Waiting \subseteq Calls
  <2>1. MaxCalls \in Nat /\ called \in 0 .. MaxCalls
    BY InventoryAssumption DEF StoreInv, StoreTyped
  <2>2. 1 .. called \subseteq 1 .. MaxCalls /\ 1 .. called \subseteq Nat
    BY <2>1
  <2> QED BY <2>2 DEF Waiting, Calls
<1> DEFINE R == OpToRel(<, Nat)
<1>2. IsWellFoundedOn(R, Nat)
  BY NatLessThanWellFounded
<1>3. \A c, d \in Nat : <<d, c>> \in R <=> d < c
  BY DEF OpToRel
<1> HIDE DEF R
<1>4. PICK c \in Waiting : \A d \in Waiting : ~(<<d, c>> \in R)
  BY <1>1, <1>2, WFMin
<1>5. ASSUME NEW d \in Waiting PROVE c <= d
  <2>1. c \in Nat /\ d \in Nat /\ ~(<<d, c>> \in R)
    BY <1>1, <1>4
  <2>2. ~(d < c)
    BY <1>3, <2>1
  <2> QED BY <2>1, <2>2
<1> QED BY <1>1, <1>5 DEF CallTurn

\* It meets the guards of the next thing it has to do.
LEMMA SomeoneReady ==
  ASSUME StoreInv, AllCommanded, Waiting # {}
  PROVE  \E c \in Calls : Ready(c)
<1>1. PICK c \in Calls : CallTurn(c)
  BY FirstWaits
<1>2. plan[c].puts \in Seq(Puts) /\ Commanded(plan[c]) /\ written \in Nat
  BY DEF StoreInv, StoreTyped, PlanRecords, AllCommanded
<1>3. Len(plan[c].puts) \in Nat
  BY <1>2, SequenceOfPuts
<1>4. CASE plan[c].kind = "read"
  BY <1>1, <1>4 DEF Ready
<1>5. CASE plan[c].kind # "read"
  <2>1. Running(c)
    BY <1>1, <1>5 DEF Running
  <2>2. written <= Len(plan[c].puts)
    BY <1>2, <1>3, <2>1, DraftHolds DEF Holds
  <2>3. CASE written = Len(plan[c].puts)
    BY <2>1, <2>3 DEF Ready
  <2>4. CASE written < Len(plan[c].puts) /\ (written = 0 => ~OffIndex(store, c))
    BY <2>1, <2>4 DEF Ready, MayWrite, HasDrifted
  <2>5. CASE written = 0 /\ OffIndex(store, c)
    <3>1. plan[c].command # None
      BY <1>2, <2>5 DEF OffIndex, Commanded
    <3> QED BY <2>1, <2>5, <3>1 DEF Ready
  <2> QED BY <1>2, <1>3, <2>2, <2>3, <2>4, <2>5
<1> QED BY <1>4, <1>5

\* Whatever threw, was refused or names a version that is gone, one of the calls
\* that wait is ready to be served, for any calls, commands, records and
\* operations (memory-inventory-store.ts, transaction): CallsGoOn, put without
\* ENABLED.
THEOREM QueueNeverStops ==
  InventorySpec => [](Waiting # {} => \E c \in Calls : Ready(c))
<1>1. StoreInv /\ AllCommanded => (Waiting # {} => \E c \in Calls : Ready(c))
  BY SomeoneReady
<1>2. InventoryInit => StoreInv /\ AllCommanded
  BY StoreBegins, CommandedAtFirst
<1>3. StoreInv /\ AllCommanded /\ [InventoryNext]_inventoryVars
        => (StoreInv /\ AllCommanded)'
  BY StoreGoesOn, StayCommanded
<1> QED BY <1>1, <1>2, <1>3, PTL DEF InventorySpec

-----------------------------------------------------------------------------
\* Calls are numbered and served in turn, and each makes one receipt and moves
\* a record by one version at most: a call that is not answered yet has a
\* number above every receipt's and no lower than any version.
AnswerWords == {"none", "committed", "refused", "replayed", "threw", "read"}

CountsBelow ==
  /\ receiptCounter <= MaxCalls
  /\ \A r \in Records : store.version[r] <= MaxCalls + 1
  /\ \A c \in Calls : answer[c] = "none" =>
       receiptCounter < c /\ \A r \in Records : store.version[r] <= c

StoreWords ==
  /\ answer \in [Calls -> AnswerWords] /\ seen \in [Calls -> SUBSET Calls]
  /\ CountsBelow

\* The empty store is within its counts.
LEMMA StoreWordsAtFirst == InventoryInit => StoreWords
<1> SUFFICES ASSUME InventoryInit PROVE StoreWords
  OBVIOUS
<1>1. PICK stocked \in {0, 1}, reserved \in {0, 1} : store = StoreWith(stocked, reserved)
  BY DEF InventoryInit
<1>2. \A r \in Records : store.version[r] \in {0, 1}
  BY <1>1 DEF StoreWith
<1>3. MaxCalls \in Nat /\ receiptCounter = 0 /\ \A c \in Calls : c \in Nat /\ 1 <= c
  BY InventoryAssumption DEF InventoryInit, Calls
<1>4. CountsBelow
  BY <1>2, <1>3 DEF CountsBelow
<1> QED BY <1>4 DEF InventoryInit, StoreWords, AnswerWords

\* The draft is a version ahead of the store at most.
LEMMA DraftNearStore ==
  ASSUME StoreInv, NEW r \in Records
  PROVE  /\ draft.version[r] \in Nat /\ store.version[r] \in Nat
         /\ draft.version[r] <= store.version[r] + 1
<1>1. draft.version[r] \in Nat /\ store.version[r] \in Nat
  BY DEF StoreInv, StoreTyped, StoreRecords
<1>2. CASE Between
  BY <1>1, <1>2 DEF Between
<1>3. CASE Within
  <2>1. draft.version[r] \in {store.version[r], store.version[r] + 1}
    BY <1>3 DEF Within, Holds
  <2> QED BY <1>1, <2>1
<1> QED BY <1>2, <1>3 DEF StoreInv

\* The next number is below that of a call made later.
LEMMA NumberOne ==
  ASSUME NEW n \in Nat, NEW m \in Nat, NEW c \in Nat, NEW d \in Nat,
         n \in {m, m + 1}, m < c, c < d
  PROVE  n < d
OBVIOUS

\* A version one on is no higher than the number of a later call.
LEMMA VersionOne ==
  ASSUME NEW n \in Nat, NEW m \in Nat, NEW c \in Nat, NEW d \in Nat,
         n <= m + 1, m <= c, c < d
  PROVE  n <= d
OBVIOUS

\* A call that is answered.
LEMMA AnswerCounts ==
  ASSUME AgreeInv, StoreWords, NEW c \in Calls, CallTurn(c), NEW how \in AnswerWords \ {"none"},
         answer' = [answer EXCEPT ![c] = how],
         receiptCounter' \in {receiptCounter, receiptCounter + 1},
         \A r \in Records : /\ store'.version[r] \in Nat
                            /\ store'.version[r] <= store.version[r] + 1
  PROVE  answer' \in [Calls -> AnswerWords] /\ CountsBelow'
<1>1. /\ MaxCalls \in Nat /\ receiptCounter \in Nat
      /\ \A d \in Calls : d \in Nat /\ d <= MaxCalls
      /\ \A r \in Records : store.version[r] \in Nat
  BY InventoryAssumption DEF AgreeInv, StoreInv, StoreTyped, StoreRecords, Calls
<1>2. /\ answer[c] = "none" /\ receiptCounter < c
      /\ \A r \in Records : store.version[r] <= c
  BY DEF CallTurn, Waiting, StoreWords, CountsBelow
<1>3. answer' \in [Calls -> AnswerWords] /\ answer'[c] # "none"
  BY DEF StoreWords
<1>4. ASSUME NEW d \in Calls, answer'[d] = "none" PROVE c < d
  <2>1. d # c /\ answer[d] = "none"
    BY <1>3, <1>4 DEF StoreWords
  <2>2. ~(d < c)
    <3> SUFFICES ASSUME d < c PROVE FALSE
      OBVIOUS
    <3>1. c \in 1 .. called /\ called \in Nat
      BY InventoryAssumption DEF CallTurn, Waiting, AgreeInv, StoreInv, StoreTyped
    <3>2. d \in 1 .. called
      BY <1>1, <3>1 DEF Calls
    <3>3. d \in Waiting
      BY <2>1, <3>2 DEF Waiting
    <3> QED BY <1>1, <3>3 DEF CallTurn
  <2> QED BY <1>1, <2>1, <2>2
<1>5. receiptCounter' \in Nat /\ receiptCounter' <= MaxCalls
  BY <1>1, <1>2
<1>6. \A r \in Records : store'.version[r] <= MaxCalls + 1
  BY <1>1, <1>2
<1>7. ASSUME NEW d \in Calls, answer'[d] = "none"
      PROVE  receiptCounter' < d /\ \A r \in Records : store'.version[r] <= d
  <2>1. c < d /\ c \in Nat /\ d \in Nat
    BY <1>1, <1>4, <1>7
  <2>2. receiptCounter' < d
    BY <1>1, <1>2, <1>5, <2>1, NumberOne
  <2>3. ASSUME NEW r \in Records PROVE store'.version[r] <= d
    BY <1>1, <1>2, <2>1, VersionOne
  <2> QED BY <2>2, <2>3
<1> QED BY <1>3, <1>5, <1>6, <1>7 DEF CountsBelow

\* The call that is served moves versions and numbers one on at most.
LEMMA ServeCounts ==
  ASSUME AgreeInv, StoreWords, NEW c \in Calls, Serve(c)
  PROVE  StoreWords'
<1>0. StoreInv /\ \A r \in Records : /\ store.version[r] \in Nat /\ draft.version[r] \in Nat
                                     /\ draft.version[r] <= store.version[r] + 1
  BY DraftNearStore DEF AgreeInv
<1>1. ASSUME store'.version = store.version
      PROVE  \A r \in Records : /\ store'.version[r] \in Nat
                               /\ store'.version[r] <= store.version[r] + 1
  BY <1>0, <1>1
<1>2. CASE WriteNext(c)
  BY <1>2 DEF WriteNext, Draft, StoreWords, CountsBelow
<1>3. CASE Read(c)
  <2>0. /\ answer' = [answer EXCEPT ![c] = "read"] /\ CallTurn(c)
        /\ receiptCounter' = receiptCounter /\ store'.version = store.version
    BY <1>3 DEF Read, Answer
  <2>1. answer' \in [Calls -> AnswerWords] /\ CountsBelow'
    BY <1>1, <2>0, AnswerCounts DEF AnswerWords
  <2>2. seen' \in [Calls -> SUBSET Calls]
    BY <1>3 DEF Read, StoreWords
  <2> QED BY <2>1, <2>2 DEF StoreWords
<1>4. CASE Replay(c) \/ Drifts(c)
  <2>1. PICK how \in {"replayed", "threw"} : answer' = [answer EXCEPT ![c] = how]
    BY <1>4 DEF Replay, Drifts, Answer
  <2>2. /\ UNCHANGED <<store, receiptCounter, seen>> /\ CallTurn(c)
        /\ receiptCounter' = receiptCounter /\ store'.version = store.version
    BY <1>4 DEF Replay, Drifts, Running
  <2>3. answer' \in [Calls -> AnswerWords] /\ CountsBelow'
    BY <1>1, <2>1, <2>2, AnswerCounts DEF AnswerWords
  <2> QED BY <2>2, <2>3 DEF StoreWords
<1>5. CASE StoreRejection(c)
  <2>1. store'.version = store.version
    BY <1>0, <1>5, RejectionStores
  <2>2. /\ answer' = [answer EXCEPT ![c] = "refused"] /\ CallTurn(c)
        /\ receiptCounter' = receiptCounter
    BY <1>5 DEF StoreRejection, Running, Answer
  <2>3. answer' \in [Calls -> AnswerWords] /\ CountsBelow'
    BY <1>1, <2>1, <2>2, AnswerCounts DEF AnswerWords
  <2> QED BY <1>5, <2>3 DEF StoreRejection, StoreWords
<1>6. CASE Finish(c)
  <2>1. store'.version \in {store.version, draft.version}
    BY <1>0, <1>6, FinishStores DEF Finish
  <2>2. PICK how \in {"committed", "threw"} : answer' = [answer EXCEPT ![c] = how]
    BY <1>6 DEF Finish, Answer
  <2>3. receiptCounter' \in {receiptCounter, receiptCounter + 1} /\ CallTurn(c)
    BY <1>6 DEF Finish, Running
  <2>4. \A r \in Records : /\ store'.version[r] \in Nat
                           /\ store'.version[r] <= store.version[r] + 1
    BY <1>0, <2>1
  <2>5. answer' \in [Calls -> AnswerWords] /\ CountsBelow'
    BY <2>2, <2>3, <2>4, AnswerCounts DEF AnswerWords
  <2> QED BY <1>6, <2>5 DEF Finish, StoreWords
<1> QED BY <1>2, <1>3, <1>4, <1>5, <1>6 DEF Serve

\* Every step stays within the counts.
LEMMA StoreWordsStay ==
  ASSUME AgreeInv, StoreWords, [InventoryNext]_inventoryVars
  PROVE  StoreWords'
<1>1. CASE Call \/ UNCHANGED inventoryVars
  BY <1>1 DEF Call, inventoryVars, StoreWords, CountsBelow
<1> QED BY <1>1, ServeCounts DEF InventoryNext

\* A store whose versions are within the bound is one of the instance's.
LEMMA StoreFits ==
  ASSUME NEW s \in StoreRecords, \A r \in Records : s.version[r] \in Versions
  PROVE  s \in StoreStates
<1>1. s.version \in [Records -> Versions]
  BY DEF StoreRecords
<1> QED BY <1>1 DEF StoreRecords, StoreStates

\* What the counts come to is the type invariant.
LEMMA InventoryTypes == AgreeInv /\ StoreWords => InventoryTypeOK
<1> SUFFICES ASSUME AgreeInv, StoreWords PROVE InventoryTypeOK
  OBVIOUS
<1>1. /\ StoreInv /\ store \in StoreRecords /\ draft \in StoreRecords /\ MaxCalls \in Nat
      /\ written \in Nat /\ receiptCounter \in 0 .. MaxCalls /\ called \in 0 .. MaxCalls
  BY InventoryAssumption DEF AgreeInv, StoreInv, StoreTyped, StoreWords, CountsBelow
<1>2. ASSUME NEW r \in Records
      PROVE  store.version[r] \in Versions /\ draft.version[r] \in Versions
  <2>1. /\ draft.version[r] \in Nat /\ store.version[r] \in Nat
        /\ draft.version[r] <= store.version[r] + 1 /\ store.version[r] <= MaxCalls + 1
    BY <1>1, DraftNearStore DEF StoreWords, CountsBelow
  <2> QED BY <1>1, <2>1 DEF Versions
<1>3. store \in StoreStates /\ draft \in StoreStates
  BY <1>1, <1>2, StoreFits
<1>4. \A c \in Calls : plan[c].kind \in CallKinds \cup {"none"}
  BY <1>1 DEF StoreInv, StoreTyped, PlanRecords
<1> QED BY <1>1, <1>3, <1>4 DEF InventoryTypeOK, StoreWords, AnswerWords
-----------------------------------------------------------------------------
(***************************************************************************)
(* ManagedStock.  Changes are taken in turn, so the command of the one     *)
(* that is under way was planned from the balance as it is; and what a     *)
(* change was answered is what Inventory keeps of its command.             *)
(***************************************************************************)
LogRecords ==
  [delta : Deltas \cup {0}, expected : Nat,
   result : {"none", "committed", "drifted", "short"}]

HasFields(request) == DOMAIN request = {"asks", "command", "value", "at", "shows"}

StockTyped ==
  /\ bootstrap \in 0 .. Rejected /\ onHand \in Int /\ version \in Nat
  /\ inventoryLog \in [StockCommands -> LogRecords]
  /\ inputs \in [StockCommands -> Deltas \cup {0}]
  /\ commands \in [StockCommands -> Nat]
  /\ DOMAIN requests = StockCalls
  /\ \A r \in StockCalls : HasFields(requests[r])

Logged(m) == inventoryLog[m].result # "none"
Adjusts(r) == requests[r].asks = "adjust" /\ requests[r].at = "adjust"

\* A change under way is the only one, and is planned from the balance.
UnderWay(r) ==
  LET m == requests[r].command IN
  /\ inputs[m] = requests[r].value /\ Known(m) /\ Turn(r)
  /\ ~Logged(m) => commands[m] = version

\* What a request was answered.
Told(r) ==
  LET m == requests[r].command IN
  /\ requests[r].at \in {"show", "balance", "answered"} =>
       inventoryLog[m].result = "committed"
  /\ requests[r].at = "refused" => inventoryLog[m].result = "short"
  /\ requests[r].at = "unbooted" => bootstrap = Rejected
  /\ requests[r].at \in {"show", "balance", "answered", "refused"} =>
       inputs[m] = requests[r].value

RequestsInOrder ==
  /\ \A r \in StockCalls :
       requests[r].asks = "adjust" => /\ requests[r].at # "none"
                                      /\ requests[r].command \in StockCommands
                                      /\ requests[r].value \in Deltas
  /\ \A r \in StockCalls : requests[r].at = "adjust" => requests[r].asks = "adjust"
  /\ \A q, r \in StockCalls :
       q < r /\ requests[q].at = "none" => requests[r].at = "none"

LogIsTrue ==
  \A m \in StockCommands :
    /\ Known(m) <=> inputs[m] # 0
    /\ inventoryLog[m].result # "drifted"
    /\ Logged(m) => /\ Known(m)
                    /\ inventoryLog[m].delta = inputs[m]
                    /\ inventoryLog[m].expected = commands[m]
    /\ Known(m) /\ ~Logged(m) =>
         \E r \in StockCalls : Adjusts(r) /\ requests[r].command = m

\* Nothing is asked of Inventory before the balance is open.
NothingEarly ==
  IF bootstrap = Booted THEN version # 0
  ELSE \A m \in StockCommands : ~Known(m)

StockInv ==
  /\ StockTyped /\ RequestsInOrder /\ LogIsTrue /\ NothingEarly /\ StockAddsUp
  /\ \A r \in StockCalls : /\ Adjusts(r) => UnderWay(r)
                           /\ requests[r].asks = "adjust" => Told(r)

-----------------------------------------------------------------------------
\* The invariant of the stock holds before any adjustment.
LEMMA StockBegins == StockInit => StockInv
<1> SUFFICES ASSUME StockInit PROVE StockInv
  OBVIOUS
<1>1. StockTyped /\ RequestsInOrder
  BY DEF StockInit, StockTyped, HasFields, LogRecords, Deltas, Booted, Rejected, StockCalls,
         Unasked, RequestsInOrder
<1>2. LogIsTrue /\ NothingEarly
  BY DEF StockInit, LogIsTrue, NothingEarly, Known, Logged, Booted
<1>3. StockAddsUp
  BY DEF StockInit, StockAddsUp, Committed, Booted
<1> QED BY <1>1, <1>2, <1>3 DEF StockInit, StockInv, Adjusts, Unasked

\* The change that is under way is the only one.
LEMMA OneAdjusts ==
  ASSUME StockInv, NEW q \in StockCalls, NEW r \in StockCalls, Adjusts(q),
         Adjusts(r) \/ (requests[r].asks = "adjust" /\ requests[r].at = "waiting" /\ Turn(r))
  PROVE  q = r
<1>1. Turn(q) /\ Turn(r)
  BY DEF StockInv, UnderWay
<1>2. q \in Nat /\ r \in Nat
  BY StockAssumption DEF StockCalls
<1> QED BY <1>1, <1>2 DEF Turn, Adjusts, Ended

\* A request moves and leaves the stock as it is.
LEMMA StockRests ==
  ASSUME StockInv, NEW r \in StockCalls,
         DOMAIN requests' = StockCalls, HasFields(requests'[r]),
         \A q \in StockCalls \ {r} : requests'[q] = requests[q],
         requests'[r].asks = requests[r].asks,
         requests[r].asks = "adjust" =>
           /\ requests'[r].command = requests[r].command
           /\ requests'[r].value = requests[r].value
           /\ requests[r].at \in {"show", "balance"}
           /\ requests'[r].at \in {"balance", "answered"},
         requests'[r].at \notin {"none", "adjust"}, requests[r].at \notin {"none", "adjust"},
         UNCHANGED <<bootstrap, onHand, version, inventoryLog, inputs, commands>>
  PROVE  StockInv'
<1>1. /\ DOMAIN requests' = StockCalls /\ HasFields(requests'[r])
      /\ \A q \in StockCalls \ {r} : requests'[q] = requests[q]
  OBVIOUS
<1>2. StockTyped' /\ NothingEarly' /\ StockAddsUp'
  BY <1>1 DEF StockInv, StockTyped, NothingEarly, StockAddsUp, Committed, Known
<1>3. RequestsInOrder'
  <2>1. \A q \in StockCalls : /\ requests'[q].asks = requests[q].asks
                              /\ requests'[q].asks = "adjust" =>
                                   /\ requests'[q].command = requests[q].command
                                   /\ requests'[q].value = requests[q].value
                                   /\ requests'[q].at # "none"
                              /\ requests'[q].at = "none" => requests[q].at = "none"
                              /\ requests'[q].at = "adjust" => requests[q].at = "adjust"
    BY <1>1 DEF StockInv, RequestsInOrder
  <2>2. \A q \in StockCalls : requests[q].at = "none" => requests'[q].at = "none"
    BY <1>1
  <2> QED BY <2>1, <2>2, <1>1 DEF StockInv, RequestsInOrder
<1>4. \A q \in StockCalls : Adjusts(q)' <=> Adjusts(q)
  BY <1>1 DEF Adjusts
<1>5. LogIsTrue'
  BY <1>1, <1>4 DEF StockInv, LogIsTrue, Known, Logged, Adjusts
<1>6. ASSUME NEW q \in StockCalls, Adjusts(q) PROVE UnderWay(q)'
  <2>1. requests'[q] = requests[q]
    BY <1>1, <1>6 DEF Adjusts
  <2>2. Turn(q)'
    <3> SUFFICES ASSUME NEW o \in StockCalls, o < q,
                        requests'[o].asks = requests'[q].asks
                 PROVE  requests'[o].at \in Ended
      BY DEF Turn
    <3>1. requests[o].asks = requests[q].asks
      BY <1>1, <2>1
    <3>2. requests[o].at \in Ended /\ requests[o].asks = "adjust"
      BY <1>6, <3>1 DEF StockInv, UnderWay, Turn, Adjusts
    <3> QED BY <1>1, <3>2 DEF Ended
  <2> QED BY <1>6, <2>1, <2>2 DEF StockInv, UnderWay, Known, Logged
<1>7. ASSUME NEW q \in StockCalls, requests'[q].asks = "adjust" PROVE Told(q)'
  BY <1>1, <1>7 DEF StockInv, Told
<1> QED BY <1>2, <1>3, <1>4, <1>5, <1>6, <1>7 DEF StockInv

\* Requests are made in their order, each once.
LEMMA AskedInOrder ==
  ASSUME StockInv, NEW r \in StockCalls, requests[r].at = "none",
         \A q \in StockCalls : q < r => requests[q].at # "none",
         NEW next, StockBecomes(r, next), HasFields(next),
         next.at \in {"waiting", "show"},
         next.asks = "adjust" => /\ next.at = "waiting"
                                 /\ next.command \in StockCommands
                                 /\ next.value \in Deltas,
         UNCHANGED <<bootstrap, onHand, version, inventoryLog, inputs, commands>>
  PROVE  StockInv'
<1>1. requests'[r] = next /\ DOMAIN requests' = StockCalls
      /\ \A q \in StockCalls \ {r} : requests'[q] = requests[q]
  BY DEF StockBecomes, StockInv, StockTyped
<1>2. StockTyped' /\ NothingEarly' /\ StockAddsUp'
  BY <1>1 DEF StockInv, StockTyped, NothingEarly, StockAddsUp, Committed, Known
<1>3. RequestsInOrder'
  <2>1. \A q, o \in StockCalls :
          q < o /\ requests'[q].at = "none" => requests'[o].at = "none"
    <3> SUFFICES ASSUME NEW q \in StockCalls, NEW o \in StockCalls, q < o,
                        requests'[q].at = "none"
                 PROVE  requests'[o].at = "none"
      OBVIOUS
    <3>1. q # r /\ requests[q].at = "none"
      BY <1>1
    <3>2. requests[o].at = "none"
      BY <3>1 DEF StockInv, RequestsInOrder
    <3>3. o # r
      BY <1>1, <3>1
    <3> QED BY <1>1, <3>2, <3>3
  <2> QED BY <1>1, <2>1 DEF StockInv, RequestsInOrder
<1>4. \A q \in StockCalls : Adjusts(q)' <=> Adjusts(q)
  BY <1>1 DEF Adjusts
<1>5. LogIsTrue'
  <2>1. \A q \in StockCalls : Adjusts(q) => requests'[q] = requests[q]
    BY <1>1 DEF Adjusts
  <2> QED BY <1>1, <1>4, <2>1 DEF StockInv, LogIsTrue, Known, Logged
<1>6. ASSUME NEW q \in StockCalls, Adjusts(q) PROVE UnderWay(q)'
  <2>1. q # r /\ requests'[q] = requests[q] /\ ~(r < q)
    BY <1>1, <1>6 DEF Adjusts, StockInv, RequestsInOrder
  <2>2. Turn(q)'
    <3> SUFFICES ASSUME NEW o \in StockCalls, o < q,
                        requests'[o].asks = requests'[q].asks
                 PROVE  requests'[o].at \in Ended
      BY DEF Turn
    <3> QED BY <1>1, <1>6, <2>1 DEF StockInv, UnderWay, Turn
  <2> QED BY <1>1, <1>6, <2>1, <2>2 DEF StockInv, UnderWay, Known, Logged
<1>7. ASSUME NEW q \in StockCalls, requests'[q].asks = "adjust" PROVE Told(q)'
  BY <1>1, <1>7 DEF StockInv, Told
<1> QED BY <1>2, <1>3, <1>4, <1>5, <1>6, <1>7 DEF StockInv

\* A request that is made changes no stock.
LEMMA AsksKeep ==
  ASSUME StockInv, NEW r \in StockCalls, Ask(r)
  PROVE  StockInv'
<1>1. /\ requests[r].at = "none" /\ \A q \in StockCalls : q < r => requests[q].at # "none"
      /\ UNCHANGED <<bootstrap, onHand, version, inventoryLog, inputs, commands>>
  BY DEF Ask
<1>2. CASE \E m \in StockCommands, d \in Deltas :
             StockBecomes(r, [Unasked EXCEPT !.asks = "adjust", !.command = m,
                                             !.value = d, !.at = "waiting"])
  <2> PICK m \in StockCommands, d \in Deltas :
             StockBecomes(r, [Unasked EXCEPT !.asks = "adjust", !.command = m,
                                             !.value = d, !.at = "waiting"])
    BY <1>2
  <2> DEFINE next == [Unasked EXCEPT !.asks = "adjust", !.command = m,
                                     !.value = d, !.at = "waiting"]
  <2>2. StockBecomes(r, next)
    OBVIOUS
  <2>3. HasFields(next) /\ next.asks = "adjust" /\ next.command = m /\ next.value = d
        /\ next.at = "waiting"
    BY DEF Unasked, HasFields
  <2> HIDE DEF next
  <2> QED BY <1>1, <2>2, <2>3, AskedInOrder
<1>3. CASE \E s \in Statuses :
             StockBecomes(r, [Unasked EXCEPT !.asks = "status", !.value = s,
                                             !.at = "waiting"])
  <2> PICK s \in Statuses :
             StockBecomes(r, [Unasked EXCEPT !.asks = "status", !.value = s,
                                             !.at = "waiting"])
    BY <1>3
  <2> DEFINE next == [Unasked EXCEPT !.asks = "status", !.value = s, !.at = "waiting"]
  <2>2. StockBecomes(r, next)
    OBVIOUS
  <2>3. HasFields(next) /\ next.asks = "status" /\ next.at = "waiting"
    BY DEF Unasked, HasFields
  <2> HIDE DEF next
  <2> QED BY <1>1, <2>2, <2>3, AskedInOrder
<1>4. CASE StockBecomes(r, [Unasked EXCEPT !.asks = "read", !.at = "show"])
  <2> DEFINE next == [Unasked EXCEPT !.asks = "read", !.at = "show"]
  <2>2. StockBecomes(r, next)
    BY <1>4
  <2>3. HasFields(next) /\ next.asks = "read" /\ next.at = "show"
    BY DEF Unasked, HasFields
  <2> HIDE DEF next
  <2> QED BY <1>1, <2>2, <2>3, AskedInOrder
<1> QED BY <1>2, <1>3, <1>4 DEF Ask

\* A request that goes on to a stage keeps what it asks.
LEMMA StageChanges ==
  ASSUME StockTyped, NEW r \in StockCalls, NEW at, StockGoto(r, at)
  PROVE  /\ HasFields(requests'[r]) /\ requests'[r].asks = requests[r].asks
         /\ requests'[r].command = requests[r].command
         /\ requests'[r].value = requests[r].value /\ requests'[r].at = at
         /\ \A q \in StockCalls \ {r} : requests'[q] = requests[q]
         /\ DOMAIN requests' = StockCalls
<1> DEFINE next == requests'[r]
<1>1. /\ next = [requests[r] EXCEPT !.at = at] /\ DOMAIN requests' = StockCalls
      /\ \A q \in StockCalls \ {r} : requests'[q] = requests[q]
  BY DEF StockGoto, StockBecomes, StockTyped
<1> QED BY <1>1 DEF StockTyped, HasFields

\* The one change whose turn it is is planned, or found misused.
LEMMA PlansKeep ==
  ASSUME StockInv, NEW r \in StockCalls, PlanAdjustment(r)
  PROVE  StockInv'
<1> DEFINE m == requests[r].command
           d == requests[r].value
           next == requests'[r]
<1>1. /\ requests[r].asks = "adjust" /\ requests[r].at = "waiting" /\ Turn(r)
      /\ m \in StockCommands /\ d \in Deltas /\ d # 0 /\ bootstrap = Booted /\ version # 0
      /\ \A q \in StockCalls \ {r} : requests'[q] = requests[q]
      /\ DOMAIN requests' = StockCalls /\ HasFields(next)
      /\ next.asks = "adjust" /\ next.command = m /\ next.value = d
      /\ next.at \in {"misused", "adjust"}
      /\ UNCHANGED <<bootstrap, onHand, version, inventoryLog>>
  <2>1. StockGoto(r, "misused") \/ StockGoto(r, "adjust")
    BY DEF PlanAdjustment
  <2>2. /\ requests[r].asks = "adjust" /\ requests[r].at = "waiting" /\ Turn(r)
        /\ bootstrap = Booted /\ UNCHANGED <<bootstrap, onHand, version, inventoryLog>>
    BY DEF PlanAdjustment
  <2>3. m \in StockCommands /\ d \in Deltas /\ d # 0 /\ version # 0
    BY <2>2 DEF StockInv, RequestsInOrder, NothingEarly, Deltas
  <2>4. StockTyped
    BY DEF StockInv
  <2> QED BY <2>1, <2>2, <2>3, <2>4, StageChanges
<1>2. RequestsInOrder'
  <2>1. \A q \in StockCalls : requests'[q].at = "none" <=> requests[q].at = "none"
    BY <1>1
  <2>2. \A q, o \in StockCalls :
          q < o /\ requests'[q].at = "none" => requests'[o].at = "none"
    BY <2>1 DEF StockInv, RequestsInOrder
  <2> QED BY <1>1, <2>2 DEF StockInv, RequestsInOrder
<1>3. \A q \in StockCalls : ~Adjusts(q)
  BY <1>1, OneAdjusts DEF Adjusts
<1>4. Known(m) => Logged(m)
  BY <1>1, <1>3 DEF StockInv, LogIsTrue
<1>5. CASE inputs[m] \notin {0, d}
  <2>1. next.at = "misused" /\ UNCHANGED <<inputs, commands>>
    BY <1>5, StageChanges DEF PlanAdjustment, StockInv
  <2>2. StockTyped' /\ NothingEarly' /\ StockAddsUp'
    BY <1>1, <2>1 DEF StockInv, StockTyped, NothingEarly, StockAddsUp, Committed, Known
  <2>3. LogIsTrue'
    BY <1>1, <1>3, <2>1 DEF StockInv, LogIsTrue, Known, Logged
  <2>4. \A q \in StockCalls : ~Adjusts(q)'
    BY <1>1, <1>3, <2>1 DEF Adjusts
  <2>5. ASSUME NEW q \in StockCalls, requests'[q].asks = "adjust" PROVE Told(q)'
    BY <1>1, <2>1, <2>5 DEF StockInv, Told
  <2> QED BY <1>2, <2>2, <2>3, <2>4, <2>5 DEF StockInv
<1>6. CASE inputs[m] \in {0, d}
  <2>1. /\ next.at = "adjust" /\ inputs' = [inputs EXCEPT ![m] = d]
        /\ commands' = IF Known(m) THEN commands ELSE [commands EXCEPT ![m] = version]
    BY <1>6, StageChanges DEF PlanAdjustment, StockInv
  <2>2. /\ inputs'[m] = d /\ \A n \in StockCommands \ {m} : inputs'[n] = inputs[n]
        /\ \A n \in StockCommands \ {m} : commands'[n] = commands[n]
        /\ commands'[m] = IF Known(m) THEN commands[m] ELSE version
        /\ Known(m) => inputs[m] = d
    BY <1>1, <1>6, <2>1 DEF StockInv, StockTyped, LogIsTrue
  <2>3. StockTyped' /\ NothingEarly'
    BY <1>1, <2>1 DEF StockInv, StockTyped, NothingEarly
  <2>4. \A n \in StockCommands : inputs[n] # 0 => inputs'[n] = inputs[n]
    BY <1>6, <2>2
  <2>5. StockAddsUp'
    <3>1. Committed' = Committed /\ \A n \in Committed : inputs'[n] = inputs[n]
      BY <1>1, <2>4 DEF Committed, StockInv, LogIsTrue, Logged
    <3> QED BY <1>1, <3>1 DEF StockInv, StockAddsUp
  <2>6. Known(m)' /\ \A n \in StockCommands \ {m} : Known(n)' <=> Known(n)
    BY <1>1, <2>2 DEF Known
  <2>7. Adjusts(r)' /\ \A q \in StockCalls \ {r} : ~Adjusts(q)'
    BY <1>1, <1>3, <2>1 DEF Adjusts
  <2>8. LogIsTrue'
    <3> SUFFICES ASSUME NEW n \in StockCommands
                 PROVE  /\ Known(n)' <=> inputs'[n] # 0
                        /\ inventoryLog'[n].result # "drifted"
                        /\ Logged(n)' => /\ Known(n)'
                                         /\ inventoryLog'[n].delta = inputs'[n]
                                         /\ inventoryLog'[n].expected = commands'[n]
                        /\ Known(n)' /\ ~Logged(n)' =>
                             \E q \in StockCalls : Adjusts(q)' /\ requests'[q].command = n
      BY DEF LogIsTrue
    <3>1. CASE n = m
      BY <1>1, <1>4, <2>2, <2>6, <2>7, <3>1 DEF StockInv, LogIsTrue, Logged
    <3>2. CASE n # m
      BY <1>1, <1>3, <2>2, <2>6, <3>2 DEF StockInv, LogIsTrue, Logged
    <3> QED BY <3>1, <3>2
  <2>9. UnderWay(r)'
    <3>1. Turn(r)'
      BY <1>1 DEF Turn, StockCalls
    <3>2. ~Logged(m)' => commands'[m] = version'
      BY <1>1, <1>4, <2>2 DEF Logged
    <3> QED BY <1>1, <2>2, <2>6, <3>1, <3>2 DEF UnderWay
  <2>10. ASSUME NEW q \in StockCalls, requests'[q].asks = "adjust" PROVE Told(q)'
    <3>1. CASE q = r
      BY <2>1, <3>1 DEF Told
    <3>2. CASE q # r
      <4>1. requests'[q] = requests[q] /\ Told(q) /\ requests[q].command \in StockCommands
            /\ requests[q].value # 0
        BY <1>1, <2>10, <3>2 DEF StockInv, RequestsInOrder, Deltas
      <4> QED BY <1>1, <2>4, <4>1 DEF Told
    <3> QED BY <3>1, <3>2
  <2> QED BY <1>2, <2>3, <2>5, <2>7, <2>8, <2>9, <2>10 DEF StockInv
<1> QED BY <1>5, <1>6

\* Inventory answers a command it knows as before, and commits or refuses a new
\* one, which is of the balance's own version.
LEMMA AdjustsKeep ==
  ASSUME StockInv, NEW r \in StockCalls, AdjustStock(r)
  PROVE  StockInv'
<1> DEFINE m == requests[r].command
           d == requests[r].value
           next == requests'[r]
           goes(at) == StockGoto(r, at)
<1>1. /\ Adjusts(r) /\ UnderWay(r) /\ m \in StockCommands /\ d \in Deltas /\ d # 0
      /\ UNCHANGED <<bootstrap, inputs, commands>>
  BY DEF AdjustStock, StockInv, RequestsInOrder, Adjusts, Deltas
<1>2. goes("show") \/ goes("refused")
  BY DEF AdjustStock
<1>3. /\ \A q \in StockCalls \ {r} : requests'[q] = requests[q]
      /\ DOMAIN requests' = StockCalls /\ HasFields(next)
      /\ next.asks = "adjust" /\ next.command = m /\ next.value = d
      /\ next.at \in {"show", "refused"}
      /\ next.at = "show" <=> goes("show")
  BY <1>1, <1>2, StageChanges DEF StockInv, Adjusts
<1>4. RequestsInOrder'
  <2>1. \A q \in StockCalls : requests'[q].at = "none" <=> requests[q].at = "none"
    BY <1>1, <1>3 DEF Adjusts
  <2>2. \A q, o \in StockCalls :
          q < o /\ requests'[q].at = "none" => requests'[o].at = "none"
    BY <2>1 DEF StockInv, RequestsInOrder
  <2> QED BY <1>1, <1>3, <2>2 DEF StockInv, RequestsInOrder
<1>5. \A q \in StockCalls : ~Adjusts(q)'
  BY <1>1, <1>3, OneAdjusts DEF Adjusts
<1>6. bootstrap = Booted /\ version # 0
  BY <1>1 DEF StockInv, NothingEarly, UnderWay
<1>7. CASE Logged(m)
  <2>1. UNCHANGED <<onHand, version, inventoryLog>>
    BY <1>7 DEF AdjustStock, Logged
  <2>2. next.at = IF inventoryLog[m].result = "committed" THEN "show" ELSE "refused"
    <3>1. inventoryLog[m].delta = d /\ inventoryLog[m].expected = commands[m]
      BY <1>1, <1>7 DEF StockInv, LogIsTrue, UnderWay
    <3>2. StockGoto(r, IF inventoryLog[m].result = "committed" THEN "show" ELSE "refused")
      BY <1>7, <3>1 DEF AdjustStock, Logged
    <3> QED BY <3>2, StageChanges DEF StockInv
  <2>3. inventoryLog[m].result \in {"committed", "short"} /\ inputs[m] = d
    BY <1>1, <1>7 DEF StockInv, StockTyped, LogRecords, LogIsTrue, Logged, UnderWay
  <2>4. StockTyped' /\ NothingEarly' /\ StockAddsUp'
    BY <1>1, <1>3, <2>1 DEF StockInv, StockTyped, NothingEarly, StockAddsUp, Committed, Known
  <2>5. LogIsTrue'
    <3> SUFFICES ASSUME NEW n \in StockCommands, Known(n), ~Logged(n)
                 PROVE  FALSE
      BY <1>1, <2>1 DEF StockInv, LogIsTrue, Known, Logged
    <3> QED BY <1>1, <1>7, OneAdjusts DEF StockInv, LogIsTrue
  <2>6. ASSUME NEW q \in StockCalls, requests'[q].asks = "adjust" PROVE Told(q)'
    BY <1>1, <1>3, <2>1, <2>2, <2>3, <2>6 DEF StockInv, Told
  <2> QED BY <1>4, <1>5, <2>4, <2>5, <2>6 DEF StockInv
<1>8. CASE ~Logged(m)
  <2> DEFINE result == IF onHand + d < 0 THEN "short" ELSE "committed"
  <2>1. /\ inventoryLog' = [inventoryLog EXCEPT ![m] =
             [delta |-> d, expected |-> commands[m], result |-> result]]
        /\ result = "committed" =>
             onHand' = onHand + d /\ version' = version + 1 /\ goes("show")
        /\ result = "short" => goes("refused") /\ UNCHANGED <<onHand, version>>
    BY <1>1, <1>8 DEF AdjustStock, Logged, UnderWay
  <2>2. /\ inventoryLog'[m] = [delta |-> d, expected |-> commands[m], result |-> result]
        /\ \A n \in StockCommands \ {m} : inventoryLog'[n] = inventoryLog[n]
        /\ DOMAIN inventoryLog' = StockCommands
        /\ inputs[m] = d /\ Known(m)
    BY <1>1, <2>1 DEF StockInv, StockTyped, UnderWay
  <2>3. next.at = IF result = "committed" THEN "show" ELSE "refused"
    BY <2>1, StageChanges DEF StockInv
  <2>4. StockTyped' /\ NothingEarly'
    <3>1. inventoryLog'[m] \in LogRecords
      BY <1>1, <2>2 DEF StockInv, StockTyped, LogRecords
    <3>2. onHand' \in Int /\ version' \in Nat /\ version' # 0
      BY <1>1, <1>6, <2>1 DEF StockInv, StockTyped, Deltas
    <3> QED BY <1>1, <1>3, <1>6, <2>1, <3>1, <3>2 DEF StockInv, StockTyped, NothingEarly
  <2>5. LogIsTrue'
    <3> SUFFICES ASSUME NEW n \in StockCommands
                 PROVE  /\ Known(n)' <=> inputs'[n] # 0
                        /\ inventoryLog'[n].result # "drifted"
                        /\ Logged(n)' => /\ Known(n)'
                                         /\ inventoryLog'[n].delta = inputs'[n]
                                         /\ inventoryLog'[n].expected = commands'[n]
                        /\ ~(Known(n)' /\ ~Logged(n)')
      BY DEF LogIsTrue
    <3>1. CASE n = m
      BY <1>1, <2>2, <3>1 DEF Known, Logged
    <3>2. CASE n # m
      BY <1>1, <2>2, <3>2, OneAdjusts DEF StockInv, LogIsTrue, Known, Logged
    <3> QED BY <3>1, <3>2
  <2>6. StockAddsUp'
    <3> DEFINE up == {n \in Committed : inputs[n] = 3}
               down == {n \in Committed : inputs[n] = -3}
    <3>1. /\ m \notin Committed /\ IsFiniteSet(Committed) /\ IsFiniteSet(up)
          /\ IsFiniteSet(down)
      BY <1>8, StockAssumption, FS_Subset DEF Committed, Logged
    <3>2. /\ version = 1 + Cardinality(Committed)
          /\ onHand = Opening + 3 * Cardinality(up) - 3 * Cardinality(down)
      BY <1>6 DEF StockInv, StockAddsUp
    <3>3. /\ Cardinality(Committed) \in Nat /\ Cardinality(up) \in Nat
          /\ Cardinality(down) \in Nat
      BY <3>1, FS_CardinalityType
    <3>4. \A n \in Committed' : inventoryLog'[n].delta = inputs'[n]
      BY <2>5, <1>1 DEF Committed, LogIsTrue, Logged
    <3>5. CASE result = "committed"
      <4>1. Committed' = Committed \cup {m}
        BY <1>1, <2>2, <3>5 DEF Committed
      <4>2. Cardinality(Committed') = Cardinality(Committed) + 1
        BY <3>1, <4>1, FS_AddElement
      <4>3. version' = 1 + Cardinality(Committed')
        BY <2>1, <3>2, <3>3, <3>5, <4>2
      <4>4. CASE d = 3
        <5>1. up' = up \cup {m} /\ down' = down
          BY <1>1, <2>2, <4>1, <4>4
        <5>2. Cardinality(up') = Cardinality(up) + 1
          BY <3>1, <5>1, FS_AddElement
        <5>3. Cardinality(down') = Cardinality(down) /\ onHand' = onHand + d
          BY <2>1, <3>5, <5>1
        <5> HIDE DEF up, down
        <5>4. onHand' = Opening + 3 * Cardinality(up') - 3 * Cardinality(down')
          BY <3>2, <3>3, <4>4, <5>2, <5>3, StockAssumption
        <5> QED BY <3>4, <4>3, <5>4 DEF StockAddsUp, up, down
      <4>5. CASE d = -3
        <5>1. up' = up /\ down' = down \cup {m}
          BY <1>1, <2>2, <4>1, <4>5
        <5>2. Cardinality(down') = Cardinality(down) + 1
          BY <3>1, <5>1, FS_AddElement
        <5>3. Cardinality(up') = Cardinality(up) /\ onHand' = onHand + d
          BY <2>1, <3>5, <5>1
        <5> HIDE DEF up, down
        <5>4. onHand' = Opening + 3 * Cardinality(up') - 3 * Cardinality(down')
          BY <3>2, <3>3, <4>5, <5>2, <5>3, StockAssumption
        <5> QED BY <3>4, <4>3, <5>4 DEF StockAddsUp, up, down
      <4> QED BY <1>1, <4>4, <4>5 DEF Deltas
    <3>6. CASE result = "short"
      <4>1. Committed' = Committed /\ up' = up /\ down' = down
        BY <1>1, <2>2, <3>1, <3>6 DEF Committed
      <4> QED BY <2>1, <3>2, <3>4, <3>6, <4>1 DEF StockAddsUp
    <3> QED BY <3>5, <3>6
  <2>7. ASSUME NEW q \in StockCalls, requests'[q].asks = "adjust" PROVE Told(q)'
    <3>1. CASE q = r
      BY <1>1, <1>3, <2>2, <2>3, <3>1 DEF Told
    <3>2. CASE q # r
      <4>1. requests'[q] = requests[q] /\ Told(q) /\ requests[q].command \in StockCommands
        BY <1>3, <2>7, <3>2 DEF StockInv, RequestsInOrder
      <4>2. requests[q].command = m =>
              requests[q].at \notin {"show", "balance", "answered", "refused"}
        BY <1>8, <4>1 DEF Told, Logged
      <4> QED BY <1>1, <2>2, <4>1, <4>2 DEF Told
    <3> QED BY <3>1, <3>2
  <2> QED BY <1>4, <1>5, <2>4, <2>5, <2>6, <2>7 DEF StockInv
<1> QED BY <1>7, <1>8

\* The opening stock, once it comes, is the balance adjustments start from.
LEMMA BootstrapKeeps ==
  ASSUME StockInv, Bootstrap
  PROVE  StockInv'
<1>1. /\ bootstrap \in 0 .. Booted /\ bootstrap # Booted /\ bootstrap' = bootstrap + 1
      /\ UNCHANGED <<inventoryLog, inputs, commands, requests>>
  BY DEF Bootstrap, Booting, StockInv, StockTyped, Booted, Rejected
<1>2. /\ bootstrap' = Booted => onHand' = Opening /\ version' = 1
      /\ bootstrap' # Booted => UNCHANGED <<onHand, version>>
  BY DEF Bootstrap
<1>3. \A m \in StockCommands : ~Known(m) /\ ~Logged(m)
  BY <1>1 DEF StockInv, NothingEarly, LogIsTrue
<1>4. \A r \in StockCalls : ~Adjusts(r)
  BY <1>3 DEF StockInv, UnderWay, Adjusts, RequestsInOrder
<1>5. StockTyped' /\ NothingEarly'
  BY <1>1, <1>2, <1>3, StockAssumption
     DEF StockInv, StockTyped, NothingEarly, Known, Booted, Rejected
<1>6. StockAddsUp'
  <2>1. /\ Committed' = {} /\ {m \in Committed' : inputs'[m] = 3} = {}
        /\ {m \in Committed' : inputs'[m] = -3} = {}
    BY <1>1, <1>3 DEF Committed, Logged
  <2> QED BY <1>2, <2>1, FS_EmptySet, StockAssumption DEF StockAddsUp
<1>7. RequestsInOrder' /\ LogIsTrue'
  BY <1>1, <1>3 DEF StockInv, RequestsInOrder, LogIsTrue, Known, Logged
<1> QED BY <1>1, <1>4, <1>5, <1>6, <1>7 DEF StockInv, Adjusts, Told, Booted, Rejected

\* While there is none, nothing was asked of Inventory.
LEMMA NothingAdjusts ==
  ASSUME StockInv, bootstrap # Booted
  PROVE  /\ \A m \in StockCommands : ~Known(m) /\ ~Logged(m)
         /\ \A r \in StockCalls : ~Adjusts(r)
<1>1. \A m \in StockCommands : ~Known(m) /\ ~Logged(m)
  BY DEF StockInv, NothingEarly, LogIsTrue
<1>2. \A r \in StockCalls : ~Adjusts(r)
  BY <1>1 DEF StockInv, UnderWay, Adjusts, RequestsInOrder
<1> QED BY <1>1, <1>2

\* A bootstrap that is rejected leaves it at that.
LEMMA FailureKeeps ==
  ASSUME StockInv, BootstrapFails
  PROVE  StockInv'
<1>1. /\ bootstrap \in 0 .. Rejected /\ bootstrap < Booted /\ bootstrap' = Rejected
      /\ UNCHANGED <<onHand, version, inventoryLog, inputs, commands, requests>>
  BY DEF BootstrapFails, Booting, StockInv, StockTyped
<1>2. bootstrap # Booted /\ bootstrap' # Booted /\ bootstrap' \in 0 .. Rejected
  BY <1>1 DEF Booted, Rejected
<1>3. StockTyped' /\ NothingEarly' /\ StockAddsUp'
  BY <1>1, <1>2, NothingAdjusts
     DEF StockInv, StockTyped, NothingEarly, StockAddsUp, Committed, Known
<1>4. RequestsInOrder' /\ LogIsTrue'
  BY <1>1, <1>2, NothingAdjusts DEF StockInv, RequestsInOrder, LogIsTrue, Known, Logged
<1> QED BY <1>1, <1>2, <1>3, <1>4, NothingAdjusts DEF StockInv, Adjusts, Told

\* Nor does a request that is rejected with it change anything.
LEMMA UnbootedKeeps ==
  ASSUME StockInv, NEW r \in StockCalls, Unbooted(r)
  PROVE  StockInv'
<1>1. /\ bootstrap = Rejected /\ bootstrap # Booted
      /\ UNCHANGED <<bootstrap, onHand, version, inventoryLog, inputs, commands>>
      /\ requests[r].at \in {"waiting", "show"} /\ StockGoto(r, "unbooted")
  BY DEF Unbooted, Booted, Rejected
<1>2. /\ HasFields(requests'[r]) /\ requests'[r].asks = requests[r].asks
      /\ requests'[r].command = requests[r].command
      /\ requests'[r].value = requests[r].value /\ requests'[r].at = "unbooted"
      /\ \A q \in StockCalls \ {r} : requests'[q] = requests[q]
      /\ DOMAIN requests' = StockCalls
  BY <1>1, StageChanges DEF StockInv
<1>3. StockTyped' /\ NothingEarly' /\ StockAddsUp'
  BY <1>1, <1>2 DEF StockInv, StockTyped, NothingEarly, StockAddsUp, Committed, Known
<1>4. RequestsInOrder'
  <2>1. \A q \in StockCalls : /\ requests'[q].asks = requests[q].asks
                              /\ requests'[q].command = requests[q].command
                              /\ requests'[q].value = requests[q].value
                              /\ (requests'[q].at = "none") <=> (requests[q].at = "none")
                              /\ requests'[q].at = "adjust" => requests[q].at = "adjust"
    BY <1>1, <1>2
  <2> QED BY <2>1 DEF StockInv, RequestsInOrder
<1>5. LogIsTrue'
  BY <1>1, NothingAdjusts DEF StockInv, LogIsTrue, Known, Logged
<1>6. \A q \in StockCalls : ~Adjusts(q)'
  BY <1>1, <1>2, NothingAdjusts DEF Adjusts
<1>7. ASSUME NEW q \in StockCalls, requests'[q].asks = "adjust" PROVE Told(q)'
  BY <1>1, <1>2, <1>7 DEF StockInv, Told
<1> QED BY <1>3, <1>4, <1>5, <1>6, <1>7 DEF StockInv

\* Answers are read from what Inventory keeps.
LEMMA AnswersKeep ==
  ASSUME StockInv, NEW r \in StockCalls,
         PutStatus(r) \/ ShowStatus(r) \/ ShowStock(r) \/ ShowBalance(r)
  PROVE  StockInv'
<1>1. /\ DOMAIN requests' = StockCalls /\ HasFields(requests'[r])
      /\ \A q \in StockCalls \ {r} : requests'[q] = requests[q]
      /\ requests'[r].asks = requests[r].asks
      /\ requests'[r].command = requests[r].command
      /\ requests'[r].value = requests[r].value
  BY DEF PutStatus, ShowStatus, ShowStock, ShowBalance, StockGoto, StockBecomes,
         StockInv, StockTyped, HasFields
<1>2. /\ requests[r].asks = "adjust" => /\ requests[r].at \in {"show", "balance"}
                                        /\ requests'[r].at \in {"balance", "answered"}
      /\ requests'[r].at \in {"show", "balance", "answered"}
      /\ requests[r].at \in {"waiting", "show", "balance"}
  BY DEF PutStatus, ShowStatus, ShowStock, ShowBalance, StockGoto, StockBecomes,
         StockInv, StockTyped, HasFields
<1>3. UNCHANGED <<bootstrap, onHand, version, inventoryLog, inputs, commands>>
  BY DEF PutStatus, ShowStatus, ShowStock, ShowBalance
<1> QED BY <1>1, <1>2, <1>3, StockRests

\* Every step keeps the invariant of the stock.
LEMMA StockGoesOn == StockInv /\ [StockNext]_stockVars => StockInv'
<1> SUFFICES ASSUME StockInv, [StockNext]_stockVars PROVE StockInv'
  OBVIOUS
<1>1. CASE UNCHANGED stockVars
  BY <1>1 DEF stockVars, StockInv, StockTyped, RequestsInOrder, LogIsTrue, NothingEarly,
              StockAddsUp, Committed, Known, Logged, Adjusts, UnderWay, Turn, Told
<1>2. CASE Bootstrap \/ BootstrapFails
  BY <1>2, BootstrapKeeps, FailureKeeps
<1>3. ASSUME NEW r \in StockCalls, StockStep(r) PROVE StockInv'
  BY <1>3, AsksKeep, PlansKeep, AdjustsKeep, AnswersKeep, UnbootedKeeps DEF StockStep
<1> QED BY <1>1, <1>2, <1>3 DEF StockNext

\* However often a stock adjustment is sent, with whatever input and between
\* whichever others, it changes the stock once, every repeat of it is answered
\* alike, and none is refused because the balance moved on since it was planned
\* (runtime.ts, executeAdjustment): for any requests, commands and opening stock.
THEOREM CommandCountsOnce == StockSpec => []EachCommandOnce
<1>1. ASSUME StockInv PROVE EachCommandOnce
  <2>1. StockAddsUp /\ NoneDrifted
    BY <1>1 DEF StockInv, LogIsTrue, NoneDrifted
  <2>2. RepeatsAgree
    <3> SUFFICES ASSUME NEW q \in StockCalls, NEW r \in StockCalls,
                        requests[q].asks = "adjust", requests[r].asks = "adjust",
                        requests[q].at \in Ended \ {"misused"},
                        requests[r].at \in Ended \ {"misused"},
                        requests[q].command = requests[r].command
                 PROVE  requests[q].at = requests[r].at
      BY DEF RepeatsAgree
    <3>1. Told(q) /\ Told(r) /\ requests[q].command \in StockCommands
      BY <1>1 DEF StockInv, RequestsInOrder
    <3>2. CASE bootstrap = Booted
      BY <3>1, <3>2 DEF Told, Ended, Booted, Rejected
    <3>3. CASE bootstrap # Booted
      BY <1>1, <3>1, <3>3, NothingAdjusts DEF Told, Ended, Logged
    <3> QED BY <3>2, <3>3
  <2> QED BY <2>1, <2>2 DEF EachCommandOnce
<1>2. QED BY <1>1, StockBegins, StockGoesOn, PTL DEF StockSpec

\* What bounds the version: a command is some adjustment's, so fewer are
\* committed than are asked for; and a command expects a version there was.
Asked(m) ==
  \E r \in StockCalls : requests[r].asks = "adjust" /\ requests[r].command = m

RequestWords ==
  \A r \in StockCalls :
    /\ requests[r].asks \in {"none", "adjust", "status", "read"}
    /\ requests[r].asks = "status" => requests[r].value \in Statuses
    /\ requests[r].at \in {"none", "waiting", "adjust", "show", "balance"} \cup Ended

VersionsExpected ==
  /\ bootstrap # Booted => version = 0
  /\ \A m \in StockCommands : /\ Known(m) => Asked(m)
                              /\ commands[m] <= version
                              /\ ~Logged(m) => inventoryLog[m].expected = 0

StockWords == RequestWords /\ manual \in Statuses /\ VersionsExpected

\* The words of requests and receipts at the start.
LEMMA StockWordsAtFirst == StockInit => StockWords
<1> SUFFICES ASSUME StockInit PROVE StockWords
  OBVIOUS
<1>1. RequestWords
  BY DEF StockInit, RequestWords, Unasked
<1>2. VersionsExpected
  BY DEF StockInit, VersionsExpected, Known, Logged
<1>3. manual \in Statuses
  BY DEF StockInit, Statuses
<1> QED BY <1>1, <1>2, <1>3 DEF StockWords

\* One request at a time goes on, and only a new one is asked something else.
LEMMA RequestMoves ==
  ASSUME StockInv, RequestWords, NEW r \in StockCalls, NEW next, StockBecomes(r, next),
         next.asks \in {"none", "adjust", "status", "read"},
         next.asks = "status" => next.value \in Statuses,
         next.at \in {"none", "waiting", "adjust", "show", "balance"} \cup Ended,
         requests[r].asks = "adjust" =>
           next.asks = "adjust" /\ next.command = requests[r].command
  PROVE  RequestWords' /\ \A m : Asked(m) => Asked(m)'
<1>1. /\ requests'[r] = next /\ \A q \in StockCalls \ {r} : requests'[q] = requests[q]
  BY DEF StockBecomes, StockInv, StockTyped
<1>2. RequestWords'
  <2> SUFFICES ASSUME NEW q \in StockCalls
               PROVE  /\ requests'[q].asks \in {"none", "adjust", "status", "read"}
                      /\ requests'[q].asks = "status" => requests'[q].value \in Statuses
                      /\ requests'[q].at \in {"none", "waiting", "adjust", "show", "balance"}
                                               \cup Ended
    BY DEF RequestWords, Ended
  <2> QED BY <1>1 DEF RequestWords
<1>3. ASSUME NEW m, Asked(m) PROVE Asked(m)'
  BY <1>1, <1>3 DEF Asked
<1> QED BY <1>2, <1>3

\* A request that moves on keeps its words, and stays asked.
LEMMA StageMoves ==
  ASSUME StockInv, RequestWords, NEW r \in StockCalls,
         NEW at \in {"waiting", "adjust", "show", "balance"} \cup Ended, StockGoto(r, at)
  PROVE  RequestWords' /\ \A m : Asked(m) => Asked(m)'
<1> DEFINE next == [requests[r] EXCEPT !.at = at]
<1>1. HasFields(requests[r])
  BY DEF StockInv, StockTyped
<1>2. /\ next.asks = requests[r].asks /\ next.value = requests[r].value
      /\ next.command = requests[r].command /\ next.at = at
  BY <1>1 DEF HasFields
<1>3. StockBecomes(r, next)
  BY DEF StockGoto
<1> HIDE DEF next
<1>4. /\ requests[r].asks \in {"none", "adjust", "status", "read"}
      /\ requests[r].asks = "status" => requests[r].value \in Statuses
  BY DEF RequestWords
<1> QED BY <1>2, <1>3, <1>4, RequestMoves

\* A request is made in the words of its type.
LEMMA AskedWords ==
  ASSUME StockInv, StockWords, NEW r \in StockCalls, Ask(r)
  PROVE  StockWords'
<1>0. /\ requests[r].asks # "adjust"
      /\ UNCHANGED <<bootstrap, version, inventoryLog, commands, manual>>
  BY DEF Ask, StockInv, RequestsInOrder
<1>1. RequestWords' /\ \A m : Asked(m) => Asked(m)'
  <2>1. ASSUME NEW m \in StockCommands, NEW d \in Deltas,
               StockBecomes(r, [Unasked EXCEPT !.asks = "adjust", !.command = m,
                                               !.value = d, !.at = "waiting"])
        PROVE  RequestWords' /\ \A n : Asked(n) => Asked(n)'
    <3> DEFINE next == [Unasked EXCEPT !.asks = "adjust", !.command = m,
                                       !.value = d, !.at = "waiting"]
    <3>1. next.asks = "adjust" /\ next.at = "waiting"
      BY DEF Unasked
    <3>2. StockBecomes(r, next)
      BY <2>1
    <3> HIDE DEF next
    <3> QED BY <1>0, <3>1, <3>2, RequestMoves DEF StockWords
  <2>2. ASSUME NEW s \in Statuses,
               StockBecomes(r, [Unasked EXCEPT !.asks = "status", !.value = s,
                                               !.at = "waiting"])
        PROVE  RequestWords' /\ \A n : Asked(n) => Asked(n)'
    <3> DEFINE next == [Unasked EXCEPT !.asks = "status", !.value = s, !.at = "waiting"]
    <3>1. next.asks = "status" /\ next.at = "waiting" /\ next.value = s
      BY DEF Unasked
    <3>2. StockBecomes(r, next)
      BY <2>2
    <3> HIDE DEF next
    <3> QED BY <1>0, <3>1, <3>2, RequestMoves DEF StockWords
  <2>3. ASSUME StockBecomes(r, [Unasked EXCEPT !.asks = "read", !.at = "show"])
        PROVE  RequestWords' /\ \A n : Asked(n) => Asked(n)'
    <3> DEFINE next == [Unasked EXCEPT !.asks = "read", !.at = "show"]
    <3>1. next.asks = "read" /\ next.at = "show"
      BY DEF Unasked
    <3>2. StockBecomes(r, next)
      BY <2>3
    <3> HIDE DEF next
    <3> QED BY <1>0, <3>1, <3>2, RequestMoves DEF StockWords
  <2> QED BY <2>1, <2>2, <2>3 DEF Ask
<1> QED BY <1>0, <1>1 DEF StockWords, VersionsExpected, Known, Logged

\* A planned adjustment fits its balance.
LEMMA PlannedWords ==
  ASSUME StockInv, StockWords, NEW r \in StockCalls, PlanAdjustment(r)
  PROVE  StockWords'
<1> DEFINE m == requests[r].command
<1>0. /\ UNCHANGED <<bootstrap, version, inventoryLog, manual>>
      /\ requests[r].asks = "adjust" /\ m \in StockCommands
      /\ version \in Nat /\ commands \in [StockCommands -> Nat]
  BY DEF PlanAdjustment, StockInv, StockTyped, RequestsInOrder
<1>1. RequestWords' /\ \A n : Asked(n) => Asked(n)'
  BY StageMoves DEF PlanAdjustment, StockWords, Ended
<1>2. \/ UNCHANGED commands
      \/ commands' = [commands EXCEPT ![m] = version]
  BY DEF PlanAdjustment
<1>3. Asked(m)
  BY <1>0 DEF Asked
<1>4. ASSUME NEW n \in StockCommands
      PROVE  (commands'[n] # 0 => Asked(n)) /\ commands'[n] <= version
  <2>1. (commands[n] # 0 => Asked(n)) /\ commands[n] <= version
    BY DEF StockWords, VersionsExpected, Known
  <2>2. commands'[n] = commands[n] \/ (n = m /\ commands'[n] = version)
    BY <1>0, <1>2
  <2>3. CASE commands'[n] = commands[n]
    BY <2>1, <2>3
  <2>4. CASE n = m /\ commands'[n] = version
    BY <1>0, <1>3, <2>4
  <2> QED BY <2>2, <2>3, <2>4
<1>5. VersionsExpected'
  <2>1. \A n \in StockCommands : Known(n)' => Asked(n)'
    BY <1>1, <1>4 DEF Known
  <2>2. \A n \in StockCommands : ~Logged(n)' => inventoryLog'[n].expected = 0
    BY <1>0 DEF StockWords, VersionsExpected, Logged
  <2>3. bootstrap' # Booted => version' = 0
    BY <1>0 DEF StockWords, VersionsExpected
  <2>4. \A n \in StockCommands : commands'[n] <= version'
    BY <1>0, <1>4
  <2> QED BY <2>1, <2>2, <2>3, <2>4 DEF VersionsExpected
<1> QED BY <1>0, <1>1, <1>5 DEF StockWords

\* A command is committed for a request of its own.
LEMMA AdjustedWords ==
  ASSUME StockInv, StockWords, NEW r \in StockCalls, AdjustStock(r)
  PROVE  StockWords'
<1> DEFINE m == requests[r].command
<1>0. /\ UNCHANGED <<bootstrap, commands, manual>> /\ version \in Nat
      /\ commands \in [StockCommands -> Nat]
      /\ requests[r].asks = "adjust" /\ requests[r].at = "adjust" /\ m \in StockCommands
  BY DEF AdjustStock, StockInv, StockTyped, RequestsInOrder
<1>1. RequestWords' /\ \A n : Asked(n) => Asked(n)'
  <2>1. StockGoto(r, "show") \/ StockGoto(r, "refused")
    BY DEF AdjustStock
  <2> QED BY <2>1, StageMoves DEF StockWords, Ended
<1>2. version' \in {version, version + 1} /\ (version' # version => bootstrap = Booted)
  <2>1. version' \in {version, version + 1}
    BY DEF AdjustStock
  <2>2. Known(m)
    BY <1>0 DEF StockInv, UnderWay, Adjusts
  <2>3. bootstrap = Booted
    BY <1>0, <2>2 DEF StockInv, NothingEarly
  <2> QED BY <2>1, <2>3
<1>3. ASSUME NEW n \in StockCommands, ~Logged(n)' PROVE inventoryLog'[n].expected = 0
  <2>1. CASE UNCHANGED inventoryLog
    BY <1>3, <2>1 DEF StockWords, VersionsExpected, Logged
  <2>2. CASE inventoryLog' # inventoryLog
    <3>1. PICK expected \in Nat, result \in {"drifted", "short", "committed"} :
            inventoryLog' = [inventoryLog EXCEPT ![m] =
              [delta |-> requests[r].value, expected |-> expected, result |-> result]]
      <4>1. inventoryLog[m].result = "none"
        BY <2>2 DEF AdjustStock
      <4> QED BY <1>0, <4>1 DEF AdjustStock
    <3>2. n # m
      <4>1. inventoryLog'[m].result = result
        BY <1>0, <3>1 DEF StockInv, StockTyped
      <4> QED BY <1>3, <4>1 DEF Logged
    <3>3. inventoryLog'[n] = inventoryLog[n]
      BY <3>1, <3>2 DEF StockInv, StockTyped
    <3> QED BY <1>3, <3>3 DEF StockWords, VersionsExpected, Logged
  <2> QED BY <2>1, <2>2
<1>4. VersionsExpected'
  <2>1. \A n \in StockCommands : Known(n)' => Asked(n)'
    BY <1>0, <1>1 DEF Known, StockWords, VersionsExpected
  <2>2. bootstrap' # Booted => version' = 0
    BY <1>0, <1>2 DEF StockWords, VersionsExpected
  <2>3. ASSUME NEW n \in StockCommands PROVE commands'[n] <= version'
    <3>1. commands[n] <= version /\ commands[n] \in Nat /\ commands'[n] = commands[n]
      BY <1>0 DEF StockWords, VersionsExpected
    <3> QED BY <1>0, <1>2, <3>1
  <2> QED BY <1>3, <2>1, <2>2, <2>3 DEF VersionsExpected
<1> QED BY <1>0, <1>1, <1>4 DEF StockWords

\* Answers are in the words of their type.
LEMMA AnsweredWords ==
  ASSUME StockInv, StockWords, NEW r \in StockCalls,
         PutStatus(r) \/ ShowStatus(r) \/ ShowStock(r) \/ ShowBalance(r)
  PROVE  StockWords'
<1>1. /\ requests'[r].asks = requests[r].asks
      /\ requests'[r].command = requests[r].command
      /\ requests'[r].value = requests[r].value
      /\ requests'[r].at \in {"show", "balance", "answered"}
      /\ StockBecomes(r, requests'[r])
  BY DEF PutStatus, ShowStatus, ShowStock, ShowBalance, StockGoto, StockBecomes,
         StockInv, StockTyped, HasFields
<1>2. UNCHANGED <<bootstrap, version, inventoryLog, commands>>
  BY DEF PutStatus, ShowStatus, ShowStock, ShowBalance
<1>3. /\ requests[r].asks \in {"none", "adjust", "status", "read"}
      /\ requests[r].asks = "status" => requests[r].value \in Statuses
  BY DEF StockWords, RequestWords
<1>4. RequestWords' /\ \A m : Asked(m) => Asked(m)'
  BY <1>1, <1>3, RequestMoves DEF StockWords, Ended
<1>5. manual' \in Statuses
  BY <1>3 DEF PutStatus, ShowStatus, ShowStock, ShowBalance, StockWords
<1> QED BY <1>2, <1>4, <1>5 DEF StockWords, VersionsExpected, Known, Logged

\* So is the opening stock.
LEMMA BootstrapWords ==
  ASSUME StockInv, StockWords, Bootstrap
  PROVE  StockWords'
<1>1. /\ bootstrap # Booted /\ UNCHANGED <<inventoryLog, commands, manual, requests>>
      /\ bootstrap' # Booted => version' = version
  BY DEF Bootstrap, Booting, Booted, StockInv, StockTyped
<1>2. bootstrap' # Booted => version' = 0
  BY <1>1 DEF StockWords, VersionsExpected
<1>3. version' \in Nat
  BY StockGoesOn DEF StockInv, StockTyped, StockNext
<1>4. \A m \in StockCommands : commands'[m] = 0
  BY <1>1 DEF StockInv, NothingEarly, Known
<1>5. VersionsExpected'
  BY <1>1, <1>2, <1>3, <1>4 DEF StockWords, VersionsExpected, Known, Logged
<1> QED BY <1>1, <1>5 DEF StockWords, RequestWords

\* And a bootstrap that is rejected.
LEMMA FailureWords ==
  ASSUME StockInv, StockWords, BootstrapFails
  PROVE  StockWords'
<1>1. /\ bootstrap # Booted
      /\ UNCHANGED <<version, inventoryLog, commands, manual, requests>>
  BY DEF BootstrapFails, Booting, Booted
<1> QED BY <1>1 DEF StockWords, RequestWords, VersionsExpected, Asked, Known, Logged

\* A request rejected with it keeps its words.
LEMMA UnbootedWords ==
  ASSUME StockInv, StockWords, NEW r \in StockCalls, Unbooted(r)
  PROVE  StockWords'
<1>1. /\ StockGoto(r, "unbooted")
      /\ UNCHANGED <<bootstrap, version, inventoryLog, commands, manual>>
  BY DEF Unbooted
<1>2. RequestWords' /\ \A m : Asked(m) => Asked(m)'
  BY <1>1, StageMoves DEF StockWords, Ended
<1> QED BY <1>1, <1>2 DEF StockWords, VersionsExpected, Known, Logged

\* Every step stays within the words and counts of the stock.
LEMMA StockWordsStay ==
  ASSUME StockInv, StockWords, [StockNext]_stockVars
  PROVE  StockWords'
<1>1. CASE UNCHANGED stockVars
  BY <1>1 DEF stockVars, StockWords, RequestWords, VersionsExpected, Asked, Known, Logged
<1>2. ASSUME NEW r \in StockCalls, StockStep(r) PROVE StockWords'
  BY <1>2, AskedWords, PlannedWords, AdjustedWords, AnsweredWords, UnbootedWords
     DEF StockStep
<1> QED BY <1>1, <1>2, BootstrapWords, FailureWords DEF StockNext

\* No more commands are committed than there are requests.
LEMMA FewCommitted ==
  ASSUME StockInv, StockWords
  PROVE  Cardinality(Committed) \in Nat /\ Cardinality(Committed) <= MaxRequests
<1>1. IsFiniteSet(Committed) /\ Cardinality(Committed) \in Nat
  BY StockAssumption, FS_Subset, FS_CardinalityType DEF Committed
<1>2. IsFiniteSet(StockCalls) /\ Cardinality(StockCalls) = MaxRequests
  <2>1. MaxRequests \in Int /\ 1 \in Int /\ MaxRequests \in Nat
    BY StockAssumption
  <2>2. Cardinality(1 .. MaxRequests) = IF 1 > MaxRequests THEN 0 ELSE MaxRequests - 1 + 1
    BY <2>1, FS_Interval
  <2>3. IsFiniteSet(1 .. MaxRequests)
    BY <2>1, FS_Interval
  <2> QED BY <2>1, <2>2, <2>3 DEF StockCalls
<1> DEFINE f == [m \in Committed |-> CHOOSE r \in StockCalls :
                    requests[r].asks = "adjust" /\ requests[r].command = m]
<1>3. \A m \in Committed : f[m] \in StockCalls /\ requests[f[m]].command = m
  <2> TAKE m \in Committed
  <2>1. m \in StockCommands /\ Known(m)
    BY DEF Committed, StockInv, LogIsTrue, Logged
  <2>2. \E r \in StockCalls : requests[r].asks = "adjust" /\ requests[r].command = m
    BY <2>1 DEF StockWords, VersionsExpected, Asked
  <2> QED BY <2>2
<1>4. f \in [Committed -> StockCalls]
  BY <1>3
<1>5. ~(Cardinality(StockCalls) < Cardinality(Committed))
  <2> HIDE DEF f
  <2> SUFFICES ASSUME Cardinality(StockCalls) < Cardinality(Committed) PROVE FALSE
    OBVIOUS
  <2>1. \E m, n \in Committed : m # n /\ f[m] = f[n]
    BY <1>1, <1>2, <1>4, FS_PigeonHole
  <2> QED BY <1>3, <2>1
<1>6. Cardinality(StockCalls) \in Nat
  BY <1>2, StockAssumption
<1> QED BY <1>1, <1>2, <1>5, <1>6

\* What they come to is the type invariant of the stock.
LEMMA StockTypes == StockInv /\ StockWords => StockTypeOK
<1> SUFFICES ASSUME StockInv, StockWords PROVE StockTypeOK
  OBVIOUS
<1>1. version \in 0 .. (MaxRequests + 1) /\ version \in Nat
  <2>1. version \in Nat /\ MaxRequests \in Nat
    BY StockAssumption DEF StockInv, StockTyped
  <2>2. CASE bootstrap = Booted
    BY <2>1, <2>2, FewCommitted DEF StockInv, StockAddsUp
  <2>3. CASE bootstrap # Booted
    BY <2>1, <2>3 DEF StockWords, VersionsExpected
  <2> QED BY <2>2, <2>3
<1>2. \A m \in StockCommands : commands[m] \in 0 .. (MaxRequests + 1)
  <2> TAKE m \in StockCommands
  <2>1. commands[m] \in Nat /\ commands[m] <= version
    BY DEF StockInv, StockTyped, StockWords, VersionsExpected
  <2> QED BY <1>1, <2>1, StockAssumption
<1>3. \A m \in StockCommands :
        inventoryLog[m] \in [delta : Deltas \cup {0}, expected : 0 .. (MaxRequests + 1),
                             result : {"none", "committed", "drifted", "short"}]
  <2> TAKE m \in StockCommands
  <2>1. inventoryLog[m] \in LogRecords
    BY DEF StockInv, StockTyped
  <2>2. inventoryLog[m].expected \in {0, commands[m]}
    BY DEF StockInv, LogIsTrue, StockWords, VersionsExpected
  <2>3. inventoryLog[m].expected \in 0 .. (MaxRequests + 1)
    BY <1>1, <1>2, <2>2, StockAssumption
  <2> QED BY <2>1, <2>3 DEF LogRecords
<1>4. inventoryLog \in [StockCommands ->
        [delta : Deltas \cup {0}, expected : 0 .. (MaxRequests + 1),
         result : {"none", "committed", "drifted", "short"}]]
  BY <1>3 DEF StockInv, StockTyped
<1>5. commands \in [StockCommands -> 0 .. (MaxRequests + 1)]
  BY <1>2 DEF StockInv, StockTyped
<1>6. /\ bootstrap \in 0 .. Rejected /\ onHand \in Int
      /\ inputs \in [StockCommands -> Deltas \cup {0}]
  BY DEF StockInv, StockTyped
<1> QED BY <1>1, <1>4, <1>5, <1>6 DEF StockTypeOK, StockWords, RequestWords
-----------------------------------------------------------------------------
(***************************************************************************)
(* InventoryPages.  The order of a list is strict, so a row the walk has   *)
(* passed stays passed, and one that a page takes is passed from then on.  *)
(* The rows nobody touched have been listed once if the walk passed them,  *)
(* and else not at all.                                                    *)
(***************************************************************************)
Positions == [date : 1 .. MaxDate, updated : 1 .. 2, id : Transfers]

Passed(t) == rows[t].listed /\ ~Follows(Position(t))

PassedOnce ==
  \A t \in Transfers \ touched : times[t] = IF Passed(t) THEN 1 ELSE 0

AllPassed == \A t \in Transfers \ touched : rows[t].listed => Passed(t)

PagesInv ==
  /\ PagesTypeOK
  /\ after \in Positions \cup {FromStart}
  /\ PassedOnce
  /\ done => AllPassed

\* Every row has a position, and none that of the start.
LEMMA PositionTyped ==
  ASSUME PagesTypeOK, NEW t \in Transfers
  PROVE  Position(t) \in Positions /\ Position(t) # FromStart
<1>1. rows[t] \in Rows
  BY DEF PagesTypeOK
<1>2. Position(t) \in Positions
  BY <1>1 DEF Position, Positions, Rows
<1>3. Position(t).date # 0 /\ FromStart.date = 0
  BY <1>2, PagesAssumption DEF Positions, FromStart
<1> QED BY <1>2, <1>3

\* Positions are compared by numbers.
LEMMA PositionNumbers ==
  ASSUME NEW p \in Positions
  PROVE  p.date \in Nat /\ p.updated \in Nat /\ p.id \in Nat
<1>1. p.date \in 1 .. MaxDate /\ p.updated \in 1 .. 2 /\ p.id \in Transfers
  BY DEF Positions
<1>2. \A n \in 1 .. MaxDate : n \in Nat
  BY PagesAssumption
<1>3. \A n \in 1 .. 2 : n \in Nat
  OBVIOUS
<1> QED BY <1>1, <1>2, <1>3, PagesAssumption

\* Rows come one before another, and none before itself.
LEMMA StrictOrder ==
  ASSUME NEW p \in Positions, NEW q \in Positions
  PROVE  /\ ~BeforeRow(p, p)
         /\ BeforeRow(p, q) => ~BeforeRow(q, p)
<1>1. /\ p.date \in Nat /\ p.updated \in Nat /\ p.id \in Nat
      /\ q.date \in Nat /\ q.updated \in Nat /\ q.id \in Nat
  BY PositionNumbers
<1> QED BY <1>1 DEF BeforeRow

\* The order of a list is transitive.
LEMMA OrderGoesOn ==
  ASSUME NEW p \in Positions, NEW q \in Positions, NEW r \in Positions,
         BeforeRow(p, q), BeforeRow(q, r)
  PROVE  BeforeRow(p, r)
<1>1. /\ p.date \in Nat /\ q.date \in Nat /\ r.date \in Nat
      /\ p.updated \in Nat /\ q.updated \in Nat /\ r.updated \in Nat
      /\ p.id \in Nat /\ q.id \in Nat /\ r.id \in Nat
  BY PositionNumbers
<1> QED BY <1>1 DEF BeforeRow

\* A walk that has not begun has passed no row.
LEMMA PagesBegin == PagesInit => PagesInv
<1> SUFFICES ASSUME PagesInit PROVE PagesInv
  OBVIOUS
<1>1. PagesTypeOK
  <2>1. FromStart \in [date : 0 .. MaxDate, updated : 0 .. 2,
                       id : Transfers \cup {0}]
    <3>1. 0 \in 0 .. MaxDate /\ 0 \in 0 .. 2
      BY PagesAssumption
    <3> QED BY <3>1 DEF FromStart
  <2> QED BY <2>1 DEF PagesInit, PagesTypeOK
<1>2. \A t \in Transfers : ~Passed(t) /\ times[t] = 0
  BY DEF PagesInit, Passed, Follows
<1> QED BY <1>1, <1>2 DEF PagesInv, PassedOnce, PagesInit

\* What a page takes is passed, what it leaves of the rest is not.
LEMMA PagePasses ==
  ASSUME PagesInv, NEW page \in SUBSET Transfers, PageRows(page),
         NEW last \in page, LastRow(page, last),
         after' = Position(last), UNCHANGED <<view, rows>>
  PROVE  \A t \in Transfers :
           /\ t \in page => ~Passed(t) /\ Passed(t)'
           /\ t \notin page => (Passed(t)' <=> Passed(t))
<1>1. last \in RemainingRows /\ page \subseteq RemainingRows
  BY DEF PageRows
<1>2. after' # FromStart
  BY PositionTyped DEF PagesInv
<1>3. \A t \in Transfers : Follows(Position(t))' <=> BeforeRow(Position(last), Position(t))
  BY <1>2 DEF Follows, Position, BeforeRow
<1>4. ASSUME NEW t \in page PROVE ~Passed(t) /\ Passed(t)'
  <2>1. Position(t) \in Positions /\ Position(last) \in Positions
    BY <1>4, PositionTyped DEF PagesInv
  <2>2. ~BeforeRow(Position(last), Position(t))
    BY <2>1, StrictOrder DEF LastRow
  <2>3. rows[t].listed /\ Follows(Position(t))
    BY <1>1, <1>4 DEF RemainingRows, ListedRows
  <2> QED BY <1>3, <1>4, <2>2, <2>3 DEF Passed
<1>5. ASSUME NEW t \in Transfers \ page, rows[t].listed
      PROVE  Follows(Position(t))' <=> Follows(Position(t))
  <2>1. CASE Follows(Position(t))
    <3>1. t \in RemainingRows
      BY <1>5, <2>1 DEF RemainingRows, ListedRows
    <3>2. BeforeRow(Position(last), Position(t))
      BY <1>5, <3>1 DEF PageRows
    <3> QED BY <1>3, <1>5, <2>1, <3>2
  <2>2. CASE ~Follows(Position(t))
    <3>1. after # FromStart /\ ~BeforeRow(after, Position(t))
      BY <2>2 DEF Follows
    <3>2. BeforeRow(after, Position(last))
      BY <1>1, <3>1 DEF RemainingRows, Follows
    <3>3. ~BeforeRow(Position(last), Position(t))
      BY <1>5, <3>1, <3>2, PositionTyped, OrderGoesOn DEF PagesInv
    <3> QED BY <1>3, <1>5, <2>2, <3>3
  <2> QED BY <2>1, <2>2
<1> QED BY <1>4, <1>5 DEF Passed

\* The page that is not full holds all that remained.
LEMMA LastPage ==
  ASSUME NEW page \in SUBSET Transfers, PageRows(page),
         page = {} \/ Cardinality(page) < Limit
  PROVE  page = RemainingRows
<1>1. IsFiniteSet(RemainingRows) /\ page \in SUBSET RemainingRows
  BY PagesAssumption, FS_Subset DEF RemainingRows, ListedRows, PageRows
<1>2. Cardinality(page) < Limit
  <2>1. Limit \in Nat /\ 0 < Limit
    BY PagesAssumption
  <2>2. Cardinality({}) = 0
    BY FS_EmptySet
  <2> QED BY <2>1, <2>2
<1>3. Cardinality(page) = Cardinality(RemainingRows)
  <2>1. Limit \in Nat /\ ~(Limit < Limit)
    BY PagesAssumption
  <2> QED BY <1>2, <2>1 DEF PageRows
<1> QED BY <1>1, <1>3, FS_Subset

\* A page shows the rows it passes, each once.
LEMMA NextPageKeeps == ASSUME PagesInv, NextPage PROVE PagesInv'
<1>1. PICK page \in SUBSET Transfers :
        /\ PageRows(page)
        /\ times' = [t \in Transfers |-> times[t] + IF t \in page THEN 1 ELSE 0]
        /\ IF page = {} THEN after' = after
           ELSE \E t \in page : LastRow(page, t) /\ after' = Position(t)
        /\ done' = (Cardinality(page) < Limit)
  BY DEF NextPage
<1>2. UNCHANGED <<view, rows, touched>>
  BY DEF NextPage
<1>3. \A t \in Transfers :
        /\ t \in page => ~Passed(t) /\ Passed(t)'
        /\ t \notin page => (Passed(t)' <=> Passed(t))
  <2>1. CASE page = {}
    BY <1>1, <1>2, <2>1 DEF Passed, Follows, Position, BeforeRow
  <2>2. CASE page # {}
    BY <1>1, <1>2, <2>2, PagePasses
  <2> QED BY <2>1, <2>2
<1>4. after' \in Positions \cup {FromStart}
  BY <1>1, PositionTyped DEF PagesInv
<1>5. times' \in [Transfers -> Nat] /\ done' \in BOOLEAN
  BY <1>1 DEF PagesInv, PagesTypeOK
<1>6. PagesTypeOK'
  BY <1>2, <1>4, <1>5, PagesAssumption
     DEF PagesInv, PagesTypeOK, Positions, FromStart
<1>7. PassedOnce'
  BY <1>1, <1>2, <1>3 DEF PagesInv, PagesTypeOK, PassedOnce
<1>8. done' => AllPassed'
  <2> SUFFICES ASSUME done', NEW t \in Transfers, rows[t].listed
               PROVE  Passed(t)'
    BY <1>2 DEF AllPassed
  <2>1. page = RemainingRows
    BY <1>1, LastPage
  <2>2. CASE t \in page
    BY <1>3, <2>2
  <2>3. CASE t \notin page
    <3>1. Passed(t)
      BY <2>1, <2>3 DEF RemainingRows, ListedRows, Passed
    <3> QED BY <1>3, <2>3, <3>1
  <2> QED BY <2>2, <2>3
<1> QED BY <1>4, <1>6, <1>7, <1>8 DEF PagesInv

\* A row that changes is no longer one of those nobody touched.
LEMMA ChangeRowKeeps ==
  ASSUME PagesInv, NEW t \in Transfers, ChangeRow(t) PROVE PagesInv'
<1>1. /\ rows' \in [Transfers -> Rows]
      /\ \A s \in Transfers \ {t} : rows'[s] = rows[s]
  BY DEF ChangeRow, PagesInv, PagesTypeOK
<1>2. /\ UNCHANGED <<view, after, times, done>>
      /\ ~done
      /\ touched' = touched \cup {t}
  BY DEF ChangeRow
<1>3. \A s \in Transfers \ touched' : Passed(s)' <=> Passed(s)
  BY <1>1, <1>2 DEF Passed, Follows, Position, BeforeRow
<1>4. PagesTypeOK'
  BY <1>1, <1>2 DEF PagesInv, PagesTypeOK
<1> QED BY <1>2, <1>3, <1>4 DEF PagesInv, PassedOnce

\* Every step keeps what the walk has shown.
LEMMA PagesGoOn == PagesInv /\ [PagesNext]_pagesVars => PagesInv'
<1>1. ASSUME PagesInv, UNCHANGED pagesVars PROVE PagesInv'
  BY <1>1 DEF pagesVars, PagesInv, PagesTypeOK, PassedOnce, AllPassed, Passed,
              Follows, Position, BeforeRow
<1> QED BY <1>1, NextPageKeeps, ChangeRowKeeps DEF PagesNext

\* A walk of a list, page after page, lists every row that did not change
\* meanwhile exactly once, whatever else is added, moved or taken away between
\* its pages (memory-inventory-store.ts, listStockTransfers and listReceipts):
\* for any list, any page size and any number of changes.
THEOREM WalksMissNothing == PagesSpec => []WalkMissesNothing
<1>1. PagesInv => WalkMissesNothing
  BY DEF PagesInv, PassedOnce, AllPassed, Passed, WalkMissesNothing
<1> QED BY <1>1, PagesBegin, PagesGoOn, PTL DEF PagesSpec
-----------------------------------------------------------------------------
(***************************************************************************)
(* The parts together, as MCStoreServices puts them side by side: a step   *)
(* of one leaves the others alone, so the parts' invariants hold at once.  *)
(***************************************************************************)
PartsInv ==
  /\ AgreeInv /\ StoreWords /\ StockInv /\ StockWords /\ StorageInv /\ PagesInv
  /\ SaleInv /\ SaleWords /\ ShipInv /\ OrderNumbers /\ ToolsInv /\ ToolsWithin
  /\ focus \in Parts

\* Each part begins in its invariant.
LEMMA PartsBegin == ServicesInit => PartsInv
BY AgreeBegins, StoreWordsAtFirst, StockBegins, StockWordsAtFirst, StorageBegins,
   PagesBegin, SalesBegin, SaleWordsAtFirst, ShippingBegins, OrderNumbersAtFirst,
   ToolsBegin, ToolsWithinAtFirst
   DEF ServicesInit, PartsInv

\* A step of the part in focus keeps its invariant, and the others stay.
LEMMA PartsGoOn ==
  PartsInv /\ [ServicesNext]_<<focus, inventoryVars, stockVars, storageVars,
                              pagesVars, saleVars, shipVars, toolVars>> => PartsInv'
<1> SUFFICES ASSUME PartsInv,
                    [ServicesNext]_<<focus, inventoryVars, stockVars, storageVars,
                                     pagesVars, saleVars, shipVars, toolVars>>
             PROVE  PartsInv'
  OBVIOUS
<1>1. /\ [InventoryNext]_inventoryVars /\ [StockNext]_stockVars
      /\ [StorageNext]_storageVars /\ [PagesNext]_pagesVars /\ [SaleNext]_saleVars
      /\ [ShippingNext]_shipVars /\ [ToolsNext]_toolVars
  BY DEF ServicesNext
<1>2. AgreeInv' /\ StoreWords'
  BY <1>1, AgreeGoesOn, StoreWordsStay DEF PartsInv
<1>3. StockInv' /\ StockWords'
  BY <1>1, StockGoesOn, StockWordsStay DEF PartsInv
<1>4. StorageInv' /\ PagesInv'
  BY <1>1, StorageGoesOn, PagesGoOn DEF PartsInv
<1>5. SaleInv' /\ SaleWords'
  BY <1>1, SalesGoOn, SaleWordsStay DEF PartsInv
<1>6. ShipInv' /\ OrderNumbers'
  BY <1>1, ShippingGoesOn, OrderNumbersStay DEF PartsInv
<1>7. ToolsInv' /\ ToolsWithin'
  BY <1>1, ToolsGoOn, ToolsStayWithin DEF PartsInv
<1>8. focus' \in Parts
  BY DEF PartsInv, ServicesNext
<1> QED BY <1>2, <1>3, <1>4, <1>5, <1>6, <1>7, <1>8 DEF PartsInv

\* Every part keeps to its types, whatever the sizes and the bounds: among them
\* no record of the Inventory store moves by more than a version per call, a
\* balance's version counts no more changes than were asked for (runtime.ts,
\* executeAdjustment), and the cart an agent edits stays within its limits.
THEOREM StoreServicesTyped == ServicesSpec => []ServicesTypeOK
<1>1. PartsInv => ServicesTypeOK
  <2> SUFFICES ASSUME PartsInv PROVE ServicesTypeOK
    OBVIOUS
  <2>1. InventoryTypeOK /\ StockTypeOK
    BY InventoryTypes, StockTypes DEF PartsInv
  <2>2. StorageTypeOK /\ PagesTypeOK
    BY DEF PartsInv, StorageInv, PagesInv
  <2>3. SaleTypeOK /\ ShippingTypeOK /\ ToolsTypeOK
    BY SaleTypes, ShippingTypes, ToolsTypes DEF PartsInv
  <2>4. focus \in Parts
    BY DEF PartsInv
  <2> QED BY <2>1, <2>2, <2>3, <2>4 DEF ServicesTypeOK, Parts
<1> QED BY <1>1, PartsBegin, PartsGoOn, PTL DEF ServicesSpec
=============================================================================
