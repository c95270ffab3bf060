-------------------------- MODULE StoreServicesProofs --------------------------
(***************************************************************************)
(* Proofs about four of the store's services, which share no state: its    *)
(* record storages (CatalogStorage), the sweep of scheduled sales          *)
(* (ScheduledSales), the tools of the cart (CartTools) and the practice    *)
(* labels of a playground (PracticeShipping); for any number of records,   *)
(* writers, sweeps, tabs, calls, products, orders and labels.  Each part   *)
(* gives its inductive invariant, the lemmas, its theorems, and what its   *)
(* types need beyond that invariant (InventoryStoreProofs puts the types   *)
(* of all the services together).                                          *)
(***************************************************************************)
EXTENDS CatalogStorage, ScheduledSales, CartTools, PracticeShipping,
        GuestCartProofs, FiniteSetTheorems, TLAPS

(***************************************************************************)
(* CatalogStorage.  The inductive invariant.  That a record a writer finds *)
(* is the one it read follows from its revision alone, because a revision  *)
(* is handed out once: every record's is one that was, and a writer that   *)
(* holds a record's revision holds that record, unless it was replaced     *)
(* since.                                                                  *)
(***************************************************************************)
HandedOut(r) == IF r.revision = 0 THEN r = Absent ELSE r.revision <= revision

HoldsWhatItRead(w) ==
  /\ held[w] = Free \/ held[w].id \in RecordIds
  /\ HandedOut(held[w].read)
  /\ held[w].expects = held[w].read.revision
  /\ \A i \in RecordIds :
       i = held[w].id /\ records[i].revision = held[w].expects
         => records[i] = held[w].read

StorageInv ==
  /\ StorageTypeOK
  /\ \A i \in RecordIds : HandedOut(records[i])
  /\ \A w \in Writers : HoldsWhatItRead(w)
  /\ NoWriteLost

-----------------------------------------------------------------------------
\* A stored record has a revision handed out.
LEMMA RevisionOfStored ==
  ASSUME NEW r \in StoredRecords
  PROVE  r.revision \in 0 .. MaxRevision
BY StorageAssumption DEF StoredRecords, Absent

\* What Store puts in place of a record.
LEMMA StoreWrites ==
  ASSUME StorageTypeOK, NEW id \in RecordIds, NEW data \in Data, Store(id, data)
  PROVE  \E new \in StoredRecords :
           /\ records' = [records EXCEPT ![id] = new]
           /\ new.revision = revision + 1
           /\ new.command = data["command"] /\ new.sku = data["sku"]
           /\ revision' = revision + 1
           /\ revision' \in 0 .. MaxRevision
<1> DEFINE new == [command |-> data["command"], sku |-> data["sku"],
                   revision |-> revision + 1]
<1>1. revision + 1 \in 1 .. MaxRevision
  BY StorageAssumption DEF StorageTypeOK, Store
<1>2. new \in StoredRecords
  BY <1>1 DEF StoredRecords
<1>3. records' = [records EXCEPT ![id] = new] /\ revision' = revision + 1
  BY DEF Store
<1>4. /\ new.revision = revision + 1
      /\ new.command = data["command"] /\ new.sku = data["sku"]
  OBVIOUS
<1>5. revision' \in 0 .. MaxRevision
  BY <1>1, <1>3, StorageAssumption
<1> HIDE DEF new
<1> QED BY <1>2, <1>3, <1>4, <1>5

\* A record stored under values no other record has leaves every value with
\* one record.
LEMMA StoreKeepsUnique ==
  ASSUME StorageTypeOK, storage' = storage,
         NEW id \in RecordIds, NEW data \in Data,
         Unique(id, data), Store(id, data)
  PROVE  OneRecordPerValue'
<1>1. PICK new \in StoredRecords :
        /\ records' = [records EXCEPT ![id] = new]
        /\ new.command = data["command"] /\ new.sku = data["sku"]
  BY StoreWrites
<1>2. \A i \in RecordIds : records'[i] = IF i = id THEN new ELSE records[i]
  BY <1>1 DEF StorageTypeOK
<1>3. storage.unique \subseteq {"command", "sku"}
  BY StorageAssumption DEF StorageTypeOK, Fields
<1>4. ASSUME NEW f \in storage.unique, NEW v \in FieldValues,
             NEW i \in RecordIds, NEW j \in RecordIds,
             records'[i][f] = v, records'[j][f] = v
      PROVE  i = j
  <2>1. f = "command" \/ f = "sku"
    BY <1>3, <1>4
  <2>2. new[f] = data[f]
    BY <1>1, <2>1
  <2>3. ASSUME NEW k \in RecordIds, records[k][f] = data[f] PROVE k = id
    BY <1>4, <2>3 DEF Unique, Query
  <2>4. CASE i = id
    BY <1>2, <1>4, <2>2, <2>3, <2>4
  <2>5. CASE j = id
    BY <1>2, <1>4, <2>2, <2>3, <2>5
  <2>6. CASE i # id /\ j # id
    BY <1>2, <1>4, <2>6 DEF StorageTypeOK, OneRecordPerValue, Query
  <2> QED BY <2>4, <2>5, <2>6
<1> QED BY <1>4 DEF OneRecordPerValue, Query

\* A record taken away leaves every value with one record at most.
LEMMA AbsenceKeepsUnique ==
  ASSUME StorageTypeOK, storage' = storage, NEW id \in RecordIds,
         records' = [records EXCEPT ![id] = Absent]
  PROVE  OneRecordPerValue'
<1>1. storage.unique \subseteq {"command", "sku"}
  BY StorageAssumption DEF StorageTypeOK, Fields
<1>2. \A i \in RecordIds : records'[i] = IF i = id THEN Absent ELSE records[i]
  BY DEF StorageTypeOK
<1>3. \A f \in storage.unique : Absent[f] \notin FieldValues
  BY <1>1, StorageAssumption DEF Absent
<1> QED BY <1>2, <1>3 DEF StorageTypeOK, OneRecordPerValue, Query

\* Writers keep what they hold when a record gets a revision nobody has seen
\* or is taken away.
LEMMA OthersHold ==
  ASSUME StorageInv, NEW w \in Writers, held'[w] = held[w],
         revision' \in Nat, revision <= revision',
         \A i \in RecordIds : \/ records'[i] = records[i]
                              \/ records'[i] = Absent
                              \/ records'[i].revision = revision + 1
  PROVE  HoldsWhatItRead(w)'
<1>1. HoldsWhatItRead(w) /\ revision \in Nat
  BY StorageAssumption DEF StorageInv, StorageTypeOK
<1>2. held[w].read.revision \in Nat
  BY RevisionOfStored, StorageAssumption DEF StorageInv, StorageTypeOK
<1>3. HandedOut(held[w].read)'
  BY <1>1, <1>2 DEF HoldsWhatItRead, HandedOut
<1>4. ASSUME NEW i \in RecordIds, i = held[w].id,
             records'[i].revision = held[w].expects
      PROVE  records'[i] = held[w].read
  <2>1. CASE records'[i] = records[i]
    BY <1>1, <1>4, <2>1 DEF HoldsWhatItRead
  <2>2. CASE records'[i] = Absent
    BY <1>1, <1>4, <2>2 DEF HoldsWhatItRead, HandedOut, Absent
  <2>3. CASE records'[i].revision = revision + 1
    BY <1>1, <1>2, <1>4, <2>3 DEF HoldsWhatItRead, HandedOut
  <2> QED BY <2>1, <2>2, <2>3
<1> QED BY <1>1, <1>3, <1>4 DEF HoldsWhatItRead

\* A writer that holds nothing holds what it read.
LEMMA FreeHolds ==
  ASSUME NEW w \in Writers, held'[w] = Free
  PROVE  HoldsWhatItRead(w)'
BY StorageAssumption DEF HoldsWhatItRead, HandedOut, Free, Absent

\* A writer with no record in hand has its type.
LEMMA FreeTyped ==
  Free \in [id : RecordIds \cup {"none"}, read : StoredRecords,
            expects : 0 .. MaxRevision]
BY StorageAssumption DEF Free, StoredRecords

-----------------------------------------------------------------------------
\* The invariant of a storage holds at the start.
LEMMA StorageBegins == StorageInit => StorageInv
<1> SUFFICES ASSUME StorageInit PROVE StorageInv
  OBVIOUS
<1>1. Absent \in StoredRecords /\ Absent.revision = 0
  BY DEF StoredRecords, Absent
<1>2. OneRecordPerValue
  <2>1. storage.unique \subseteq {"command", "sku"}
    BY StorageAssumption DEF StorageInit, Fields
  <2>2. \A f \in storage.unique : Absent[f] \notin FieldValues
    BY <2>1, StorageAssumption DEF Absent
  <2> QED BY <2>2 DEF StorageInit, OneRecordPerValue, Query
<1>3. StorageTypeOK
  BY <1>1, <1>2, FreeTyped, StorageAssumption DEF StorageInit, StorageTypeOK
<1>4. \A w \in Writers : HoldsWhatItRead(w)
  BY <1>1, StorageAssumption DEF StorageInit, HoldsWhatItRead, HandedOut, Free
<1> QED BY <1>1, <1>3, <1>4 DEF StorageInit, StorageInv, HandedOut, NoWriteLost

\* Every step keeps the invariant: only Store hands out a revision, and it is
\* a new one.
LEMMA StorageGoesOn == StorageInv /\ [StorageNext]_storageVars => StorageInv'
<1> SUFFICES ASSUME StorageInv, [StorageNext]_storageVars PROVE StorageInv'
  OBVIOUS
<1> USE StorageAssumption
<1>1. StorageTypeOK /\ revision \in Nat
  BY DEF StorageInv, StorageTypeOK
<1>2. Absent \in StoredRecords /\ Absent.revision = 0
  BY DEF StoredRecords, Absent
<1>3. ASSUME NEW w \in Writers, NEW id \in RecordIds, GetVersioned(w, id)
      PROVE  StorageInv'
  <2>1. records[id] \in StoredRecords /\ records[id].revision \in 0 .. MaxRevision
    BY <1>1, RevisionOfStored DEF StorageTypeOK
  <2>2. StorageTypeOK'
    BY <1>1, <1>3, <2>1 DEF StorageTypeOK, GetVersioned, OneRecordPerValue, Query
  <2>3. \A v \in Writers : HoldsWhatItRead(v)'
    BY <1>1, <1>3 DEF GetVersioned, StorageInv, StorageTypeOK, HoldsWhatItRead,
       HandedOut
  <2> QED BY <1>3, <2>2, <2>3 DEF StorageInv, GetVersioned, HandedOut, NoWriteLost
<1>4. ASSUME NEW w \in Writers, NEW data \in Data, CompareAndSet(w, data)
      PROVE  StorageInv'
  <2>1. CASE ~(Matches(w) /\ Unique(held[w].id, data))
    <3>1. UNCHANGED <<records, revision, replaced, storage>>
      BY <1>4, <2>1 DEF CompareAndSet
    <3>2. StorageTypeOK'
      BY <1>1, <1>4, <3>1, FreeTyped
         DEF StorageTypeOK, CompareAndSet, OneRecordPerValue, Query
    <3>3. \A v \in Writers : HoldsWhatItRead(v)'
      BY <1>1, <1>4, <3>1, OthersHold, FreeHolds
         DEF CompareAndSet, StorageTypeOK
    <3> QED BY <3>1, <3>2, <3>3 DEF StorageInv, HandedOut, NoWriteLost
  <2>2. CASE Matches(w) /\ Unique(held[w].id, data)
    <3>1. held[w].id \in RecordIds
      BY <1>1, <1>4 DEF StorageInv, HoldsWhatItRead, CompareAndSet
    <3>2. /\ Store(held[w].id, data) /\ Replaces(w) /\ storage' = storage
          /\ held' = [held EXCEPT ![w] = Free]
      BY <1>4, <2>2 DEF CompareAndSet
    <3>3. records[held[w].id] = held[w].read
      BY <2>2, <3>1 DEF Matches, StorageInv, HoldsWhatItRead
    <3>4. PICK new \in StoredRecords :
            /\ records' = [records EXCEPT ![held[w].id] = new]
            /\ new.revision = revision + 1
            /\ revision' = revision + 1 /\ revision' \in 0 .. MaxRevision
      BY <1>1, <3>1, <3>2, StoreWrites
    <3>5. OneRecordPerValue'
      BY <1>1, <2>2, <3>1, <3>2, StoreKeepsUnique
    <3>6. StorageTypeOK'
      BY <1>1, <3>2, <3>3, <3>4, <3>5, FreeTyped DEF StorageTypeOK, Replaces
    <3>7. \A v \in Writers : HoldsWhatItRead(v)'
      BY <1>1, <3>2, <3>4, OthersHold, FreeHolds DEF StorageTypeOK
    <3>8. \A i \in RecordIds : HandedOut(records[i])'
      BY <1>1, <3>4, RevisionOfStored DEF StorageInv, StorageTypeOK, HandedOut
    <3>9. NoWriteLost'
      BY <1>1, <3>2, <3>3 DEF StorageInv, StorageTypeOK, Replaces, NoWriteLost
    <3> QED BY <3>6, <3>7, <3>8, <3>9 DEF StorageInv
  <2> QED BY <2>1, <2>2
<1>5. ASSUME NEW w \in Writers, CompareAndDelete(w) PROVE StorageInv'
  <2>1. /\ UNCHANGED <<storage, revision>>
        /\ held' = [held EXCEPT ![w] = Free]
        /\ held[w].id \in RecordIds
    BY <1>1, <1>5 DEF StorageInv, HoldsWhatItRead, CompareAndDelete
  <2>2. CASE UNCHANGED <<records, replaced>>
    <3>1. StorageTypeOK'
      BY <1>1, <2>1, <2>2, FreeTyped DEF StorageTypeOK, OneRecordPerValue, Query
    <3>2. \A v \in Writers : HoldsWhatItRead(v)'
      BY <1>1, <2>1, <2>2, OthersHold, FreeHolds DEF StorageTypeOK
    <3> QED BY <2>1, <2>2, <3>1, <3>2 DEF StorageInv, HandedOut, NoWriteLost
  <2>3. CASE /\ Matches(w) /\ Replaces(w)
             /\ records' = [records EXCEPT ![held[w].id] = Absent]
    <3>1. records[held[w].id] = held[w].read
      BY <2>1, <2>3 DEF Matches, StorageInv, HoldsWhatItRead
    <3>2. OneRecordPerValue'
      BY <1>1, <2>1, <2>3, AbsenceKeepsUnique
    <3>3. StorageTypeOK'
      BY <1>1, <1>2, <2>1, <2>3, <3>1, <3>2, FreeTyped DEF StorageTypeOK, Replaces
    <3>4. \A v \in Writers : HoldsWhatItRead(v)'
      BY <1>1, <2>1, <2>3, OthersHold, FreeHolds DEF StorageTypeOK
    <3>5. \A i \in RecordIds : HandedOut(records[i])'
      BY <1>1, <1>2, <2>1, <2>3 DEF StorageInv, StorageTypeOK, HandedOut
    <3>6. NoWriteLost'
      BY <1>1, <2>3, <3>1 DEF StorageInv, StorageTypeOK, Replaces, NoWriteLost
    <3> QED BY <3>3, <3>4, <3>5, <3>6 DEF StorageInv
  <2> QED BY <1>5, <2>2, <2>3 DEF CompareAndDelete
<1>6. ASSUME NEW id \in RecordIds, Delete(id) PROVE StorageInv'
  <2>1. /\ UNCHANGED <<storage, revision, held, replaced>>
        /\ records' = [records EXCEPT ![id] = Absent]
    BY <1>6 DEF Delete
  <2>2. StorageTypeOK'
    BY <1>1, <1>2, <2>1, AbsenceKeepsUnique DEF StorageTypeOK
  <2>3. \A v \in Writers : HoldsWhatItRead(v)'
    BY <1>1, <2>1, OthersHold DEF StorageTypeOK
  <2>4. \A i \in RecordIds : HandedOut(records[i])'
    BY <1>1, <1>2, <2>1 DEF StorageInv, StorageTypeOK, HandedOut
  <2> QED BY <2>1, <2>2, <2>3, <2>4 DEF StorageInv, NoWriteLost
<1>7. ASSUME NEW id \in RecordIds, NEW data \in Data, Put(id, data)
      PROVE  StorageInv'
  <2>1. /\ Unique(id, data) /\ Store(id, data)
        /\ UNCHANGED <<storage, held, replaced>>
    BY <1>7 DEF Put
  <2>2. PICK new \in StoredRecords :
          /\ records' = [records EXCEPT ![id] = new]
          /\ new.revision = revision + 1
          /\ revision' = revision + 1 /\ revision' \in 0 .. MaxRevision
    BY <1>1, <2>1, StoreWrites
  <2>3. OneRecordPerValue'
    BY <1>1, <2>1, StoreKeepsUnique
  <2>4. StorageTypeOK'
    BY <1>1, <2>1, <2>2, <2>3 DEF StorageTypeOK
  <2>5. \A v \in Writers : HoldsWhatItRead(v)'
    BY <1>1, <2>1, <2>2, OthersHold DEF StorageTypeOK
  <2>6. \A i \in RecordIds : HandedOut(records[i])'
    BY <1>1, <2>2, RevisionOfStored DEF StorageInv, StorageTypeOK, HandedOut
  <2> QED BY <2>1, <2>4, <2>5, <2>6 DEF StorageInv, NoWriteLost
<1>8. CASE UNCHANGED storageVars
  BY <1>8 DEF storageVars, StorageInv, StorageTypeOK, OneRecordPerValue, Query,
     HandedOut, HoldsWhatItRead, NoWriteLost
<1> QED BY <1>3, <1>4, <1>5, <1>6, <1>7, <1>8 DEF StorageNext

-----------------------------------------------------------------------------
\* The storages keep to their types for any records, writers and revisions,
\* and no two records share the value of a field that is kept unique.
THEOREM StorageTyped == StorageSpec => []StorageTypeOK
<1>1. StorageInv => StorageTypeOK
  BY DEF StorageInv
<1> QED BY <1>1, StorageBegins, StorageGoesOn, PTL DEF StorageSpec

\* A compare-and-set or -delete only ever replaces the record its writer read,
\* however often it was deleted and made again, in every storage.
THEOREM WritesKept == StorageSpec => []NoWriteLost
<1>1. StorageInv => NoWriteLost
  BY DEF StorageInv
<1> QED BY <1>1, StorageBegins, StorageGoesOn, PTL DEF StorageSpec

-----------------------------------------------------------------------------
(***************************************************************************)
(* ScheduledSales.  A listing stands unless a sweep is about to remove it  *)
(* at just the revision it has; such a sweep has taken the product off     *)
(* sale, so whoever sold it since is still owing or has listed it anew.    *)
(***************************************************************************)
SaleCopies == [published : BOOLEAN, granted : BOOLEAN]
SaleReads == [published : BOOLEAN, scheduled : BOOLEAN]
SlotRecords ==
  [at : SlotStages, key : Keys \cup {"none"}, revision : Nat, listed : Nat,
   sale : SaleCopies, product : SaleProducts \cup {NoSale},
   read : SaleReads, fits : BOOLEAN]

OfAPage == {"unchanged", "on", "after", "afterLink", "granted", "list", "listed", "drop"}
OfAProduct == (OfAPage \ {"drop"}) \cup {"visitor", "off", "remove"}

\* What a record in hand is at each await.
InStage(r) ==
  /\ r.at \in {"content", "link", "rename"} => r.key \in {"page", "retitle"}
  /\ r.at \in OfAPage => r.key = "page"
  /\ r.at \in {"off", "remove"} => r.key # "retitle"
  /\ r.at \in OfAProduct => r.product \in SaleProducts
  /\ r.at # "idle" => r.key \in Keys /\ r.revision # 0
  /\ r.fits => r.at \in {"afterLink", "granted"}

InHand(r) == r \in SlotRecords /\ InStage(r)

SalesTyped ==
  /\ salePage \in [published : BOOLEAN, scheduled : BOOLEAN, product : SaleProducts]
  /\ pending \in [Keys -> Nat]
  /\ saleRecord \in SaleCopies
  /\ saleRevision \in Nat
  /\ selling \in SaleProducts \cup {NoSale}
  /\ slots \in [Slots -> SlotRecords]

AllInHand == \A s \in Slots : InHand(slots[s])

\* Revisions are handed out in order.
RevisionsKnown ==
  /\ \A k \in Keys : pending[k] <= saleRevision
  /\ \A s \in Slots : slots[s].revision <= saleRevision /\ slots[s].listed <= saleRevision

\* A sweep that saw the page published, and whose record still stands, is right
\* unless an unpublish has yet to remove the record.
SeenRight ==
  \A s \in Slots :
    slots[s].fits /\ pending["page"] = slots[s].revision
      => salePage.published \/ unpublish = "hook"

Stands(p) ==
  /\ pending[p] # 0
  /\ \A s \in Slots :
       ~(slots[s].at = "remove" /\ slots[s].product = p /\ slots[s].listed = pending[p])

StillOwed ==
  selling # NoSale /\ ~salePage.published =>
    \/ \E s \in Slots : Owing(s)
    \/ \E p \in SaleProducts : Stands(p)
    \/ unpublish # "none"
    \/ saleLog # {}

SaleInv == SalesTyped /\ AllInHand /\ RevisionsKnown /\ SeenRight /\ StillOwed

-----------------------------------------------------------------------------
\* A slot with no record has its type.
LEMMA FreeInHand == InHand(FreeRow) /\ FreeRow.revision = 0 /\ FreeRow.listed = 0
BY DEF InHand, InStage, FreeRow, SlotRecords, SlotStages, SaleCopies, SaleReads,
       NoSale, OfAPage, OfAProduct

\* The row of one slot changes and nothing the others rely on does.
LEMMA RowChanges ==
  ASSUME SaleInv, NEW s \in Slots, NEW next, Now(s, next), InHand(next),
         next.revision <= saleRevision', next.listed <= saleRevision',
         saleRevision' \in Nat, saleRevision <= saleRevision'
  PROVE  /\ slots' \in [Slots -> SlotRecords]
         /\ AllInHand'
         /\ slots'[s] = next /\ \A o \in Slots \ {s} : slots'[o] = slots[o]
         /\ \A o \in Slots : /\ slots'[o].revision <= saleRevision'
                             /\ slots'[o].listed <= saleRevision'
<1>1. slots \in [Slots -> SlotRecords]
  BY DEF SaleInv, SalesTyped
<1>2. slots'[s] = next /\ \A o \in Slots \ {s} : slots'[o] = slots[o]
  BY <1>1 DEF Now
<1>3. slots' \in [Slots -> SlotRecords]
  BY <1>1 DEF Now, InHand
<1>4. AllInHand'
  <2> SUFFICES ASSUME NEW o \in Slots PROVE InHand(slots'[o])
    BY DEF AllInHand, InHand, InStage
  <2> QED BY <1>2 DEF SaleInv, AllInHand
<1>5. ASSUME NEW o \in Slots
      PROVE  slots'[o].revision <= saleRevision' /\ slots'[o].listed <= saleRevision'
  <2>1. CASE o = s
    BY <2>1, <1>2
  <2>2. CASE o # s
    <3>1. /\ slots[o].revision <= saleRevision /\ slots[o].listed <= saleRevision
          /\ slots[o] \in SlotRecords /\ saleRevision \in Nat
      BY DEF SaleInv, RevisionsKnown, SalesTyped
    <3>2. slots[o].revision \in Nat /\ slots[o].listed \in Nat
      BY <3>1 DEF SlotRecords
    <3>3. slots[o].revision <= saleRevision' /\ slots[o].listed <= saleRevision'
      BY <3>1, <3>2
    <3> QED BY <3>3, <2>2, <1>2
  <2> QED BY <2>1, <2>2
<1> QED BY <1>2, <1>3, <1>4, <1>5

\* A row that goes on or is let go, while nothing else moves.
LEMMA QuietRow ==
  ASSUME SaleInv, NEW s \in Slots, NEW next, Now(s, next), InHand(next),
         next.revision <= saleRevision, next.listed <= saleRevision,
         next.fits /\ pending["page"] = next.revision
           => salePage.published \/ unpublish = "hook",
         Owing(s) /\ selling # NoSale /\ ~salePage.published =>
           \/ next.at \in {"after", "afterLink", "granted", "list"}
           \/ unpublish # "none" \/ saleLog' # {},
         next.at # "remove",
         UNCHANGED <<salePage, pending, saleRecord, saleRevision, selling, unpublish>>,
         saleLog \subseteq saleLog'
  PROVE  SaleInv'
<1>1. saleRevision \in Nat /\ saleRevision' = saleRevision
  BY DEF SaleInv, SalesTyped
<1>2. /\ slots' \in [Slots -> SlotRecords]
      /\ AllInHand'
      /\ slots'[s] = next /\ \A o \in Slots \ {s} : slots'[o] = slots[o]
      /\ \A o \in Slots : /\ slots'[o].revision <= saleRevision'
                          /\ slots'[o].listed <= saleRevision'
  BY <1>1, RowChanges
<1>3. SalesTyped' /\ RevisionsKnown'
  BY <1>1, <1>2 DEF SaleInv, SalesTyped, RevisionsKnown
<1>4. SeenRight'
  BY <1>2 DEF SaleInv, SeenRight
<1>5. StillOwed'
  <2> SUFFICES ASSUME selling # NoSale, ~salePage.published,
                      unpublish = "none", saleLog' = {}
               PROVE  \/ \E o \in Slots : Owing(o)'
                      \/ \E p \in SaleProducts : Stands(p)'
    BY DEF StillOwed
  <2>1. (\E o \in Slots : Owing(o)) \/ \E p \in SaleProducts : Stands(p)
    BY DEF SaleInv, StillOwed
  <2>2. ASSUME NEW o \in Slots, Owing(o) PROVE \E x \in Slots : Owing(x)'
    BY <1>2, <2>2 DEF Owing
  <2>3. ASSUME NEW p \in SaleProducts, Stands(p) PROVE Stands(p)'
    BY <1>2, <2>3 DEF Stands
  <2> QED BY <2>1, <2>2, <2>3
<1> QED BY <1>2, <1>3, <1>4, <1>5 DEF SaleInv

\* A slot lets its record go when it owes nothing, or an excuse is logged.
LEMMA LetGo ==
  ASSUME SaleInv, NEW s \in Slots, Leaves(s),
         Owing(s) => saleLog' # {},
         UNCHANGED <<salePage, pending, saleRecord, saleRevision, selling, unpublish>>,
         saleLog \subseteq saleLog'
  PROVE  SaleInv'
<1>1. InHand(FreeRow) /\ FreeRow.revision <= saleRevision /\ FreeRow.listed <= saleRevision
  BY FreeInHand DEF SaleInv, SalesTyped
<1>2. ~FreeRow.fits /\ FreeRow.at # "remove" /\ Now(s, FreeRow)
  BY DEF FreeRow, Leaves
<1> QED BY <1>1, <1>2, QuietRow

\* A record in hand is dropped; it is none of a product's.
LEMMA RowDropped ==
  ASSUME SaleInv, NEW s \in Slots, DropSale(s), slots[s].key \in {"page", "retitle"},
         ~Owing(s),
         UNCHANGED <<salePage, saleRecord, saleRevision, selling, unpublish, saleLog>>
  PROVE  SaleInv'
<1> DEFINE k == slots[s].key
<1>1. /\ saleRevision \in Nat /\ saleRevision' = saleRevision /\ pending \in [Keys -> Nat]
      /\ k \in Keys /\ k \notin SaleProducts
  BY SalesAssumption DEF SaleInv, SalesTyped, Keys
<1>2. /\ InHand(FreeRow) /\ FreeRow.revision <= saleRevision' /\ FreeRow.listed <= saleRevision'
      /\ Now(s, FreeRow) /\ ~FreeRow.fits /\ FreeRow.at = "idle"
  BY <1>1, FreeInHand DEF Leaves, FreeRow, DropSale
<1>3. /\ slots' \in [Slots -> SlotRecords]
      /\ AllInHand'
      /\ slots'[s] = FreeRow /\ \A o \in Slots \ {s} : slots'[o] = slots[o]
      /\ \A o \in Slots : /\ slots'[o].revision <= saleRevision'
                          /\ slots'[o].listed <= saleRevision'
  BY <1>1, <1>2, RowChanges
<1>4. /\ pending' \in [Keys -> Nat]
      /\ \A x \in Keys : pending'[x] \in {0, pending[x]} /\ (x # k => pending'[x] = pending[x])
  BY <1>1 DEF DropSale, RemoveRevision
<1>5. SalesTyped' /\ RevisionsKnown'
  <2>1. \A x \in Keys : pending'[x] <= saleRevision'
    BY <1>1, <1>4 DEF SaleInv, RevisionsKnown
  <2> QED BY <2>1, <1>3, <1>4 DEF SaleInv, SalesTyped, RevisionsKnown
<1>6. SeenRight'
  <2> SUFFICES ASSUME NEW o \in Slots, slots'[o].fits, pending'["page"] = slots'[o].revision
               PROVE  salePage.published \/ unpublish = "hook"
    BY DEF SeenRight
  <2>1. o # s /\ slots'[o] = slots[o]
    BY <1>2, <1>3
  <2>2. slots[o].revision # 0
    BY <2>1 DEF SaleInv, AllInHand, InHand, InStage
  <2>3. pending'["page"] = pending["page"]
    BY <1>4, <2>1, <2>2 DEF Keys
  <2> QED BY <2>1, <2>3 DEF SaleInv, SeenRight
<1>7. StillOwed'
  <2>1. ASSUME NEW o \in Slots, Owing(o) PROVE Owing(o)'
    BY <1>3, <2>1 DEF Owing
  <2>2. ASSUME NEW p \in SaleProducts, Stands(p) PROVE Stands(p)'
    <3>1. pending'[p] = pending[p]
      BY <1>1, <1>4 DEF Keys
    <3> QED BY <1>2, <1>3, <2>2, <3>1 DEF Stands
  <2> QED BY <2>1, <2>2 DEF SaleInv, StillOwed
<1> QED BY <1>3, <1>5, <1>6, <1>7 DEF SaleInv

\* A record stored anew gets a revision never handed out before.
LEMMA StoredAnewKeeps ==
  ASSUME SaleInv, NEW k \in Keys, StoredAnew(k)
  PROVE  /\ saleRevision' = saleRevision + 1 /\ saleRevision' \in Nat
         /\ pending' \in [Keys -> Nat]
         /\ pending'[k] = saleRevision + 1
         /\ \A x \in Keys \ {k} : pending'[x] = pending[x]
         /\ \A x \in Keys : pending'[x] <= saleRevision'
<1>1. saleRevision \in Nat /\ pending \in [Keys -> Nat] /\ saleRevision' = saleRevision + 1
  BY DEF SaleInv, SalesTyped, StoredAnew
<1>2. /\ pending' \in [Keys -> Nat]
      /\ pending'[k] = saleRevision + 1
      /\ \A x \in Keys \ {k} : pending'[x] = pending[x]
  BY <1>1 DEF StoredAnew
<1>3. \A x \in Keys : pending'[x] <= saleRevision'
  BY <1>1, <1>2 DEF SaleInv, RevisionsKnown
<1> QED BY <1>1, <1>2, <1>3

\* A slot's row is as old as the revisions it names.
LEMMA RowOf ==
  ASSUME SaleInv, NEW s \in Slots
  PROVE  /\ InHand(slots[s]) /\ slots[s] \in SlotRecords
         /\ slots[s].revision \in Nat /\ slots[s].listed \in Nat
         /\ slots[s].revision <= saleRevision /\ slots[s].listed <= saleRevision
         /\ saleRevision \in Nat
BY DEF SaleInv, AllInHand, InHand, SalesTyped, RevisionsKnown, SlotRecords

\* The invariant of the sales holds at the start.
LEMMA SalesBegin == SaleInit => SaleInv
<1> SUFFICES ASSUME SaleInit PROVE SaleInv
  OBVIOUS
<1>1. slots = [s \in Slots |-> FreeRow] /\ InHand(FreeRow)
  BY FreeInHand DEF SaleInit
<1>2. SalesTyped
  BY <1>1 DEF SaleInit, SalesTyped, InHand, SaleCopies
<1>3. AllInHand /\ RevisionsKnown
  BY <1>1, FreeInHand DEF SaleInit, AllInHand, RevisionsKnown
<1>4. SeenRight /\ StillOwed
  BY <1>1 DEF SaleInit, SeenRight, StillOwed, FreeRow
<1> QED BY <1>2, <1>3, <1>4 DEF SaleInv

-----------------------------------------------------------------------------
\* A sweep takes a record in hand as it is listed.
LEMMA TakesKeep ==
  ASSUME SaleInv, NEW s \in Slots, TakeRecord(s)
  PROVE  SaleInv'
<1>1. PICK k \in Keys : /\ pending[k] # 0
        /\ Now(s, [FreeRow EXCEPT
             !.key = k, !.revision = pending[k],
             !.listed = IF k \in SaleProducts THEN pending[k] ELSE 0,
             !.sale = IF k = "page" THEN saleRecord ELSE @,
             !.product = IF k \in SaleProducts THEN k ELSE NoSale,
             !.at = IF k \in SaleProducts THEN "visitor" ELSE "content"])
  BY DEF TakeRecord
<1> DEFINE next == [FreeRow EXCEPT
             !.key = k, !.revision = pending[k],
             !.listed = IF k \in SaleProducts THEN pending[k] ELSE 0,
             !.sale = IF k = "page" THEN saleRecord ELSE @,
             !.product = IF k \in SaleProducts THEN k ELSE NoSale,
             !.at = IF k \in SaleProducts THEN "visitor" ELSE "content"]
<1>2. /\ pending[k] \in Nat /\ pending[k] <= saleRevision /\ saleRecord \in SaleCopies
      /\ saleRevision \in Nat
  BY DEF SaleInv, SalesTyped, RevisionsKnown
<1>3. /\ next.key = k /\ next.revision = pending[k] /\ next.fits = FALSE
      /\ next.listed \in {0, pending[k]}
      /\ next.at = IF k \in SaleProducts THEN "visitor" ELSE "content"
      /\ next.product = IF k \in SaleProducts THEN k ELSE NoSale
  BY DEF FreeRow
<1>4. next \in SlotRecords
  BY <1>2, FreeInHand DEF InHand, SlotRecords, SlotStages, FreeRow
<1> HIDE DEF next
<1>5. InStage(next)
  BY <1>1, <1>3 DEF InStage, OfAPage, OfAProduct, Keys
<1>6. next.revision <= saleRevision /\ next.listed <= saleRevision
  BY <1>2, <1>3
<1>7. Now(s, next) /\ ~Owing(s) /\ next.at # "remove"
  BY <1>1, <1>3 DEF next, TakeRecord, Is, Owing
<1> QED BY <1>3, <1>4, <1>5, <1>6, <1>7, QuietRow DEF InHand, TakeRecord

\* An await of a sweep that only moves its own row on.
LEMMA MovesOn ==
  ASSUME SaleInv, NEW s \in Slots, NEW stage \in SlotStages \ {"idle", "remove"},
         Move(s, stage), slots[s].at # "idle", ~slots[s].fits,
         stage \in {"content", "link", "rename"} => slots[s].key \in {"page", "retitle"},
         stage \in OfAPage => slots[s].key = "page",
         stage = "off" => slots[s].key # "retitle",
         stage \in OfAProduct => slots[s].product \in SaleProducts,
         Owing(s) => stage \in {"after", "afterLink", "granted", "list"},
         UNCHANGED <<salePage, pending, saleRecord, saleRevision, selling, unpublish, saleLog>>
  PROVE  SaleInv'
<1> DEFINE next == [slots[s] EXCEPT !.at = stage]
<1>1. /\ next \in SlotRecords /\ next.at = stage /\ next.key = slots[s].key
      /\ next.product = slots[s].product /\ next.fits = slots[s].fits
      /\ next.revision = slots[s].revision /\ next.listed = slots[s].listed
  BY RowOf DEF SlotRecords
<1>2. Now(s, next)
  BY DEF Move
<1> HIDE DEF next
<1>3. InStage(next)
  BY <1>1, RowOf DEF InHand, InStage
<1>4. next.revision <= saleRevision /\ next.listed <= saleRevision
  BY <1>1, RowOf
<1> QED BY <1>1, <1>2, <1>3, <1>4, QuietRow DEF InHand

\* It reads the page and owes nothing yet.
LEMMA ContentKeeps ==
  ASSUME SaleInv, NEW s \in Slots, ReadSaleContent(s)
  PROVE  SaleInv'
<1>1. CASE Leaves(s)
  BY <1>1, LetGo DEF ReadSaleContent, Is, Owing
<1>2. CASE ~Leaves(s)
  <2> DEFINE read == [published |-> salePage.published, scheduled |-> salePage.scheduled]
             next == [slots[s] EXCEPT !.at = "link", !.read = read]
  <2>1. read \in SaleReads
    BY DEF SaleInv, SalesTyped, SaleReads
  <2>2. Now(s, next) /\ slots[s].at = "content"
    BY <1>2 DEF ReadSaleContent, Is
  <2> HIDE DEF read
  <2>3. /\ next \in SlotRecords /\ next.at = "link" /\ next.key = slots[s].key
        /\ next.fits = slots[s].fits
        /\ next.revision = slots[s].revision /\ next.listed = slots[s].listed
    BY <2>1, RowOf DEF SlotRecords, SlotStages
  <2> HIDE DEF next
  <2>4. InStage(next) /\ ~next.fits
    BY <2>2, <2>3, RowOf DEF InHand, InStage, OfAPage, OfAProduct
  <2>5. next.revision <= saleRevision /\ next.listed <= saleRevision
    BY <2>3, RowOf
  <2>6. ~Owing(s) /\ next.at # "remove"
    BY <2>2, <2>3 DEF Owing
  <2> QED BY <2>2, <2>3, <2>4, <2>5, <2>6, QuietRow DEF InHand, ReadSaleContent
<1> QED BY <1>1, <1>2

\* It reads the link and owes nothing yet.
LEMMA LinkKeeps ==
  ASSUME SaleInv, NEW s \in Slots, ReadSaleLink(s)
  PROVE  SaleInv'
<1>1. slots[s].at = "link" /\ ~Owing(s) /\ slots[s].key \in {"page", "retitle"}
  BY RowOf DEF ReadSaleLink, Is, Owing, InHand, InStage
<1>2. CASE Leaves(s) /\ UNCHANGED pending
  BY <1>1, <1>2, LetGo DEF ReadSaleLink
<1>3. CASE DropSale(s)
  BY <1>1, <1>3, RowDropped DEF ReadSaleLink
<1>4. CASE ~(Leaves(s) /\ UNCHANGED pending) /\ ~DropSale(s)
  <2> DEFINE next == [slots[s] EXCEPT !.at = "visitor", !.product = salePage.product,
                                      !.sale = FreeRow.sale, !.read = FreeRow.read]
  <2>1. Now(s, next) /\ UNCHANGED pending
    BY <1>4 DEF ReadSaleLink
  <2>2. /\ salePage.product \in SaleProducts
        /\ FreeRow.sale \in SaleCopies /\ FreeRow.read \in SaleReads
    BY DEF SaleInv, SalesTyped, FreeRow, SaleCopies, SaleReads
  <2>3. /\ next \in SlotRecords /\ next.at = "visitor" /\ next.key = slots[s].key
        /\ next.product = salePage.product /\ next.fits = slots[s].fits
        /\ next.revision = slots[s].revision /\ next.listed = slots[s].listed
    BY <2>2, RowOf DEF SlotRecords, SlotStages
  <2> HIDE DEF next
  <2>4. InStage(next) /\ ~next.fits
    BY <1>1, <2>2, <2>3, RowOf DEF InHand, InStage, OfAPage, OfAProduct
  <2>5. next.revision <= saleRevision /\ next.listed <= saleRevision
    BY <2>3, RowOf
  <2>6. next.at # "remove"
    BY <2>3
  <2> QED BY <1>1, <2>1, <2>3, <2>4, <2>5, <2>6, QuietRow DEF InHand, ReadSaleLink
<1> QED BY <1>2, <1>3, <1>4

\* It asks whether its visitor still may and owes nothing yet.
LEMMA VisitorKeeps ==
  ASSUME SaleInv, NEW s \in Slots, VisitorNow(s)
  PROVE  SaleInv'
<1>1. slots[s].at = "visitor" /\ ~Owing(s) /\ ~slots[s].fits /\ slots[s].key \in Keys
      /\ slots[s].product \in SaleProducts
  BY RowOf DEF VisitorNow, Is, Owing, InHand, InStage, OfAProduct
<1>2. CASE Leaves(s)
  BY <1>1, <1>2, LetGo DEF VisitorNow
<1>3. CASE ~Leaves(s)
  <2> DEFINE stage == CASE slots[s].key = "page" -> "unchanged"
                        [] slots[s].key = "retitle" -> "rename"
                        [] OTHER -> "off"
  <2>1. /\ Move(s, stage) /\ stage \in {"unchanged", "rename", "off"}
        /\ stage = "unchanged" => slots[s].key = "page"
        /\ stage = "rename" => slots[s].key = "retitle"
        /\ stage = "off" => slots[s].key # "retitle"
    BY <1>3 DEF VisitorNow
  <2> HIDE DEF stage
  <2> QED BY <1>1, <2>1, MovesOn DEF VisitorNow, SlotStages, OfAPage, OfAProduct
<1> QED BY <1>2, <1>3

\* It looks whether its record still stands.
LEMMA UnchangedKeeps ==
  ASSUME SaleInv, NEW s \in Slots, UnchangedRecord(s)
  PROVE  SaleInv'
<1>1. slots[s].at = "unchanged" /\ ~Owing(s) /\ ~slots[s].fits /\ slots[s].key = "page"
      /\ slots[s].product \in SaleProducts
  BY RowOf DEF UnchangedRecord, Is, Owing, InHand, InStage, OfAPage, OfAProduct
<1>2. CASE Leaves(s)
  BY <1>1, <1>2, LetGo DEF UnchangedRecord
<1>3. CASE Move(s, "on")
  BY <1>1, <1>3, MovesOn DEF UnchangedRecord, SlotStages, OfAPage, OfAProduct
<1> QED BY <1>2, <1>3 DEF UnchangedRecord

\* What every step of a row keeps but what is owed.
LEMMA RowKeeps ==
  ASSUME SaleInv, NEW s \in Slots, NEW next, Now(s, next), InHand(next),
         next.revision <= saleRevision, next.listed <= saleRevision, ~next.fits,
         UNCHANGED <<salePage, pending, saleRecord, saleRevision, unpublish>>,
         selling' \in SaleProducts \cup {NoSale}
  PROVE  /\ SalesTyped' /\ AllInHand' /\ RevisionsKnown' /\ SeenRight'
         /\ slots'[s] = next /\ \A o \in Slots \ {s} : slots'[o] = slots[o]
<1>1. saleRevision \in Nat /\ saleRevision' = saleRevision
  BY DEF SaleInv, SalesTyped
<1>2. /\ slots' \in [Slots -> SlotRecords]
      /\ AllInHand'
      /\ slots'[s] = next /\ \A o \in Slots \ {s} : slots'[o] = slots[o]
      /\ \A o \in Slots : /\ slots'[o].revision <= saleRevision'
                          /\ slots'[o].listed <= saleRevision'
  BY <1>1, RowChanges
<1>3. SalesTyped' /\ RevisionsKnown'
  BY <1>1, <1>2 DEF SaleInv, SalesTyped, RevisionsKnown
<1>4. SeenRight'
  BY <1>2 DEF SaleInv, SeenRight
<1> QED BY <1>2, <1>3, <1>4

\* A slot that moves on keeps its record in hand.
LEMMA Staged ==
  ASSUME SaleInv, NEW s \in Slots, NEW stage \in SlotStages,
         Move(s, stage), slots[s].at # "idle"
  PROVE  LET next == [slots[s] EXCEPT !.at = stage] IN
         /\ next \in SlotRecords /\ Now(s, next)
         /\ next.at = stage /\ next.key = slots[s].key
         /\ next.product = slots[s].product /\ next.fits = slots[s].fits
         /\ next.revision = slots[s].revision /\ next.listed = slots[s].listed
         /\ next.revision <= saleRevision /\ next.listed <= saleRevision
<1>1. slots[s] \in SlotRecords
  BY RowOf
<1>2. /\ slots[s].revision <= saleRevision /\ slots[s].listed <= saleRevision
  BY RowOf
<1> QED BY <1>1, <1>2 DEF Move, SlotRecords

\* A sweep that sells owes the fresh read from then on.
LEMMA PutOnKeeps ==
  ASSUME SaleInv, NEW s \in Slots, PutSaleOn(s)
  PROVE  SaleInv'
<1>1. /\ slots[s].at = "on" /\ ~Owing(s) /\ ~slots[s].fits /\ slots[s].key = "page"
      /\ slots[s].key \in Keys /\ slots[s].revision # 0
      /\ slots[s].product \in SaleProducts
  BY RowOf DEF PutSaleOn, Is, Owing, InHand, InStage, OfAPage, OfAProduct
<1>2. PICK answer \in SaleAnswers :
        /\ Sells(answer, salePage.product)
        /\ IF answer = "done" THEN Move(s, "after") ELSE Leaves(s)
        /\ saleLog' = saleLog \cup (IF answer = "lost" THEN {"lostOn"} ELSE {})
  BY DEF PutSaleOn
<1>3. selling' \in SaleProducts \cup {NoSale}
  BY <1>2 DEF Sells, SaleInv, SalesTyped
<1>4. CASE answer = "done"
  <2> DEFINE next == [slots[s] EXCEPT !.at = "after"]
  <2>1. /\ next \in SlotRecords /\ Now(s, next)
        /\ next.at = "after" /\ next.key = slots[s].key
        /\ next.product = slots[s].product /\ next.fits = slots[s].fits
        /\ next.revision = slots[s].revision
        /\ next.revision <= saleRevision /\ next.listed <= saleRevision
    BY ZenonT(40), <1>1, <1>2, <1>4, Staged DEF SlotStages
  <2> HIDE DEF next
  <2>2. InHand(next)
    BY <1>1, <2>1 DEF InHand, InStage, OfAPage, OfAProduct
  <2>3. /\ SalesTyped' /\ AllInHand' /\ RevisionsKnown' /\ SeenRight' /\ slots'[s] = next
    BY <1>1, <1>3, <2>1, <2>2, RowKeeps DEF PutSaleOn
  <2>4. Owing(s)'
    BY <2>1, <2>3 DEF Owing
  <2> QED BY <2>3, <2>4 DEF SaleInv, StillOwed
<1>5. CASE answer = "lost"
  <2>1. Now(s, FreeRow) /\ ~FreeRow.fits
    BY <1>2, <1>5 DEF Leaves, FreeRow
  <2>2. /\ InHand(FreeRow) /\ FreeRow.revision <= saleRevision /\ FreeRow.listed <= saleRevision
    BY FreeInHand, RowOf
  <2>3. /\ SalesTyped' /\ AllInHand' /\ RevisionsKnown' /\ SeenRight'
    BY <1>3, <2>1, <2>2, RowKeeps DEF PutSaleOn
  <2>4. saleLog' # {}
    BY <1>2, <1>5
  <2> QED BY <2>3, <2>4 DEF SaleInv, StillOwed
<1>6. CASE answer = "refused"
  <2>1. selling' = selling /\ Leaves(s) /\ saleLog' = saleLog
    BY <1>2, <1>6 DEF Sells
  <2> QED BY <1>1, <2>1, LetGo DEF PutSaleOn
<1> QED BY <1>4, <1>5, <1>6 DEF SaleAnswers

\* It has read the page published, or goes on to take the product off.
LEMMA AfterKeeps ==
  ASSUME SaleInv, NEW s \in Slots, ReadAfter(s)
  PROVE  SaleInv'
<1>1. /\ slots[s].at = "after" /\ ~slots[s].fits /\ slots[s].key = "page"
      /\ slots[s].key \in Keys /\ slots[s].revision # 0
      /\ slots[s].product \in SaleProducts
  BY RowOf DEF ReadAfter, Is, InHand, InStage, OfAPage, OfAProduct
<1>2. CASE Move(s, "granted")
  BY <1>1, <1>2, MovesOn DEF ReadAfter, SlotStages, OfAPage, OfAProduct
<1>3. CASE ~Move(s, "granted")
  <2> DEFINE next == [slots[s] EXCEPT !.at = "afterLink", !.fits = salePage.published]
  <2>1. Now(s, next)
    BY <1>3 DEF ReadAfter
  <2>2. salePage.published \in BOOLEAN
    BY DEF SaleInv, SalesTyped
  <2>3. /\ next \in SlotRecords /\ next.at = "afterLink" /\ next.key = slots[s].key
        /\ next.product = slots[s].product /\ next.fits = salePage.published
        /\ next.revision = slots[s].revision /\ next.listed = slots[s].listed
    BY <2>2, RowOf DEF SlotRecords, SlotStages
  <2> HIDE DEF next
  <2>4. InStage(next)
    BY <1>1, <2>3 DEF InStage, OfAPage, OfAProduct
  <2>5. next.revision <= saleRevision /\ next.listed <= saleRevision
    BY <2>3, RowOf
  <2> QED BY <1>1, <2>1, <2>3, <2>4, <2>5, QuietRow DEF InHand, ReadAfter
<1> QED BY <1>2, <1>3

\* The same of the link.
LEMMA LinkAfterKeeps ==
  ASSUME SaleInv, NEW s \in Slots, LinkAfter(s)
  PROVE  SaleInv'
<1>1. /\ slots[s].at = "afterLink" /\ slots[s].key = "page"
      /\ slots[s].key \in Keys /\ slots[s].revision # 0
      /\ slots[s].product \in SaleProducts
  BY RowOf DEF LinkAfter, Is, InHand, InStage, OfAPage, OfAProduct
<1>2. PICK fits \in BOOLEAN :
        Now(s, [slots[s] EXCEPT !.at = "granted", !.fits = @ /\ fits])
  BY DEF LinkAfter
<1> DEFINE next == [slots[s] EXCEPT !.at = "granted", !.fits = @ /\ fits]
<1>3. slots[s] \in SlotRecords /\ (slots[s].fits /\ fits) \in BOOLEAN
  BY RowOf
<1>4. /\ next \in SlotRecords /\ next.at = "granted" /\ next.key = slots[s].key
      /\ next.product = slots[s].product /\ next.fits = (slots[s].fits /\ fits)
      /\ next.revision = slots[s].revision /\ next.listed = slots[s].listed
  BY <1>3 DEF SlotRecords, SlotStages
<1>5. Now(s, next)
  BY <1>2
<1> HIDE DEF next
<1>6. InStage(next)
  BY <1>1, <1>4 DEF InStage, OfAPage, OfAProduct
<1>7. next.revision <= saleRevision /\ next.listed <= saleRevision
  BY <1>4, RowOf
<1>8. next.fits /\ pending["page"] = next.revision
        => salePage.published \/ unpublish = "hook"
  BY <1>4 DEF SaleInv, SeenRight
<1> QED BY <1>1, <1>4, <1>5, <1>6, <1>7, <1>8, QuietRow DEF InHand, LinkAfter

\* The same of the grant.
LEMMA GrantedKeeps ==
  ASSUME SaleInv, NEW s \in Slots, StillGranted(s)
  PROVE  SaleInv'
<1> DEFINE stage == IF pending["page"] = slots[s].revision /\ slots[s].fits
                    THEN "rename" ELSE "list"
           next == [slots[s] EXCEPT !.fits = FALSE, !.at = stage]
<1>1. /\ slots[s].at = "granted" /\ slots[s].key = "page"
      /\ slots[s].key \in Keys /\ slots[s].revision # 0
      /\ slots[s].product \in SaleProducts
  BY RowOf DEF StillGranted, Is, InHand, InStage, OfAPage, OfAProduct
<1>2. Now(s, next) /\ stage \in {"rename", "list"}
  BY DEF StillGranted
<1>3. stage = "rename" => salePage.published \/ unpublish = "hook"
  BY DEF SaleInv, SeenRight
<1> HIDE DEF stage
<1>4. /\ next \in SlotRecords /\ next.at = stage /\ next.key = slots[s].key
      /\ next.product = slots[s].product /\ next.fits = FALSE
      /\ next.revision = slots[s].revision /\ next.listed = slots[s].listed
  BY <1>2, RowOf DEF SlotRecords, SlotStages
<1> HIDE DEF next
<1>5. InStage(next)
  BY <1>1, <1>2, <1>4 DEF InStage, OfAPage, OfAProduct
<1>6. next.revision <= saleRevision /\ next.listed <= saleRevision
  BY <1>4, RowOf
<1>7. Owing(s) /\ selling # NoSale /\ ~salePage.published =>
           \/ next.at \in {"after", "afterLink", "granted", "list"}
           \/ unpublish # "none" \/ saleLog' # {}
  BY <1>2, <1>3, <1>4
<1>8. next.at # "remove"
  BY <1>2, <1>4
<1> QED BY <1>2, <1>4, <1>5, <1>6, <1>7, <1>8, QuietRow DEF InHand, StillGranted

\* A record stored anew stands: no sweep has its revision in hand.  What stood
\* before still does.
LEMMA StoredStands ==
  ASSUME SaleInv, NEW k \in Keys, StoredAnew(k),
         \A s \in Slots : slots'[s].listed <= saleRevision,
         \A s \in Slots : slots'[s].at = "remove" => slots'[s] = slots[s],
         slots' \in [Slots -> SlotRecords]
  PROVE  \A p \in SaleProducts : p = k \/ Stands(p) => Stands(p)'
<1>1. /\ saleRevision \in Nat /\ pending'[k] = saleRevision + 1
      /\ \A x \in Keys \ {k} : pending'[x] = pending[x]
  BY StoredAnewKeeps DEF SaleInv, SalesTyped
<1>2. ASSUME NEW s \in Slots PROVE slots'[s].listed # pending'[k]
  <2>1. slots'[s].listed \in Nat /\ slots'[s].listed <= saleRevision
    BY <1>2 DEF SlotRecords
  <2> QED BY <1>1, <2>1
<1> SUFFICES ASSUME NEW p \in SaleProducts, p = k \/ Stands(p) PROVE Stands(p)'
  OBVIOUS
<1>3. CASE p = k
  BY <1>1, <1>2, <1>3 DEF Stands
<1>4. CASE p # k
  <2>1. pending'[p] = pending[p] /\ Stands(p)
    BY <1>1, <1>4 DEF Keys
  <2> QED BY <2>1 DEF Stands
<1> QED BY <1>3, <1>4

\* A sweep stores a record and goes on.
LEMMA RowStores ==
  ASSUME SaleInv, NEW s \in Slots, NEW k \in Keys \ {"page"}, StoredAnew(k),
         NEW stage \in SlotStages \ {"remove"}, Move(s, stage), slots[s].at # "idle",
         InStage([slots[s] EXCEPT !.at = stage]), ~slots[s].fits,
         ~Owing(s) \/ k \in SaleProducts,
         UNCHANGED <<salePage, saleRecord, selling, unpublish, saleLog>>
  PROVE  SaleInv'
<1> DEFINE next == [slots[s] EXCEPT !.at = stage]
<1>1. /\ next \in SlotRecords /\ Now(s, next) /\ next.at = stage
      /\ next.fits = slots[s].fits
      /\ next.revision \in Nat /\ next.listed \in Nat
      /\ next.revision <= saleRevision /\ next.listed <= saleRevision
  BY Staged, RowOf
<1>2. InHand(next)
  BY <1>1 DEF InHand
<1> HIDE DEF next
<1>3. /\ saleRevision' = saleRevision + 1 /\ saleRevision' \in Nat /\ saleRevision \in Nat
      /\ pending' \in [Keys -> Nat]
      /\ pending'["page"] = pending["page"]
      /\ \A x \in Keys : pending'[x] <= saleRevision'
  BY StoredAnewKeeps DEF SaleInv, SalesTyped, Keys
<1>4. next.revision <= saleRevision' /\ next.listed <= saleRevision'
      /\ saleRevision <= saleRevision'
  BY <1>1, <1>3
<1>5. /\ slots' \in [Slots -> SlotRecords]
      /\ AllInHand'
      /\ slots'[s] = next /\ \A o \in Slots \ {s} : slots'[o] = slots[o]
      /\ \A o \in Slots : /\ slots'[o].revision <= saleRevision'
                          /\ slots'[o].listed <= saleRevision'
  BY <1>1, <1>2, <1>3, <1>4, RowChanges
<1>6. SalesTyped' /\ RevisionsKnown'
  BY <1>3, <1>5 DEF SaleInv, SalesTyped, RevisionsKnown
<1>7. SeenRight'
  BY <1>1, <1>3, <1>5 DEF SaleInv, SeenRight
<1>8. \A p \in SaleProducts : p = k \/ Stands(p) => Stands(p)'
  <2>1. \A o \in Slots : slots'[o].listed <= saleRevision
    BY <1>1, <1>5 DEF SaleInv, RevisionsKnown
  <2>2. \A o \in Slots : slots'[o].at = "remove" => slots'[o] = slots[o]
    BY <1>1, <1>5
  <2> QED BY <1>5, <2>1, <2>2, StoredStands
<1>9. StillOwed'
  <2>1. CASE k \in SaleProducts
    BY <1>8, <2>1 DEF StillOwed
  <2>2. CASE ~Owing(s)
    <3>1. ASSUME NEW o \in Slots, Owing(o) PROVE Owing(o)'
      BY <1>5, <2>2, <3>1 DEF Owing
    <3> QED BY <1>8, <3>1 DEF SaleInv, StillOwed
  <2> QED BY <2>1, <2>2
<1> QED BY <1>5, <1>6, <1>7, <1>9 DEF SaleInv

\* A title changes nothing that is for sale.
LEMMA RenameKeeps ==
  ASSUME SaleInv, NEW s \in Slots, RenameSale(s)
  PROVE  SaleInv'
<1>1. /\ slots[s].at = "rename" /\ ~Owing(s) /\ ~slots[s].fits
      /\ slots[s].key \in {"page", "retitle"} /\ slots[s].revision # 0
  BY RowOf DEF RenameSale, Is, Owing, InHand, InStage
<1>2. CASE DropSale(s) /\ UNCHANGED saleRevision
  BY <1>1, <1>2, RowDropped DEF RenameSale
<1>3. CASE slots[s].key = "retitle" /\ Leaves(s) /\ UNCHANGED <<pending, saleRevision>>
  BY <1>1, <1>3, LetGo DEF RenameSale
<1>4. CASE slots[s].key = "page" /\ StoredAnew("retitle") /\ Move(s, "drop")
  <2>1. InStage([slots[s] EXCEPT !.at = "drop"])
    BY <1>1, <1>4, RowOf DEF InStage, SlotRecords, OfAPage, OfAProduct, Keys
  <2>2. "retitle" \in Keys \ {"page"} /\ "drop" \in SlotStages \ {"remove"}
    BY DEF Keys, SlotStages
  <2> QED BY <1>1, <1>4, <2>1, <2>2, RowStores DEF RenameSale
<1> QED BY <1>2, <1>3, <1>4 DEF RenameSale

\* A take-back is listed at a revision of its own.
LEMMA ListKeeps ==
  ASSUME SaleInv, NEW s \in Slots, ListTakeback(s)
  PROVE  SaleInv'
<1>1. /\ slots[s].at = "list" /\ ~slots[s].fits /\ slots[s].key = "page"
      /\ slots[s].key \in Keys /\ slots[s].revision # 0
      /\ slots[s].product \in SaleProducts
  BY RowOf DEF ListTakeback, Is, InHand, InStage, OfAPage, OfAProduct
<1>2. InStage([slots[s] EXCEPT !.at = "listed"])
  BY <1>1, RowOf DEF InStage, SlotRecords, OfAPage, OfAProduct
<1>3. /\ slots[s].product \in Keys \ {"page"} /\ "listed" \in SlotStages \ {"remove"}
  BY <1>1, SalesAssumption DEF Keys, SlotStages
<1> QED BY <1>1, <1>2, <1>3, RowStores DEF ListTakeback

\* A take-back is read at the revision it stands at, or was answered.
LEMMA ReadTakebackKeeps ==
  ASSUME SaleInv, NEW s \in Slots, ReadTakeback(s)
  PROVE  SaleInv'
<1> DEFINE listed == pending[slots[s].product]
           stage == IF listed = 0 THEN "drop" ELSE "off"
           next == [slots[s] EXCEPT !.at = stage, !.listed = listed]
<1>1. /\ slots[s].at = "listed" /\ ~slots[s].fits /\ slots[s].key = "page"
      /\ slots[s].key \in Keys /\ slots[s].revision # 0 /\ ~Owing(s)
      /\ slots[s].product \in SaleProducts
  BY RowOf DEF ReadTakeback, Is, InHand, InStage, OfAPage, OfAProduct, Owing
<1>2. listed \in Nat /\ listed <= saleRevision
  BY <1>1 DEF SaleInv, SalesTyped, RevisionsKnown, Keys
<1>3. Now(s, next) /\ stage \in {"drop", "off"}
  BY DEF ReadTakeback
<1> HIDE DEF listed, stage
<1>4. /\ next \in SlotRecords /\ next.at = stage /\ next.key = slots[s].key
      /\ next.product = slots[s].product /\ next.fits = slots[s].fits
      /\ next.revision = slots[s].revision /\ next.listed = listed
  BY <1>2, <1>3, RowOf DEF SlotRecords, SlotStages
<1> HIDE DEF next
<1>5. InStage(next)
  BY <1>1, <1>3, <1>4 DEF InStage, OfAPage, OfAProduct
<1>6. next.revision <= saleRevision /\ next.listed <= saleRevision
  BY <1>2, <1>4, RowOf
<1>7. next.at # "remove"
  BY <1>3, <1>4
<1> QED BY <1>1, <1>3, <1>4, <1>5, <1>6, <1>7, QuietRow DEF InHand, ReadTakeback

\* After a take-back the sweep goes on, if at all, to drop its record.
LEMMA OnwardRow ==
  ASSUME SaleInv, NEW s \in Slots, Onward(s), slots[s].at \in {"off", "remove"}
  PROVE  \E next : /\ Now(s, next) /\ InHand(next) /\ ~next.fits
                   /\ next.at \in {"idle", "drop"}
                   /\ next.revision <= saleRevision /\ next.listed <= saleRevision
<1>1. CASE slots[s].key = "page"
  <2> DEFINE next == [slots[s] EXCEPT !.at = "drop", !.listed = 0, !.product = NoSale]
  <2>1. Now(s, next)
    BY <1>1 DEF Onward
  <2>2. /\ next \in SlotRecords /\ next.at = "drop" /\ next.key = slots[s].key
        /\ next.fits = slots[s].fits
        /\ next.revision = slots[s].revision /\ next.listed = 0
    BY RowOf DEF SlotRecords, SlotStages
  <2> HIDE DEF next
  <2>3. InStage(next) /\ ~next.fits
    BY <1>1, <2>2, RowOf DEF InHand, InStage, OfAPage, OfAProduct
  <2>4. next.revision <= saleRevision /\ next.listed <= saleRevision
    BY <2>2, RowOf
  <2> QED BY <2>1, <2>2, <2>3, <2>4 DEF InHand
<1>2. CASE slots[s].key # "page"
  <2>1. Now(s, FreeRow) /\ InHand(FreeRow) /\ ~FreeRow.fits /\ FreeRow.at = "idle"
    BY <1>2, FreeInHand DEF Onward, Leaves, FreeRow
  <2>2. FreeRow.revision <= saleRevision /\ FreeRow.listed <= saleRevision
    BY FreeInHand, RowOf
  <2> QED BY <2>1, <2>2
<1> QED BY <1>1, <1>2

\* An off-sale write settles what is owed, or the failure is logged.
LEMMA OffKeeps ==
  ASSUME SaleInv, NEW s \in Slots, TakeSaleOff(s)
  PROVE  SaleInv'
<1>1. /\ slots[s].at = "off" /\ ~Owing(s) /\ ~slots[s].fits
      /\ slots[s].key \in Keys \ {"retitle"} /\ slots[s].revision # 0
      /\ slots[s].product \in SaleProducts
  BY RowOf DEF TakeSaleOff, Is, Owing, InHand, InStage, OfAPage, OfAProduct
<1>2. PICK answer \in SaleAnswers :
        /\ Sells(answer, NoSale)
        /\ IF answer = "done" THEN Move(s, "remove") ELSE Onward(s)
  BY DEF TakeSaleOff
<1>3. selling' \in {selling, NoSale} /\ selling' \in SaleProducts \cup {NoSale}
  BY <1>2 DEF Sells, SaleInv, SalesTyped
<1>4. CASE answer = "done"
  <2> DEFINE next == [slots[s] EXCEPT !.at = "remove"]
  <2>1. /\ next \in SlotRecords /\ Now(s, next)
        /\ next.at = "remove" /\ next.key = slots[s].key
        /\ next.product = slots[s].product /\ next.fits = slots[s].fits
        /\ next.revision = slots[s].revision
        /\ next.revision <= saleRevision /\ next.listed <= saleRevision
    BY <1>1, <1>2, <1>4, Staged DEF SlotStages
  <2> HIDE DEF next
  <2>2. InHand(next)
    BY <1>1, <2>1 DEF InHand, InStage, OfAPage, OfAProduct
  <2>3. /\ SalesTyped' /\ AllInHand' /\ RevisionsKnown' /\ SeenRight'
    BY <1>1, <1>3, <2>1, <2>2, RowKeeps DEF TakeSaleOff
  <2>4. selling' = NoSale
    BY <1>2, <1>4 DEF Sells
  <2> QED BY <2>3, <2>4 DEF SaleInv, StillOwed
<1>5. CASE answer # "done"
  <2>1. PICK next : /\ Now(s, next) /\ InHand(next) /\ ~next.fits
                    /\ next.at \in {"idle", "drop"}
                    /\ next.revision <= saleRevision /\ next.listed <= saleRevision
    BY <1>1, <1>2, <1>5, OnwardRow
  <2>2. /\ SalesTyped' /\ AllInHand' /\ RevisionsKnown' /\ SeenRight'
        /\ slots'[s] = next /\ \A o \in Slots \ {s} : slots'[o] = slots[o]
    BY <1>3, <2>1, RowKeeps DEF TakeSaleOff
  <2>3. /\ salePage' = salePage /\ unpublish' = unpublish /\ saleLog' = saleLog
        /\ pending' = pending
    BY DEF TakeSaleOff
  <2>4. StillOwed'
    <3>1. ASSUME NEW o \in Slots, Owing(o) PROVE Owing(o)'
      BY <1>1, <2>2, <3>1 DEF Owing
    <3>2. ASSUME NEW p \in SaleProducts, Stands(p) PROVE Stands(p)'
      BY <2>1, <2>2, <2>3, <3>2 DEF Stands
    <3> QED BY <1>3, <2>3, <3>1, <3>2 DEF SaleInv, StillOwed
  <2> QED BY <2>2, <2>4 DEF SaleInv
<1> QED BY <1>4, <1>5

\* Only the very listing whose product was taken off sale is removed.
LEMMA RemoveKeeps ==
  ASSUME SaleInv, NEW s \in Slots, RemoveTakeback(s)
  PROVE  SaleInv'
<1> DEFINE p == slots[s].product
<1>1. /\ slots[s].at = "remove" /\ ~Owing(s) /\ p \in SaleProducts
      /\ p \in Keys /\ p # "page"
  BY RowOf, SalesAssumption
     DEF RemoveTakeback, Is, Owing, InHand, InStage, OfAPage, OfAProduct, Keys
<1>2. PICK next : /\ Now(s, next) /\ InHand(next) /\ ~next.fits
                  /\ next.at \in {"idle", "drop"}
                  /\ next.revision <= saleRevision /\ next.listed <= saleRevision
  BY <1>1, OnwardRow DEF RemoveTakeback
<1>3. /\ saleRevision \in Nat /\ saleRevision' = saleRevision /\ pending \in [Keys -> Nat]
      /\ UNCHANGED <<salePage, saleRecord, selling, unpublish, saleLog>>
  BY DEF SaleInv, SalesTyped, RemoveTakeback
<1>4. /\ slots' \in [Slots -> SlotRecords]
      /\ AllInHand'
      /\ slots'[s] = next /\ \A o \in Slots \ {s} : slots'[o] = slots[o]
      /\ \A o \in Slots : /\ slots'[o].revision <= saleRevision'
                          /\ slots'[o].listed <= saleRevision'
  BY <1>2, <1>3, RowChanges
<1>5. /\ pending' \in [Keys -> Nat]
      /\ \A x \in Keys : pending'[x] \in {0, pending[x]}
      /\ \A x \in Keys : x # p \/ pending[x] # slots[s].listed => pending'[x] = pending[x]
  BY <1>3 DEF RemoveTakeback, RemoveRevision
<1>6. SalesTyped' /\ RevisionsKnown'
  <2>1. \A x \in Keys : pending'[x] <= saleRevision'
    BY <1>3, <1>5 DEF SaleInv, RevisionsKnown
  <2> QED BY <2>1, <1>3, <1>4, <1>5 DEF SaleInv, SalesTyped, RevisionsKnown
<1>7. SeenRight'
  <2>1. pending'["page"] = pending["page"]
    BY <1>1, <1>5 DEF Keys
  <2> QED BY <2>1, <1>2, <1>3, <1>4 DEF SaleInv, SeenRight
<1>8. StillOwed'
  <2>1. ASSUME NEW o \in Slots, Owing(o) PROVE Owing(o)'
    BY <1>1, <1>4, <2>1 DEF Owing
  <2>2. ASSUME NEW q \in SaleProducts, Stands(q) PROVE Stands(q)'
    <3>1. pending'[q] = pending[q]
      BY <1>1, <1>5, <2>2 DEF Stands, Keys
    <3> QED BY <1>2, <1>4, <2>2, <3>1 DEF Stands
  <2> QED BY <1>3, <2>1, <2>2 DEF SaleInv, StillOwed
<1> QED BY <1>4, <1>6, <1>7, <1>8 DEF SaleInv

\* Every step of a sweep keeps the invariant of the sales.
LEMMA SweepStepKeeps ==
  ASSUME SaleInv, NEW s \in Slots, TakeRecord(s) \/ SweepStep(s) \/ SweepDies(s)
  PROVE  SaleInv'
<1>1. CASE TakeRecord(s)
  BY <1>1, TakesKeep
<1>2. CASE SweepDies(s)
  <2>1. Owing(s) => saleLog' # {}
    BY <1>2 DEF SweepDies
  <2>2. saleLog \subseteq saleLog'
    BY <1>2 DEF SweepDies
  <2> QED BY <1>2, <2>1, <2>2, LetGo DEF SweepDies
<1>3. CASE DropSaleRecord(s)
  <2>1. slots[s].key = "page" /\ ~Owing(s)
    BY <1>3, RowOf DEF DropSaleRecord, Is, Owing, InHand, InStage, OfAPage
  <2> QED BY <1>3, <2>1, RowDropped DEF DropSaleRecord
<1>4. CASE SweepStep(s) /\ ~DropSaleRecord(s)
  BY <1>4, ContentKeeps, LinkKeeps, VisitorKeeps, UnchangedKeeps, PutOnKeeps,
     AfterKeeps, LinkAfterKeeps, GrantedKeeps, RenameKeeps, ListKeeps,
     ReadTakebackKeeps, OffKeeps, RemoveKeeps DEF SweepStep
<1> QED BY <1>1, <1>2, <1>3, <1>4

-----------------------------------------------------------------------------
\* The page's own record is stored anew or removed beside the sweeps.
LEMMA PageRecordKeeps ==
  ASSUME SaleInv, slots' = slots, pending' \in [Keys -> Nat],
         \A x \in Keys \ {"page"} : pending'[x] = pending[x],
         \A s \in Slots : slots[s].at # "idle" => pending'["page"] # slots[s].revision
  PROVE  SeenRight' /\ \A p \in SaleProducts : Stands(p) => Stands(p)'
<1>1. \A s \in Slots : slots[s].fits => slots[s].at # "idle"
  BY DEF SaleInv, AllInHand, InHand, InStage
<1>2. \A p \in SaleProducts : pending'[p] = pending[p]
  BY SalesAssumption DEF Keys
<1> QED BY <1>1, <1>2 DEF SeenRight, Stands

\* So does what people and EmDash do meanwhile.
LEMMA PeopleKeep ==
  ASSUME SaleInv,
         \/ ScheduleSale \/ PublishScheduled \/ RecordPublished
         \/ Unpublish \/ RecordRemoved \/ SaleOffAgain
         \/ \E p \in SaleProducts : PanelSalePicks(p)
  PROVE  SaleInv'
<1>1. /\ slots' = slots /\ slots \in [Slots -> SlotRecords] /\ saleRevision \in Nat
      /\ AllInHand /\ pending \in [Keys -> Nat] /\ "page" \in Keys
  BY DEF SaleInv, SalesTyped, Keys, ScheduleSale, PublishScheduled, RecordPublished,
         Unpublish, RecordRemoved, SaleOffAgain, PanelSalePicks
<1>2. AllInHand'
  BY <1>1 DEF AllInHand
<1>3. \A s \in Slots : Owing(s)' = Owing(s)
  BY <1>1 DEF Owing
<1>4. CASE StoredAnew("page") /\ (ScheduleSale \/ RecordPublished)
  <2>1. /\ saleRevision' = saleRevision + 1 /\ saleRevision' \in Nat
        /\ pending' \in [Keys -> Nat]
        /\ pending'["page"] = saleRevision + 1
        /\ \A x \in Keys \ {"page"} : pending'[x] = pending[x]
        /\ \A x \in Keys : pending'[x] <= saleRevision'
    BY <1>1, <1>4, StoredAnewKeeps
  <2>2. ASSUME NEW s \in Slots
        PROVE  /\ slots[s].revision <= saleRevision' /\ slots[s].listed <= saleRevision'
               /\ pending'["page"] # slots[s].revision
    BY <2>1, RowOf
  <2>3. SeenRight' /\ \A p \in SaleProducts : Stands(p) => Stands(p)'
    BY <1>1, <2>1, <2>2, PageRecordKeeps
  <2>4. /\ salePage'.published = salePage.published
        /\ salePage' \in [published : BOOLEAN, scheduled : BOOLEAN, product : SaleProducts]
        /\ saleRecord' \in SaleCopies
        /\ selling' = selling /\ unpublish' = unpublish /\ saleLog' = saleLog
    <3>1. /\ salePage \in [published : BOOLEAN, scheduled : BOOLEAN, product : SaleProducts]
          /\ saleRecord \in SaleCopies
      BY DEF SaleInv, SalesTyped
    <3>2. CASE ScheduleSale
      <4>1. PICK granted \in BOOLEAN :
              saleRecord' = [published |-> FALSE, granted |-> granted]
        BY <3>2 DEF ScheduleSale
      <4>2. saleRecord' \in SaleCopies
        BY <4>1 DEF SaleCopies
      <4> QED BY <3>1, <3>2, <4>2 DEF ScheduleSale
    <3>3. CASE RecordPublished
      BY <3>1, <3>3 DEF RecordPublished, SaleCopies
    <3> QED BY <1>4, <3>2, <3>3
  <2>5. SalesTyped' /\ RevisionsKnown'
    BY <1>1, <2>1, <2>2, <2>4 DEF SaleInv, SalesTyped, RevisionsKnown
  <2>6. StillOwed'
    BY <1>3, <2>3, <2>4 DEF SaleInv, StillOwed
  <2> QED BY <1>2, <2>3, <2>5, <2>6 DEF SaleInv
<1>5. CASE RecordRemoved
  <2>1. /\ pending' = [pending EXCEPT !["page"] = 0]
        /\ unpublish' = IF unpublish = "hook" THEN "off" ELSE unpublish
        /\ UNCHANGED <<salePage, saleRecord, saleRevision, selling, slots, saleLog>>
    BY <1>5 DEF RecordRemoved
  <2>2. /\ pending' \in [Keys -> Nat] /\ pending'["page"] = 0
        /\ \A x \in Keys \ {"page"} : pending'[x] = pending[x]
    BY <1>1, <2>1
  <2>3. \A s \in Slots : slots[s].at # "idle" => pending'["page"] # slots[s].revision
    BY <1>1, <2>2 DEF AllInHand, InHand, InStage
  <2>4. SeenRight' /\ \A p \in SaleProducts : Stands(p) => Stands(p)'
    BY <1>1, <2>2, <2>3, PageRecordKeeps
  <2>5. SalesTyped' /\ RevisionsKnown'
    <3>1. \A x \in Keys : pending'[x] <= saleRevision
      BY <1>1, <2>2 DEF SaleInv, RevisionsKnown
    <3> QED BY <1>1, <2>1, <2>2, <3>1 DEF SaleInv, SalesTyped, RevisionsKnown
  <2>6. StillOwed'
    BY <1>3, <2>1, <2>4 DEF SaleInv, StillOwed
  <2> QED BY <1>2, <2>4, <2>5, <2>6 DEF SaleInv
<1>6. CASE \/ PublishScheduled \/ Unpublish \/ SaleOffAgain
           \/ \E p \in SaleProducts : PanelSalePicks(p)
  <2>1. pending' = pending /\ saleRevision' = saleRevision /\ saleRecord' = saleRecord
    BY <1>6 DEF PublishScheduled, Unpublish, SaleOffAgain, PanelSalePicks
  <2>2. \A p \in SaleProducts : Stands(p)' = Stands(p)
    BY <1>1, <2>1 DEF Stands
  <2>3. /\ salePage' \in [published : BOOLEAN, scheduled : BOOLEAN, product : SaleProducts]
        /\ selling' \in {selling, NoSale}
    BY <1>6 DEF PublishScheduled, Unpublish, SaleOffAgain, PanelSalePicks, Sells,
                SaleInv, SalesTyped
  <2>4. SalesTyped' /\ RevisionsKnown'
    BY <1>1, <2>1, <2>3 DEF SaleInv, SalesTyped, RevisionsKnown
  <2>5. \/ unpublish' = "hook"
        \/ salePage'.published
        \/ /\ salePage'.published = salePage.published
           /\ unpublish = "hook" => unpublish' = "hook"
    BY <1>6 DEF PublishScheduled, Unpublish, SaleOffAgain, PanelSalePicks, SaleInv, SalesTyped
  <2>6. SeenRight'
    BY <1>1, <2>1, <2>5 DEF SaleInv, SeenRight
  <2>7. CASE SaleOffAgain
    <3>1. selling' = NoSale \/ saleLog' # {}
      BY <2>7 DEF SaleOffAgain, Sells, SaleAnswers
    <3> QED BY <1>2, <2>4, <2>6, <3>1 DEF SaleInv, StillOwed
  <2>8. CASE ~SaleOffAgain
    <3>1. selling' = selling /\ saleLog' = saleLog
      BY <1>6, <2>8 DEF PublishScheduled, Unpublish, PanelSalePicks
    <3>2. \/ unpublish' = "hook"
          \/ salePage'.published
          \/ /\ salePage'.published = salePage.published
             /\ unpublish' = unpublish
      BY <1>6, <2>8 DEF PublishScheduled, Unpublish, PanelSalePicks, SaleInv, SalesTyped
    <3>3. StillOwed'
      BY <1>3, <2>2, <3>1, <3>2 DEF SaleInv, StillOwed
    <3> QED BY <1>2, <2>4, <2>6, <3>3 DEF SaleInv
  <2> QED BY <2>7, <2>8
<1> QED BY <1>4, <1>5, <1>6 DEF ScheduleSale, RecordPublished

\* Every step keeps the invariant of the sales.
LEMMA SalesGoOn == SaleInv /\ [SaleNext]_saleVars => SaleInv'
<1> SUFFICES ASSUME SaleInv, [SaleNext]_saleVars PROVE SaleInv'
  OBVIOUS
<1>1. CASE UNCHANGED saleVars
  BY <1>1 DEF saleVars, SaleInv, SalesTyped, AllInHand, InHand, InStage, RevisionsKnown,
              SeenRight, StillOwed, Stands, Owing
<1>2. CASE SaleNext
  BY <1>2, SweepStepKeeps, PeopleKeep DEF SaleNext
<1> QED BY <1>1, <1>2

\* While a product that a sweep put on sale is behind a page that is no longer
\* published, an off-sale write is still owed, unless a sweep was dropped before
\* it listed one, Commerce applied an on-sale write it did not answer, or failed
\* the unpublish: for any number of records in hand, products and revisions.
THEOREM SweepOwesSale == SaleSpec => []SweepSaleOwed
<1>1. SaleInv => SweepSaleOwed
  BY DEF SaleInv, StillOwed, Stands, SweepSaleOwed
<1>2. QED BY <1>1, SalesBegin, SalesGoOn, PTL DEF SaleSpec


\* What the slots' types leave open: no revision past the bound, and the words
\* of an unpublish and of the history.
SaleWords ==
  /\ saleRevision <= MaxPuts
  /\ unpublish \in {"none", "hook", "off"}
  /\ saleLog \subseteq {"lostOn", "owing", "offFailed"}

\* Revisions and history begin in their words.
LEMMA SaleWordsAtFirst == SaleInit => SaleWords
BY SalesAssumption DEF SaleInit, SaleWords

\* Every step keeps them there.
LEMMA SaleWordsStay ==
  ASSUME SaleInv, SaleWords, [SaleNext]_saleVars
  PROVE  SaleWords'
<1>0. saleRevision \in Nat /\ MaxPuts \in Nat
  BY SalesAssumption DEF SaleInv, SalesTyped
<1>1. saleRevision' <= MaxPuts
  <2>1. UNCHANGED saleRevision \/ \E k : StoredAnew(k)
    BY DEF SaleNext, saleVars, SweepStep, TakeRecord, SweepDies, ReadSaleContent, ReadSaleLink,
       VisitorNow, UnchangedRecord, PutSaleOn, ReadAfter, LinkAfter, StillGranted, RenameSale,
       ListTakeback, ReadTakeback, TakeSaleOff, RemoveTakeback, DropSaleRecord, ScheduleSale,
       PublishScheduled, RecordPublished, Unpublish, RecordRemoved, SaleOffAgain, PanelSalePicks
  <2> QED BY <1>0, <2>1 DEF SaleWords, StoredAnew
<1>2. unpublish' \in {"none", "hook", "off"}
  <2>1. UNCHANGED unpublish \/ Unpublish \/ RecordRemoved \/ SaleOffAgain
    BY DEF SaleNext, saleVars, SweepStep, TakeRecord, SweepDies, ReadSaleContent, ReadSaleLink,
       VisitorNow, UnchangedRecord, PutSaleOn, ReadAfter, LinkAfter, StillGranted, RenameSale,
       ListTakeback, ReadTakeback, TakeSaleOff, RemoveTakeback, DropSaleRecord, ScheduleSale,
       PublishScheduled, RecordPublished, PanelSalePicks
  <2> QED BY <2>1 DEF SaleWords, Unpublish, RecordRemoved, SaleOffAgain
<1>3. saleLog' \subseteq {"lostOn", "owing", "offFailed"}
  <2>1. \/ UNCHANGED saleLog \/ SaleOffAgain
        \/ \E s \in Slots : PutSaleOn(s) \/ SweepDies(s)
    BY DEF SaleNext, saleVars, SweepStep, TakeRecord, ReadSaleContent, ReadSaleLink,
       VisitorNow, UnchangedRecord, ReadAfter, LinkAfter, StillGranted, RenameSale,
       ListTakeback, ReadTakeback, TakeSaleOff, RemoveTakeback, DropSaleRecord, ScheduleSale,
       PublishScheduled, RecordPublished, Unpublish, RecordRemoved, PanelSalePicks
  <2>2. saleLog' \subseteq saleLog \cup {"lostOn", "owing", "offFailed"}
    BY <2>1 DEF SaleOffAgain, PutSaleOn, SweepDies
  <2> QED BY <2>2 DEF SaleWords
<1> QED BY <1>1, <1>2, <1>3 DEF SaleWords

\* What they come to is the type invariant of the sales.
LEMMA SaleTypes == SaleInv /\ SaleWords => SaleTypeOK
<1> SUFFICES ASSUME SaleInv, SaleWords PROVE SaleTypeOK
  OBVIOUS
<1>1. saleRevision \in 0 .. MaxPuts /\ MaxPuts \in Nat
  BY SalesAssumption DEF SaleInv, SalesTyped, SaleWords
<1>2. pending \in [Keys -> 0 .. MaxPuts]
  <2>1. pending \in [Keys -> Nat] /\ \A k \in Keys : pending[k] <= saleRevision
    BY DEF SaleInv, SalesTyped, RevisionsKnown
  <2>2. \A k \in Keys : pending[k] \in 0 .. MaxPuts
    BY <1>1, <2>1
  <2> QED BY <2>1, <2>2
<1>3. ASSUME NEW s \in Slots
      PROVE  /\ slots[s].at \in SlotStages /\ slots[s].key \in Keys \cup {"none"}
             /\ slots[s].revision \in 0 .. MaxPuts
  <2>1. slots[s] \in SlotRecords /\ slots[s].revision <= saleRevision
    BY DEF SaleInv, SalesTyped, RevisionsKnown
  <2>2. /\ slots[s].at \in SlotStages /\ slots[s].key \in Keys \cup {"none"}
        /\ slots[s].revision \in Nat
    BY <2>1 DEF SlotRecords
  <2> QED BY <1>1, <2>1, <2>2
<1> QED BY <1>1, <1>2, <1>3 DEF SaleTypeOK, SaleInv, SalesTyped, SaleWords, SaleCopies
-----------------------------------------------------------------------------
(***************************************************************************)
(* CartTools.  A page's review holds no quote but the one it last asked    *)
(* for, and none once it saw the cart change.                              *)
(***************************************************************************)
QuoteRecords == Fingerprints \cup {NoQuote}
ReviewRecords ==
  [pending : QuoteRecords, confirmed : QuoteRecords, of : Carts, open : BOOLEAN]
CallRecords ==
  [tab : Tabs \cup {"none"}, kind : {"none", "read", "proceed"}, tries : Nat,
   loaded : Carts, before : Carts, supplied : QuoteRecords]

ToolsTyped ==
  /\ cart \in Carts /\ catalog \in Quotes
  /\ review \in [Tabs -> ReviewRecords]
  /\ calls \in [ToolCalls -> CallRecords]
  /\ \A k \in ToolCalls : calls[k].kind # "none" => calls[k].tab \in Tabs
  /\ asked \in [Tabs -> QuoteRecords]

ReviewsAsked ==
  \A t \in Tabs : {review[t].pending, review[t].confirmed} \subseteq {NoQuote, asked[t]}

StoresInOrder ==
  /\ newest \in Nat /\ owner \in 0 .. newest
  /\ pageStore \in [Tabs -> 1 .. newest]
  /\ owner = 0 => \A t \in Tabs : pageStore[t] = 1

ToolsInv ==
  ToolsTyped /\ ReviewsAsked /\ HandsOverReviewed /\ StoresInOrder /\ NewestKeepsCart

-----------------------------------------------------------------------------
\* Nothing in hand is of its type.
LEMMA NothingTyped ==
  /\ Empty \in Carts /\ NoQuote \in QuoteRecords /\ NoReview \in ReviewRecords
  /\ NoReview.pending = NoQuote /\ NoReview.confirmed = NoQuote
  /\ NoCall \in CallRecords /\ NoCall.kind = "none"
<1>1. Empty \in Carts
  BY CartAssumption DEF Empty, Carts
<1> QED BY <1>1 DEF NoQuote, QuoteRecords, NoReview, ReviewRecords, NoCall,
           CallRecords

\* A page finds a cart.
LEMMA FoundTyped ==
  ASSUME cart \in Carts, NEW t \in Tabs PROVE Found(t) \in Carts
BY NothingTyped DEF Found

\* Opening the stored cart, and writing it, keep the stores in order.
LEMMA OpensKeeps ==
  ASSUME ToolsInv, NEW t \in Tabs, UNCHANGED <<newest, pageStore>>,
         Opens(t) \/ \E next \in Carts : WritesCart(t, next)
  PROVE  cart' \in Carts /\ StoresInOrder' /\ NewestKeepsCart'
<1>1. cart' \in Carts
  BY FoundTyped DEF ToolsInv, ToolsTyped, Opens, WritesCart
<1>2. CASE ~Admitted(t)
  <2>1. UNCHANGED <<owner, writers>>
    BY <1>2 DEF Opens, WritesCart
  <2> QED BY <1>1, <2>1 DEF ToolsInv, StoresInOrder, NewestKeepsCart
<1>3. CASE Admitted(t)
  <2>1. /\ owner' = pageStore[t] /\ owner <= pageStore[t]
        /\ writers' \subseteq (IF owner \in {0, pageStore[t]} THEN writers ELSE {})
                                \cup {pageStore[t]}
    BY <1>3 DEF Opens, WritesCart, Admitted
  <2>2. /\ newest \in Nat /\ owner \in 0 .. newest
        /\ \A u \in Tabs : pageStore[u] \in 1 .. newest
    BY DEF ToolsInv, StoresInOrder
  <2>3. StoresInOrder'
    BY <2>1, <2>2 DEF ToolsInv, StoresInOrder
  <2>4. writers' \subseteq {0, owner'}
    BY <2>1 DEF ToolsInv, NewestKeepsCart
  <2>5. \A u \in Tabs : pageStore'[u] <= owner'
    BY <2>1, <2>2 DEF ToolsInv, StoresInOrder, NewestKeepsCart
  <2> QED BY <1>1, <2>3, <2>4, <2>5 DEF NewestKeepsCart
<1> QED BY <1>2, <1>3

\* A call of a tab is fetched for, or ends.
CallsTyped ==
  /\ calls \in [ToolCalls -> CallRecords]
  /\ \A k \in ToolCalls : calls[k].kind # "none" => calls[k].tab \in Tabs

\* A call that fetches prices, or ends, has its type.
LEMMA FetchesTyped ==
  ASSUME ToolsInv, NEW k \in ToolCalls, NEW call \in CallRecords,
         call.tab \in Tabs, Fetches(k, call) \/ EndsCall(k)
  PROVE  CallsTyped'
<1>1. \/ calls' = [calls EXCEPT ![k] = call]
      \/ calls' = [calls EXCEPT ![k] = NoCall]
  BY DEF Fetches, EndsCall
<1> QED BY <1>1, NothingTyped DEF CallsTyped, ToolsInv, ToolsTyped

\* So has one that ends.
LEMMA EndsTyped ==
  ASSUME ToolsInv, NEW k \in ToolCalls, EndsCall(k)
  PROVE  CallsTyped'
BY NothingTyped DEF EndsCall, CallsTyped, ToolsInv, ToolsTyped

\* The reviews and what was asked keep to their types and to each other.
ReviewsKept ==
  /\ review \in [Tabs -> ReviewRecords] /\ asked \in [Tabs -> QuoteRecords]
  /\ ReviewsAsked

\* What leaves the pages alone leaves their reviews.
LEMMA SameReviews ==
  ASSUME ToolsInv, UNCHANGED <<review, asked>>
  PROVE  ReviewsKept'
BY DEF ToolsInv, ToolsTyped, ReviewsKept, ReviewsAsked

\* A review that is withdrawn has nothing pending.
LEMMA EndedReview ==
  ASSUME ToolsInv, NEW t \in Tabs, EndsReview(t), Withdraws(t)
  PROVE  ReviewsKept'
<1>1. /\ review' \in [Tabs -> ReviewRecords] /\ asked' \in [Tabs -> QuoteRecords]
      /\ \A u \in Tabs \ {t} : review'[u] = review[u] /\ asked'[u] = asked[u]
      /\ review'[t] = NoReview
  BY NothingTyped DEF EndsReview, Withdraws, ToolsInv, ToolsTyped
<1>2. ASSUME NEW u \in Tabs
      PROVE  {review'[u].pending, review'[u].confirmed} \subseteq {NoQuote, asked'[u]}
  <2>1. CASE u = t
    BY <1>1, <2>1, NothingTyped
  <2>2. CASE u # t
    BY <1>1, <2>2 DEF ToolsInv, ReviewsAsked
  <2> QED BY <2>1, <2>2
<1> QED BY <1>1, <1>2 DEF ReviewsKept, ReviewsAsked

\* What a price answer does to the reviews: a confirmed quote is one that was
\* under review, and a quote put under review is the one asked for.
LEMMA ConcludesKeeps ==
  ASSUME ToolsInv, NEW k \in ToolCalls, ~Idle(k), NEW lines \in Carts,
         NEW got \in Quotes \cup {Unpriced}, NEW now \in Carts,
         Concludes(k, lines, got, now)
  PROVE  ReviewsKept' /\ HandsOverReviewed' /\ CallsTyped'
<1> DEFINE t == calls[k].tab
           quote == [lines |-> lines, quote |-> got]
           priced == calls[k].kind = "proceed" /\ lines # Empty /\ got # Unpriced
<1>1. t \in Tabs /\ CallsTyped'
  BY EndsTyped DEF Concludes, ToolsInv, ToolsTyped, Idle
<1>2. CASE ~priced
  BY <1>1, <1>2, SameReviews DEF Concludes, HandsNothing, HandsOverReviewed
<1>3. CASE priced
  <2>1. quote \in Fingerprints /\ quote # NoQuote
    BY <1>3 DEF Fingerprints, Quotes, Unpriced, NoQuote
  <2>2. CASE Confirms(review[t], calls[k], quote, now)
    <3>1. /\ review' = [review EXCEPT ![t].confirmed = quote, ![t].of = now]
          /\ handoff' = [tab |-> t, quote |-> quote] /\ asked' = asked
      BY <1>3, <2>2 DEF Concludes
    <3>2. quote = asked[t]
      BY <1>1, <2>1, <2>2 DEF Confirms, ToolsInv, ReviewsAsked
    <3> HIDE DEF quote, t, priced
    <3>3. review[t] \in ReviewRecords /\ review \in [Tabs -> ReviewRecords]
      BY <1>1 DEF ToolsInv, ToolsTyped
    <3>4. /\ review' \in [Tabs -> ReviewRecords]
          /\ \A u \in Tabs \ {t} : review'[u] = review[u]
          /\ review'[t].pending = review[t].pending /\ review'[t].confirmed = quote
      BY <1>1, <2>1, <3>1, <3>3 DEF ReviewRecords, QuoteRecords
    <3>5. ASSUME NEW u \in Tabs
          PROVE  {review'[u].pending, review'[u].confirmed} \subseteq {NoQuote, asked'[u]}
      BY <1>1, <3>1, <3>2, <3>4 DEF ToolsInv, ReviewsAsked
    <3>6. HandsOverReviewed'
      BY <3>1, <3>2 DEF HandsOverReviewed
    <3> QED BY <1>1, <3>1, <3>4, <3>5, <3>6
            DEF ReviewsKept, ReviewsAsked, ToolsInv, ToolsTyped
  <2>3. CASE ~Confirms(review[t], calls[k], quote, now)
    <3> DEFINE new == [pending |-> quote, confirmed |-> NoQuote, of |-> now,
                       open |-> TRUE]
    <3>1. /\ review' = [review EXCEPT ![t] = new]
          /\ asked' = [asked EXCEPT ![t] = quote] /\ HandsNothing
      BY <1>3, <2>3 DEF Concludes
    <3>2. new \in ReviewRecords /\ new.pending = quote /\ new.confirmed = NoQuote
      BY <2>1, NothingTyped DEF ReviewRecords, QuoteRecords
    <3> HIDE DEF quote, t, priced, new
    <3>3. /\ review' \in [Tabs -> ReviewRecords] /\ asked' \in [Tabs -> QuoteRecords]
          /\ \A u \in Tabs \ {t} : review'[u] = review[u] /\ asked'[u] = asked[u]
          /\ review'[t] = new /\ asked'[t] = quote
      BY <1>1, <2>1, <3>1, <3>2 DEF ToolsInv, ToolsTyped, QuoteRecords
    <3>4. ASSUME NEW u \in Tabs
          PROVE  {review'[u].pending, review'[u].confirmed} \subseteq {NoQuote, asked'[u]}
      <4>1. CASE u = t
        BY <3>2, <3>3, <4>1
      <4>2. CASE u # t
        BY <3>3, <4>2 DEF ToolsInv, ReviewsAsked
      <4> QED BY <4>1, <4>2
    <3>5. HandsOverReviewed'
      BY <3>1 DEF HandsNothing, HandsOverReviewed
    <3> QED BY <1>1, <3>3, <3>4, <3>5 DEF ReviewsKept, ReviewsAsked
  <2> QED BY <2>2, <2>3
<1> QED BY <1>2, <1>3

-----------------------------------------------------------------------------
\* The invariant of the tools holds at the start.
LEMMA ToolsBegin == ToolsInit => ToolsInv
<1> SUFFICES ASSUME ToolsInit PROVE ToolsInv
  OBVIOUS
<1>1. cart \in Carts
  BY NothingTyped DEF ToolsInit, CartTypeOK
<1>2. ToolsTyped /\ ReviewsAsked
  BY <1>1, NothingTyped DEF ToolsInit, ToolsTyped, Quotes, ReviewsAsked
<1>3. HandsOverReviewed
  BY DEF ToolsInit, HandsOverReviewed
<1>4. StoresInOrder /\ NewestKeepsCart
  BY DEF ToolsInit, StoresInOrder, NewestKeepsCart
<1> QED BY <1>2, <1>3, <1>4 DEF ToolsInv

\* What each step has to keep, part by part.
LEMMA PartsKept ==
  ASSUME ToolsInv, cart' \in Carts, catalog' \in Quotes, CallsTyped',
         ReviewsKept', HandsOverReviewed', StoresInOrder', NewestKeepsCart'
  PROVE  ToolsInv'
BY DEF ToolsInv, ToolsTyped, CallsTyped, ReviewsKept

\* What leaves the calls alone leaves their types.
LEMMA SameCalls == ToolsInv /\ calls' = calls => CallsTyped'
BY DEF ToolsInv, ToolsTyped, CallsTyped

\* What leaves the stores alone leaves their order.
LEMMA SameStores ==
  ASSUME ToolsInv, UNCHANGED <<writers, owner, newest, pageStore>>
  PROVE  StoresInOrder' /\ NewestKeepsCart'
BY DEF ToolsInv, StoresInOrder, NewestKeepsCart

\* A step that hands nothing over hands over nothing unreviewed.
LEMMA NothingHanded == HandsNothing => HandsOverReviewed'
BY DEF HandsNothing, HandsOverReviewed

\* A patched cart is a cart.
LEMMA PatchedTyped ==
  ASSUME NEW c \in Carts, NEW next \in Patched(c)
  PROVE  next \in Carts
<1>1. CASE next \in {d \in Carts : CartTypeOK(d)}
  BY <1>1
<1>2. ASSUME NEW a \in Lines \X (1 .. MaxQuantity), AcceptsAdd(c, a[1], a[2])
      PROVE  AddLine(c, a[1], a[2]) \in Carts
  BY <1>2, CartAssumption DEF AcceptsAdd, AddLine, Carts
<1>3. ASSUME NEW l \in Lines PROVE RemoveLine(c, l) \in Carts
  BY CartAssumption DEF RemoveLine, Carts
<1> QED BY <1>1, <1>2, <1>3 DEF Patched

\* A call reads the cart, goes on, updates it or fails to.
LEMMA CallStepKeeps ==
  ASSUME ToolsInv, NEW k \in ToolCalls, NEW t \in AgentTabs,
         CallRead(k, t) \/ CallProceed(k, t) \/ CallUpdate(k, t) \/ UpdateFails(k, t)
  PROVE  ToolsInv'
<1>0. t \in Tabs
  BY ToolsAssumption
<1>1. cart \in Carts /\ catalog \in Quotes /\ Found(t) \in Carts
  BY <1>0, FoundTyped DEF ToolsInv, ToolsTyped
<1>2. CASE CallRead(k, t)
  <2> DEFINE call == [NoCall EXCEPT !.tab = t, !.kind = "read", !.loaded = Found(t)]
  <2>1. call \in CallRecords /\ call.tab \in Tabs
    BY <1>0, <1>1, NothingTyped DEF CallRecords
  <2>2. Fetches(k, call)
    BY <1>2 DEF CallRead
  <2> HIDE DEF call
  <2>3. CallsTyped'
    BY <2>1, <2>2, FetchesTyped
  <2> QED BY <1>0, <1>1, <1>2, <2>3, OpensKeeps, SameReviews, NothingHanded,
             PartsKept DEF CallRead
<1>3. CASE CallProceed(k, t)
  <2>1. PICK supplied \in [lines : Carts \ {Empty}, quote : Quotes] \cup {NoQuote} :
          Fetches(k, [NoCall EXCEPT !.tab = t, !.kind = "proceed", !.supplied = supplied,
                                    !.loaded = Found(t), !.before = Found(t)])
    BY <1>3 DEF CallProceed
  <2> DEFINE call == [NoCall EXCEPT !.tab = t, !.kind = "proceed", !.supplied = supplied,
                                    !.loaded = Found(t), !.before = Found(t)]
  <2>2. call \in CallRecords /\ call.tab \in Tabs
    BY <1>0, <1>1, NothingTyped DEF CallRecords, QuoteRecords, Fingerprints
  <2> HIDE DEF call
  <2>3. Fetches(k, call)
    BY <2>1 DEF call
  <2>4. CallsTyped'
    BY <2>2, <2>3, FetchesTyped
  <2> QED BY <1>0, <1>1, <1>3, <2>4, OpensKeeps, SameReviews, NothingHanded,
             PartsKept DEF CallProceed
<1>4. CASE CallUpdate(k, t)
  <2>1. PICK next \in Patched(Found(t)) :
          /\ WritesCart(t, next)
          /\ Fetches(k, [NoCall EXCEPT !.tab = t, !.kind = "read", !.loaded = next])
    BY <1>4 DEF CallUpdate
  <2>2. next \in Carts
    BY <1>1, PatchedTyped
  <2> DEFINE call == [NoCall EXCEPT !.tab = t, !.kind = "read", !.loaded = next]
  <2>3. call \in CallRecords /\ call.tab \in Tabs
    BY <1>0, <2>2, NothingTyped DEF CallRecords
  <2> HIDE DEF call
  <2>4. Fetches(k, call)
    BY <2>1 DEF call
  <2>5. CallsTyped'
    BY <2>3, <2>4, FetchesTyped
  <2>6. cart' \in Carts /\ StoresInOrder' /\ NewestKeepsCart'
    BY <1>0, <1>4, <2>1, <2>2, OpensKeeps DEF CallUpdate
  <2> QED BY <1>0, <1>1, <1>4, <2>5, <2>6, EndedReview, NothingHanded, PartsKept
             DEF CallUpdate
<1>5. CASE UpdateFails(k, t)
  BY <1>0, <1>1, <1>5, OpensKeeps, SameReviews, SameCalls, NothingHanded, PartsKept
     DEF UpdateFails
<1> QED BY <1>2, <1>3, <1>4, <1>5

\* A call that reads the cart again keeps its type.
LEMMA Renewed ==
  ASSUME NEW c \in CallRecords, c.tries \in Nat, NEW now \in Carts
  PROVE  LET next == [c EXCEPT !.loaded = now, !.tries = @ + 1]
         IN  next \in CallRecords /\ next.tab = c.tab
<1>1. c.tries + 1 \in Nat
  OBVIOUS
<1> QED BY <1>1 DEF CallRecords

\* A call answered hands over the quote its page reviewed, or nothing.
LEMMA AnsweredKeeps ==
  ASSUME ToolsInv, NEW k \in ToolCalls, Answered(k)
  PROVE  ToolsInv'
<1> DEFINE call == calls[k]
           now == Found(call.tab)
<1>1. /\ call \in CallRecords /\ call.tab \in Tabs /\ call.tries \in Nat
      /\ call.loaded \in Carts /\ catalog \in Quotes
  BY DEF Answered, Idle, ToolsInv, ToolsTyped, CallRecords
<1>2. now \in Carts
  BY <1>1, FoundTyped DEF ToolsInv, ToolsTyped
<1>3. /\ cart' \in Carts /\ StoresInOrder' /\ NewestKeepsCart' /\ catalog' \in Quotes
  BY <1>1, OpensKeeps DEF Answered
<1>4. CASE call.tries = 2 \/ now = call.loaded
  <2>1. PICK got \in Quotes \cup {Unpriced} : Concludes(k, call.loaded, got, now)
    BY <1>1, <1>4 DEF Answered
  <2>2. ReviewsKept' /\ HandsOverReviewed' /\ CallsTyped'
    BY <1>1, <1>2, <2>1, ConcludesKeeps DEF Answered
  <2> QED BY <1>3, <2>2, PartsKept
<1>5. CASE ~(call.tries = 2 \/ now = call.loaded)
  <2> DEFINE next == [call EXCEPT !.loaded = now, !.tries = @ + 1]
  <2>1. /\ Fetches(k, next) /\ EndsReview(call.tab) /\ Withdraws(call.tab)
        /\ HandsNothing
    BY <1>5 DEF Answered
  <2>2. next \in CallRecords /\ next.tab \in Tabs
    BY <1>1, <1>2, Renewed
  <2> HIDE DEF next
  <2>3. CallsTyped'
    BY <2>1, <2>2, FetchesTyped
  <2> QED BY <1>1, <1>3, <2>1, <2>3, EndedReview, NothingHanded, PartsKept
<1> QED BY <1>4, <1>5

\* A page edits its cart or is loaded anew.
LEMMA TabStepKeeps ==
  ASSUME ToolsInv, NEW t \in Tabs, PageEdits(t) \/ LoadTab(t)
  PROVE  ToolsInv'
<1>1. CASE PageEdits(t)
  <2>1. PICK next \in Carts : /\ WritesCart(t, next)
                              /\ \/ UNCHANGED <<review, asked>>
                                 \/ EndsReview(t) /\ Withdraws(t)
    BY <1>1 DEF PageEdits
  <2>2. cart' \in Carts /\ StoresInOrder' /\ NewestKeepsCart'
    BY <1>1, <2>1, OpensKeeps DEF PageEdits
  <2>3. ReviewsKept'
    BY <2>1, SameReviews, EndedReview
  <2> QED BY <1>1, <2>2, <2>3, SameCalls, NothingHanded, PartsKept
             DEF PageEdits, ToolsInv, ToolsTyped
<1>2. CASE LoadTab(t)
  <2>1. ReviewsKept' /\ HandsOverReviewed'
    BY <1>2, EndedReview, NothingHanded DEF LoadTab, EndsReview, Withdraws
  <2>2. CallsTyped'
    <3>1. \A k \in ToolCalls : calls'[k] \in {NoCall, calls[k]}
      BY <1>2 DEF LoadTab
    <3>2. calls' = [k \in ToolCalls |-> calls'[k]]
      BY <1>2 DEF LoadTab
    <3> QED BY <3>1, <3>2, NothingTyped DEF CallsTyped, ToolsInv, ToolsTyped
  <2>3. cart' \in Carts
    BY <1>2, NothingTyped DEF LoadTab, ToolsInv, ToolsTyped
  <2>4. /\ newest \in Nat \ {0} /\ owner' = newest /\ newest' = newest
        /\ pageStore' \in [Tabs -> 1 .. newest]
    BY <1>2 DEF LoadTab, ToolsInv, StoresInOrder
  <2>5. StoresInOrder'
    BY <2>4 DEF StoresInOrder
  <2>6. writers' \subseteq {0, owner'}
    BY <1>2 DEF LoadTab, ToolsInv, NewestKeepsCart
  <2>7. NewestKeepsCart'
    BY <2>4, <2>6 DEF NewestKeepsCart
  <2> QED BY <1>2, <2>1, <2>2, <2>3, <2>5, <2>7, PartsKept
             DEF LoadTab, ToolsInv, ToolsTyped
<1> QED BY <1>1, <1>2

\* Every step of the tools keeps their invariant.
LEMMA ToolsGoOn == ToolsInv /\ [ToolsNext]_toolVars => ToolsInv'
<1> SUFFICES ASSUME ToolsInv, [ToolsNext]_toolVars PROVE ToolsInv'
  OBVIOUS
<1>1. CASE CatalogChanges
  BY <1>1, SameReviews, SameCalls, SameStores, NothingHanded, PartsKept
     DEF CatalogChanges, ToolsInv, ToolsTyped
<1>2. CASE StoreRestarts
  <2>1. StoresInOrder' /\ NewestKeepsCart'
    BY <1>2 DEF StoreRestarts, ToolsInv, StoresInOrder, NewestKeepsCart
  <2> QED BY <1>2, <2>1, SameReviews, SameCalls, NothingHanded, PartsKept
             DEF StoreRestarts, ToolsInv, ToolsTyped
<1>3. CASE UNCHANGED toolVars
  BY <1>3 DEF toolVars, ToolsInv, ToolsTyped, ReviewsAsked, HandsOverReviewed,
     StoresInOrder, NewestKeepsCart
<1> QED BY <1>1, <1>2, <1>3, CallStepKeeps, AnsweredKeeps, TabStepKeeps
        DEF ToolsNext

\* A cart is handed to checkout only on the quote its page last asked to
\* review, for any number of tabs, agents' calls, stores and products.
THEOREM HandoffReviewed == ToolsSpec => []HandsOverReviewed
<1>1. ToolsInv => HandsOverReviewed
  BY DEF ToolsInv
<1> QED BY <1>1, ToolsBegin, ToolsGoOn, PTL DEF ToolsSpec

\* No page of an older playground store takes the browser's cart back, for any
\* number of tabs and stores.
THEOREM NewestStoreKeeps == ToolsSpec => []NewestKeepsCart
<1>1. ToolsInv => NewestKeepsCart
  BY DEF ToolsInv
<1> QED BY <1>1, ToolsBegin, ToolsGoOn, PTL DEF ToolsSpec

\* What the tools' invariant leaves open: a cart within its limits, the bound
\* on stores, and that a cart is priced anew twice at most.
ToolsWithin ==
  /\ CartTypeOK(cart)
  /\ newest \in 1 .. MaxStores
  /\ \A k \in ToolCalls : calls[k].tries \in 0 .. 2

\* A page finds a cart within the limits.
LEMMA FoundFits == ASSUME CartTypeOK(cart), NEW t PROVE CartTypeOK(Found(t))
BY EmptyIsCart DEF Found

\* A patched cart is within the limits.
LEMMA PatchedFits ==
  ASSUME NEW c, CartTypeOK(c), NEW next \in Patched(c)
  PROVE  CartTypeOK(next)
<1>1. ASSUME NEW a \in Lines \X (1 .. MaxQuantity), AcceptsAdd(c, a[1], a[2])
      PROVE  CartTypeOK(AddLine(c, a[1], a[2]))
  BY <1>1, AddKeepsCart
<1>2. ASSUME NEW l \in Lines PROVE CartTypeOK(RemoveLine(c, l))
  BY ChangeKeepsCart
<1> QED BY <1>1, <1>2 DEF Patched

\* The stored cart is opened, cleared or written with one that fits.
LEMMA CartStaysWithin ==
  ASSUME CartTypeOK(cart), [ToolsNext]_toolVars
  PROVE  CartTypeOK(cart')
<1>0. \A t : CartTypeOK(Found(t))
  BY FoundFits
<1>1. ASSUME NEW t, Opens(t) PROVE CartTypeOK(cart')
  BY <1>0, <1>1 DEF Opens
<1>2. ASSUME NEW t, NEW next, CartTypeOK(next), WritesCart(t, next) PROVE CartTypeOK(cart')
  BY <1>2 DEF WritesCart
<1>3. ASSUME NEW k \in ToolCalls, NEW t \in AgentTabs, CallUpdate(k, t)
      PROVE  CartTypeOK(cart')
  <2>1. PICK next \in Patched(Found(t)) : WritesCart(t, next)
    BY <1>3 DEF CallUpdate
  <2>2. CartTypeOK(next)
    BY <1>0, PatchedFits
  <2> QED BY <2>1, <2>2, <1>2
<1>4. ASSUME NEW t \in Tabs, PageEdits(t) PROVE CartTypeOK(cart')
  BY <1>2, <1>4 DEF PageEdits
<1>5. ASSUME NEW t \in Tabs, LoadTab(t) PROVE CartTypeOK(cart')
  BY <1>5, EmptyIsCart DEF LoadTab
<1>6. ASSUME NEW k \in ToolCalls, NEW t \in AgentTabs,
             CallRead(k, t) \/ CallProceed(k, t) \/ UpdateFails(k, t)
      PROVE  CartTypeOK(cart')
  BY <1>1, <1>6 DEF CallRead, CallProceed, UpdateFails
<1>7. ASSUME NEW k \in ToolCalls, Answered(k) PROVE CartTypeOK(cart')
  BY <1>1, <1>7 DEF Answered
<1>8. CASE UNCHANGED cart
  BY <1>8
<1> QED BY <1>3, <1>4, <1>5, <1>6, <1>7, <1>8
        DEF ToolsNext, toolVars, CatalogChanges, StoreRestarts

\* A call begins without a try and makes the next one only before the second.
LEMMA TriesStayWithin ==
  ASSUME ToolsInv, \A k \in ToolCalls : calls[k].tries \in 0 .. 2, [ToolsNext]_toolVars
  PROVE  \A k \in ToolCalls : calls'[k].tries \in 0 .. 2
<1>0. DOMAIN calls = ToolCalls /\ NoCall.tries = 0
  BY DEF ToolsInv, ToolsTyped, NoCall
<1>1. ASSUME NEW k \in ToolCalls, NEW call, call.tries \in 0 .. 2,
             Fetches(k, call) \/ EndsCall(k)
      PROVE  \A j \in ToolCalls : calls'[j].tries \in 0 .. 2
  <2>1. calls' = [calls EXCEPT ![k] = call] \/ calls' = [calls EXCEPT ![k] = NoCall]
    BY <1>1 DEF Fetches, EndsCall
  <2> QED BY <1>0, <1>1, <2>1
<1>2. ASSUME NEW k \in ToolCalls, NEW t \in AgentTabs,
             CallRead(k, t) \/ CallProceed(k, t) \/ CallUpdate(k, t)
      PROVE  \A j \in ToolCalls : calls'[j].tries \in 0 .. 2
  <2>1. \E call : call.tries = 0 /\ Fetches(k, call)
    <3>1. CASE CallRead(k, t)
      <4>1. [NoCall EXCEPT !.tab = t, !.kind = "read", !.loaded = Found(t)].tries = 0
        BY DEF NoCall
      <4> QED BY <3>1, <4>1 DEF CallRead
    <3>2. CASE CallProceed(k, t)
      <4>1. PICK supplied :
              Fetches(k, [NoCall EXCEPT !.tab = t, !.kind = "proceed", !.supplied = supplied,
                                        !.loaded = Found(t), !.before = Found(t)])
        BY <3>2 DEF CallProceed
      <4>2. [NoCall EXCEPT !.tab = t, !.kind = "proceed", !.supplied = supplied,
                           !.loaded = Found(t), !.before = Found(t)].tries = 0
        BY DEF NoCall
      <4> QED BY <4>1, <4>2
    <3>3. CASE CallUpdate(k, t)
      <4>1. PICK next :
              Fetches(k, [NoCall EXCEPT !.tab = t, !.kind = "read", !.loaded = next])
        BY <3>3 DEF CallUpdate
      <4>2. [NoCall EXCEPT !.tab = t, !.kind = "read", !.loaded = next].tries = 0
        BY DEF NoCall
      <4> QED BY <4>1, <4>2
    <3> QED BY <1>2, <3>1, <3>2, <3>3
  <2> QED BY <2>1, <1>1
<1>3. ASSUME NEW k \in ToolCalls, Answered(k)
      PROVE  \A j \in ToolCalls : calls'[j].tries \in 0 .. 2
  <2> DEFINE call == calls[k]
             now == Found(call.tab)
             next == [call EXCEPT !.loaded = now, !.tries = @ + 1]
  <2>1. call \in CallRecords /\ call.tries \in 0 .. 2
    BY DEF ToolsInv, ToolsTyped
  <2>2. CASE call.tries = 2 \/ now = call.loaded
    <3>1. EndsCall(k)
      BY <1>3, <2>2 DEF Answered, Concludes
    <3> QED BY <2>1, <3>1, <1>1
  <2>3. CASE ~(call.tries = 2 \/ now = call.loaded)
    <3>1. Fetches(k, next)
      BY <1>3, <2>3 DEF Answered
    <3>2. next.tries = call.tries + 1
      BY <2>1 DEF CallRecords
    <3>3. call.tries + 1 \in 0 .. 2
      BY <2>1, <2>3
    <3> HIDE DEF next
    <3> QED BY <3>1, <3>2, <3>3, <1>1
  <2> QED BY <2>2, <2>3
<1>4. ASSUME NEW t \in Tabs, LoadTab(t)
      PROVE  \A j \in ToolCalls : calls'[j].tries \in 0 .. 2
  BY <1>0, <1>4 DEF LoadTab
<1>5. CASE UNCHANGED calls
  BY <1>5
<1> QED BY <1>2, <1>3, <1>4, <1>5
        DEF ToolsNext, toolVars, CatalogChanges, StoreRestarts, UpdateFails, PageEdits

\* The first cart is within the limits.
LEMMA ToolsWithinAtFirst == ToolsInit => ToolsWithin
<1> SUFFICES ASSUME ToolsInit PROVE ToolsWithin
  OBVIOUS
<1>1. newest = 1 /\ 1 \in 1 .. MaxStores
  BY ToolsAssumption DEF ToolsInit
<1>2. \A k \in ToolCalls : calls[k].tries = 0
  BY DEF ToolsInit, NoCall
<1> QED BY <1>1, <1>2 DEF ToolsInit, ToolsWithin

\* Every step leaves the cart within the limits, and tries within theirs.
LEMMA ToolsStayWithin ==
  ASSUME ToolsInv, ToolsWithin, [ToolsNext]_toolVars
  PROVE  ToolsWithin'
<1>1. CartTypeOK(cart') /\ \A k \in ToolCalls : calls'[k].tries \in 0 .. 2
  BY CartStaysWithin, TriesStayWithin DEF ToolsWithin
<1>2. newest' \in 1 .. MaxStores
  <2>1. UNCHANGED newest \/ (newest < MaxStores /\ newest' = newest + 1)
    BY DEF ToolsNext, toolVars, CallRead, CallProceed, CallUpdate, UpdateFails, Answered,
       PageEdits, LoadTab, CatalogChanges, StoreRestarts
  <2> QED BY <2>1, ToolsAssumption DEF ToolsWithin
<1>3. CartTypeOK(cart)' <=> CartTypeOK(cart')
  BY DEF CartTypeOK
<1> QED BY <1>1, <1>2, <1>3 DEF ToolsWithin

\* What that comes to is the type invariant of the tools.
LEMMA ToolsTypes == ToolsInv /\ ToolsWithin => ToolsTypeOK
<1> SUFFICES ASSUME ToolsInv, ToolsWithin PROVE ToolsTypeOK
  OBVIOUS
<1>1. /\ CartTypeOK(cart) /\ catalog \in Quotes /\ owner \in 0 .. newest
      /\ newest \in 1 .. MaxStores /\ pageStore \in [Tabs -> 1 .. newest]
  BY DEF ToolsInv, ToolsTyped, ToolsWithin, StoresInOrder
<1>2. writers \subseteq 0 .. newest
  <2>1. writers \subseteq {0, owner} /\ newest \in Nat /\ 0 \in 0 .. newest
    BY <1>1 DEF ToolsInv, NewestKeepsCart, StoresInOrder
  <2> QED BY <1>1, <2>1
<1>3. ASSUME NEW t \in Tabs
      PROVE  /\ {review[t].pending, review[t].confirmed} \subseteq Fingerprints \cup {NoQuote}
             /\ review[t].of \in Carts /\ review[t].open \in BOOLEAN
             /\ asked[t] \in Fingerprints \cup {NoQuote}
  BY DEF ToolsInv, ToolsTyped, ReviewRecords, QuoteRecords
<1>4. ASSUME NEW k \in ToolCalls
      PROVE  /\ calls[k].tab \in Tabs \cup {"none"}
             /\ calls[k].kind \in {"none", "read", "proceed"}
             /\ calls[k].tries \in 0 .. 2 /\ calls[k].loaded \in Carts
  <2>1. calls[k] \in CallRecords
    BY DEF ToolsInv, ToolsTyped
  <2> QED BY <2>1 DEF CallRecords, ToolsWithin
<1> QED BY <1>1, <1>2, <1>3, <1>4 DEF ToolsTypeOK
-----------------------------------------------------------------------------
(***************************************************************************)
(* PracticeShipping.  Of an order nothing crossed on: a call that is to    *)
(* put a label knows of none, the call that completes it put its only one, *)
(* and when none completes it, order and labels agree, unless its label    *)
(* was cancelled by a call that has yet to open it again.                  *)
(***************************************************************************)
ShipStages == {"idle", "find", "check", "label", "complete",
               "get", "cancel", "find again", "open again"}
OfALabel == {"complete", "get", "cancel", "find again", "open again"}
RowFields == {"revision", "edits", "completed"}

Working(c, o) == ship[c].at # "idle" /\ ship[c].for = o

CallTyped(c) ==
  /\ DOMAIN ship[c] = {"at", "for", "label", "version", "row"}
  /\ ship[c].at \in ShipStages /\ DOMAIN ship[c].row = RowFields
  /\ ship[c].at # "idle" => ship[c].for \in ShipOrders
  /\ ship[c].at \in OfALabel => /\ ship[c].label \in Made
                                /\ labels[ship[c].label].order = ship[c].for
  /\ ship[c].at \in {"find again", "open again"} =>
       labels[ship[c].label].status = "cancelled"

ShipTyped ==
  /\ DOMAIN orders = ShipOrders
  /\ \A o \in ShipOrders : DOMAIN orders[o] = RowFields
  /\ DOMAIN labels = LabelNumbers
  /\ \A l \in Made : labels[l] \in [order : ShipOrders, status : {"bought", "cancelled"}]
  /\ \E n \in 0 .. MaxLabels : Made = 1 .. n
  /\ DOMAIN ship = ShipCalls
  /\ \A c \in ShipCalls : CallTyped(c)

Clean(o) == o \notin crossed \cup cutOff /\ Cardinality(Made) <= LabelPage

CallAgrees(c, o) ==
  /\ ship[c].at = "label" => Bought(o) = {}
  /\ ship[c].at = "complete" => Bought(o) = {ship[c].label}
  /\ ship[c].at = "cancel" => ship[c].label \in Bought(o)
  /\ ship[c].at = "open again" => orders[o].completed = ship[c].label

Settled(o) == Bought(o) = {orders[o].completed} \ {0}
Completes(c, o) == ship[c].at = "complete" /\ ship[c].for = o
Reopens(c, o) ==
  /\ ship[c].at \in {"find again", "open again"} /\ ship[c].for = o
  /\ orders[o].completed = ship[c].label

OrderAgrees(o) ==
  Clean(o) =>
    /\ \A c \in ShipCalls : Working(c, o) => CallAgrees(c, o)
    /\ \/ Settled(o)
       \/ \E c \in ShipCalls : Completes(c, o)
       \/ Bought(o) = {} /\ \E c \in ShipCalls : Reopens(c, o)

ShipInv == ShipTyped /\ \A o \in ShipOrders : OrderAgrees(o)

-----------------------------------------------------------------------------
\* The invariant of the labels holds at the start.
LEMMA ShippingBegins == ShippingInit => ShipInv
<1> SUFFICES ASSUME ShippingInit PROVE ShipInv
  OBVIOUS
<1>1. Made = {} /\ \A o \in ShipOrders : Bought(o) = {}
  BY DEF ShippingInit, Made, Bought
<1>2. ShipTyped
  <2>1. \A o \in ShipOrders : DOMAIN orders[o] = RowFields
    BY DEF ShippingInit, NoRow, RowFields
  <2>2. \A c \in ShipCalls : CallTyped(c)
    BY DEF ShippingInit, CallTyped, NoShipCall, NoRow, RowFields, ShipStages, OfALabel
  <2>3. \E n \in 0 .. MaxLabels : Made = 1 .. n
    <3>1. Made = 1 .. 0 /\ 0 \in 0 .. MaxLabels
      BY <1>1, ShippingAssumption
    <3> QED BY <3>1
  <2> QED BY <1>1, <2>1, <2>2, <2>3 DEF ShipTyped, ShippingInit
<1>3. ASSUME NEW o \in ShipOrders PROVE OrderAgrees(o)
  <2>1. orders[o].completed = 0
    BY DEF ShippingInit, NoRow
  <2> QED BY <1>1, <2>1 DEF OrderAgrees, Settled, Working, ShippingInit, NoShipCall
<1> QED BY <1>2, <1>3 DEF ShipInv

\* The labels made are finite and only become more, or are cancelled.
LEMMA MadeIsFinite ==
  ASSUME ShipTyped
  PROVE  IsFiniteSet(Made) /\ Cardinality(Made) \in Nat
         /\ Made = 1 .. Cardinality(Made)
<1> PICK n \in 0 .. MaxLabels : Made = 1 .. n
  BY DEF ShipTyped
<1>1. n \in Nat /\ 1 \in Int
  BY ShippingAssumption
<1>2. IsFiniteSet(1 .. n) /\ Cardinality(1 .. n) = n
  BY <1>1, FS_Interval
<1> QED BY <1>1, <1>2

\* An order whose labels, state and calls a step leaves alone.
LEMMA OrderUntouched ==
  ASSUME NEW o \in ShipOrders, OrderAgrees(o), Clean(o)' => Clean(o),
         Bought(o)' = Bought(o), orders'[o].completed = orders[o].completed,
         \A c \in ShipCalls : Working(c, o) \/ Working(c, o)' => ship'[c] = ship[c]
  PROVE  OrderAgrees(o)'
<1> SUFFICES ASSUME Clean(o)
             PROVE  /\ \A c \in ShipCalls : Working(c, o)' => CallAgrees(c, o)'
                    /\ \/ Settled(o)'
                       \/ \E c \in ShipCalls : Completes(c, o)'
                       \/ Bought(o)' = {} /\ \E c \in ShipCalls : Reopens(c, o)'
  BY DEF OrderAgrees
<1>1. \A c \in ShipCalls : Working(c, o)' => CallAgrees(c, o)'
  BY DEF OrderAgrees, CallAgrees, Working
<1>2. \A c \in ShipCalls : /\ Completes(c, o) => Completes(c, o)'
                           /\ Reopens(c, o) => Reopens(c, o)'
  BY DEF Completes, Reopens, Working
<1>3. Settled(o) => Settled(o)'
  BY DEF Settled
<1> QED BY <1>1, <1>2, <1>3 DEF OrderAgrees

\* A step of one call that writes nothing.
LEMMA CallOnly ==
  ASSUME ShipInv, NEW c \in ShipCalls, DOMAIN ship' = ShipCalls,
         \A d \in ShipCalls \ {c} : ship'[d] = ship[d], CallTyped(c)',
         UNCHANGED <<orders, labels, crossed>>, cutOff \subseteq cutOff',
         \A o \in ShipOrders : Clean(o)' =>
           /\ Working(c, o)' => CallAgrees(c, o)'
           /\ Completes(c, o) => Completes(c, o)'
           /\ Reopens(c, o) => Reopens(c, o)'
  PROVE  ShipInv'
<1>1. Made' = Made /\ \A o : Bought(o)' = Bought(o)
  BY DEF Made, Bought
<1>2. ShipTyped'
  <2>1. \A d \in ShipCalls : CallTyped(d)'
    BY <1>1 DEF ShipInv, ShipTyped, CallTyped
  <2> QED BY <1>1, <2>1 DEF ShipInv, ShipTyped
<1>3. ASSUME NEW o \in ShipOrders PROVE OrderAgrees(o)'
  <2> SUFFICES ASSUME Clean(o)'
               PROVE  /\ \A d \in ShipCalls : Working(d, o)' => CallAgrees(d, o)'
                      /\ \/ Settled(o)'
                         \/ \E d \in ShipCalls : Completes(d, o)'
                         \/ Bought(o)' = {} /\ \E d \in ShipCalls : Reopens(d, o)'
    BY DEF OrderAgrees
  <2>1. Clean(o) /\ OrderAgrees(o)
    BY <1>1 DEF Clean, ShipInv
  <2>2. \A d \in ShipCalls : Working(d, o)' => CallAgrees(d, o)'
    BY <1>1, <2>1 DEF OrderAgrees, CallAgrees, Working
  <2>3. \A d \in ShipCalls : /\ Completes(d, o) => Completes(d, o)'
                             /\ Reopens(d, o) => Reopens(d, o)'
    BY DEF Completes, Reopens
  <2>4. Settled(o) => Settled(o)'
    BY <1>1 DEF Settled
  <2> QED BY <1>1, <2>1, <2>2, <2>3, <2>4 DEF OrderAgrees
<1> QED BY <1>2, <1>3 DEF ShipInv

\* A query that reads all the labels there are finds all of an order's.
LEMMA AllAreFound ==
  ASSUME ShipTyped, NEW o \in ShipOrders, Clean(o), NEW found \in LabelsFor(o)
  PROVE  found = Bought(o)
<1>1. PICK read \in SUBSET Made :
        Cardinality(read) = Cardinality(Made) /\ found = read \cap Bought(o)
  BY DEF LabelsFor, Clean
<1>2. read = Made
  BY <1>1, MadeIsFinite, FS_Subset
<1> QED BY <1>1, <1>2 DEF Bought

\* Calls that ask, find or are cut off write nothing.
LEMMA ReadersKeep ==
  ASSUME ShipInv, NEW c \in ShipCalls,
         AsksLabel(c) \/ FindsOrder(c) \/ AsksCancel(c) \/ ShipCutOff(c)
  PROVE  ShipInv'
<1>1. Made' = Made
  BY DEF Made, AsksLabel, FindsOrder, AsksCancel, ShipCutOff
<1>2. /\ DOMAIN ship = ShipCalls /\ CallTyped(c) /\ DOMAIN orders = ShipOrders
      /\ \A o \in ShipOrders : DOMAIN orders[o] = RowFields
      /\ \A l \in Made : labels[l] \in [order : ShipOrders, status : {"bought", "cancelled"}]
  BY DEF ShipInv, ShipTyped
<1>3. CASE AsksLabel(c)
  <2>1. /\ DOMAIN ship' = ShipCalls /\ \A d \in ShipCalls \ {c} : ship'[d] = ship[d]
        /\ UNCHANGED <<orders, labels, crossed, cutOff>>
        /\ ship[c].at = "idle" /\ ship'[c].at = "find"
    BY <1>2, <1>3 DEF AsksLabel, NoShipCall
  <2>2. CallTyped(c)'
    <3>1. PICK o \in ShipOrders : \E v \in {orders[o].revision, orders[o].revision - 1} :
            ship' = [ship EXCEPT ![c] = [NoShipCall EXCEPT !.at = "find", !.for = o,
                                                           !.version = v]]
      BY <1>3 DEF AsksLabel
    <3>2. /\ DOMAIN ship'[c] = {"at", "for", "label", "version", "row"}
          /\ ship'[c].for = o /\ ship'[c].row = NoRow
      BY <1>2, <3>1 DEF NoShipCall
    <3> QED BY <2>1, <3>2 DEF CallTyped, ShipStages, OfALabel, NoRow, RowFields
  <2>3. ASSUME NEW o \in ShipOrders
        PROVE  /\ Working(c, o)' => CallAgrees(c, o)'
               /\ Completes(c, o) => Completes(c, o)'
               /\ Reopens(c, o) => Reopens(c, o)'
    <3>1. ship[c].at = "idle" /\ ship'[c].at = "find"
      BY <2>1
    <3>2. CallAgrees(c, o)'
      BY <3>1 DEF CallAgrees
    <3> QED BY <3>1, <3>2 DEF Completes, Reopens
  <2> QED BY <2>1, <2>2, <2>3, CallOnly
<1>4. CASE FindsOrder(c)
  <2>1. /\ DOMAIN ship' = ShipCalls /\ \A d \in ShipCalls \ {c} : ship'[d] = ship[d]
        /\ UNCHANGED <<orders, labels, crossed, cutOff>>
        /\ ship[c].at = "find" /\ ship'[c].at = "check"
    BY <1>2, <1>4 DEF FindsOrder, CallTyped
  <2>2. CallTyped(c)'
    <3>1. /\ DOMAIN ship'[c] = DOMAIN ship[c] /\ ship'[c].for = ship[c].for
          /\ ship'[c].row = orders[ship[c].for]
      BY <1>2, <1>4 DEF FindsOrder, CallTyped
    <3> QED BY <1>2, <2>1, <3>1 DEF CallTyped, ShipStages, OfALabel
  <2>3. ASSUME NEW o \in ShipOrders
        PROVE  /\ Working(c, o)' => CallAgrees(c, o)'
               /\ Completes(c, o) => Completes(c, o)'
               /\ Reopens(c, o) => Reopens(c, o)'
    <3>1. ship[c].at = "find" /\ ship'[c].at = "check"
      BY <2>1
    <3>2. CallAgrees(c, o)'
      BY <3>1 DEF CallAgrees
    <3> QED BY <3>1, <3>2 DEF Completes, Reopens
  <2> QED BY <2>1, <2>2, <2>3, CallOnly
<1>5. CASE AsksCancel(c)
  <2>1. /\ DOMAIN ship' = ShipCalls /\ \A d \in ShipCalls \ {c} : ship'[d] = ship[d]
        /\ UNCHANGED <<orders, labels, crossed, cutOff>>
        /\ ship[c].at = "idle" /\ ship'[c].at = "get"
    BY <1>2, <1>5 DEF AsksCancel, NoShipCall
  <2>2. CallTyped(c)'
    <3>1. PICK l \in Made :
            ship' = [ship EXCEPT ![c] = [NoShipCall EXCEPT !.at = "get", !.label = l,
                                                           !.for = labels[l].order]]
      BY <1>5 DEF AsksCancel
    <3>2. /\ DOMAIN ship'[c] = {"at", "for", "label", "version", "row"}
          /\ ship'[c].for = labels[l].order /\ ship'[c].row = NoRow
          /\ ship'[c].label = l
      BY <1>2, <3>1 DEF NoShipCall
    <3>3. labels[l].order \in ShipOrders
      BY <1>2
    <3> QED BY <1>1, <2>1, <3>2, <3>3 DEF CallTyped, ShipStages, OfALabel, NoRow, RowFields
  <2>3. ASSUME NEW o \in ShipOrders
        PROVE  /\ Working(c, o)' => CallAgrees(c, o)'
               /\ Completes(c, o) => Completes(c, o)'
               /\ Reopens(c, o) => Reopens(c, o)'
    <3>1. ship[c].at = "idle" /\ ship'[c].at = "get"
      BY <2>1
    <3>2. CallAgrees(c, o)'
      BY <3>1 DEF CallAgrees
    <3> QED BY <3>1, <3>2 DEF Completes, Reopens
  <2> QED BY <2>1, <2>2, <2>3, CallOnly
<1>6. CASE ShipCutOff(c)
  <2>1. /\ DOMAIN ship' = ShipCalls /\ \A d \in ShipCalls \ {c} : ship'[d] = ship[d]
        /\ UNCHANGED <<orders, labels, crossed>> /\ cutOff' = cutOff \cup {ship[c].for}
        /\ ship'[c] = NoShipCall
    BY <1>2, <1>6 DEF ShipCutOff, Ends
  <2>2. CallTyped(c)'
    BY <2>1 DEF NoShipCall, CallTyped, ShipStages, OfALabel, NoRow, RowFields
  <2>3. ASSUME NEW o \in ShipOrders, Clean(o)'
        PROVE  /\ Working(c, o)' => CallAgrees(c, o)'
               /\ Completes(c, o) => Completes(c, o)'
               /\ Reopens(c, o) => Reopens(c, o)'
    <3>1. ship[c].for # o
      BY <2>1, <2>3 DEF Clean
    <3>2. ship'[c].at = "idle"
      BY <2>1 DEF NoShipCall
    <3> QED BY <3>1, <3>2 DEF Completes, Reopens, Working
  <2> QED BY <2>1, <2>2, <2>3, CallOnly
<1> QED BY <1>3, <1>4, <1>5, <1>6

\* A call that goes on to write has read the order as it is, or calls crossed.
LEMMA DecisionsKeep ==
  ASSUME ShipInv, NEW c \in ShipCalls, ChecksOrder(c) \/ GetsLabel(c) \/ FindsAgain(c)
  PROVE  ShipInv'
<1> DEFINE o == ship[c].for
<1>1. /\ Made' = Made /\ \A p : Bought(p)' = Bought(p)
      /\ UNCHANGED <<orders, labels, crossed, cutOff>>
  BY DEF Made, Bought, ChecksOrder, GetsLabel, FindsAgain
<1>2. /\ DOMAIN ship = ShipCalls /\ CallTyped(c) /\ DOMAIN orders = ShipOrders
      /\ \A p \in ShipOrders : DOMAIN orders[p] = RowFields
      /\ ship[c].at \in {"check", "get", "find again"} /\ o \in ShipOrders
  BY DEF ShipInv, ShipTyped, CallTyped, ChecksOrder, GetsLabel, FindsAgain
<1>3. /\ DOMAIN ship' = ShipCalls /\ \A d \in ShipCalls \ {c} : ship'[d] = ship[d]
      /\ \/ ship'[c] = NoShipCall
         \/ /\ ship'[c].for = o /\ ship'[c].label = ship[c].label
            /\ DOMAIN ship'[c] = DOMAIN ship[c] /\ DOMAIN ship'[c].row = RowFields
            /\ ship'[c].at \in {"label", "cancel", "open again"}
  <2>1. CASE ChecksOrder(c)
    <3>1. To(c, "label") \/ Ends(c)
      BY <2>1 DEF ChecksOrder
    <3> QED BY <1>2, <3>1 DEF To, Ends, CallTyped
  <2>2. CASE GetsLabel(c)
    <3>1. To(c, "cancel") \/ Ends(c)
      BY <2>2 DEF GetsLabel
    <3> QED BY <1>2, <3>1 DEF To, Ends, CallTyped
  <2>3. CASE FindsAgain(c)
    <3>1. \/ ship' = [ship EXCEPT ![c].at = "open again", ![c].row = orders[o]]
          \/ Ends(c)
      BY <2>3 DEF FindsAgain
    <3> QED BY <1>2, <3>1 DEF Ends, CallTyped
  <2> QED BY <2>1, <2>2, <2>3
<1>4. CASE ship'[c] = NoShipCall /\ ~FindsAgain(c)
  <2>1. CallTyped(c)'
    BY <1>4 DEF NoShipCall, CallTyped, ShipStages, OfALabel, NoRow, RowFields
  <2>2. ship[c].at \in {"check", "get"} /\ ship'[c].at = "idle"
    BY <1>4 DEF ChecksOrder, GetsLabel, NoShipCall
  <2>3. ASSUME NEW p \in ShipOrders
        PROVE  /\ Working(c, p)' => CallAgrees(c, p)'
               /\ Completes(c, p) => Completes(c, p)'
               /\ Reopens(c, p) => Reopens(c, p)'
    BY <2>2 DEF CallAgrees, Completes, Reopens
  <2> QED BY <1>1, <1>3, <2>1, <2>3, CallOnly
<1>5. CASE ChecksOrder(c) /\ ship'[c] # NoShipCall
  <2>1. ship[c].at = "check" /\ ship'[c].at = "label" /\ {} \in LabelsFor(o)
    BY <1>2, <1>5 DEF ChecksOrder, MayLabel, To, Ends, CallTyped
  <2>2. CallTyped(c)'
    BY <1>2, <1>3, <1>5, <2>1 DEF CallTyped, ShipStages, OfALabel
  <2>3. Clean(o) => Bought(o) = {}
    BY <1>2, <2>1, AllAreFound DEF ShipInv
  <2>4. ASSUME NEW p \in ShipOrders, Clean(p)', Working(c, p)' PROVE CallAgrees(c, p)'
    BY <1>1, <1>3, <1>5, <2>1, <2>3, <2>4 DEF CallAgrees, Working, Clean
  <2> QED BY <1>1, <1>3, <2>1, <2>2, <2>4, CallOnly DEF Completes, Reopens
<1>6. CASE GetsLabel(c) /\ ship'[c] # NoShipCall
  <2>1. /\ ship[c].at = "get" /\ ship'[c].at = "cancel"
        /\ labels[ship[c].label].status # "cancelled"
    BY <1>2, <1>6 DEF GetsLabel, To, Ends, CallTyped
  <2>2. CallTyped(c)'
    BY <1>1, <1>2, <1>3, <1>6, <2>1 DEF CallTyped, ShipStages, OfALabel
  <2>3. ship[c].label \in Bought(o)
    <3>1. ship[c].label \in Made /\ labels[ship[c].label].order = o
      BY <1>2, <2>1 DEF CallTyped, OfALabel
    <3>2. labels[ship[c].label] \in [order : ShipOrders, status : {"bought", "cancelled"}]
      BY <3>1 DEF ShipInv, ShipTyped
    <3> QED BY <2>1, <3>1, <3>2 DEF Bought
  <2>4. ASSUME NEW p \in ShipOrders, Working(c, p)' PROVE CallAgrees(c, p)'
    BY <1>1, <1>3, <1>6, <2>1, <2>3, <2>4 DEF CallAgrees, Working
  <2> QED BY <1>1, <1>3, <2>1, <2>2, <2>4, CallOnly DEF Completes, Reopens
<1>7. CASE FindsAgain(c)
  <2>1. /\ ship[c].at = "find again"
        /\ IF orders[o].completed = ship[c].label THEN ship'[c].at = "open again"
           ELSE ship'[c] = NoShipCall
    BY <1>2, <1>7 DEF FindsAgain, Ends, CallTyped
  <2>2. CallTyped(c)'
    <3>1. CASE ship'[c] = NoShipCall
      BY <3>1 DEF NoShipCall, CallTyped, ShipStages, OfALabel, NoRow, RowFields
    <3>2. CASE ship'[c] # NoShipCall
      BY <1>1, <1>2, <1>3, <2>1, <3>2 DEF CallTyped, ShipStages, OfALabel
    <3> QED BY <3>1, <3>2
  <2>3. ASSUME NEW p \in ShipOrders
        PROVE  /\ Working(c, p)' => CallAgrees(c, p)'
               /\ Completes(c, p) => Completes(c, p)'
               /\ Reopens(c, p) => Reopens(c, p)'
    <3>1. CASE ship'[c] = NoShipCall
      <4>1. ship'[c].at = "idle"
        BY <3>1 DEF NoShipCall
      <4>2. orders[o].completed # ship[c].label
        BY <2>1, <4>1
      <4> QED BY <2>1, <4>1, <4>2 DEF Working, Completes, Reopens
    <3>2. CASE ship'[c] # NoShipCall
      <4>1. /\ ship'[c].at = "open again" /\ orders[o].completed = ship[c].label
            /\ ship'[c].for = o /\ ship'[c].label = ship[c].label /\ orders' = orders
        BY <1>1, <1>3, <2>1, <3>2
      <4>2. Working(c, p)' => CallAgrees(c, p)'
        BY <4>1 DEF CallAgrees, Working
      <4> QED BY <2>1, <4>1, <4>2 DEF Completes, Reopens
    <3> QED BY <3>1, <3>2
  <2> QED BY <1>1, <1>3, <2>2, <2>3, CallOnly
<1> QED BY <1>3, <1>4, <1>5, <1>6, <1>7

\* No other call has read what it acts on of this order.
Alone(c, o) ==
  \A d \in ShipCalls \ {c} : ship[d].for = o =>
    ship[d].at \notin {"check", "label", "complete", "cancel", "open again"}

\* A step of one call that writes a label or an order: what it has to show of
\* its own order, when nothing crossed.
LEMMA WritesOne ==
  ASSUME ShipInv, NEW c \in ShipCalls, NEW o \in ShipOrders, ship[c].for = o,
         ShipTyped', \A d \in ShipCalls \ {c} : ship'[d] = ship[d],
         ship'[c].at = "idle" \/ ship'[c].for = o, Crosses(o, c), cutOff' = cutOff,
         Cardinality(Made') <= LabelPage => Cardinality(Made) <= LabelPage,
         \A p \in ShipOrders \ {o} : /\ Bought(p)' = Bought(p)
                                     /\ orders'[p].completed = orders[p].completed,
         Clean(o) /\ Alone(c, o) =>
           /\ Working(c, o)' => CallAgrees(c, o)'
           /\ \/ Settled(o)' \/ Completes(c, o)'
              \/ Bought(o)' = {} /\ Reopens(c, o)'
  PROVE  ShipInv'
<1>1. \A p : Clean(p)' => Clean(p)
  BY DEF Clean, Crosses
<1>2. ASSUME NEW p \in ShipOrders \ {o} PROVE OrderAgrees(p)'
  <2>1. \A d \in ShipCalls : Working(d, p) \/ Working(d, p)' => ship'[d] = ship[d]
    BY DEF Working
  <2> QED BY <1>1, <2>1, OrderUntouched DEF ShipInv
<1>3. OrderAgrees(o)'
  <2> SUFFICES ASSUME Clean(o)'
               PROVE  /\ \A d \in ShipCalls : Working(d, o)' => CallAgrees(d, o)'
                      /\ \/ Settled(o)'
                         \/ \E d \in ShipCalls : Completes(d, o)'
                         \/ Bought(o)' = {} /\ \E d \in ShipCalls : Reopens(d, o)'
    BY DEF OrderAgrees
  <2>1. Alone(c, o)
    BY DEF Alone, Clean, Crosses
  <2>2. ASSUME NEW d \in ShipCalls \ {c}, Working(d, o)' PROVE CallAgrees(d, o)'
    <3>1. ship'[d].at \notin {"check", "label", "complete", "cancel", "open again"}
      BY <2>1, <2>2 DEF Alone, Working
    <3> QED BY <3>1 DEF CallAgrees
  <2> QED BY <1>1, <2>1, <2>2
<1> QED BY <1>2, <1>3 DEF ShipInv

\* A label is put by a call alone with its order, or calls crossed.
LEMMA PutsLabelKeeps ==
  ASSUME ShipInv, NEW c \in ShipCalls, PutsLabel(c)
  PROVE  ShipInv'
<1>0. PICK o \in ShipOrders : o = ship[c].for
  BY DEF ShipInv, ShipTyped, CallTyped, PutsLabel
<1> DEFINE n == Cardinality(Made)
           l == n + 1
<1>1. /\ DOMAIN ship = ShipCalls /\ CallTyped(c) /\ DOMAIN labels = LabelNumbers
      /\ o \in ShipOrders /\ n \in Nat /\ Made = 1 .. n /\ n < MaxLabels
  BY <1>0, MadeIsFinite DEF ShipInv, ShipTyped, CallTyped, PutsLabel
<1>2. l \in LabelNumbers /\ l \notin Made /\ n < l
  BY <1>1, ShippingAssumption DEF LabelNumbers
<1>3. /\ DOMAIN labels' = LabelNumbers
      /\ labels'[l] = [order |-> o, status |-> "bought"] /\ labels'[l] # NoLabel
      /\ \A k \in LabelNumbers \ {l} : labels'[k] = labels[k]
      /\ UNCHANGED <<orders, cutOff>>
  BY <1>0, <1>1, <1>2 DEF PutsLabel, NoLabel
<1>4. Made' = Made \cup {l} /\ Made' = 1 .. l
  <2>1. Made' = Made \cup {l}
    BY <1>2, <1>3 DEF Made
  <2> QED BY <1>1, <2>1
<1>5. Cardinality(Made') = l
  BY <1>1, <1>2, <1>4, FS_AddElement, MadeIsFinite DEF ShipInv
<1>6. \A p : Bought(p)' = IF p = o THEN Bought(p) \cup {l} ELSE Bought(p)
  <2>1. Made \subseteq LabelNumbers
    BY DEF Made
  <2> QED BY <1>2, <1>3, <1>4, <2>1 DEF Bought
<1>7. /\ DOMAIN ship' = ShipCalls /\ \A d \in ShipCalls \ {c} : ship'[d] = ship[d]
      /\ DOMAIN ship'[c] = DOMAIN ship[c] /\ ship'[c].at = "complete"
      /\ ship'[c].for = o /\ ship'[c].label = l /\ ship'[c].row = ship[c].row
  BY <1>0, <1>1 DEF PutsLabel, CallTyped
<1>8. ShipTyped'
  <2>1. CallTyped(c)'
    <3>1. /\ DOMAIN ship'[c] = {"at", "for", "label", "version", "row"}
          /\ DOMAIN ship'[c].row = RowFields
      BY <1>1, <1>7 DEF CallTyped
    <3>2. ship'[c].label \in Made' /\ labels'[ship'[c].label].order = o
      BY <1>1, <1>3, <1>4, <1>7
    <3>3. ship'[c].at = "complete" /\ ship'[c].for = o
      BY <1>7
    <3> QED BY <1>0, <3>1, <3>2, <3>3 DEF CallTyped, ShipStages, OfALabel
  <2>2. ASSUME NEW d \in ShipCalls \ {c} PROVE CallTyped(d)'
    <3>1. CallTyped(d) /\ ship'[d] = ship[d]
      BY <1>7 DEF ShipInv, ShipTyped
    <3>2. \A k \in Made : k \in Made' /\ labels'[k] = labels[k]
      BY <1>2, <1>3, <1>4 DEF Made
    <3> QED BY <3>1, <3>2 DEF CallTyped, OfALabel
  <2>3. \A k \in Made' :
          labels'[k] \in [order : ShipOrders, status : {"bought", "cancelled"}]
    <3>1. \A k \in Made : labels'[k] = labels[k]
      BY <1>2, <1>3 DEF Made
    <3> QED BY <1>1, <1>3, <1>4, <3>1 DEF ShipInv, ShipTyped
  <2>4. l \in 0 .. MaxLabels
    BY <1>2, ShippingAssumption DEF LabelNumbers
  <2> QED BY <1>3, <1>4, <1>7, <2>1, <2>2, <2>3, <2>4 DEF ShipInv, ShipTyped
<1>9. ASSUME Clean(o), Alone(c, o)
      PROVE  CallAgrees(c, o)' /\ Completes(c, o)'
  <2>1. ship[c].at = "label" /\ CallAgrees(c, o)
    BY <1>0, <1>9 DEF PutsLabel, ShipInv, OrderAgrees, Working
  <2>2. Bought(o)' = {l}
    BY <1>6, <2>1 DEF CallAgrees
  <2> QED BY <1>7, <2>2 DEF CallAgrees, Completes
<1>10. Cardinality(Made') <= LabelPage => Cardinality(Made) <= LabelPage
  BY <1>1, <1>5, ShippingAssumption
<1>11. Crosses(o, c)
  BY <1>0 DEF PutsLabel
<1> HIDE DEF n, l
<1> QED BY <1>0, <1>1, <1>3, <1>6, <1>7, <1>8, <1>9, <1>10, <1>11, WritesOne

\* A step of one call that writes its order.
LEMMA WritesOrder ==
  ASSUME ShipInv, NEW c \in ShipCalls, NEW o \in ShipOrders, ship[c].for = o,
         Crosses(o, c), Ends(c), UNCHANGED <<labels, cutOff>>,
         DOMAIN orders' = ShipOrders, DOMAIN orders'[o] = RowFields,
         \A p \in ShipOrders \ {o} : orders'[p] = orders[p],
         Clean(o) /\ Alone(c, o) => Bought(o) = {orders'[o].completed} \ {0}
  PROVE  ShipInv'
<1>1. Made' = Made /\ \A p : Bought(p)' = Bought(p)
  BY DEF Made, Bought
<1>2. DOMAIN ship = ShipCalls
  BY DEF ShipInv, ShipTyped
<1>3. /\ DOMAIN ship' = ShipCalls /\ \A d \in ShipCalls \ {c} : ship'[d] = ship[d]
      /\ ship'[c] = NoShipCall /\ ship'[c].at = "idle"
  BY <1>2 DEF Ends, NoShipCall
<1>4. ShipTyped'
  <2>1. CallTyped(c)'
    BY <1>3 DEF NoShipCall, CallTyped, ShipStages, OfALabel, NoRow, RowFields
  <2>2. \A d \in ShipCalls \ {c} : CallTyped(d)'
    BY <1>1, <1>3 DEF ShipInv, ShipTyped, CallTyped
  <2> QED BY <1>1, <1>3, <2>1, <2>2 DEF ShipInv, ShipTyped
<1>5. ASSUME Clean(o), Alone(c, o)
      PROVE  Settled(o)' /\ ~Working(c, o)'
  BY <1>1, <1>3, <1>5 DEF Settled, Working
<1> QED BY <1>1, <1>3, <1>4, <1>5, WritesOne

\* An order is completed by the label just put.
LEMMA CompletesOrderKeeps ==
  ASSUME ShipInv, NEW c \in ShipCalls, CompletesOrder(c)
  PROVE  ShipInv'
<1> DEFINE o == ship[c].for
<1>1. /\ CallTyped(c) /\ DOMAIN orders = ShipOrders /\ o \in ShipOrders
      /\ ship[c].at = "complete"
  BY DEF ShipInv, ShipTyped, CallTyped, CompletesOrder
<1>2. /\ DOMAIN orders' = ShipOrders
      /\ \A p \in ShipOrders \ {o} : orders'[p] = orders[p]
      /\ DOMAIN orders'[o] = RowFields /\ orders'[o].completed = ship[c].label
  BY <1>1 DEF CompletesOrder, CallTyped, RowFields
<1>3. ship[c].label # 0
  <2>1. ship[c].label \in LabelNumbers
    BY <1>1 DEF CallTyped, OfALabel, Made
  <2> QED BY <2>1, ShippingAssumption DEF LabelNumbers
<1>4. ASSUME Clean(o) PROVE Bought(o) = {orders'[o].completed} \ {0}
  <2>1. CallAgrees(c, o)
    BY <1>1, <1>4 DEF ShipInv, OrderAgrees, Working
  <2> QED BY <1>1, <1>2, <1>3, <2>1 DEF CallAgrees
<1>5. Crosses(o, c) /\ Ends(c) /\ UNCHANGED <<labels, cutOff>>
  BY DEF CompletesOrder
<1> QED BY <1>1, <1>2, <1>4, <1>5, WritesOrder

\* An order is opened again once its label is cancelled.
LEMMA OpensAgainKeeps ==
  ASSUME ShipInv, NEW c \in ShipCalls, OpensAgain(c)
  PROVE  ShipInv'
<1> DEFINE o == ship[c].for
<1>1. /\ CallTyped(c) /\ DOMAIN orders = ShipOrders /\ o \in ShipOrders
      /\ ship[c].at = "open again"
  BY DEF ShipInv, ShipTyped, CallTyped, OpensAgain
<1>2. /\ DOMAIN orders' = ShipOrders
      /\ \A p \in ShipOrders \ {o} : orders'[p] = orders[p]
      /\ DOMAIN orders'[o] = RowFields /\ orders'[o].completed = 0
  BY <1>1 DEF OpensAgain, CallTyped, RowFields
<1>3. ship[c].label \notin Bought(o)
  <2>1. labels[ship[c].label].status = "cancelled"
    BY <1>1 DEF CallTyped
  <2> QED BY <2>1 DEF Bought
<1>4. ASSUME Clean(o), Alone(c, o) PROVE Bought(o) = {orders'[o].completed} \ {0}
  <2>1. OrderAgrees(o) /\ CallAgrees(c, o)
    BY <1>1, <1>4 DEF ShipInv, OrderAgrees, Working
  <2>2. orders[o].completed = ship[c].label
    BY <1>1, <2>1 DEF CallAgrees
  <2>3. \A d \in ShipCalls : ~Completes(d, o)
    BY <1>1, <1>4 DEF Alone, Completes
  <2>4. Bought(o) = {}
    BY <1>3, <1>4, <2>1, <2>2, <2>3 DEF OrderAgrees, Settled
  <2> QED BY <1>2, <2>4
<1>5. Crosses(o, c) /\ Ends(c) /\ UNCHANGED <<labels, cutOff>>
  BY DEF OpensAgain
<1> QED BY <1>1, <1>2, <1>4, <1>5, WritesOrder

\* A cancelled label leaves its order to be opened again.
LEMMA CancelsLabelKeeps ==
  ASSUME ShipInv, NEW c \in ShipCalls, CancelsLabel(c)
  PROVE  ShipInv'
<1>0. PICK o \in ShipOrders, l \in Made :
        o = ship[c].for /\ l = ship[c].label /\ labels[l].order = o
  BY DEF ShipInv, ShipTyped, CallTyped, CancelsLabel, OfALabel
<1>1. /\ DOMAIN ship = ShipCalls /\ CallTyped(c) /\ DOMAIN labels = LabelNumbers
      /\ o \in ShipOrders /\ ship[c].at = "cancel"
  BY DEF ShipInv, ShipTyped, CallTyped, CancelsLabel
<1>2. /\ l \in Made /\ l \in LabelNumbers /\ labels[l].order = o
      /\ labels[l] \in [order : ShipOrders, status : {"bought", "cancelled"}]
  BY <1>0 DEF ShipInv, ShipTyped, Made
<1>3. /\ DOMAIN labels' = LabelNumbers
      /\ labels'[l] = [order |-> o, status |-> "cancelled"]
      /\ \A k \in LabelNumbers \ {l} : labels'[k] = labels[k]
      /\ UNCHANGED <<orders, cutOff>>
  BY <1>0, <1>1, <1>2 DEF CancelsLabel
<1>4. Made' = Made
  BY <1>2, <1>3 DEF Made, NoLabel
<1>5. \A p : Bought(p)' = IF p = o THEN Bought(p) \ {l} ELSE Bought(p)
  <2>1. Made \subseteq LabelNumbers
    BY DEF Made
  <2> QED BY <1>2, <1>3, <1>4, <2>1 DEF Bought
<1>6. /\ DOMAIN ship' = ShipCalls /\ \A d \in ShipCalls \ {c} : ship'[d] = ship[d]
      /\ DOMAIN ship'[c] = DOMAIN ship[c] /\ ship'[c].at = "find again"
      /\ ship'[c].for = o /\ ship'[c].label = l /\ ship'[c].row = ship[c].row
  BY <1>0, <1>1 DEF CancelsLabel, CallTyped, To
<1>7. ShipTyped'
  <2>1. CallTyped(c)'
    <3>1. /\ DOMAIN ship'[c] = {"at", "for", "label", "version", "row"}
          /\ DOMAIN ship'[c].row = RowFields
      BY <1>1, <1>6 DEF CallTyped
    <3>2. /\ ship'[c].label \in Made' /\ labels'[ship'[c].label].order = o
          /\ labels'[ship'[c].label].status = "cancelled"
      <4>1. ship'[c].label = l /\ l \in Made'
        BY <1>2, <1>4, <1>6
      <4>2. labels'[l].order = o /\ labels'[l].status = "cancelled"
        BY <1>3
      <4> QED BY <4>1, <4>2
    <3>3. ship'[c].at = "find again" /\ ship'[c].for = o
      BY <1>6
    <3> QED BY <1>0, <3>1, <3>2, <3>3 DEF CallTyped, ShipStages, OfALabel
  <2>2. ASSUME NEW d \in ShipCalls \ {c} PROVE CallTyped(d)'
    <3>1. CallTyped(d) /\ ship'[d] = ship[d]
      BY <1>6 DEF ShipInv, ShipTyped
    <3>2. \A k \in Made : /\ labels'[k].order = labels[k].order
                          /\ labels[k].status = "cancelled" => labels'[k].status = "cancelled"
      BY <1>2, <1>3 DEF Made
    <3> QED BY <1>4, <3>1, <3>2 DEF CallTyped, OfALabel
  <2>3. \A k \in Made' :
          labels'[k] \in [order : ShipOrders, status : {"bought", "cancelled"}]
    <3>1. \A k \in Made \ {l} : labels'[k] = labels[k]
      BY <1>3 DEF Made
    <3> QED BY <1>1, <1>3, <1>4, <3>1 DEF ShipInv, ShipTyped
  <2> QED BY <1>3, <1>4, <1>6, <2>1, <2>2, <2>3 DEF ShipInv, ShipTyped
<1>8. ASSUME Clean(o), Alone(c, o)
      PROVE  CallAgrees(c, o)' /\ Bought(o)' = {} /\ Reopens(c, o)'
  <2>1. OrderAgrees(o) /\ CallAgrees(c, o)
    BY <1>0, <1>1, <1>8 DEF ShipInv, OrderAgrees, Working
  <2>2. l \in Bought(o)
    BY <1>0, <1>1, <2>1 DEF CallAgrees
  <2>3. \A d \in ShipCalls : ~Completes(d, o)
    BY <1>0, <1>1, <1>8 DEF Alone, Completes
  <2>4. Settled(o)
    BY <1>8, <2>1, <2>2, <2>3 DEF OrderAgrees
  <2>5. orders[o].completed = l /\ Bought(o) = {l}
    BY <2>2, <2>4 DEF Settled
  <2>6. Bought(o)' = {}
    BY <1>5, <2>5
  <2> QED BY <1>3, <1>6, <2>5, <2>6 DEF CallAgrees, Reopens
<1>9. Crosses(o, c)
  BY <1>0 DEF CancelsLabel
<1> QED BY <1>0, <1>1, <1>3, <1>4, <1>5, <1>6, <1>7, <1>8, <1>9, WritesOne

\* An edit of Commerce touches no label.
LEMMA CommerceEditsKeep ==
  ASSUME ShipInv, NEW o \in ShipOrders, CommerceEdits(o)
  PROVE  ShipInv'
<1>1. Made' = Made /\ \A p : Bought(p)' = Bought(p)
  BY DEF CommerceEdits, Made, Bought
<1>2. /\ DOMAIN orders = ShipOrders
      /\ \A p \in ShipOrders : DOMAIN orders[p] = RowFields
  BY DEF ShipInv, ShipTyped
<1>3. /\ DOMAIN orders' = ShipOrders
      /\ \A p \in ShipOrders : /\ DOMAIN orders'[p] = RowFields
                                /\ orders'[p].completed = orders[p].completed
      /\ UNCHANGED <<labels, ship, cutOff>>
  BY <1>2 DEF CommerceEdits, RowFields
<1>4. ShipTyped'
  <2>1. \A c \in ShipCalls : CallTyped(c)'
    BY <1>1, <1>3 DEF ShipInv, ShipTyped, CallTyped
  <2> QED BY <1>1, <1>3, <2>1 DEF ShipInv, ShipTyped
<1>5. \A p : Clean(p)' => Clean(p)
  BY <1>1, <1>3 DEF CommerceEdits, Crosses, Clean
<1>6. \A p \in ShipOrders : OrderAgrees(p)'
  BY <1>1, <1>3, <1>5, OrderUntouched DEF ShipInv
<1> QED BY <1>4, <1>6 DEF ShipInv

\* Every step keeps the invariant of the labels.
LEMMA ShippingGoesOn == ShipInv /\ [ShippingNext]_shipVars => ShipInv'
<1> SUFFICES ASSUME ShipInv, [ShippingNext]_shipVars PROVE ShipInv'
  OBVIOUS
<1>1. CASE UNCHANGED shipVars
  <2>1. Made' = Made /\ \A p : Bought(p)' = Bought(p)
    BY <1>1 DEF shipVars, Made, Bought
  <2>2. ShipTyped'
    BY <1>1, <2>1 DEF shipVars, ShipInv, ShipTyped, CallTyped
  <2>3. \A p : Clean(p)' => Clean(p)
    BY <1>1, <2>1 DEF shipVars, Clean
  <2>4. \A p \in ShipOrders : OrderAgrees(p)'
    BY <1>1, <2>1, <2>3, OrderUntouched DEF shipVars, ShipInv
  <2> QED BY <2>2, <2>4 DEF ShipInv
<1>2. CASE \E o \in ShipOrders : CommerceEdits(o)
  BY <1>2, CommerceEditsKeep
<1>3. CASE \E c \in ShipCalls : MakesLabel(c) \/ Cancels(c) \/ ShipCutOff(c)
  BY <1>3, ReadersKeep, DecisionsKeep, PutsLabelKeeps, CompletesOrderKeeps,
     CancelsLabelKeeps, OpensAgainKeeps DEF MakesLabel, Cancels
<1> QED BY <1>1, <1>2, <1>3 DEF ShippingNext

\* Once its calls have ended, an order has one bought label at most and is
\* completed exactly by that one, for any number of orders, calls and labels,
\* unless calls or Commerce crossed on it, a call was cut off on it, or the
\* labels are more than a query returns (dinkuskit-stand-in.ts).
THEOREM LabelsAgree == ShippingSpec => []LabelAndOrderAgree
<1>1. ASSUME ShipInv PROVE LabelAndOrderAgree
  <2> SUFFICES ASSUME NEW o \in ShipOrders \ (crossed \cup cutOff),
                      Cardinality(Made) <= LabelPage,
                      \A c \in ShipCalls : ship[c].for # o
               PROVE  Bought(o) = {orders[o].completed} \ {0}
    BY DEF LabelAndOrderAgree
  <2>1. Clean(o) /\ OrderAgrees(o)
    BY <1>1 DEF Clean, ShipInv
  <2>2. \A c \in ShipCalls : ~Completes(c, o) /\ ~Reopens(c, o)
    BY DEF Completes, Reopens
  <2> QED BY <2>1, <2>2 DEF OrderAgrees, Settled
<1> QED BY <1>1, ShippingBegins, ShippingGoesOn, PTL DEF ShippingSpec

\* What else an order's record is: its revision grows from one, and what
\* completed it is a label.
OrderNumbers ==
  /\ \A o \in ShipOrders : /\ orders[o].revision \in Nat \ {0}
                           /\ orders[o].completed \in LabelNumbers \cup {0}
  /\ \A c \in ShipCalls : ship[c].row.revision \in Nat

\* Orders begin at their first revision, completed by no label.
LEMMA OrderNumbersAtFirst == ShippingInit => OrderNumbers
BY DEF ShippingInit, OrderNumbers, NoRow, NoShipCall

\* Every step keeps both in their numbers.
LEMMA OrderNumbersStay ==
  ASSUME ShipInv, OrderNumbers, [ShippingNext]_shipVars
  PROVE  OrderNumbers'
<1>1. /\ DOMAIN orders = ShipOrders /\ DOMAIN ship = ShipCalls
      /\ \A o \in ShipOrders : DOMAIN orders[o] = RowFields
      /\ \A c \in ShipCalls : /\ DOMAIN ship[c] = {"at", "for", "label", "version", "row"}
                              /\ DOMAIN ship[c].row = RowFields
  BY DEF ShipInv, ShipTyped, CallTyped
<1>2. /\ \A o \in ShipOrders : /\ orders[o].revision \in Nat \ {0}
                               /\ orders[o].completed \in LabelNumbers \cup {0}
      /\ \A c \in ShipCalls : ship[c].row.revision \in Nat
  BY DEF OrderNumbers
<1>3. NoShipCall.row.revision = 0 /\ NoShipCall.row.revision \in Nat
  BY DEF NoShipCall, NoRow
<1>4. ASSUME UNCHANGED orders, NEW c \in ShipCalls, DOMAIN ship' = ShipCalls,
             \A d \in ShipCalls \ {c} : ship'[d] = ship[d],
             ship'[c].row.revision \in Nat
      PROVE  OrderNumbers'
  BY <1>2, <1>4 DEF OrderNumbers
<1>5. ASSUME NEW o \in ShipOrders, DOMAIN orders' = ShipOrders,
             \A p \in ShipOrders \ {o} : orders'[p] = orders[p],
             orders'[o].revision \in Nat \ {0},
             orders'[o].completed \in LabelNumbers \cup {0},
             \A c \in ShipCalls : ship'[c].row.revision \in Nat
      PROVE  OrderNumbers'
  BY <1>2, <1>5 DEF OrderNumbers
<1>6. ASSUME NEW c \in ShipCalls, Ends(c)
      PROVE  /\ DOMAIN ship' = ShipCalls /\ ship'[c].row.revision \in Nat
             /\ \A d \in ShipCalls \ {c} : ship'[d] = ship[d]
  BY <1>1, <1>3, <1>6 DEF Ends
<1>7. ASSUME NEW c \in ShipCalls, NEW at, To(c, at)
      PROVE  /\ DOMAIN ship' = ShipCalls /\ ship'[c].row.revision \in Nat
             /\ \A d \in ShipCalls \ {c} : ship'[d] = ship[d]
  BY <1>1, <1>2, <1>7 DEF To
<1>8. ASSUME NEW c \in ShipCalls, AsksLabel(c) \/ AsksCancel(c) PROVE OrderNumbers'
  <2>1. UNCHANGED orders
    BY <1>8 DEF AsksLabel, AsksCancel
  <2>2. \E next : ship' = [ship EXCEPT ![c] = next] /\ next.row = NoRow
    <3>1. CASE AsksLabel(c)
      <4>1. PICK o, v :
              ship' = [ship EXCEPT ![c] = [NoShipCall EXCEPT !.at = "find", !.for = o,
                                                             !.version = v]]
        BY <3>1 DEF AsksLabel
      <4>2. [NoShipCall EXCEPT !.at = "find", !.for = o, !.version = v].row = NoRow
        BY DEF NoShipCall
      <4> QED BY <4>1, <4>2
    <3>2. CASE AsksCancel(c)
      <4>1. PICK l \in Made :
              ship' = [ship EXCEPT ![c] = [NoShipCall EXCEPT !.at = "get", !.label = l,
                                                             !.for = labels[l].order]]
        BY <3>2 DEF AsksCancel
      <4>2. [NoShipCall EXCEPT !.at = "get", !.label = l, !.for = labels[l].order].row = NoRow
        BY DEF NoShipCall
      <4> QED BY <4>1, <4>2
    <3> QED BY <1>8, <3>1, <3>2
  <2>3. /\ DOMAIN ship' = ShipCalls /\ ship'[c].row.revision \in Nat
        /\ \A d \in ShipCalls \ {c} : ship'[d] = ship[d]
    BY <1>1, <2>2 DEF NoRow
  <2> QED BY <2>1, <2>3, <1>4
<1>9. ASSUME NEW c \in ShipCalls, FindsOrder(c) \/ FindsAgain(c) PROVE OrderNumbers'
  <2>1. UNCHANGED orders /\ ship[c].for \in ShipOrders
    BY <1>9 DEF FindsOrder, FindsAgain, ShipInv, ShipTyped, CallTyped
  <2>2. \/ ship' = [ship EXCEPT ![c].at = "check", ![c].row = orders[ship[c].for]]
        \/ ship' = [ship EXCEPT ![c].at = "open again", ![c].row = orders[ship[c].for]]
        \/ Ends(c)
    BY <1>9 DEF FindsOrder, FindsAgain
  <2>3. orders[ship[c].for].revision \in Nat
    BY <1>2, <2>1
  <2>4. CASE Ends(c)
    BY <2>1, <2>4, <1>4, <1>6
  <2>5. CASE ~Ends(c)
    <3>1. /\ DOMAIN ship' = ShipCalls /\ ship'[c].row = orders[ship[c].for]
          /\ \A d \in ShipCalls \ {c} : ship'[d] = ship[d]
      BY <1>1, <2>2, <2>5
    <3> QED BY <2>1, <2>3, <3>1, <1>4
  <2> QED BY <2>4, <2>5
<1>10. ASSUME NEW c \in ShipCalls,
              ChecksOrder(c) \/ GetsLabel(c) \/ CancelsLabel(c) \/ ShipCutOff(c)
       PROVE  OrderNumbers'
  <2>1. UNCHANGED orders /\ (Ends(c) \/ \E at \in ShipStages : To(c, at))
    BY <1>10 DEF ChecksOrder, GetsLabel, CancelsLabel, ShipCutOff, ShipStages
  <2> QED BY <2>1, <1>4, <1>6, <1>7
<1>11. ASSUME NEW c \in ShipCalls, PutsLabel(c) PROVE OrderNumbers'
  <2>1. UNCHANGED orders
    BY <1>11 DEF PutsLabel
  <2>2. /\ DOMAIN ship' = ShipCalls /\ ship'[c].row.revision \in Nat
        /\ \A d \in ShipCalls \ {c} : ship'[d] = ship[d]
    BY <1>1, <1>2, <1>11 DEF PutsLabel
  <2> QED BY <2>1, <2>2, <1>4
<1>12. ASSUME NEW c \in ShipCalls, CompletesOrder(c) \/ OpensAgain(c)
       PROVE  OrderNumbers'
  <2>0. ship[c].at \in {"complete", "open again"}
    BY <1>12 DEF CompletesOrder, OpensAgain
  <2>1. /\ ship[c].for \in ShipOrders /\ ship[c].row.revision + 1 \in Nat \ {0}
        /\ ship[c].at = "complete" => ship[c].label \in LabelNumbers
    <3>1. CallTyped(c)
      BY DEF ShipInv, ShipTyped
    <3>2. ship[c].for \in ShipOrders /\ ship[c].label \in Made
      BY <2>0, <3>1 DEF CallTyped, OfALabel
    <3>3. ship[c].row.revision + 1 \in Nat \ {0}
      BY <1>2
    <3> QED BY <3>2, <3>3 DEF Made
  <2> DEFINE o == ship[c].for
             n == IF CompletesOrder(c) THEN ship[c].label ELSE 0
  <2>2. orders' = [orders EXCEPT ![o] =
                     [ship[c].row EXCEPT !.revision = ship[c].row.revision + 1,
                                         !.completed = n]]
    BY <1>1, <1>12 DEF CompletesOrder, OpensAgain
  <2>3. n \in LabelNumbers \cup {0}
    BY <2>1 DEF CompletesOrder
  <2> HIDE DEF n
  <2>4. /\ DOMAIN orders' = ShipOrders
        /\ orders'[o].revision = ship[c].row.revision + 1
        /\ orders'[o].completed = n
        /\ \A p \in ShipOrders \ {o} : orders'[p] = orders[p]
    BY <1>1, <2>1, <2>2 DEF RowFields
  <2>5. \A d \in ShipCalls : ship'[d].row.revision \in Nat
    BY <1>2, <1>6, <1>12 DEF CompletesOrder, OpensAgain
  <2> QED BY <2>1, <2>3, <2>4, <2>5, <1>5
<1>13. ASSUME NEW o \in ShipOrders, CommerceEdits(o) PROVE OrderNumbers'
  <2>1. /\ DOMAIN orders' = ShipOrders
        /\ orders'[o].revision = orders[o].revision + 1
        /\ orders'[o].completed = orders[o].completed
        /\ \A p \in ShipOrders \ {o} : orders'[p] = orders[p]
    BY <1>1, <1>13 DEF CommerceEdits, RowFields
  <2>2. \A c \in ShipCalls : ship'[c].row.revision \in Nat
    BY <1>2, <1>13 DEF CommerceEdits
  <2> QED BY <2>1, <2>2, <1>2, <1>5
<1>14. CASE UNCHANGED shipVars
  BY <1>14 DEF shipVars, OrderNumbers
<1> QED BY <1>8, <1>9, <1>10, <1>11, <1>12, <1>13, <1>14
        DEF ShippingNext, MakesLabel, Cancels

\* What they come to is the type invariant of the shipping.
LEMMA ShippingTypes == ShipInv /\ OrderNumbers => ShippingTypeOK
<1> SUFFICES ASSUME ShipInv, OrderNumbers PROVE ShippingTypeOK
  OBVIOUS
<1>1. \A l \in LabelNumbers : /\ labels[l].order \in ShipOrders \cup {NoOrder}
                              /\ labels[l].status \in {"none", "bought", "cancelled"}
  <2> TAKE l \in LabelNumbers
  <2>1. CASE l \in Made
    BY <2>1 DEF ShipInv, ShipTyped
  <2>2. CASE l \notin Made
    BY <2>2 DEF Made, NoLabel
  <2> QED BY <2>1, <2>2
<1>2. \A c \in ShipCalls : ship[c].at \in ShipStages
  BY DEF ShipInv, ShipTyped, CallTyped
<1> QED BY <1>1, <1>2 DEF ShippingTypeOK, OrderNumbers, ShipStages
================================================================================
