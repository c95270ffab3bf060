---------------------------- MODULE CatalogStorage ----------------------------
(***************************************************************************)
(* The in-memory record storages of the product proofs                     *)
(* (features/managed-product-availability/memory-catalog-storage.ts and    *)
(* features/unmanaged-product-sellability/memory-storage.ts).  Commerce    *)
(* reads a record with its revision and writes it back with a compare-and- *)
(* set, while others put, delete and make it again.                        *)
(***************************************************************************)
EXTENDS Naturals, FiniteSets

CONSTANTS
  RecordIds,
  FieldValues,    \* of the fields a storage keeps unique
  Writers,        \* whoever reads a record and writes it back
  MaxRevision,    \* bound: how many revisions are handed out
  Storages        \* the storages checked: Catalog, Prices, ...

VARIABLES
  storage,        \* which storage this is
  records,        \* the records and their revisions
  revision,       \* revisions handed out so far; each is new
  held,           \* the record and the revision a writer has read
  replaced        \* history: per writer, what its compare-and-set replaced

storageVars == <<storage, records, revision, held, replaced>>

Fields == {"command", "sku"}
Absent == [command |-> "none", sku |-> "none", revision |-> 0]
Data == [Fields -> FieldValues]
Free == [id |-> "none", read |-> Absent, expects |-> 0]

(***************************************************************************)
(* What each storage keeps unique and which operations it has.             *)
(***************************************************************************)
Catalog == [unique |-> Fields, has |-> {"put", "delete", "set"}]
Configurations == [unique |-> {"sku"}, has |-> {"put", "delete"}]
Claims == [unique |-> Fields, has |-> {"put", "delete"}]
Prices == [unique |-> {}, has |-> {"put", "delete", "set", "remove"}]
UnmanagedCatalog == [unique |-> Fields, has |-> {"put", "delete", "set"}]
UnmanagedPrices ==
  [unique |-> {}, has |-> {"put", "delete", "set", "remove"}]
ManualAvailability == [unique |-> {}, has |-> {"put"}]
BackorderPolicies == [unique |-> {}, has |-> {"put"}]
AvailabilitySettings == [unique |-> {}, has |-> {"put"}]

ASSUME StorageAssumption ==
  /\ "none" \notin RecordIds /\ "none" \notin FieldValues
  /\ MaxRevision \in Nat
  /\ \A s \in Storages : /\ s.unique \subseteq Fields
                         /\ s.has \subseteq {"put", "delete", "set", "remove"}

StoredRecords ==
  {[command |-> d["command"], sku |-> d["sku"], revision |-> n] :
     d \in Data, n \in 1 .. MaxRevision} \cup {Absent}

\* query: the records whose field has that value.
Query(field, value) == {i \in RecordIds : records[i][field] = value}

\* However records are put, set, deleted and made again, a lookup by a unique
\* field finds at most one: a repeated command or a SKU names one record.
OneRecordPerValue ==
  \A f \in storage.unique : \A v \in FieldValues :
    \A i, j \in Query(f, v) : i = j

\* The storages keep to their types and to what each holds unique.
StorageTypeOK ==
  /\ storage \in Storages
  /\ records \in [RecordIds -> StoredRecords]
  /\ revision \in 0 .. MaxRevision
  /\ held \in [Writers -> [id : RecordIds \cup {"none"}, read : StoredRecords,
                           expects : 0 .. MaxRevision]]
  /\ replaced \in [Writers -> [read : StoredRecords, found : StoredRecords]]
  /\ OneRecordPerValue

StorageInit ==
  /\ storage \in Storages
  /\ records = [i \in RecordIds |-> Absent]
  /\ revision = 0
  /\ held = [w \in Writers |-> Free]
  /\ replaced = [w \in Writers |-> [read |-> Absent, found |-> Absent]]
-----------------------------------------------------------------------------
\* Mutant: only what is stored for the first time is looked at.
UniqueWhenNew(id, data) ==
  records[id] = Absent => \A f \in storage.unique : Query(f, data[f]) = {}

\* validateUniques: no other record has the value of a unique field.
Unique(id, data) ==
  \A f \in storage.unique : Query(f, data[f]) \subseteq {id}

\* Mutant: a record made again starts over at the first revision.
StoreFromFirst(id, data) ==
  /\ revision < MaxRevision
  /\ revision' = revision + 1
  /\ records' = [records EXCEPT ![id] =
       [command |-> data["command"], sku |-> data["sku"],
        revision |-> records[id].revision + 1]]

\* A stored record has a revision no record had before.
Store(id, data) ==
  /\ revision < MaxRevision
  /\ revision' = revision + 1
  /\ records' = [records EXCEPT ![id] =
       [command |-> data["command"], sku |-> data["sku"],
        revision |-> revision + 1]]

\* getVersioned: the record and its revision, or none.
GetVersioned(w, id) ==
  /\ "set" \in storage.has
  /\ held[w] = Free
  /\ held' = [held EXCEPT ![w] =
       [id |-> id, read |-> records[id], expects |-> records[id].revision]]
  /\ UNCHANGED <<storage, records, revision, replaced>>

Matches(w) == records[held[w].id].revision = held[w].expects

Replaces(w) ==
  replaced' = [replaced EXCEPT ![w] =
    [read |-> held[w].read, found |-> records[held[w].id]]]

\* compareAndSet: applied only on the revision that was read.  A value another
\* record has is refused with an error.
CompareAndSet(w, data) ==
  /\ "set" \in storage.has
  /\ held[w] # Free
  /\ held' = [held EXCEPT ![w] = Free]
  /\ IF Matches(w) /\ Unique(held[w].id, data)
     THEN Store(held[w].id, data) /\ Replaces(w)
     ELSE UNCHANGED <<records, revision, replaced>>
  /\ UNCHANGED storage

\* compareAndDelete: a record that is not there is never removed.
CompareAndDelete(w) ==
  /\ "remove" \in storage.has
  /\ held[w] # Free
  /\ held' = [held EXCEPT ![w] = Free]
  /\ IF Matches(w) /\ records[held[w].id] # Absent
     THEN /\ records' = [records EXCEPT ![held[w].id] = Absent]
          /\ Replaces(w)
     ELSE UNCHANGED <<records, replaced>>
  /\ UNCHANGED <<storage, revision>>

Put(id, data) ==
  /\ "put" \in storage.has
  /\ Unique(id, data)
  /\ Store(id, data)
  /\ UNCHANGED <<storage, held, replaced>>

Delete(id) ==
  /\ "delete" \in storage.has
  /\ records' = [records EXCEPT ![id] = Absent]
  /\ UNCHANGED <<storage, revision, held, replaced>>

StorageNext ==
  \/ \E w \in Writers :
       \/ \E id \in RecordIds : GetVersioned(w, id)
       \/ \E data \in Data : CompareAndSet(w, data)
       \/ CompareAndDelete(w)
  \/ \E id \in RecordIds : Delete(id) \/ \E data \in Data : Put(id, data)

StorageSpec == StorageInit /\ [][StorageNext]_storageVars
-----------------------------------------------------------------------------
\* A compare-and-set or -delete replaces the very record its writer read, also
\* when that record was deleted and made again in between: no write is lost.
NoWriteLost == \A w \in Writers : replaced[w].read = replaced[w].found
=============================================================================
