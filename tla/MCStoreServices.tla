--------------------------- MODULE MCStoreServices ---------------------------
(***************************************************************************)
(* The parts of the store that serve its staff, its products and an agent  *)
(* in the page, each on a small instance: the Inventory store, the stock   *)
(* proofs over it, their record storages, the lists of stock, the sweep of *)
(* scheduled sales, practice labels and the tools of the cart.  They share *)
(* no state, so a behaviour is one of a single part, which `focus` names;  *)
(* the others stay as they begin.                                          *)
(***************************************************************************)
EXTENDS InventoryStore, ManagedStock, CatalogStorage, InventoryPages,
        ScheduledSales, PracticeShipping, CartTools, TLC

VARIABLE focus

\* What the two product proofs keep in memory.
ProofStorages ==
  {Catalog, Configurations, Claims, Prices, UnmanagedCatalog, UnmanagedPrices,
   ManualAvailability, BackorderPolicies, AvailabilitySettings}

\* Those who act at once are interchangeable, and so are the products of the
\* sweep: no definition names one.  The instance gives every part the same
\* actors.
Interchangeable ==
  {f @@ g : f \in Permutations(Slots), g \in Permutations(SaleProducts)}

\* What a sweep can no longer answer for, it never can again, and SweepSaleOwed
\* asks nothing more of it: such behaviours end.
Answerable == saleLog = {}

Parts == {"inventory", "stock", "storage", "pages", "sales", "shipping", "tools"}

\* A part that is not looked at has one beginning.
ServicesInit ==
  /\ focus \in Parts
  /\ InventoryInit
  /\ focus = "inventory" \/ \A b \in Balances : ~There(b)
  /\ StockInit
  /\ StorageInit
  /\ focus = "storage" \/ storage = Catalog
  /\ PagesInit
  /\ \/ focus = "pages"
     \/ /\ view = "open"
        /\ \A t \in Transfers :
             rows[t] = [listed |-> FALSE, date |-> 1, updated |-> 1]
  /\ SaleInit
  /\ focus = "sales" \/ salePage.product = CHOOSE p \in SaleProducts : TRUE
  /\ ShippingInit
  /\ ToolsInit
  /\ focus = "tools" \/ cart = Empty

ServicesNext ==
  /\ UNCHANGED focus
  /\ \/ focus = "inventory" /\ InventoryNext
     \/ focus # "inventory" /\ UNCHANGED inventoryVars
  /\ \/ focus = "stock" /\ StockNext
     \/ focus # "stock" /\ UNCHANGED stockVars
  /\ \/ focus = "storage" /\ StorageNext
     \/ focus # "storage" /\ UNCHANGED storageVars
  /\ \/ focus = "pages" /\ PagesNext
     \/ focus # "pages" /\ UNCHANGED pagesVars
  /\ \/ focus = "sales" /\ SaleNext
     \/ focus # "sales" /\ UNCHANGED saleVars
  /\ \/ focus = "shipping" /\ ShippingNext
     \/ focus # "shipping" /\ UNCHANGED shipVars
  /\ \/ focus = "tools" /\ ToolsNext
     \/ focus # "tools" /\ UNCHANGED toolVars

ServicesSpec ==
  ServicesInit
    /\ [][ServicesNext]_<<focus, inventoryVars, stockVars, storageVars,
                          pagesVars, saleVars, shipVars, toolVars>>

\* States of one part differ in nothing but its own variables.
PartView ==
  <<focus,
    CASE focus = "inventory" -> inventoryVars
      [] focus = "stock" -> stockVars
      [] focus = "storage" -> storageVars
      [] focus = "pages" -> pagesVars
      [] focus = "sales" -> saleVars
      [] focus = "shipping" -> shipVars
      [] focus = "tools" -> toolVars>>

\* The part looked at keeps to its types; the others never move.
ServicesTypeOK ==
  CASE focus = "inventory" -> InventoryTypeOK
    [] focus = "stock" -> StockTypeOK
    [] focus = "storage" -> StorageTypeOK
    [] focus = "pages" -> PagesTypeOK
    [] focus = "sales" -> SaleTypeOK
    [] focus = "shipping" -> ShippingTypeOK
    [] focus = "tools" -> ToolsTypeOK
=============================================================================
