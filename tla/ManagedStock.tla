------------------------------ MODULE ManagedStock ------------------------------
(***************************************************************************)
(* The two product proofs                                                  *)
(* (features/managed-product-availability/runtime.ts and                   *)
(* features/unmanaged-product-sellability/runtime.ts).  A stock adjustment *)
(* is planned from a read of the balance and may be repeated with its      *)
(* command; a manual status is put.  Each proof takes its changes in turn  *)
(* and answers with what the storefront then shows, while visitors read.   *)
(* The Inventory library is external: it remembers every command's result  *)
(* and refuses one that names an old version (InventoryStore).             *)
(***************************************************************************)
EXTENDS Integers, FiniteSets

CONSTANTS
  MaxRequests,    \* bound: requests, numbered as they arrive
  StockCommands,  \* command identities
  Opening         \* OPENING_QUANTITY

ASSUME StockAssumption ==
  /\ MaxRequests \in Nat
  /\ IsFiniteSet(StockCommands)
  /\ Opening \in Nat

VARIABLES
  bootstrap,      \* steps of the bootstrap done, or that it was rejected
  onHand, version,
  inventoryLog,   \* Inventory: per command, the digest and the result it keeps
  inputs,         \* adjustmentInputs: per command, the delta first asked for
  commands,       \* adjustmentCommands: per command, the version it expects
  manual,         \* the manual status of the unmanaged product
  requests        \* per request: what is asked, how far it is, what it shows

stockVars == <<bootstrap, onHand, version, inventoryLog, inputs, commands,
               manual, requests>>

StockCalls == 1 .. MaxRequests
Deltas == {-3, 3}
Statuses == {"in-stock", "out-of-stock", "available-on-backorder"}
\* Configuration, location, catalog item and price, registration, opening; the
\* unmanaged product's are fewer.
Booted == 5
Rejected == Booted + 1
Unread == [onHand |-> 0, version |-> 0]
Unasked == [asks |-> "none", command |-> "none", value |-> 0, at |-> "none",
            shows |-> Unread]
Ended == {"answered", "misused", "refused", "unbooted"}

StockTypeOK ==
  /\ bootstrap \in 0 .. Rejected
  /\ onHand \in Int /\ version \in 0 .. (MaxRequests + 1)
  /\ inventoryLog \in [StockCommands ->
       [delta : Deltas \cup {0}, expected : 0 .. (MaxRequests + 1),
        result : {"none", "committed", "drifted", "short"}]]
  /\ inputs \in [StockCommands -> Deltas \cup {0}]
  /\ commands \in [StockCommands -> 0 .. (MaxRequests + 1)]
  /\ manual \in Statuses
  /\ \A r \in StockCalls :
       /\ requests[r].asks \in {"none", "adjust", "status", "read"}
       /\ requests[r].at \in {"none", "waiting", "adjust", "show", "balance"}
                               \cup Ended

StockInit ==
  /\ bootstrap = 0 /\ onHand = 0 /\ version = 0
  /\ inventoryLog = [m \in StockCommands |->
                       [delta |-> 0, expected |-> 0, result |-> "none"]]
  /\ inputs = [m \in StockCommands |-> 0]
  /\ commands = [m \in StockCommands |-> 0]
  /\ manual = "in-stock"
  /\ requests = [r \in StockCalls |-> Unasked]
-----------------------------------------------------------------------------
StockBecomes(r, next) == requests' = [requests EXCEPT ![r] = next]
StockGoto(r, step) == StockBecomes(r, [requests[r] EXCEPT !.at = step])

\* adjust, setAvailability and read.  Inputs that validAdjustment and
\* validProof refuse change nothing and are left out.
Ask(r) ==
  /\ requests[r].at = "none"
  /\ \A q \in StockCalls : q < r => requests[q].at # "none"
  /\ \/ \E m \in StockCommands, d \in Deltas :
          StockBecomes(r, [Unasked EXCEPT !.asks = "adjust", !.command = m,
                                     !.value = d, !.at = "waiting"])
     \/ \E s \in Statuses :
          StockBecomes(r, [Unasked EXCEPT !.asks = "status", !.value = s,
                                     !.at = "waiting"])
     \/ StockBecomes(r, [Unasked EXCEPT !.asks = "read", !.at = "show"])
  /\ UNCHANGED <<bootstrap, onHand, version, inventoryLog, inputs, commands,
                 manual>>

\* ensureBootstrap: one bootstrap, started by the first request.  Its last two
\* steps link the product to Inventory and open its balance.
Booting == bootstrap < Booted /\ \E r \in StockCalls : requests[r].at # "none"

Bootstrap ==
  /\ Booting
  /\ bootstrap' = bootstrap + 1
  /\ IF bootstrap' = Booted THEN onHand' = Opening /\ version' = 1
     ELSE UNCHANGED <<onHand, version>>
  /\ UNCHANGED <<inventoryLog, inputs, commands, manual, requests>>

\* A location, a link or an opening that Inventory rejects, or a storage that
\* throws, rejects the bootstrap, and its promise is kept.
BootstrapFails ==
  /\ Booting
  /\ bootstrap' = Rejected
  /\ UNCHANGED <<onHand, version, inventoryLog, inputs, commands, manual, requests>>

\* mutationTail: a change waits for every one of its kind asked before it.
Turn(r) ==
  \A q \in StockCalls : q < r /\ requests[q].asks = requests[r].asks =>
    requests[q].at \in Ended

\* So every request from then on is rejected with it.
Unbooted(r) ==
  /\ bootstrap = Rejected
  /\ (requests[r].at = "waiting" /\ Turn(r)) \/ requests[r].at = "show"
  /\ StockGoto(r, "unbooted")
  /\ UNCHANGED <<bootstrap, onHand, version, inventoryLog, inputs, commands, manual>>

Known(m) == commands[m] # 0

\* Mutant: a repeated command is planned anew.
PlanAnew(r) ==
  LET m == requests[r].command
      d == requests[r].value IN
  /\ requests[r].asks = "adjust" /\ requests[r].at = "waiting"
  /\ bootstrap = Booted /\ Turn(r)
  /\ StockGoto(r, "adjust")
  /\ inputs' = [inputs EXCEPT ![m] = d]
  /\ commands' = [commands EXCEPT ![m] = version]
  /\ UNCHANGED <<bootstrap, onHand, version, inventoryLog, manual>>

\* executeAdjustment up to its command: a command is planned from the balance
\* at its first use and remembered; with another input it is misused.
PlanAdjustment(r) ==
  LET m == requests[r].command
      d == requests[r].value IN
  /\ requests[r].asks = "adjust" /\ requests[r].at = "waiting"
  /\ bootstrap = Booted /\ Turn(r)
  /\ IF inputs[m] \notin {0, d}
     THEN StockGoto(r, "misused") /\ UNCHANGED <<inputs, commands>>
     ELSE /\ StockGoto(r, "adjust")
          /\ inputs' = [inputs EXCEPT ![m] = d]
          /\ commands' = IF Known(m) THEN commands
                         ELSE [commands EXCEPT ![m] = version]
  /\ UNCHANGED <<bootstrap, onHand, version, inventoryLog, manual>>

\* adjustStock: a command Inventory knows is answered as it was; one with
\* another input or version than it was first sent with is refused.
AdjustStock(r) ==
  LET m == requests[r].command
      sent == [delta |-> requests[r].value, expected |-> commands[m]]
      result == IF commands[m] # version THEN "drifted"
                ELSE IF onHand + sent.delta < 0 THEN "short" ELSE "committed"
      kept == inventoryLog[m] IN
  /\ requests[r].at = "adjust"
  /\ IF kept.result # "none"
     THEN /\ StockGoto(r, IF kept.result = "committed"
                        /\ sent = [delta |-> kept.delta,
                                   expected |-> kept.expected]
                     THEN "show" ELSE "refused")
          /\ UNCHANGED <<onHand, version, inventoryLog>>
     ELSE /\ inventoryLog' = [inventoryLog EXCEPT ![m] =
               [delta |-> sent.delta, expected |-> sent.expected,
                result |-> result]]
          /\ IF result = "committed"
             THEN /\ onHand' = onHand + sent.delta
                  /\ version' = version + 1
                  /\ StockGoto(r, "show")
             ELSE StockGoto(r, "refused") /\ UNCHANGED <<onHand, version>>
  /\ UNCHANGED <<bootstrap, inputs, commands, manual>>

\* executeAvailability: the manual status is put.
PutStatus(r) ==
  /\ requests[r].asks = "status" /\ requests[r].at = "waiting"
  /\ bootstrap = Booted /\ Turn(r)
  /\ manual' = requests[r].value
  /\ StockGoto(r, "show")
  /\ UNCHANGED <<bootstrap, onHand, version, inventoryLog, inputs, commands>>

\* The unmanaged product's readAvailability.
ShowStatus(r) ==
  /\ requests[r].asks = "status" /\ requests[r].at = "show"
  /\ StockBecomes(r, [requests[r] EXCEPT !.at = "answered", !.shows = manual])
  /\ UNCHANGED <<bootstrap, onHand, version, inventoryLog, inputs, commands,
                 manual>>

\* readAvailability: the stock, and then the version of the balance.
ShowStock(r) ==
  /\ requests[r].asks \in {"adjust", "read"} /\ requests[r].at = "show"
  /\ bootstrap = Booted
  /\ StockBecomes(r, [requests[r] EXCEPT !.at = "balance", !.shows.onHand = onHand])
  /\ UNCHANGED <<bootstrap, onHand, version, inventoryLog, inputs, commands,
                 manual>>

ShowBalance(r) ==
  /\ requests[r].at = "balance"
  /\ StockBecomes(r, [requests[r] EXCEPT !.at = "answered",
                                    !.shows.version = version])
  /\ UNCHANGED <<bootstrap, onHand, version, inventoryLog, inputs, commands,
                 manual>>

StockStep(r) ==
  \/ Ask(r) \/ PlanAdjustment(r) \/ AdjustStock(r)
  \/ PutStatus(r) \/ ShowStatus(r) \/ ShowStock(r) \/ ShowBalance(r)
  \/ Unbooted(r)

StockNext == Bootstrap \/ BootstrapFails \/ \E r \in StockCalls : StockStep(r)

StockSpec == StockInit /\ [][StockNext]_stockVars
-----------------------------------------------------------------------------
Committed == {m \in StockCommands : inventoryLog[m].result = "committed"}

\* The stock on hand is the opening stock and every committed command once,
\* with the change it was first asked for, however often it was repeated.
StockAddsUp ==
  /\ \A m \in Committed : inventoryLog[m].delta = inputs[m]
  /\ bootstrap = Booted =>
       /\ version = 1 + Cardinality(Committed)
       /\ onHand = Opening
            + 3 * Cardinality({m \in Committed : inputs[m] = 3})
            - 3 * Cardinality({m \in Committed : inputs[m] = -3})

\* An adjustment that is repeated is answered as it was the first time.
RepeatsAgree ==
  \A q, r \in StockCalls :
    /\ requests[q].asks = "adjust" /\ requests[q].at \in Ended \ {"misused"}
    /\ requests[r].asks = "adjust" /\ requests[r].at \in Ended \ {"misused"}
    /\ requests[q].command = requests[r].command
    /\ requests[q].value = requests[r].value
    => requests[q].at = requests[r].at

\* No adjustment is refused because another one changed the balance since it
\* was planned.
NoneDrifted == \A m \in StockCommands : inventoryLog[m].result # "drifted"

\* A command counts once: however often, with whatever input and between
\* whichever others it is sent again, it changes the stock once, every repeat
\* of it is answered alike, and none loses to another that came between.
EachCommandOnce == StockAddsUp /\ RepeatsAgree /\ NoneDrifted
=============================================================================
