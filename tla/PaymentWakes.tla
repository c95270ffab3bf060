----------------------------- MODULE PaymentWakes -----------------------------
(***************************************************************************)
(* The scheduled wake reconciliation of the trusted TEST checkout          *)
(* (features/test-checkout-host).  Payments keeps a wake for every attempt *)
(* something happened to, under a delivery generation.  Each run of the    *)
(* driver lists the wakes, looks their attempts up, stores the orders of   *)
(* the paid ones and acknowledges exactly what it listed.  A list that is  *)
(* not what was asked for in every item fails as a whole.                  *)
(*                                                                         *)
(* Payments, and the loop over the list (Commerce's reconcilePaymentWakes),*)
(* are external: the loop goes by the driver's tests.  A failed run leaves *)
(* no trace; the scheduler starts another.                                 *)
(***************************************************************************)
EXTENDS Naturals, FiniteSets

CONSTANTS
  WakeAttempts,    \* payment attempts
  WakeLimit,       \* the list limit of the configuration
  MaxDeliveries    \* bound: wakes delivered for one attempt

ASSUME WakeAssumption ==
  /\ WakeLimit \in 1 .. 100
  /\ MaxDeliveries \in Nat

VARIABLES
  setup,           \* what the driver is given
  spoilt,          \* attempts whose wake is malformed or of another binding
  paidAt,          \* Payments: attempts that are paid
  waking,          \* Payments: per attempt, the generation to be acknowledged
  delivered,       \* Payments: per attempt, the last generation
  ordered,         \* Commerce: attempts with a stored order
  driver           \* the run: how far it is and the wakes it has left

wakeVars == <<setup, spoilt, paidAt, waking, delivered, ordered, driver>>

Setups == {"none", "no execution", "invalid", "other binding", "good"}
Generations == 0 .. MaxDeliveries
Wakes == [attempt : WakeAttempts, generation : Generations \ {0}]
NoWake == [attempt |-> "none", generation |-> 0]
Waiting == [at |-> "idle", wakes |-> {}, now |-> NoWake, reason |-> "none"]

\* A wake that waits is the last one delivered, and the driver holds no wake
\* that was not delivered.
WakesTypeOK ==
  /\ setup \in Setups
  /\ paidAt \subseteq WakeAttempts /\ ordered \subseteq paidAt
  /\ \A a \in WakeAttempts : /\ delivered[a] \in Generations
                             /\ waking[a] \in {0, delivered[a]}
  /\ driver.at \in {"idle", "list", "look", "acknowledge"}
  /\ \A w \in driver.wakes : w \in Wakes /\ w.generation <= delivered[w.attempt]

WakesInit ==
  /\ setup \in Setups
  /\ spoilt \in SUBSET WakeAttempts
  /\ paidAt = {} /\ ordered = {}
  /\ waking = [a \in WakeAttempts |-> 0]
  /\ delivered = [a \in WakeAttempts |-> 0]
  /\ driver = Waiting
-----------------------------------------------------------------------------
(***************************************************************************)
(* External: Payments.  An open attempt may be woken without being paid; a *)
(* paid one is woken.                                                      *)
(***************************************************************************)
Deliver(a, paid) ==
  /\ delivered[a] < MaxDeliveries
  /\ a \notin paidAt
  /\ paid \/ delivered[a] + 1 < MaxDeliveries
  /\ delivered' = [delivered EXCEPT ![a] = @ + 1]
  /\ waking' = [waking EXCEPT ![a] = delivered[a] + 1]
  /\ paidAt' = IF paid THEN paidAt \cup {a} ELSE paidAt
  /\ UNCHANGED <<setup, spoilt, ordered, driver>>
-----------------------------------------------------------------------------
\* runScheduledWakeReconciliation: without a configuration, an execution, or
\* with a payment binding that is not the execution's, nothing runs.
StartsRun ==
  /\ driver.at = "idle"
  /\ driver' = CASE setup = "none" -> [Waiting EXCEPT !.reason = "not_configured"]
                 [] setup = "no execution" ->
                      [Waiting EXCEPT !.reason = "integration_limit_unsupported"]
                 [] setup \in {"invalid", "other binding"} ->
                      [Waiting EXCEPT !.reason = "error"]
                 [] setup = "good" -> [Waiting EXCEPT !.at = "list"]
  /\ UNCHANGED <<setup, spoilt, paidAt, waking, delivered, ordered>>

Listed == {w \in Wakes : w.generation = waking[w.attempt]}

\* A mutant: a full list is one too many.
ShortList(list) == Cardinality(list) < WakeLimit

\* At most as many as asked for; assertValidWakeSnapshot for every one.
Admissible(list) == Cardinality(list) <= WakeLimit

Valid(list) == \A w \in list : w.attempt \notin spoilt

RunError == driver' = [Waiting EXCEPT !.reason = "error"]

\* Payments answers with as many of the wakes as it was asked for.
ListsWakes ==
  /\ driver.at = "list"
  /\ \E list \in {s \in SUBSET Listed :
                    Cardinality(s) = IF Cardinality(Listed) <= WakeLimit
                                     THEN Cardinality(Listed) ELSE WakeLimit} :
       IF Admissible(list) /\ Valid(list)
       THEN driver' = [driver EXCEPT !.wakes = list,
                         !.at = IF list = {} THEN "idle" ELSE "look"]
       ELSE RunError
  /\ UNCHANGED <<setup, spoilt, paidAt, waking, delivered, ordered>>

\* No credential, an HTTP error, a body over its cap or one that is no list.
ListFails ==
  /\ driver.at = "list"
  /\ RunError
  /\ UNCHANGED <<setup, spoilt, paidAt, waking, delivered, ordered>>

Handled(w) ==
  driver' = [driver EXCEPT !.wakes = @ \ {w}, !.now = NoWake,
               !.at = IF driver.wakes = {w} THEN "idle" ELSE "look"]

\* External: Commerce looks the attempt up and stores a paid one's order.  An
\* attempt that is not paid keeps its wake.
LooksUpWake(w) ==
  /\ driver.at = "look" /\ w \in driver.wakes
  /\ IF w.attempt \in paidAt
     THEN /\ ordered' = ordered \cup {w.attempt}
          /\ driver' = [driver EXCEPT !.at = "acknowledge", !.now = w]
     ELSE Handled(w) /\ UNCHANGED ordered
  /\ UNCHANGED <<setup, spoilt, paidAt, waking, delivered>>

\* External: nor does one whose association or outcome cannot be told.
OutcomeUnknown(w) ==
  /\ driver.at = "look" /\ w \in driver.wakes
  /\ Handled(w)
  /\ UNCHANGED <<setup, spoilt, paidAt, waking, delivered, ordered>>

\* The wake as it was listed is acknowledged: one delivered meanwhile stays.
\* Payments' answer may be lost, which retains nothing and costs nothing.
Acknowledges ==
  /\ driver.at = "acknowledge"
  /\ LET w == driver.now
     IN /\ waking' = [waking EXCEPT ![w.attempt] =
                        IF @ = w.generation THEN 0 ELSE @]
        /\ Handled(w)
  /\ UNCHANGED <<setup, spoilt, paidAt, delivered, ordered>>

\* No credential, or the call fails: the wake is retained.
AcknowledgeFails ==
  /\ driver.at = "acknowledge"
  /\ Handled(driver.now)
  /\ UNCHANGED <<setup, spoilt, paidAt, waking, delivered, ordered>>

WakeStep == StartsRun \/ ListsWakes \/ ListFails \/ Acknowledges \/ AcknowledgeFails
LooksUp(a) == \E w \in Wakes : w.attempt = a /\ LooksUpWake(w)

LookStep == \E w \in Wakes : LooksUpWake(w) \/ OutcomeUnknown(w)

WakesNext ==
  \/ \E a \in WakeAttempts, paid \in BOOLEAN : Deliver(a, paid)
  \/ WakeStep \/ LookStep

WakesSpec == WakesInit /\ [][WakesNext]_wakeVars

(***************************************************************************)
(* The scheduler starts runs for ever, every run ends, and a call that is  *)
(* made again and again succeeds some time.                                *)
(***************************************************************************)
WakesFairSpec ==
  /\ WakesSpec
  /\ WF_wakeVars(WakeStep)
  /\ SF_wakeVars(ListsWakes)
  /\ \A a \in WakeAttempts : SF_wakeVars(LooksUp(a))
-----------------------------------------------------------------------------
\* The order of every paid attempt comes to be stored, however often lists,
\* lookups and acknowledgements fail and other attempts' wakes stay, when the
\* driver is configured, no wake is malformed (one that is blocks them all) and
\* no more attempts wait than a list holds (unpaid ones may fill it).
PaidComesToOrder ==
  \A a \in WakeAttempts :
    (a \in paidAt /\ setup = "good" /\ spoilt = {}
       /\ Cardinality(WakeAttempts) <= WakeLimit) ~> a \in ordered
=============================================================================
