-------------------------- MODULE PlaygroundCheckout --------------------------
(***************************************************************************)
(* Test checkout in a playground store (features/playground-checkout,      *)
(* the checkout and status parts of middleware.ts, pages/api/checkout).    *)
(* A visitor's Commerce asks the pretend DinkusKit for a pass, which is    *)
(* the one the playground's own store key gets and is kept in memory, and  *)
(* calls Payments through a guard that binds every payment to the visitor  *)
(* who started it; a paid status is shown only under that binding.         *)
(* One isolate and one visitor's store.  Time counts in units of the       *)
(* exchange's timeout.                                                     *)
(*                                                                         *)
(* Left out: the shape checks of bodies, addresses and headers (a refused  *)
(* request changes nothing), and a cookie that is not the store's own.     *)
(***************************************************************************)
EXTENDS Naturals

CONSTANTS
  Steps,          \* checkout calls of Commerce under way at once
  Attempts,       \* payment attempts
  StoreKeys,      \* the playground's checkout keys, over its redeployments
  Margin,         \* PASS_REFRESH_MARGIN_SECONDS
  Session,        \* how long Payments keeps a payment open
  MaxNow          \* bound: the clock

VARIABLES
  now,
  key,            \* the configured store key
  pass,           \* cachedPass
  flight,         \* inflight: the call whose exchange others of its key join
  step,           \* per call of Commerce: how far it is
  payment,        \* per attempt, at Payments: none, open or paid, and when it ends
  binding,        \* per attempt: when the visitor's binding ends; 0: none
  known,          \* attempts whose start the visitor's page was told of
  view            \* per attempt: what the last status asked for it showed

payVars == <<now, key, pass, flight, step, payment, binding, known, view>>

ASSUME CheckoutAssumption ==
  /\ Margin \in Nat \ {0, 1}
  /\ Session \in Nat \ {0}
  /\ MaxNow \in Nat

Timeout == 1
NoKey == "none"
NoPass == [key |-> NoKey, until |-> 0, refresh |-> 0]
Resting == [at |-> "none", for |-> "none", kind |-> "none", asked |-> NoKey,
            key |-> NoKey, since |-> 0, with |-> "none", until |-> 0]
Unpaid == [state |-> "none", ends |-> 0]

PayTypeOK ==
  /\ now \in 0 .. MaxNow /\ key \in StoreKeys
  /\ pass.key \in StoreKeys \cup {NoKey}
  /\ flight # "none" => flight \in Steps /\ step[flight].at = "exchanges"
  /\ \A s \in Steps :
       /\ step[s].at \in {"none", "wants", "exchanges", "joins", "holds", "sent", "opened"}
       /\ step[s].for \in Attempts \cup {"none"}
       /\ step[s].kind \in {"none", "session", "lookup"}
  /\ \A a \in Attempts : /\ payment[a].state \in {"none", "open", "paid"}
                         /\ binding[a] \in 0 .. MaxNow + Session
                         /\ view[a] \in {"none", "open", "paid", "denied"}
  /\ known \subseteq Attempts

PayInit ==
  /\ now = 0 /\ key \in StoreKeys
  /\ pass = NoPass /\ flight = "none"
  /\ step = [s \in Steps |-> Resting]
  /\ payment = [a \in Attempts |-> Unpaid]
  /\ binding = [a \in Attempts |-> 0]
  /\ known = {} /\ view = [a \in Attempts |-> "none"]

PutStep(s, r) == step' = [step EXCEPT ![s] = r]
Fails(s) == PutStep(s, Resting)
-----------------------------------------------------------------------------
\* The guards of a start: enabled, well formed, an address, not over the limit.
\* A refused one never reaches Commerce.
StartsPay(s, a) ==
  /\ step[s].at = "none"
  /\ PutStep(s, [Resting EXCEPT !.at = "wants", !.for = a, !.kind = "session"])
  /\ UNCHANGED <<now, key, pass, flight, payment, binding, known, view>>

\* Commerce looks a payment up when a status asks for it.
LooksUp(s, a) ==
  /\ step[s].at = "none" /\ payment[a].state # "none"
  /\ PutStep(s, [Resting EXCEPT !.at = "wants", !.for = a, !.kind = "lookup"])
  /\ UNCHANGED <<now, key, pass, flight, payment, binding, known, view>>

\* Mutant: a pass is used until it ends.
FreshToTheEnd(k) == pass.key = k /\ now < pass.until

\* Mutant: a pass of another key is handed over.
FreshOfAny(k) == now < pass.refresh

Fresh(k) == pass.key = k /\ now < pass.refresh

\* getStorePass: the kept pass, an exchange under way, or an exchange of its own.
AsksPass(s) ==
  /\ step[s].at = "wants"
  /\ LET own == [step[s] EXCEPT !.asked = key] IN
       IF Fresh(key)
         THEN /\ PutStep(s, [own EXCEPT !.at = "holds", !.key = pass.key, !.until = pass.until])
              /\ UNCHANGED flight
       ELSE IF flight # "none" /\ step[flight].asked = key
         THEN PutStep(s, [own EXCEPT !.at = "joins", !.with = flight]) /\ UNCHANGED flight
       ELSE PutStep(s, [own EXCEPT !.at = "exchanges", !.since = now]) /\ flight' = s
  /\ UNCHANGED <<now, key, pass, payment, binding, known, view>>

Joined(s) == {s} \cup {t \in Steps : step[t].at = "joins" /\ step[t].with = s}

\* Mutant: an exchange that is over is joined further on.
Lingers(s) == UNCHANGED flight

Lands(s) == flight' = IF flight = s THEN "none" ELSE flight

\* DinkusKit.com answers: the pass it made by then lives as long as it says.
PassComes(s) ==
  /\ step[s].at = "exchanges" /\ Lands(s)
  /\ \E lifetime \in {Margin, Margin + 1, Margin + 2}, made \in step[s].since .. now :
       IF lifetime <= Margin
         THEN /\ step' = [t \in Steps |-> IF t \in Joined(s) THEN Resting ELSE step[t]]
              /\ UNCHANGED pass
         ELSE /\ pass' = [key |-> step[s].asked, until |-> made + lifetime,
                          refresh |-> step[s].since + (lifetime - Margin)]
              /\ step' = [t \in Steps |-> IF t \in Joined(s)
                            THEN [step[t] EXCEPT !.at = "holds", !.with = "none",
                                                 !.key = step[s].asked, !.until = made + lifetime]
                            ELSE step[t]]
  /\ UNCHANGED <<now, key, payment, binding, known, view>>

\* It refuses, or the exchange takes longer than its timeout.
PassFails(s) ==
  /\ step[s].at = "exchanges" /\ Lands(s)
  /\ step' = [t \in Steps |-> IF t \in Joined(s) THEN Resting ELSE step[t]]
  /\ UNCHANGED <<now, key, pass, payment, binding, known, view>>

Bound(a) == binding[a] # 0 /\ now < binding[a]
ExpiredBinding(a) == binding[a] # 0 /\ now >= binding[a]

\* playgroundPaymentsFetch, up to the call: a lookup needs the binding.
GuardSends(s) ==
  /\ step[s].at = "holds"
  /\ IF ExpiredBinding(step[s].for) \/ (step[s].kind = "lookup" /\ binding[step[s].for] = 0)
       THEN Fails(s)
       ELSE PutStep(s, [Resting EXCEPT !.at = "sent", !.for = step[s].for, !.kind = step[s].kind])
  /\ UNCHANGED <<now, key, pass, flight, payment, binding, known, view>>

\* Payments opens the payment once; a repeat gets the same one.  Its answer may
\* be lost; a refused call opens nothing.
PaymentOpens(s) ==
  LET a == step[s].for IN
  /\ step[s].at = "sent" /\ step[s].kind = "session"
  /\ payment' = [payment EXCEPT ![a] = IF @.state = "none"
                                         THEN [state |-> "open", ends |-> now + Session] ELSE @]
  /\ \/ PutStep(s, [step[s] EXCEPT !.at = "opened"])
     \/ Fails(s)
  /\ UNCHANGED <<now, key, pass, flight, binding, known, view>>

\* A lookup's answer passes through unread.
PaymentTold(s) ==
  /\ step[s].at = "sent" /\ step[s].kind = "lookup"
  /\ Fails(s)
  /\ view' = [view EXCEPT ![step[s].for] =
                IF payment[step[s].for].state = "paid"
                  THEN IF Bound(step[s].for) THEN "paid" ELSE "denied"
                  ELSE "open"]
  /\ UNCHANGED <<now, key, pass, flight, payment, binding, known>>

\* Mutant: the payment's end, in seconds, is kept as milliseconds.
EndSeconds(a) == 1

EndOf(a) == payment[a].ends

\* The binding is written before Commerce hears of the payment.
Binds(s) ==
  LET a == step[s].for IN
  /\ step[s].at = "opened"
  /\ binding' = [binding EXCEPT ![a] = EndOf(a)]
  /\ \/ known' = known \cup {a}
     \/ known' = known
  /\ Fails(s)
  /\ UNCHANGED <<now, key, pass, flight, payment, view>>

\* A status that names its attempt is refused unless it is bound; a status that
\* Commerce already holds as paid is shown under the same test.
AsksStatus(a) ==
  /\ a \in known /\ payment[a].state # "none"
  /\ view' = [view EXCEPT ![a] = IF ~Bound(a) THEN "denied" ELSE payment[a].state]
  /\ UNCHANGED <<now, key, pass, flight, step, payment, binding, known>>
-----------------------------------------------------------------------------
Pays(a) ==
  /\ payment[a].state = "open" /\ now < payment[a].ends
  /\ payment' = [payment EXCEPT ![a].state = "paid"]
  /\ UNCHANGED <<now, key, pass, flight, step, binding, known, view>>

\* An exchange is cut off at its timeout, so the clock does not leave it behind.
Ticks ==
  /\ now < MaxNow
  /\ \A s \in Steps : step[s].at = "exchanges" => now < step[s].since + Timeout
  /\ now' = now + 1
  /\ UNCHANGED <<key, pass, flight, step, payment, binding, known, view>>

NewKey(k) ==
  /\ k # key /\ key' = k
  /\ UNCHANGED <<now, pass, flight, step, payment, binding, known, view>>

PayNext ==
  \/ \E s \in Steps, a \in Attempts : StartsPay(s, a) \/ LooksUp(s, a)
  \/ \E s \in Steps : AsksPass(s) \/ PassComes(s) \/ PassFails(s) \/ GuardSends(s)
                       \/ PaymentOpens(s) \/ PaymentTold(s) \/ Binds(s)
  \/ \E a \in Attempts : AsksStatus(a) \/ Pays(a)
  \/ Ticks
  \/ \E k \in StoreKeys : NewKey(k)

PaySpec == PayInit /\ [][PayNext]_payVars
-----------------------------------------------------------------------------
\* A call is handed a pass of the key it asked with, good for longer than the
\* margin less the time one exchange may take, whoever exchanged it.
PassLasts ==
  [][\A s \in Steps : (step[s].at # "holds" /\ step'[s].at = "holds") =>
       /\ step'[s].key = step'[s].asked
       /\ step'[s].until + Timeout > now + Margin]_payVars

\* A visitor's payment is shown to them for as long as Payments keeps it: no
\* status that Commerce or Payments answers is denied before it ends, however
\* often and late a start is repeated.  A lookup that the guard does not send,
\* as after a start lost before its binding was kept, is not such an answer.
DeniedOnlyLate ==
  \A a \in Attempts : view[a] = "denied" => now >= payment[a].ends
=============================================================================
