------------------------- MODULE GuestCheckoutProofs -------------------------
(***************************************************************************)
(* Proofs about GuestCheckout.  For any number of tabs, products,          *)
(* capabilities and attempts, and every fault: types, the cart's limits,   *)
(* and that what is sent to Commerce is what the shopper reviewed, unless  *)
(* the page's own tools rewrote the cart.  For a browser with one tab:     *)
(* every attempt the shopper can pay, or has paid without settling, is of  *)
(* the retained capability; a settlement clears once, and what was         *)
(* purchased of the cart it read; and a status check asks about the        *)
(* current attempt.                                                        *)
(***************************************************************************)
EXTENDS GuestCheckout, GuestCartProofs

(***************************************************************************)
(* Types.  TypeOK alone is not inductive: a tab asks about, or settles, a  *)
(* capability that is not null, and a settlement writes back a cart it     *)
(* read earlier.                                                           *)
(***************************************************************************)
RetainedOK(ret) == ret \in Retentions /\ ret.order \in {0, ret.capability}

TabOK(s) ==
  /\ s \in TabStates
  /\ s.doing \in {"start", "check"} => s.call.capability # 0
  /\ s.doing = "settle" => s.snapshot.retained.capability # 0
  /\ CartTypeOK(s.snapshot.cart)

(***************************************************************************)
(* What a step leaves of the tab that takes it, `ret` being the retention  *)
(* then: it asks about what is retained, and wants a new capability only   *)
(* where there is none or its order is settled.                            *)
(***************************************************************************)
Renewable(ret) ==
  ret.capability = 0 \/ (ret.order = ret.capability /\ ~ret.pending)

Placed(s, ret) ==
  /\ s.doing # "settle"
  /\ s.doing \in {"start", "check"} => s.call.capability = ret.capability
  /\ s.doing = "check" => s.call.answer = NoAnswer
  /\ s.doing \in {"probe", "prepare"} => Renewable(ret)

LeavesTab(t, ret) == \E n : Becomes(t, n) /\ TabOK(n) /\ Placed(n, ret)

TInv ==
  /\ TypeOK
  /\ RetainedOK(retained)
  /\ \A t \in Tabs : TabOK(tab[t])
-----------------------------------------------------------------------------
\* What the null values are members of.
LEMMA NullTypes ==
  /\ NoRetention \in Retentions
  /\ NoAnswer \in Answers
  /\ NoCall \in Calls
  /\ NoSnapshot \in [retained : Retentions, cart : Carts]
  /\ CartTypeOK(NoSnapshot.cart)
<1> USE CheckoutAssumption, EmptyIsCart
<1>1. NoRetention \in Retentions
  BY DEF NoRetention, Retentions, Attempts, CartTypeOK
<1>2. NoAnswer \in Answers
  BY DEF NoAnswer, Answers, Attempts
<1>3. NoCall \in Calls
  BY <1>2 DEF NoCall, Calls, Attempts, CartTypeOK
<1>4. /\ NoSnapshot \in [retained : Retentions, cart : Carts]
      /\ CartTypeOK(NoSnapshot.cart)
  BY <1>1 DEF NoSnapshot, CartTypeOK
<1> QED BY <1>1, <1>2, <1>3, <1>4

\* A tab that has nothing to wait for.
LEMMA IdleTyped ==
  ASSUME NEW s \in TabStates
  PROVE  /\ TabOK(Idle(s))
         /\ Idle(s).doing = "idle"
         /\ Idle(s).call = NoCall
         /\ Idle(s).snapshot = NoSnapshot
<1>1. Idle(s) \in TabStates
  BY NullTypes DEF Idle, TabStates
<1>2. /\ Idle(s).doing = "idle"
      /\ Idle(s).call = NoCall
      /\ Idle(s).snapshot = NoSnapshot
  BY DEF Idle, TabStates
<1> QED BY <1>1, <1>2, NullTypes DEF TabOK

\* A tab that asks for the status of what is retained.
LEMMA CheckingTyped ==
  ASSUME NEW s \in TabStates, NEW ret \in Retentions
  PROVE  /\ Checking(s, ret) \in TabStates
         /\ Checking(s, ret).doing = "check"
         /\ Checking(s, ret).call.capability = ret.capability
         /\ Checking(s, ret).call.answer = NoAnswer
         /\ Checking(s, ret).snapshot = s.snapshot
<1> DEFINE call == [NoCall EXCEPT !.capability = ret.capability,
                                  !.had = ret.attempt, !.asked = Asked(ret)]
<1>1. Asked(ret) \in Attempts
  BY CheckoutAssumption DEF Asked, Attempts, Retentions
<1>2. /\ call \in Calls
      /\ call.capability = ret.capability
      /\ call.answer = NoAnswer
  BY <1>1, NullTypes DEF NoCall, Calls, Retentions
<1>3. Checking(s, ret) =
        [s EXCEPT !.doing = "check", !.startAllowed = FALSE,
                  !.confirmed = 0, !.call = call]
  BY DEF Checking
<1> HIDE DEF call
<1>4. Checking(s, ret) \in TabStates
  <2>1. call \in Calls /\ 0 \in 0 .. MaxCapabilities
    BY <1>2, CheckoutAssumption
  <2> QED BY <1>3, <2>1 DEF TabStates
<1>5. /\ Checking(s, ret).doing = "check"
      /\ Checking(s, ret).call = call
      /\ Checking(s, ret).snapshot = s.snapshot
  BY <1>3 DEF TabStates
<1> QED BY <1>2, <1>4, <1>5

\* After a check a tab rests or probes.
LEMMA AfterCheckTyped ==
  ASSUME NEW s \in TabStates, NEW ret, RetainedOK(ret)
  PROVE  /\ TabOK(AfterCheck(s, ret))
         /\ Placed(AfterCheck(s, ret), ret)
<1> DEFINE rest == [Idle(s) EXCEPT !.auto = FALSE]
           next == [rest EXCEPT !.doing = "probe"]
<1>1. /\ rest \in TabStates
      /\ rest.doing = "idle"
      /\ rest.snapshot = NoSnapshot
  BY IdleTyped DEF TabOK, TabStates
<1>2. /\ next \in TabStates
      /\ next.doing = "probe"
      /\ next.snapshot = NoSnapshot
  BY <1>1 DEF TabStates
<1>3. AfterCheck(s, ret) = IF s.auto /\ Probes(rest, ret) THEN next ELSE rest
  BY DEF AfterCheck
<1>4. Probes(rest, ret) => Renewable(ret)
  BY DEF Probes, Retains, CanPrepareNew, RetainedOK, Renewable
<1> HIDE DEF rest, next
<1> QED BY <1>1, <1>2, <1>3, <1>4, NullTypes DEF TabOK, Placed

\* An answer updates the attempt of a retention, never whose it is.
LEMMA UpdatedTyped ==
  ASSUME NEW ret, RetainedOK(ret), NEW answer \in Answers
  PROVE  /\ RetainedOK(Updated(ret, answer))
         /\ Updated(ret, answer).capability = ret.capability
         /\ Updated(ret, answer).order = ret.order
         /\ Updated(ret, answer).pending = ret.pending
BY DEF RetainedOK, Updated, Retentions, Answers

\* A start marks the retention, or fails to and sends nothing.
LEMMA StartTyped ==
  ASSUME TInv, NEW t \in Tabs, NEW s \in TabStates, NEW ret, RetainedOK(ret),
         ret.capability # 0, CartTypeOK(s.snapshot.cart),
         NEW lines \in Carts, Start(t, s, ret, lines)
  PROVE  /\ RetainedOK(retained')
         /\ retained'.capability = ret.capability
         /\ retained'.order = ret.order
         /\ retained'.pending = ret.pending
         /\ LeavesTab(t, ret)
<1> DEFINE call == [NoCall EXCEPT !.capability = ret.capability,
                                  !.lines = lines]
           sent == [s EXCEPT !.startAllowed = FALSE, !.doing = "start",
                             !.recovery = FALSE, !.call = call]
           kept == [Idle(s) EXCEPT !.startAllowed = FALSE, !.recovery = TRUE]
<1>1. /\ call \in Calls
      /\ call.capability = ret.capability
  BY NullTypes DEF NoCall, Calls, Retentions, RetainedOK
<1>2. \/ retained' = Sent(ret) /\ Becomes(t, sent)
      \/ retained' = ret /\ Becomes(t, kept)
  BY DEF Start
<1>3. /\ RetainedOK(Sent(ret))
      /\ Sent(ret).capability = ret.capability
      /\ Sent(ret).order = ret.order
      /\ Sent(ret).pending = ret.pending
  BY DEF RetainedOK, Sent, Retentions
<1>4. TabOK(kept) /\ kept.doing = "idle"
  BY IdleTyped DEF TabOK, TabStates
<1>5. TabOK(sent) /\ sent.doing = "start" /\ sent.call = call
  <2> HIDE DEF call
  <2>1. sent \in TabStates
    BY <1>1 DEF TabStates
  <2>2. sent.doing = "start" /\ sent.call = call /\ sent.snapshot = s.snapshot
    BY DEF TabStates
  <2> QED BY <1>1, <2>1, <2>2 DEF TabOK
<1>6. Placed(sent, ret) /\ Placed(kept, ret)
  <2> HIDE DEF call, sent, kept
  <2> QED BY <1>1, <1>4, <1>5 DEF Placed
<1> HIDE DEF call, sent, kept
<1> QED BY <1>2, <1>3, <1>4, <1>5, <1>6 DEF LeavesTab

\* A freshly loaded page.
LEMMA BlankTyped ==
  ASSUME TInv, NEW p \in Pages
  PROVE  /\ TabOK(Blank(p))
         /\ Blank(p).doing = "idle"
         /\ Blank(p).snapshot = NoSnapshot
<1>1. Blank(p) \in TabStates
  BY NullTypes, CheckoutAssumption DEF TInv, TypeOK, CartTypeOK, Blank, TabStates
<1> QED BY <1>1, NullTypes DEF Blank, TabOK
-----------------------------------------------------------------------------
\* A step replaces one tab and leaves the others.
LEMMA TabBecomes ==
  ASSUME TInv, NEW t \in Tabs, NEW n, TabOK(n), Becomes(t, n)
  PROVE  /\ tab' \in [Tabs -> TabStates]
         /\ \A u \in Tabs : TabOK(tab'[u])
         /\ tab'[t] = n
         /\ \A u \in Tabs \ {t} : tab'[u] = tab[u]
BY DEF TInv, TypeOK, TabOK, Becomes

\* A call the tab gives up on is at most one more start on the wire.
LEMMA AbandonsTyped ==
  ASSUME TInv, NEW t \in Tabs, Abandons(t)
  PROVE  /\ late' \subseteq [capability : Capabilities, lines : Carts]
         /\ \A r \in late' \ late : /\ tab[t].doing = "start"
                                    /\ r.capability = tab[t].call.capability
<1> DEFINE request == [capability |-> tab[t].call.capability,
                       lines |-> tab[t].call.lines]
<1>1. TabOK(tab[t]) /\ tab[t].call \in Calls
  BY DEF TInv, TypeOK, TabStates
<1>2. tab[t].doing = "start" =>
        request \in [capability : Capabilities, lines : Carts]
  BY <1>1, CheckoutAssumption DEF TabOK, Calls, Capabilities
<1>3. \/ late' = late
      \/ tab[t].doing = "start" /\ late' = late \cup {request}
  BY DEF Abandons
<1>4. request.capability = tab[t].call.capability
  OBVIOUS
<1> HIDE DEF request
<1> QED BY <1>2, <1>3, <1>4 DEF TInv, TypeOK

\* The page that loads is at rest or asks for the status at once.
LEMMA LoadedTyped ==
  ASSUME TInv, NEW t \in Tabs, NEW p \in Pages, Open(t, p)
  PROVE  LeavesTab(t, retained)
<1> DEFINE b == Blank(p)
           ready == [b EXCEPT !.admitted = TRUE,
                              !.recovery = Retains(retained) /\ ~PreparedOnly]
           auto == [ready EXCEPT !.auto = TRUE]
           asked == [Checking(ready, retained) EXCEPT !.auto = TRUE]
<1>1. /\ TabOK(b)
      /\ b \in TabStates
      /\ b.doing = "idle"
      /\ b.snapshot = NoSnapshot
      /\ RetainedOK(retained)
      /\ retained \in Retentions
  BY BlankTyped DEF TInv, TabOK, RetainedOK
<1>2. (Retains(retained) /\ ~PreparedOnly) \in BOOLEAN
  BY DEF Retains, PreparedOnly
<1>3. ready \in TabStates /\ ready.snapshot = NoSnapshot
  <2> HIDE DEF b
  <2> QED BY <1>1, <1>2 DEF TabStates
<1>4. auto \in TabStates
  <2> HIDE DEF ready
  <2> QED BY <1>3 DEF TabStates
<1>5. /\ asked \in TabStates
      /\ asked.snapshot = NoSnapshot
      /\ Placed(asked, retained)
      /\ asked.doing = "check"
      /\ asked.call.capability = retained.capability
  <2> HIDE DEF ready
  <2> QED BY <1>1, <1>3, CheckingTyped DEF TabStates, Placed
<1>6. CASE p = "checkout"
  <2>1. Becomes(t, IF PreparedOnly \/ retained.order # 0 THEN asked
                   ELSE AfterCheck(auto, retained))
    BY <1>6 DEF Open, LoadedCheckout
  <2>2. PreparedOnly \/ retained.order # 0 => retained.capability # 0
    BY <1>1 DEF PreparedOnly, Retains, RetainedOK
  <2>3. CASE PreparedOnly \/ retained.order # 0
    <3>1. TabOK(asked)
      BY <1>5, <2>2, <2>3, NullTypes DEF TabOK
    <3> HIDE DEF asked, auto
    <3> QED BY <1>5, <2>1, <2>3, <3>1 DEF LeavesTab
  <2>4. CASE ~(PreparedOnly \/ retained.order # 0)
    <3> HIDE DEF asked, auto
    <3>1. /\ TabOK(AfterCheck(auto, retained))
          /\ Placed(AfterCheck(auto, retained), retained)
      BY <1>1, <1>4, AfterCheckTyped
    <3> QED BY <2>1, <2>4, <3>1 DEF LeavesTab
  <2> QED BY <2>3, <2>4
<1>7. CASE p = "return"
  <2> HIDE DEF b
  <2>1. Becomes(t, IF Retains(retained) THEN Checking(b, retained) ELSE b)
    BY <1>7 DEF Open, LoadedReturn, b
  <2>2. Placed(b, retained)
    BY <1>1 DEF Placed
  <2>3. Retains(retained) => TabOK(Checking(b, retained))
    BY <1>1, CheckingTyped, NullTypes DEF TabOK, Retains
  <2>4. Placed(Checking(b, retained), retained)
    BY <1>1, CheckingTyped DEF Placed
  <2> QED BY <1>1, <2>1, <2>2, <2>3, <2>4 DEF LeavesTab
<1>8. CASE p = "shop"
  <2> HIDE DEF b
  <2>1. Becomes(t, b)
    BY <1>8 DEF Open, b
  <2>2. Placed(b, retained)
    BY <1>1 DEF Placed
  <2> QED BY <1>1, <2>1, <2>2 DEF LeavesTab
<1> QED BY <1>6, <1>7, <1>8 DEF Pages

\* A checkout click prepares a capability or starts an attempt; either way the
\* retention stays the same capability's.
LEMMA ClickCheckoutTyped ==
  ASSUME TInv, NEW t \in Tabs, ClickCheckout(t)
  PROVE  /\ LeavesTab(t, retained')
         /\ RetainedOK(retained')
         /\ retained'.capability = retained.capability
         /\ retained'.order = retained.order
         /\ retained'.pending = retained.pending
<1> DEFINE s == tab[t]
           call == [NoCall EXCEPT !.lines = s.intent]
           next == [s EXCEPT !.doing = "prepare", !.recovery = FALSE,
                             !.call = call]
<1>1. /\ TabOK(s)
      /\ s \in TabStates
      /\ s.intent \in Carts
      /\ RetainedOK(retained)
  BY DEF TInv, TabOK, TabStates
<1>2. CASE ~Retains(retained) \/ CanPrepareNew(s, retained)
  <2>1. call \in Calls
    BY <1>1, NullTypes DEF NoCall, Calls
  <2>2. next \in TabStates /\ next.doing = "prepare" /\ next.snapshot = s.snapshot
    <3> HIDE DEF s, call
    <3> QED BY <1>1, <2>1 DEF TabStates
  <2>3. Renewable(retained)
    BY <1>1, <1>2 DEF Retains, CanPrepareNew, RetainedOK, Renewable
  <2>4. Becomes(t, next) /\ retained' = retained
    BY <1>2 DEF ClickCheckout
  <2> HIDE DEF next
  <2> QED BY <1>1, <2>2, <2>3, <2>4 DEF TabOK, Placed, LeavesTab
<1>3. CASE ~(~Retains(retained) \/ CanPrepareNew(s, retained))
  <2>1. Start(t, s, retained, s.intent)
    BY <1>3 DEF ClickCheckout
  <2>2. retained.capability # 0 /\ CartTypeOK(s.snapshot.cart)
    BY <1>1, <1>3 DEF Retains, TabOK
  <2> HIDE DEF s
  <2>3. /\ RetainedOK(retained')
        /\ retained'.capability = retained.capability
        /\ retained'.order = retained.order
        /\ retained'.pending = retained.pending
        /\ LeavesTab(t, retained)
    BY <1>1, <2>1, <2>2, StartTyped
  <2> QED BY <2>3 DEF LeavesTab, Placed, Renewable
<1> QED BY <1>2, <1>3

\* So does asking for the status again.
LEMMA ClickRecoverTyped ==
  ASSUME TInv, NEW t \in Tabs, ClickRecover(t)
  PROVE  LeavesTab(t, retained)
<1>1. /\ TabOK(tab[t])
      /\ tab[t] \in TabStates
      /\ retained \in Retentions
      /\ retained.capability # 0
      /\ Becomes(t, Checking(tab[t], retained))
  BY DEF TInv, TabOK, RetainedOK, ClickRecover, Retains
<1>2. /\ TabOK(Checking(tab[t], retained))
      /\ Placed(Checking(tab[t], retained), retained)
  BY <1>1, CheckingTyped DEF TabOK, Placed
<1> QED BY <1>1, <1>2 DEF LeavesTab

\* A prepared capability is the next one, and is retained.
LEMMA PrepareAnsweredTyped ==
  ASSUME TInv, NEW t \in Tabs, PrepareAnswered(t)
  PROVE  /\ LeavesTab(t, retained')
         /\ RetainedOK(retained')
         /\ retained'.capability = issued + 1
         /\ retained'.order = 0
         /\ issued' = issued + 1
         /\ issued' \in Capabilities
<1> DEFINE s == tab[t]
           c == issued + 1
           new == [NoRetention EXCEPT !.capability = c]
           ready == [Idle(s) EXCEPT !.startAllowed = TRUE, !.confirmed = 0,
                                    !.rewritten = s.rewritten]
<1>1. /\ s \in TabStates
      /\ s.call \in Calls
      /\ s.call.lines \in Carts
  BY DEF TInv, TabOK, TabStates, Calls
<1>2. issued \in Nat /\ issued' = c /\ c \in Capabilities
  BY CheckoutAssumption DEF TInv, TypeOK, PrepareAnswered
<1>3. /\ RetainedOK(new)
      /\ new.capability = c
      /\ new.order = 0
      /\ c # 0
  <2>1. c \in 0 .. MaxCapabilities /\ c # 0
    BY <1>2, CheckoutAssumption DEF Capabilities
  <2>2. NoRetention \in Retentions /\ NoRetention.order = 0
    BY NullTypes DEF NoRetention
  <2> HIDE DEF c
  <2> QED BY <2>1, <2>2 DEF RetainedOK, Retentions
<1>4. /\ TabOK(ready)
      /\ ready \in TabStates
      /\ ready.doing = "idle"
      /\ CartTypeOK(ready.snapshot.cart)
  <2>1. 0 \in 0 .. MaxCapabilities
    BY CheckoutAssumption
  <2>2. Idle(s) \in TabStates
    BY <1>1, IdleTyped DEF TabOK
  <2>3. ready \in TabStates
    <3>1. s.rewritten \in BOOLEAN
      BY <1>1 DEF TabStates
    <3> HIDE DEF s
    <3> QED BY <2>1, <2>2, <3>1 DEF TabStates
  <2>4. ready.doing = "idle" /\ ready.snapshot = NoSnapshot
    BY <1>1, <2>2, IdleTyped DEF TabStates
  <2> QED BY <2>3, <2>4, NullTypes DEF TabOK
<1>5. \/ retained' = new /\ Becomes(t, ready)
      \/ Start(t, ready, new, s.call.lines)
  BY DEF PrepareAnswered
<1> HIDE DEF s, c, new, ready
<1>6. CASE retained' = new /\ Becomes(t, ready)
  <2>1. Placed(ready, new)
    BY <1>4 DEF Placed
  <2> QED BY <1>2, <1>3, <1>4, <1>6, <2>1 DEF LeavesTab, c
<1>7. CASE Start(t, ready, new, s.call.lines)
  <2>1. /\ RetainedOK(retained')
        /\ retained'.capability = new.capability
        /\ retained'.order = new.order
        /\ retained'.pending = new.pending
        /\ LeavesTab(t, new)
    BY <1>1, <1>3, <1>4, <1>7, StartTyped
  <2>2. LeavesTab(t, retained')
    BY <2>1 DEF LeavesTab, Placed, Renewable
  <2> QED BY <1>2, <1>3, <2>1, <2>2 DEF c
<1> QED BY <1>5, <1>6, <1>7

\* A refused preparation leaves the tab at rest.
LEMMA PrepareFailedTyped ==
  ASSUME TInv, NEW t \in Tabs, PrepareFailed(t)
  PROVE  LeavesTab(t, retained)
<1> DEFINE s == tab[t]
           probed == [Idle(s) EXCEPT !.admitted = FALSE]
           clicked == [Idle(s) EXCEPT !.recovery = Retains(retained)]
<1>1. s \in TabStates /\ Retains(retained) \in BOOLEAN
  BY DEF TInv, TabOK, Retains
<1>2. Idle(s) \in TabStates
  BY <1>1, IdleTyped DEF TabOK
<1>3. /\ probed \in TabStates /\ probed.doing = "idle"
      /\ probed.snapshot = NoSnapshot
      /\ clicked \in TabStates /\ clicked.doing = "idle"
      /\ clicked.snapshot = NoSnapshot
  BY <1>1, <1>2, IdleTyped DEF TabStates
<1>4. Becomes(t, probed) \/ Becomes(t, clicked)
  BY DEF PrepareFailed
<1> HIDE DEF probed, clicked
<1> QED BY <1>3, <1>4, NullTypes DEF TabOK, Placed, LeavesTab

\* A failed call leaves the tab at rest, or probing after the check on load.
LEMMA FailedTyped ==
  ASSUME NEW s \in TabStates, NEW ret, RetainedOK(ret)
  PROVE  TabOK(Failed(s, ret)) /\ Placed(Failed(s, ret), ret)
<1> DEFINE returned == [Idle(s) EXCEPT !.recovery = FALSE]
           unstarted == [Idle(s) EXCEPT !.recovery = Retains(ret)]
           unchecked == [s EXCEPT !.recovery = TRUE]
<1>1. Idle(s) \in TabStates /\ Retains(ret) \in BOOLEAN
  BY IdleTyped DEF TabOK, Retains
<1>2. /\ returned \in TabStates /\ returned.doing = "idle"
      /\ returned.snapshot = NoSnapshot
      /\ unstarted \in TabStates /\ unstarted.doing = "idle"
      /\ unstarted.snapshot = NoSnapshot
  BY <1>1, IdleTyped DEF TabStates
<1>3. unchecked \in TabStates
  BY DEF TabStates
<1>4. TabOK(AfterCheck(unchecked, ret)) /\ Placed(AfterCheck(unchecked, ret), ret)
  <2> HIDE DEF unchecked
  <2> QED BY <1>3, AfterCheckTyped
<1>5. Failed(s, ret) \in {returned, unstarted, AfterCheck(unchecked, ret)}
  BY DEF Failed
<1> HIDE DEF returned, unstarted, unchecked
<1> QED BY <1>2, <1>4, <1>5, NullTypes DEF TabOK, Placed

\* A call that fails, or whose answer cannot be associated.
LEMMA CallFailedTyped ==
  ASSUME TInv, NEW t \in Tabs, CallFailed(t) \/ Unassociated(t)
  PROVE  LeavesTab(t, retained)
<1>1. tab[t] \in TabStates /\ RetainedOK(retained)
  BY DEF TInv, TabOK
<1>2. Becomes(t, Failed(tab[t], retained))
  BY DEF CallFailed, Unassociated
<1> QED BY <1>1, <1>2, FailedTyped DEF LeavesTab

\* A started attempt is associated with the retained capability.
LEMMA StartAnsweredTyped ==
  ASSUME TInv, NEW t \in Tabs, StartAnswered(t)
  PROVE  /\ LeavesTab(t, retained')
         /\ RetainedOK(retained')
         /\ retained'.capability = retained.capability
         /\ retained'.order = retained.order
         /\ retained'.pending = retained.pending
<1> DEFINE s == tab[t]
           rest == [Idle(s) EXCEPT !.recovery = TRUE]
<1>1. /\ s \in TabStates
      /\ s.call.answer \in Answers
      /\ RetainedOK(retained)
      /\ retained.capability # 0
  BY DEF TInv, TabOK, TabStates, Calls, StartAnswered
<1>2. /\ retained' = Updated(retained, s.call.answer)
      /\ \/ Becomes(t, Checking(rest, retained'))
         \/ Becomes(t, rest)
  BY DEF StartAnswered
<1>3. /\ RetainedOK(retained')
      /\ retained'.capability = retained.capability
      /\ retained'.order = retained.order
      /\ retained'.pending = retained.pending
  BY <1>1, <1>2, UpdatedTyped
<1>4. Idle(s) \in TabStates
  BY <1>1, IdleTyped DEF TabOK
<1>5. /\ rest \in TabStates
      /\ rest.doing = "idle"
      /\ rest.snapshot = NoSnapshot
  BY <1>1, <1>4, IdleTyped DEF TabStates
<1> HIDE DEF s, rest
<1>6. TabOK(rest) /\ Placed(rest, retained')
  BY <1>5, NullTypes DEF TabOK, Placed
<1>7. /\ TabOK(Checking(rest, retained'))
      /\ Placed(Checking(rest, retained'), retained')
  BY <1>1, <1>3, <1>5, CheckingTyped, NullTypes DEF TabOK, Placed, RetainedOK
<1> QED BY <1>2, <1>3, <1>6, <1>7 DEF LeavesTab

\* So is the attempt a status answer names.
LEMMA StatusAnsweredTyped ==
  ASSUME TInv, NEW t \in Tabs, StatusAnswered(t)
  PROVE  /\ LeavesTab(t, retained')
         /\ RetainedOK(retained')
         /\ retained'.capability = retained.capability
         /\ retained'.order = retained.order
         /\ retained'.pending = retained.pending
<1> DEFINE s == tab[t]
           answer == s.call.answer
           none == answer.state = "pending" /\ s.call.had = 0 /\ answer.attempt = 0
           may == none \/ answer.state = "released-retry"
           recovery == IF s.page = "return" THEN answer.state = "pending"
                       ELSE answer.state \in Unpaid /\ ~(none /\ s.auto)
           known == [s EXCEPT !.startAllowed = may, !.recovery = recovery]
<1>1. /\ s \in TabStates
      /\ answer \in Answers
      /\ RetainedOK(retained)
  BY DEF TInv, TabOK, TabStates, Calls
<1>2. /\ retained' = Updated(retained, answer)
      /\ Becomes(t, AfterCheck(known, retained'))
  BY DEF StatusAnswered
<1>3. /\ RetainedOK(retained')
      /\ retained'.capability = retained.capability
      /\ retained'.order = retained.order
      /\ retained'.pending = retained.pending
  BY <1>1, <1>2, UpdatedTyped
<1>4. may \in BOOLEAN /\ recovery \in BOOLEAN
  OBVIOUS
<1>5. known \in TabStates
  <2> HIDE DEF may, recovery
  <2> QED BY <1>1, <1>4 DEF TabStates
<1> HIDE DEF known
<1> QED BY <1>2, <1>3, <1>5, AfterCheckTyped DEF LeavesTab

\* What a page does after a settlement.
LEMMA ConfirmedTyped ==
  ASSUME NEW s \in TabStates, NEW ret, RetainedOK(ret), NEW done \in BOOLEAN
  PROVE  TabOK(Confirmed(s, ret, done)) /\ Placed(Confirmed(s, ret, done), ret)
<1> DEFINE recovery == s.page = "checkout" /\ ~done
           known == [s EXCEPT !.recovery = recovery]
<1>1. recovery \in BOOLEAN
  OBVIOUS
<1>2. known \in TabStates
  <2> HIDE DEF recovery
  <2> QED BY <1>1 DEF TabStates
<1>3. Confirmed(s, ret, done) = AfterCheck(known, ret)
  BY DEF Confirmed
<1> HIDE DEF known
<1> QED BY <1>2, <1>3, AfterCheckTyped

\* A tab that has read what it settles.
Settling(s, ret) ==
  /\ s.doing = "settle"
  /\ s.snapshot = [retained |-> ret, cart |-> cart]
  /\ ~AlreadySettled(ret)

\* A paid answer: the settlement is over already, or begins by reading.
LEMMA PaidAnsweredTyped ==
  ASSUME TInv, NEW t \in Tabs, PaidAnswered(t)
  PROVE  /\ \E n : /\ Becomes(t, n)
                   /\ TabOK(n)
                   /\ Placed(n, retained') \/ Settling(n, retained')
         /\ RetainedOK(retained')
         /\ retained'.capability = retained.capability
         /\ retained'.order = retained.order
         /\ retained'.pending = retained.pending
<1> DEFINE o == tab[t]
           s == [o EXCEPT !.confirmed = o.call.capability,
                          !.startAllowed = FALSE]
           shown == [s EXCEPT !.intent = cart]
           read == [retained |-> retained', cart |-> cart]
           reading == [s EXCEPT !.doing = "settle", !.snapshot = read]
<1>1. /\ o \in TabStates
      /\ o.call \in Calls
      /\ o.call.answer \in Answers
      /\ o.call.capability \in 0 .. MaxCapabilities
      /\ RetainedOK(retained)
      /\ retained.capability = o.call.capability
      /\ o.doing = "check"
      /\ retained.capability # 0
      /\ CartTypeOK(cart)
  BY DEF TInv, TypeOK, TabOK, TabStates, Calls, PaidAnswered
<1>2. retained' = Updated(retained, o.call.answer)
  BY DEF PaidAnswered
<1>3. /\ RetainedOK(retained')
      /\ retained'.capability = retained.capability
      /\ retained'.order = retained.order
      /\ retained'.pending = retained.pending
  BY <1>1, <1>2, UpdatedTyped
<1>4. IF AlreadySettled(retained')
      THEN Becomes(t, Confirmed(shown, retained', TRUE))
      ELSE Becomes(t, reading)
  <2>1. s.call.answer = o.call.answer
    <3> HIDE DEF o
    <3> QED BY <1>1 DEF TabStates
  <2> QED BY <1>2, <2>1 DEF PaidAnswered
<1>5. s \in TabStates
  <2> HIDE DEF o
  <2> QED BY <1>1 DEF TabStates
<1>6. shown \in TabStates
  <2> HIDE DEF s
  <2> QED BY <1>1, <1>5 DEF TabStates, CartTypeOK
<1>7. TabOK(reading) /\ reading.doing = "settle" /\ reading.snapshot = read
  <2>1. read \in [retained : Retentions, cart : Carts]
    BY <1>1, <1>3 DEF CartTypeOK, RetainedOK
  <2>2. read.retained.capability # 0 /\ CartTypeOK(read.cart)
    BY <1>1, <1>3
  <2> HIDE DEF s, read
  <2>3. reading \in TabStates /\ reading.doing = "settle" /\ reading.snapshot = read
    BY <1>5, <2>1 DEF TabStates
  <2> QED BY <2>2, <2>3 DEF TabOK
<1> HIDE DEF o, s, shown, reading
<1>8. CASE AlreadySettled(retained')
  <2>1. /\ TabOK(Confirmed(shown, retained', TRUE))
        /\ Placed(Confirmed(shown, retained', TRUE), retained')
    BY <1>3, <1>6, ConfirmedTyped
  <2> QED BY <1>3, <1>4, <1>8, <2>1
<1>9. CASE ~AlreadySettled(retained')
  BY <1>3, <1>4, <1>7, <1>9 DEF Settling
<1> QED BY <1>8, <1>9

\* The marker is of the order that is settled.
LEMMA MarkedTyped ==
  ASSUME NEW read \in [retained : Retentions, cart : Carts]
  PROVE  /\ RetainedOK(Marked(read))
         /\ Marked(read).capability = read.retained.capability
         /\ Marked(read).order = read.retained.capability
         /\ Marked(read) = read.retained \/ Marked(read).pending = TRUE
BY DEF Marked, RetainedOK, Retentions

\* A settlement, wherever it stops, leaves a retention and a cart.
LEMMA SettleTyped ==
  ASSUME TInv, NEW t \in Tabs, Settle(t)
  PROVE  /\ LeavesTab(t, retained')
         /\ RetainedOK(retained')
         /\ CartTypeOK(cart')
         /\ cleaned' \subseteq Capabilities
         /\ settled' \subseteq Capabilities
         /\ fresh' \subseteq Lines
         /\ UNCHANGED commerceVars
<1> DEFINE s == tab[t]
           read == s.snapshot
           order == read.retained.capability
           marker == Marked(read)
           finished == [marker EXCEPT !.pending = FALSE]
           bought == attempts[order].lines
           shown == [s EXCEPT !.intent = cart']
<1>1. /\ s \in TabStates
      /\ read \in [retained : Retentions, cart : Carts]
      /\ order \in Capabilities
      /\ CartTypeOK(read.cart)
      /\ RetainedOK(retained)
      /\ CartTypeOK(cart)
  <2>1. s \in TabStates /\ TabOK(s) /\ s.doing = "settle"
    BY DEF TInv, TabOK, Settle
  <2>2. read \in [retained : Retentions, cart : Carts] /\ order # 0
    BY <2>1 DEF TabOK, TabStates
  <2> QED BY <2>1, <2>2, CheckoutAssumption
          DEF TInv, TypeOK, TabOK, Retentions, Capabilities
<1>2. bought \in Carts
  BY <1>1 DEF TInv, TypeOK
<1>3. /\ RetainedOK(marker)
      /\ RetainedOK(finished)
  <2>1. RetainedOK(marker)
    BY <1>1, MarkedTyped
  <2> HIDE DEF marker
  <2> QED BY <2>1 DEF RetainedOK, Retentions
<1>4. CartTypeOK(Remaining(read.cart, bought))
  BY <1>1, <1>2, SettlementKeepsCart
<1>5. PICK done \in 0 .. 3 :
        /\ retained' = CASE done = 0 -> retained
                         [] done = 3 -> finished
                         [] OTHER -> marker
        /\ cart' \in {cart, Remaining(read.cart, bought)}
        /\ cleaned' \in {cleaned, cleaned \cup {order}}
        /\ settled' \in {settled, settled \cup {order}}
        /\ fresh' \in {{}, fresh}
        /\ Becomes(t, Confirmed(shown, retained', done = 3))
  <2> DEFINE cleans == marker.print = read.cart
             Writes(d) ==
               /\ retained' = CASE d = 0 -> retained
                                [] d = 3 -> finished
                                [] OTHER -> marker
               /\ cart' = IF d >= 2 /\ cleans THEN Remaining(read.cart, bought)
                          ELSE cart
               /\ cleaned' = IF d >= 2 /\ cleans THEN cleaned \cup {order} ELSE cleaned
               /\ settled' = IF d = 3 THEN settled \cup {order} ELSE settled
               /\ fresh' = IF d >= 2 /\ cleans THEN {} ELSE fresh
               /\ Becomes(t, Confirmed(shown, retained', d = 3))
  <2>1. \E d \in IF Fault("unwritable") THEN 0 .. 3 ELSE {3} : Writes(d)
    BY ZenonT(40) DEF Settle
  <2> HIDE DEF Writes
  <2>2. PICK d \in 0 .. 3 : Writes(d)
    BY <2>1
  <2> USE DEF Writes
  <2>3. /\ retained' = CASE d = 0 -> retained
                         [] d = 3 -> finished
                         [] OTHER -> marker
        /\ Becomes(t, Confirmed(shown, retained', d = 3))
    BY <2>2, Zenon
  <2>4. /\ cart' \in {cart, Remaining(read.cart, bought)}
        /\ cleaned' \in {cleaned, cleaned \cup {order}}
        /\ settled' \in {settled, settled \cup {order}}
        /\ fresh' \in {{}, fresh}
    <3> HIDE DEF marker, finished, bought, order, read, shown, cleans
    <3> QED BY <2>2
  <2> HIDE DEF Writes, marker, finished, bought, order, read, shown
  <2> QED BY <2>2, <2>3, <2>4, Zenon
<1> HIDE DEF marker, finished, bought
<1>6. RetainedOK(retained')
  BY <1>1, <1>3, <1>5
<1>7. CartTypeOK(cart')
  BY <1>1, <1>4, <1>5
<1>8. /\ cleaned' \subseteq Capabilities
      /\ settled' \subseteq Capabilities
      /\ fresh' \subseteq Lines
  BY <1>1, <1>5 DEF TInv, TypeOK
<1>9. shown \in TabStates
  <2> HIDE DEF s
  <2> QED BY <1>1, <1>7 DEF TabStates, CartTypeOK
<1>10. LeavesTab(t, retained')
  <2> HIDE DEF shown
  <2>1. (done = 3) \in BOOLEAN
    OBVIOUS
  <2> QED BY <1>5, <1>6, <1>9, <2>1, ConfirmedTyped DEF LeavesTab
<1> QED BY <1>6, <1>7, <1>8, <1>10 DEF Settle

\* A step that only changes the cart a tab shows: a tab at rest may probe then.
SameCall(s, n) ==
  /\ n.call = s.call
  /\ n.snapshot = s.snapshot
  /\ n.doing = s.doing
     \/ (s.doing = "idle" /\ n.doing = "probe" /\ Renewable(retained))

ChangesCart(t) == EditCart(t) \/ ToolWrites(t) \/ SyncCart(t)

\* A page that is told of an update shows it; it may probe, or close admission.
LEMMA NotifiedTyped ==
  ASSUME TInv, NEW s \in TabStates
  PROVE  /\ Notified(s) \in TabStates /\ SameCall(s, Notified(s))
         /\ Notified(s).page = s.page /\ Notified(s).recovery = s.recovery
         /\ Notified(s).intent = s.intent /\ Notified(s).rewritten = s.rewritten
         /\ s.page = "shop" => Notified(s) = s
<1>1. Probes(s, retained) => Renewable(retained)
  BY DEF TInv, RetainedOK, Probes, Retains, CanPrepareNew, Renewable
<1>2. PICK probing : probing = [s EXCEPT !.doing = "probe"]
  OBVIOUS
<1>3. PICK refused : refused = [s EXCEPT !.admitted = FALSE]
  OBVIOUS
<1>4. /\ probing \in TabStates /\ probing.doing = "probe"
      /\ probing.call = s.call /\ probing.snapshot = s.snapshot
      /\ probing.page = s.page /\ probing.recovery = s.recovery
      /\ probing.intent = s.intent /\ probing.rewritten = s.rewritten
  BY <1>2 DEF TabStates
<1>5. /\ refused \in TabStates /\ refused.doing = s.doing
      /\ refused.call = s.call /\ refused.snapshot = s.snapshot
      /\ refused.page = s.page /\ refused.recovery = s.recovery
      /\ refused.intent = s.intent /\ refused.rewritten = s.rewritten
  BY <1>3 DEF TabStates
<1>6. CASE s.page = "checkout" /\ s.doing = "idle" /\ Probes(s, retained)
  <2>1. Notified(s) = probing
    BY <1>2, <1>6 DEF Notified
  <2> QED BY <1>1, <1>4, <1>6, <2>1 DEF SameCall
<1>7. CASE s.page = "checkout" /\ s.doing = "prepare" /\ Notified(s) = refused
  BY <1>5, <1>7 DEF SameCall
<1>8. CASE Notified(s) = s
  BY <1>8 DEF SameCall
<1>9. Notified(s) = s \/ (s.page = "checkout"
        /\ ((s.doing = "idle" /\ Probes(s, retained))
            \/ (s.doing = "prepare" /\ Notified(s) = refused)))
  BY <1>3 DEF Notified
<1> QED BY <1>6, <1>7, <1>8, <1>9

\* So does the page whose own tool wrote, which then says so.
LEMMA RewrittenTyped ==
  ASSUME NEW s \in TabStates, cart' \in Carts
  PROVE  /\ Rewritten(s) \in TabStates /\ Rewritten(s).doing = s.doing
         /\ Rewritten(s).call = s.call /\ Rewritten(s).snapshot = s.snapshot
         /\ Rewritten(s).page = s.page /\ Rewritten(s).recovery = s.recovery
         /\ s.doing \in {"prepare", "start"} => Rewritten(s).rewritten
BY DEF Rewritten, TabStates

\* A tool writes a cart within the limits, and its page shows it.
LEMMA ToolTyped ==
  ASSUME TInv, NEW t \in Tabs, ToolWrites(t)
  PROVE  /\ \E n : Becomes(t, n) /\ TabOK(n) /\ SameCall(tab[t], n)
         /\ CartTypeOK(cart')
         /\ fresh' \subseteq Lines
<1> PICK s : s = tab[t]
  OBVIOUS
<1>1. TabOK(s) /\ s \in TabStates
  BY DEF TInv, TabOK
<1>2. CartTypeOK(cart') /\ cart' \in Carts /\ fresh' \subseteq Lines
  BY DEF ToolWrites, TInv, TypeOK
<1>3. PICK m : m = Rewritten(s)
  OBVIOUS
<1>4. /\ m \in TabStates /\ m.doing = s.doing
      /\ m.call = s.call /\ m.snapshot = s.snapshot
  BY <1>1, <1>2, <1>3, RewrittenTyped
<1>5. PICK n : n = Notified(m)
  OBVIOUS
<1>6. n \in TabStates /\ SameCall(m, n)
  BY <1>4, <1>5, NotifiedTyped
<1>7. Becomes(t, n)
  BY <1>3, <1>5 DEF ToolWrites
<1>8. SameCall(s, n)
  BY <1>4, <1>6 DEF SameCall
<1>9. TabOK(n)
  BY <1>1, <1>6, <1>8 DEF TabOK, SameCall
<1> QED BY <1>2, <1>7, <1>8, <1>9

\* The shopper's edits keep the cart's limits; another tab's cart is shown.
LEMMA EditTyped ==
  ASSUME TInv, NEW t \in Tabs, ChangesCart(t)
  PROVE  /\ \E n : Becomes(t, n) /\ TabOK(n) /\ SameCall(tab[t], n)
         /\ CartTypeOK(cart')
         /\ fresh' \subseteq Lines
<1> DEFINE s == tab[t]
           n == [s EXCEPT !.intent = cart']
<1>1. TabOK(s) /\ s \in TabStates /\ CartTypeOK(cart)
  BY DEF TInv, TypeOK, TabOK
<1>2. CASE ToolWrites(t)
  BY <1>2, ToolTyped
<1>3. CASE EditCart(t) \/ SyncCart(t)
  <2>1. Becomes(t, n)
    BY <1>3 DEF EditCart, SyncCart
  <2>2. CartTypeOK(cart')
    <3>1. CASE EditCart(t)
      <4>1. PICK l \in Lines :
              \/ \E q \in 1 .. MaxQuantity :
                   AcceptsAdd(cart, l, q) /\ cart' = AddLine(cart, l, q)
              \/ /\ AcceptsChange(cart, l)
                 /\ \/ \E q \in 1 .. MaxQuantity : cart' = SetQuantity(cart, l, q)
                    \/ cart' = RemoveLine(cart, l)
        BY <3>1 DEF EditCart
      <4> QED BY <1>1, <4>1, AddKeepsCart, ChangeKeepsCart
    <3>2. CASE SyncCart(t)
      BY <1>1, <3>2 DEF SyncCart
    <3> QED BY <1>3, <3>1, <3>2
  <2>3. fresh' \subseteq Lines
    BY <1>3 DEF TInv, TypeOK, EditCart, SyncCart, historyVars
  <2>4. n \in TabStates /\ SameCall(s, n)
    <3> HIDE DEF s
    <3> QED BY <1>1, <2>2 DEF TabStates, CartTypeOK, SameCall
  <2> HIDE DEF n
  <2>5. TabOK(n)
    BY <1>1, <2>4 DEF TabOK, SameCall
  <2> QED BY <2>1, <2>2, <2>3, <2>4, <2>5
<1> QED BY <1>2, <1>3 DEF ChangesCart

\* Commerce's answer reaches the tab: of a start, or of a status check.
LEMMA AnswerTyped ==
  ASSUME NEW s \in TabStates, TabOK(s), s.doing \in {"start", "check"},
         NEW answer \in Answers
  PROVE  LET n == [s EXCEPT !.call.answer = answer]
         IN  /\ TabOK(n)
             /\ n.doing = s.doing
             /\ n.call.answer = answer
             /\ n.call.capability = s.call.capability
<1> DEFINE call == [s.call EXCEPT !.answer = answer]
           n == [s EXCEPT !.call = call]
<1>1. n = [s EXCEPT !.call.answer = answer]
  OBVIOUS
<1>2. s.call \in Calls
  BY DEF TabStates
<1>3. /\ call \in Calls
      /\ call.answer = answer
      /\ call.capability = s.call.capability
  BY <1>2 DEF Calls
<1>4. /\ n \in TabStates
      /\ n.doing = s.doing
      /\ n.call = call
      /\ n.snapshot = s.snapshot
  <2> HIDE DEF call
  <2> QED BY <1>3 DEF TabStates
<1> HIDE DEF n, call
<1> QED BY <1>1, <1>3, <1>4 DEF TabOK

\* An attempt Commerce starts is of the capability asked for.
LEMMA StartedTyped ==
  ASSUME TInv, NEW c \in Capabilities, NEW lines \in Carts, Startable(c),
         Started(c, lines)
  PROVE  /\ attempts' \in [Capabilities -> [number : Attempts,
                            state : {"none"} \cup States, lines : Carts]]
         /\ attempts[c].number + 1 \in Attempts
         /\ attempts'[c].state = "pending"
         /\ \A d \in Capabilities \ {c} : attempts'[d] = attempts[d]
<1>1. attempts[c].number + 1 \in Attempts
  BY CheckoutAssumption DEF TInv, TypeOK, Startable, Attempts
<1>2. attempts' = [attempts EXCEPT ![c] =
        [number |-> attempts[c].number + 1, state |-> "pending", lines |-> lines]]
  BY DEF Started
<1> QED BY <1>1, <1>2 DEF TInv, TypeOK, States, Unpaid

\* Commerce takes a start, refuses it, or answers its current attempt.
LEMMA CommerceStartsTyped ==
  ASSUME TInv, NEW t \in Tabs, CommerceStarts(t)
  PROVE  /\ \E n : /\ Becomes(t, n)
                   /\ TabOK(n)
                   /\ n.doing = "start"
                   /\ n.call.capability = tab[t].call.capability
         /\ \/ attempts' = attempts
            \/ /\ Startable(tab[t].call.capability)
               /\ Started(tab[t].call.capability, tab[t].call.lines)
         /\ tab[t].call.capability \in Capabilities
         /\ tab[t].call.lines \in Carts
<1> DEFINE s == tab[t]
           c == s.call.capability
<1>1. /\ s \in TabStates
      /\ TabOK(s)
      /\ s.doing = "start"
      /\ s.call \in Calls
      /\ c \in Capabilities
      /\ s.call.lines \in Carts
  <2>1. s \in TabStates /\ TabOK(s) /\ s.doing = "start"
    BY DEF TInv, TabOK, CommerceStarts
  <2> QED BY <2>1, CheckoutAssumption DEF TabStates, TabOK, Calls, Capabilities
<1>2. attempts[c] \in [number : Attempts, state : {"none"} \cup States,
                       lines : Carts]
  BY <1>1 DEF TInv, TypeOK
<1>3. PICK answer \in Answers :
        /\ Becomes(t, [s EXCEPT !.call.answer = answer])
        /\ attempts' = attempts \/ (Startable(c) /\ Started(c, s.call.lines))
  <2>1. CASE /\ Startable(c)
             /\ Started(c, s.call.lines)
             /\ Becomes(t, [s EXCEPT !.call.answer =
                  [attempt |-> attempts[c].number + 1, state |-> "pending"]])
    <3>1. attempts[c].number + 1 \in Attempts
      BY <1>1, <2>1, StartedTyped
    <3>2. [attempt |-> attempts[c].number + 1, state |-> "pending"] \in Answers
      BY <3>1 DEF Answers, States, Unpaid
    <3> QED BY <2>1, <3>2
  <2>2. CASE /\ attempts' = attempts
             /\ Becomes(t, [s EXCEPT !.call.answer =
                  [attempt |-> attempts[c].number, state |-> attempts[c].state]])
    <3>1. [attempt |-> attempts[c].number, state |-> attempts[c].state] \in Answers
      BY <1>2 DEF Answers
    <3> QED BY <2>2, <3>1
  <2>3. CASE /\ attempts' = attempts
             /\ Becomes(t, [s EXCEPT !.call.answer =
                              [NoAnswer EXCEPT !.state = "error"]])
    <3>1. [NoAnswer EXCEPT !.state = "error"] \in Answers
      BY NullTypes DEF Answers
    <3> QED BY <2>3, <3>1
  <2> QED BY <2>1, <2>2, <2>3 DEF CommerceStarts
<1> DEFINE n == [s EXCEPT !.call.answer = answer]
<1>4. /\ Becomes(t, n)
      /\ TabOK(n)
      /\ n.doing = s.doing
      /\ n.call.answer = answer
      /\ n.call.capability = c
  BY <1>1, <1>3, AnswerTyped
<1> HIDE DEF n
<1> QED BY <1>1, <1>3, <1>4

\* Commerce reports the attempt asked about; "paid" only of a paid one.
LEMMA CommerceReportsTyped ==
  ASSUME TInv, NEW t \in Tabs, CommerceReports(t)
  PROVE  \E n : /\ Becomes(t, n)
                /\ TabOK(n)
                /\ n.doing = "check"
                /\ n.call.capability = tab[t].call.capability
                /\ n.call.answer.state = "paid" =>
                     attempts[n.call.capability].state = "paid"
<1> DEFINE s == tab[t]
           c == s.call.capability
<1>1. /\ s \in TabStates
      /\ TabOK(s)
      /\ s.doing = "check"
      /\ s.call \in Calls
      /\ c \in Capabilities
  <2>1. s \in TabStates /\ TabOK(s) /\ s.doing = "check"
    BY DEF TInv, TabOK, CommerceReports
  <2> QED BY <2>1, CheckoutAssumption DEF TabStates, TabOK, Calls, Capabilities
<1>2. attempts[c] \in [number : Attempts, state : {"none"} \cup States,
                       lines : Carts]
  BY <1>1 DEF TInv, TypeOK
<1>3. ASSUME NEW asked \in Attempts
      PROVE  /\ StatusOf(c, asked) \in Answers
             /\ StatusOf(c, asked).state = "paid" => attempts[c].state = "paid"
  BY <1>2, <1>3, CheckoutAssumption DEF StatusOf, Answers, States, Unpaid, Attempts
<1>4. /\ [NoAnswer EXCEPT !.state = "error"] \in Answers
      /\ [NoAnswer EXCEPT !.state = "error"].state = "error"
  BY NullTypes DEF Answers
<1>5. s.call.asked \in Attempts
  BY <1>1 DEF Calls
<1>6. PICK answer \in Answers :
        /\ Becomes(t, [s EXCEPT !.call.answer = answer])
        /\ answer.state = "paid" => attempts[c].state = "paid"
  BY <1>3, <1>4, <1>5 DEF CommerceReports
<1> DEFINE n == [s EXCEPT !.call.answer = answer]
<1>7. /\ Becomes(t, n)
      /\ TabOK(n)
      /\ n.doing = s.doing
      /\ n.call.answer = answer
      /\ n.call.capability = c
  BY <1>1, <1>6, AnswerTyped
<1> HIDE DEF n
<1> QED BY <1>1, <1>6, <1>7

-----------------------------------------------------------------------------
StorageTyped == CartTypeOK(cart) /\ RetainedOK(retained)

CommerceTyped ==
  /\ issued \in 0 .. MaxCapabilities
  /\ attempts \in [Capabilities -> [number : Attempts,
                     state : {"none"} \cup States, lines : Carts]]
  /\ late \subseteq [capability : Capabilities, lines : Carts]

HistoryTyped ==
  cleaned \subseteq Capabilities /\ settled \subseteq Capabilities
    /\ fresh \subseteq Lines

\* The types of a state, part by part.
LEMMA TypedParts ==
  TInv <=> /\ StorageTyped /\ CommerceTyped /\ HistoryTyped
           /\ tab \in [Tabs -> TabStates]
           /\ \A t \in Tabs : TabOK(tab[t])
BY DEF TInv, TypeOK, StorageTyped, CommerceTyped, HistoryTyped, RetainedOK

\* A step of a tab keeps the types when each part it writes keeps them.
LEMMA TypedBy ==
  ASSUME TInv, NEW t \in Tabs, \E n : Becomes(t, n) /\ TabOK(n),
         StorageTyped', CommerceTyped', HistoryTyped'
  PROVE  TInv'
<1>1. /\ tab' \in [Tabs -> TabStates]
      /\ \A u \in Tabs : TabOK(tab'[u])
  BY TabBecomes
<1> QED BY <1>1 DEF TInv, TypeOK, StorageTyped, CommerceTyped, HistoryTyped,
              RetainedOK

\* Every step of a tab keeps the types.
LEMMA TabStepTyped ==
  ASSUME TInv, NEW t \in Tabs, TabStep(t)
  PROVE  TInv'
<1>1. StorageTyped /\ CommerceTyped /\ HistoryTyped
  BY TypedParts
<1>2. ASSUME NEW p \in Pages, Open(t, p) PROVE TInv'
  <2>1. LeavesTab(t, retained)
    BY <1>2, LoadedTyped
  <2>2. CommerceTyped'
    BY <1>1, <1>2, AbandonsTyped DEF CommerceTyped, Open
  <2>3. StorageTyped' /\ HistoryTyped'
    BY <1>1, <1>2 DEF StorageTyped, HistoryTyped, Open, historyVars
  <2> QED BY <2>1, <2>2, <2>3, TypedBy DEF LeavesTab
<1>3. CASE ClickCheckout(t)
  <2>1. LeavesTab(t, retained') /\ RetainedOK(retained')
    BY <1>3, ClickCheckoutTyped
  <2>2. StorageTyped' /\ CommerceTyped' /\ HistoryTyped'
    BY <1>1, <1>3, <2>1 DEF StorageTyped, CommerceTyped, HistoryTyped,
       ClickCheckout, commerceVars, historyVars
  <2> QED BY <2>1, <2>2, TypedBy DEF LeavesTab
<1>4. CASE ClickRecover(t)
  <2>1. LeavesTab(t, retained)
    BY <1>4, ClickRecoverTyped
  <2>2. StorageTyped' /\ CommerceTyped' /\ HistoryTyped'
    BY <1>1, <1>4 DEF StorageTyped, CommerceTyped, HistoryTyped,
       ClickRecover, commerceVars, historyVars
  <2> QED BY <2>1, <2>2, TypedBy DEF LeavesTab
<1>5. CASE ChangesCart(t)
  <2>1. /\ \E n : Becomes(t, n) /\ TabOK(n)
        /\ CartTypeOK(cart')
        /\ fresh' \subseteq Lines
    BY <1>5, EditTyped
  <2>2. UNCHANGED <<retained, commerceVars, cleaned, settled>>
    BY <1>5 DEF ChangesCart, EditCart, ToolWrites, SyncCart, historyVars
  <2>3. StorageTyped' /\ CommerceTyped' /\ HistoryTyped'
    BY <1>1, <2>1, <2>2 DEF StorageTyped, CommerceTyped, HistoryTyped,
       commerceVars
  <2> QED BY <2>1, <2>3, TypedBy
<1>6. CASE CommerceStarts(t)
  <2>1. /\ \E n : Becomes(t, n) /\ TabOK(n)
        /\ attempts' \in [Capabilities -> [number : Attempts,
                            state : {"none"} \cup States, lines : Carts]]
    BY <1>1, <1>6, CommerceStartsTyped, StartedTyped DEF CommerceTyped
  <2>2. StorageTyped' /\ CommerceTyped' /\ HistoryTyped'
    BY <1>1, <1>6, <2>1 DEF StorageTyped, CommerceTyped, HistoryTyped,
       CommerceStarts, historyVars
  <2> QED BY <2>1, <2>2, TypedBy
<1>7. CASE CommerceReports(t)
  <2>1. \E n : Becomes(t, n) /\ TabOK(n)
    BY <1>7, CommerceReportsTyped
  <2>2. StorageTyped' /\ CommerceTyped' /\ HistoryTyped'
    BY <1>1, <1>7 DEF StorageTyped, CommerceTyped, HistoryTyped,
       CommerceReports, commerceVars, historyVars
  <2> QED BY <2>1, <2>2, TypedBy
<1>8. CASE PrepareAnswered(t)
  <2>1. /\ LeavesTab(t, retained')
        /\ RetainedOK(retained')
        /\ issued' \in Capabilities
    BY <1>8, PrepareAnsweredTyped
  <2>2. issued' \in 0 .. MaxCapabilities
    BY <2>1, CheckoutAssumption DEF Capabilities
  <2>3. StorageTyped' /\ CommerceTyped' /\ HistoryTyped'
    BY <1>1, <1>8, <2>1, <2>2 DEF StorageTyped, CommerceTyped, HistoryTyped,
       PrepareAnswered
  <2> QED BY <2>1, <2>3, TypedBy DEF LeavesTab
<1>9. CASE PrepareFailed(t)
  <2>1. LeavesTab(t, retained)
    BY <1>9, PrepareFailedTyped
  <2>2. StorageTyped' /\ CommerceTyped' /\ HistoryTyped'
    BY <1>1, <1>9 DEF StorageTyped, CommerceTyped, HistoryTyped,
       PrepareFailed, commerceVars, historyVars
  <2> QED BY <2>1, <2>2, TypedBy DEF LeavesTab
<1>10. CASE CallFailed(t) \/ Unassociated(t)
  <2>1. LeavesTab(t, retained)
    BY <1>10, CallFailedTyped
  <2>2. CommerceTyped'
    BY <1>1, <1>10, AbandonsTyped
    DEF CommerceTyped, CallFailed, Unassociated, commerceVars
  <2>3. StorageTyped' /\ HistoryTyped'
    BY <1>1, <1>10 DEF StorageTyped, HistoryTyped, CallFailed, Unassociated,
       historyVars
  <2> QED BY <2>1, <2>2, <2>3, TypedBy DEF LeavesTab
<1>11. CASE StartAnswered(t) \/ StatusAnswered(t)
  <2>1. LeavesTab(t, retained') /\ RetainedOK(retained')
    BY <1>11, StartAnsweredTyped, StatusAnsweredTyped
  <2>2. StorageTyped' /\ CommerceTyped' /\ HistoryTyped'
    BY <1>1, <1>11, <2>1 DEF StorageTyped, CommerceTyped, HistoryTyped,
       StartAnswered, StatusAnswered, commerceVars, historyVars
  <2> QED BY <2>1, <2>2, TypedBy DEF LeavesTab
<1>12. CASE PaidAnswered(t)
  <2>1. (\E n : Becomes(t, n) /\ TabOK(n)) /\ RetainedOK(retained')
    BY <1>12, PaidAnsweredTyped
  <2>2. StorageTyped' /\ CommerceTyped' /\ HistoryTyped'
    BY <1>1, <1>12, <2>1 DEF StorageTyped, CommerceTyped, HistoryTyped,
       PaidAnswered, commerceVars, historyVars
  <2> QED BY <2>1, <2>2, TypedBy
<1>13. CASE Settle(t)
  <2>1. /\ LeavesTab(t, retained')
        /\ StorageTyped'
        /\ HistoryTyped'
        /\ UNCHANGED commerceVars
    BY <1>13, SettleTyped DEF StorageTyped, HistoryTyped
  <2>2. CommerceTyped'
    BY <1>1, <2>1 DEF CommerceTyped, commerceVars
  <2> QED BY <2>1, <2>2, TypedBy DEF LeavesTab
<1> QED BY <1>2, <1>3, <1>4, <1>5, <1>6, <1>7, <1>8, <1>9, <1>10, <1>11,
           <1>12, <1>13 DEF TabStep, ChangesCart

\* So does every step of Commerce.
LEMMA CommerceStepTyped ==
  ASSUME TInv,
         \/ \E request \in late : LateStart(request)
         \/ \E c \in Capabilities : PaymentMoves(c)
  PROVE  TInv'
<1>1. StorageTyped /\ CommerceTyped /\ HistoryTyped
  BY TypedParts
<1>2. /\ UNCHANGED <<cart, retained, tab, issued, historyVars>>
      /\ late' \subseteq late
  BY DEF LateStart, PaymentMoves
<1>3. attempts' \in [Capabilities -> [number : Attempts,
                       state : {"none"} \cup States, lines : Carts]]
  <2>1. ASSUME NEW request \in late, LateStart(request)
        PROVE  attempts' \in [Capabilities -> [number : Attempts,
                               state : {"none"} \cup States, lines : Carts]]
    <3>1. request.capability \in Capabilities /\ request.lines \in Carts
      BY <1>1 DEF CommerceTyped
    <3>2. \/ attempts' = attempts
          \/ /\ Startable(request.capability)
             /\ Started(request.capability, request.lines)
      BY <2>1 DEF LateStart
    <3> QED BY <1>1, <3>1, <3>2, StartedTyped DEF CommerceTyped
  <2>2. ASSUME NEW c \in Capabilities, PaymentMoves(c)
        PROVE  attempts' \in [Capabilities -> [number : Attempts,
                               state : {"none"} \cup States, lines : Carts]]
    BY <1>1, <2>2 DEF PaymentMoves, CommerceTyped
  <2> QED BY <2>1, <2>2
<1> QED BY <1>1, <1>2, <1>3, TypedParts DEF StorageTyped, CommerceTyped,
           HistoryTyped, historyVars, TInv, TypeOK

\* The types hold at first, and of every state a step leads to.
LEMMA InitTyped == Init => TInv
<1> SUFFICES ASSUME Init PROVE TInv
  OBVIOUS
<1>1. CartTypeOK(cart) /\ cart = Empty
  BY EmptyIsCart DEF Init
<1>2. /\ [Blank("shop") EXCEPT !.intent = Empty] \in TabStates
      /\ TabOK([Blank("shop") EXCEPT !.intent = Empty])
  <2>1. Blank("shop") \in TabStates /\ Blank("shop").intent = Empty
    BY <1>1, NullTypes, CheckoutAssumption DEF Blank, TabStates, Pages, CartTypeOK
  <2>2. Blank("shop").doing = "idle" /\ Blank("shop").snapshot = NoSnapshot
    BY DEF Blank
  <2> DEFINE b == Blank("shop")
  <2>3. [b EXCEPT !.intent = Empty] = b
    <3> HIDE DEF b
    <3> QED BY <2>1 DEF TabStates, b
  <2> QED BY <2>1, <2>2, <2>3, NullTypes DEF TabOK
<1>3. tab \in [Tabs -> TabStates] /\ \A t \in Tabs : TabOK(tab[t])
  BY <1>2 DEF Init
<1>4. RetainedOK(retained)
  BY NullTypes DEF Init, RetainedOK, NoRetention
<1>5. CommerceTyped /\ HistoryTyped
  BY <1>1, CheckoutAssumption DEF Init, CommerceTyped, HistoryTyped, Attempts,
     CartTypeOK
<1> QED BY <1>1, <1>3, <1>4, <1>5, TypedParts DEF StorageTyped

\* Every step keeps the types.
LEMMA StepTyped == TInv /\ [Next]_vars => TInv'
<1> SUFFICES ASSUME TInv, [Next]_vars PROVE TInv'
  OBVIOUS
<1>1. CASE UNCHANGED vars
  BY <1>1, TypedParts DEF vars, TInv, TypeOK
<1> QED BY <1>1, TabStepTyped, CommerceStepTyped DEF Next

\* Types and limits of everything the checkout keeps, in any number of tabs
\* and with every fault: no line passes the cart's quantity limit, and no cart
\* its limit of lines.
THEOREM CheckoutTyped == Spec => []TypeOK
<1>1. TInv => TypeOK
  BY DEF TInv
<1> QED BY <1>1, InitTyped, StepTyped, PTL DEF Spec

-----------------------------------------------------------------------------
(***************************************************************************)
(* A browser with one tab.  Everything the tab awaits is about the         *)
(* retained capability, which is the last one Commerce issued, and every   *)
(* earlier one is paid and settled: a new one is asked for only then.      *)
(***************************************************************************)
OneTab == \A t, u \in Tabs : t = u

TabSafe(s) ==
  /\ s.doing \in {"start", "check"} => s.call.capability = retained.capability
  /\ s.doing = "check" /\ s.call.answer.state = "paid"
       => attempts[retained.capability].state = "paid"
  /\ s.doing = "settle" => /\ s.snapshot.retained = retained
                           /\ ~AlreadySettled(retained)
                           /\ attempts[retained.capability].state = "paid"
  /\ s.doing \in {"probe", "prepare"} => Renewable(retained)

\* Attempts: none of a capability not issued; those before the last are over.
AttemptsSafe ==
  /\ \A c \in Capabilities : c > issued => attempts[c].state = "none"
  /\ \A c \in Capabilities : c < issued => /\ attempts[c].state = "paid"
                                           /\ c \in settled
  /\ \A request \in late : request.capability <= issued

\* The marker of a settlement is of the retained capability, paid, and once
\* it says finished the settlement is.
MarkerSafe ==
  /\ retained.capability = issued
  /\ retained.order # 0 => /\ attempts[issued].state = "paid"
                           /\ retained.pending \/ issued \in settled

\* Only issued orders are cleaned; without storage faults the marker of a
\* cleaned order says so.
CleanedSafe ==
  /\ \A c \in cleaned : c <= issued
  /\ fresh # {} => issued \in cleaned
  /\ "unwritable" \notin Faults /\ issued \in cleaned => AlreadySettled(retained)

SInv ==
  /\ AttemptsSafe /\ MarkerSafe /\ CleanedSafe
  /\ \A t \in Tabs : TabSafe(tab[t])

\* The invariant holds at first.
LEMMA InitSafe == Init => SInv
<1> SUFFICES ASSUME Init PROVE SInv
  OBVIOUS
<1>1. AttemptsSafe /\ MarkerSafe /\ CleanedSafe
  BY CheckoutAssumption DEF Init, AttemptsSafe, MarkerSafe, CleanedSafe,
     NoRetention, Capabilities
<1>2. ASSUME NEW t \in Tabs PROVE tab[t].doing = "idle"
  BY DEF Init, Blank
<1> QED BY <1>1, <1>2 DEF SInv, TabSafe

\* A tab that is placed by a step is safe after it.
LEMMA PlacedSafe ==
  ASSUME NEW n, TabOK(n), Placed(n, retained')
  PROVE  TabSafe(n)'
BY DEF Placed, TabSafe, NoAnswer

\* With one tab, what becomes of it is what becomes of all.
LEMMA OnlyTab ==
  ASSUME OneTab, TInv, NEW t \in Tabs, NEW n, TabOK(n), Becomes(t, n)
  PROVE  \A u \in Tabs : tab'[u] = n
BY TabBecomes DEF OneTab

\* A step that leaves the marker, the attempts and the history alone.
LEMMA QuietStep ==
  ASSUME OneTab, TInv, SInv, NEW t \in Tabs,
         LeavesTab(t, retained'),
         retained'.capability = retained.capability,
         retained'.order = retained.order,
         retained'.pending = retained.pending,
         UNCHANGED <<issued, attempts, historyVars>>,
         late' = late \/ Abandons(t)
  PROVE  SInv'
<1>1. \A request \in late' : request.capability <= issued
  <2>1. late' = late \/ \A r \in late' \ late :
                          /\ tab[t].doing = "start"
                          /\ r.capability = tab[t].call.capability
    BY AbandonsTyped
  <2>2. tab[t].doing = "start" => tab[t].call.capability = issued
    BY DEF SInv, TabSafe, MarkerSafe
  <2>3. issued \in Nat
    BY CheckoutAssumption DEF TInv, TypeOK
  <2> QED BY <2>1, <2>2, <2>3 DEF SInv, AttemptsSafe
<1>2. AttemptsSafe' /\ MarkerSafe' /\ CleanedSafe'
  BY <1>1 DEF SInv, AttemptsSafe, MarkerSafe, CleanedSafe, historyVars,
     AlreadySettled
<1>3. \A u \in Tabs : TabSafe(tab[u])'
  BY OnlyTab, PlacedSafe DEF LeavesTab
<1> QED BY <1>2, <1>3 DEF SInv

\* What Commerce does to attempts: a paid one stays paid, and none appears on
\* a capability that was not issued.
AttemptsMove ==
  /\ \A c \in Capabilities :
       attempts[c].state = "paid" => attempts'[c].state = "paid"
  /\ \A c \in Capabilities : c > issued => attempts'[c].state = attempts[c].state

\* A start that Commerce takes is of the last capability issued.
LEMMA StartMoves ==
  ASSUME TInv, NEW c \in Capabilities, NEW lines \in Carts, c <= issued,
         Startable(c), Started(c, lines)
  PROVE  AttemptsMove
<1>1. attempts[c].state # "paid"
  BY DEF Startable
<1>2. \A d \in Capabilities \ {c} : attempts'[d] = attempts[d]
  BY StartedTyped
<1>3. issued \in Nat /\ c \in Nat
  BY CheckoutAssumption DEF TInv, TypeOK, Capabilities
<1>4. c > issued => FALSE
  BY <1>3
<1> QED BY <1>1, <1>2, <1>4 DEF AttemptsMove

\* A step of Commerce keeps the invariant of everything but the tabs.
LEMMA AttemptsMoveSafe ==
  ASSUME TInv, SInv, AttemptsMove, late' \subseteq late,
         UNCHANGED <<retained, issued, historyVars>>
  PROVE  AttemptsSafe' /\ MarkerSafe' /\ CleanedSafe'
<1>1. AttemptsSafe'
  BY DEF SInv, AttemptsSafe, AttemptsMove, historyVars
<1>2. MarkerSafe'
  <2>1. retained.order # 0 => issued \in Capabilities
    <3>1. retained.order # 0 => issued # 0
      BY DEF TInv, RetainedOK, SInv, MarkerSafe
    <3> QED BY <3>1, CheckoutAssumption DEF TInv, TypeOK, Capabilities
  <2> QED BY <2>1 DEF SInv, MarkerSafe, AttemptsMove, historyVars
<1>3. CleanedSafe'
  BY DEF SInv, CleanedSafe, historyVars, AlreadySettled
<1> QED BY <1>1, <1>2, <1>3

\* What a tab awaits stays safe when a paid attempt stays paid.
LEMMA AwaitedSafe ==
  ASSUME TInv, NEW s, TabOK(s), TabSafe(s), AttemptsMove, UNCHANGED retained
  PROVE  TabSafe(s)'
<1>1. s.doing \in {"check", "settle"} => retained.capability \in Capabilities
  <2>1. s.doing \in {"check", "settle"} => retained.capability # 0
    BY DEF TabOK, TabSafe
  <2>2. retained.capability \in 0 .. MaxCapabilities
    BY DEF TInv, TypeOK, Retentions
  <2> QED BY <2>1, <2>2, CheckoutAssumption DEF Capabilities
<1> QED BY <1>1 DEF TabSafe, AttemptsMove

\* Commerce takes or refuses a start: nothing is paid or lost by it.
LEMMA CommerceStartsSafe ==
  ASSUME OneTab, TInv, SInv, NEW t \in Tabs, CommerceStarts(t)
  PROVE  SInv'
<1> DEFINE c == tab[t].call.capability
           lines == tab[t].call.lines
<1>1. PICK n : /\ Becomes(t, n)
               /\ TabOK(n)
               /\ n.doing = "start"
               /\ n.call.capability = c
  BY CommerceStartsTyped
<1>2. /\ c \in Capabilities
      /\ lines \in Carts
      /\ attempts' = attempts \/ (Startable(c) /\ Started(c, lines))
  BY CommerceStartsTyped
<1>3. /\ tab[t].doing = "start"
      /\ UNCHANGED <<retained, issued, late, historyVars>>
  BY DEF CommerceStarts
<1>4. c = retained.capability /\ c = issued
  BY <1>3 DEF SInv, TabSafe, MarkerSafe
<1> HIDE DEF c, lines
<1>5. AttemptsMove
  <2>1. CASE attempts' = attempts
    BY <2>1 DEF AttemptsMove
  <2>2. CASE Startable(c) /\ Started(c, lines)
    <3>1. c <= issued
      BY <1>2, <1>4 DEF Capabilities
    <3> QED BY <1>2, <2>2, <3>1, StartMoves
  <2> QED BY <1>2, <2>1, <2>2
<1>6. \A u \in Tabs : TabSafe(tab[u])'
  <2>1. TabSafe(n)'
    BY <1>1, <1>3, <1>4 DEF TabSafe
  <2> QED BY <1>1, <2>1, OnlyTab
<1> QED BY <1>3, <1>5, <1>6, AttemptsMoveSafe DEF SInv

\* What Commerce reports as paid is paid.
LEMMA CommerceReportsSafe ==
  ASSUME OneTab, TInv, SInv, NEW t \in Tabs, CommerceReports(t)
  PROVE  SInv'
<1>1. PICK n : /\ Becomes(t, n)
               /\ TabOK(n)
               /\ n.doing = "check"
               /\ n.call.capability = tab[t].call.capability
               /\ n.call.answer.state = "paid" =>
                    attempts[n.call.capability].state = "paid"
  BY CommerceReportsTyped
<1>2. /\ tab[t].doing = "check"
      /\ UNCHANGED <<retained, commerceVars, historyVars>>
  BY DEF CommerceReports
<1>3. tab[t].call.capability = retained.capability
  BY <1>2 DEF SInv, TabSafe
<1>4. \A u \in Tabs : TabSafe(tab[u])'
  <2>1. TabSafe(n)'
    BY <1>1, <1>2, <1>3 DEF TabSafe, commerceVars
  <2> QED BY <1>1, <2>1, OnlyTab
<1>5. AttemptsSafe' /\ MarkerSafe' /\ CleanedSafe'
  BY <1>2 DEF SInv, AttemptsSafe, MarkerSafe, CleanedSafe, commerceVars,
     historyVars, AlreadySettled
<1> QED BY <1>4, <1>5 DEF SInv

\* A start that comes late, and a payment, are of the last capability.
LEMMA CommerceSafe ==
  ASSUME TInv, SInv,
         \/ \E request \in late : LateStart(request)
         \/ \E c \in Capabilities : PaymentMoves(c)
  PROVE  SInv'
<1>1. /\ UNCHANGED <<retained, tab, issued, historyVars>>
      /\ late' \subseteq late
  BY DEF LateStart, PaymentMoves
<1>2. AttemptsMove
  <2>1. ASSUME NEW request \in late, LateStart(request) PROVE AttemptsMove
    <3>1. /\ request.capability \in Capabilities
          /\ request.lines \in Carts
          /\ request.capability <= issued
      BY DEF TInv, TypeOK, SInv, AttemptsSafe
    <3>2. \/ attempts' = attempts
          \/ /\ Startable(request.capability)
             /\ Started(request.capability, request.lines)
      BY <2>1 DEF LateStart
    <3>3. CASE attempts' = attempts
      BY <3>3 DEF AttemptsMove
    <3> QED BY <3>1, <3>2, <3>3, StartMoves
  <2>2. ASSUME NEW c \in Capabilities, PaymentMoves(c) PROVE AttemptsMove
    <3>1. attempts[c].state \in Unpaid
      BY <2>2 DEF PaymentMoves
    <3>2. attempts[c].state # "paid" /\ attempts[c].state # "none"
      BY <3>1 DEF Unpaid
    <3>3. ~(c > issued)
      BY <3>2 DEF SInv, AttemptsSafe
    <3>4. \A d \in Capabilities \ {c} : attempts'[d] = attempts[d]
      BY <2>2 DEF PaymentMoves, TInv, TypeOK
    <3> QED BY <3>2, <3>3, <3>4 DEF AttemptsMove
  <2> QED BY <2>1, <2>2
<1>3. AttemptsSafe' /\ MarkerSafe' /\ CleanedSafe'
  BY <1>1, <1>2, AttemptsMoveSafe
<1>4. ASSUME NEW u \in Tabs PROVE TabSafe(tab[u])'
  <2>1. PICK s : s = tab[u]
    OBVIOUS
  <2>2. TabOK(s) /\ TabSafe(s) /\ tab'[u] = s
    BY <1>1, <2>1 DEF TInv, SInv
  <2>3. TabSafe(s)'
    BY <1>1, <1>2, <2>2, AwaitedSafe
  <2> QED BY <2>2, <2>3
<1> QED BY <1>3, <1>4 DEF SInv

\* A new capability: the one it replaces is settled, so nothing is owed to it.
LEMMA PrepareAnsweredSafe ==
  ASSUME OneTab, TInv, SInv, NEW t \in Tabs, PrepareAnswered(t)
  PROVE  SInv'
<1>1. /\ LeavesTab(t, retained')
      /\ retained'.capability = issued + 1
      /\ retained'.order = 0
      /\ issued' = issued + 1
  BY PrepareAnsweredTyped
<1>2. /\ tab[t].doing \in {"probe", "prepare"}
      /\ fresh' = {}
      /\ UNCHANGED <<attempts, late, cleaned, settled>>
  BY DEF PrepareAnswered
<1>3. Renewable(retained) /\ retained.capability = issued /\ issued \in Nat
  BY <1>2, CheckoutAssumption DEF SInv, TabSafe, MarkerSafe, TInv, TypeOK
<1>4. issued # 0 => attempts[issued].state = "paid" /\ issued \in settled
  BY <1>3 DEF Renewable, SInv, MarkerSafe
<1>5. AttemptsSafe'
  <2>1. \A c \in Capabilities : c < issued + 1 => c < issued \/ c = issued
    BY <1>3 DEF Capabilities
  <2>2. \A c \in Capabilities : c # 0 /\ (c > issued + 1 => c > issued)
    BY <1>3 DEF Capabilities
  <2>3. \A request \in late : request.capability <= issued + 1
    BY <1>3 DEF SInv, AttemptsSafe, TInv, TypeOK, Capabilities
  <2> QED BY <1>1, <1>2, <1>4, <2>1, <2>2, <2>3 DEF SInv, AttemptsSafe
<1>6. MarkerSafe'
  BY <1>1 DEF MarkerSafe
<1>7. CleanedSafe'
  <2>1. \A c \in cleaned : c <= issued /\ c \in Nat
    BY DEF SInv, CleanedSafe, TInv, TypeOK, Capabilities
  <2> QED BY <1>1, <1>2, <1>3, <2>1 DEF CleanedSafe
<1>8. \A u \in Tabs : TabSafe(tab[u])'
  BY <1>1, OnlyTab, PlacedSafe DEF LeavesTab
<1> QED BY <1>5, <1>6, <1>7, <1>8 DEF SInv

\* A settlement begins only for a paid order that is not settled.
LEMMA PaidAnsweredSafe ==
  ASSUME OneTab, TInv, SInv, NEW t \in Tabs, PaidAnswered(t)
  PROVE  SInv'
<1>1. PICK n : /\ Becomes(t, n)
               /\ TabOK(n)
               /\ Placed(n, retained') \/ Settling(n, retained')
  BY PaidAnsweredTyped
<1>2. /\ retained'.capability = retained.capability
      /\ retained'.order = retained.order
      /\ retained'.pending = retained.pending
  BY PaidAnsweredTyped
<1>3. /\ UNCHANGED <<cart, commerceVars, historyVars>>
      /\ attempts[retained.capability].state = "paid"
  BY DEF PaidAnswered, SInv, TabSafe
<1>4. AttemptsSafe' /\ MarkerSafe' /\ CleanedSafe'
  BY <1>2, <1>3 DEF SInv, AttemptsSafe, MarkerSafe, CleanedSafe, commerceVars,
     historyVars, AlreadySettled
<1>5. TabSafe(n)'
  <2>1. CASE Placed(n, retained')
    BY <1>1, <2>1, PlacedSafe
  <2>2. CASE Settling(n, retained')
    <3>1. /\ n.doing = "settle"
          /\ n.snapshot.retained = retained'
          /\ ~AlreadySettled(retained')
      BY <2>2 DEF Settling
    <3> QED BY <1>2, <1>3, <3>1 DEF TabSafe, commerceVars, AlreadySettled
  <2> QED BY <1>1, <2>1, <2>2
<1> QED BY <1>1, <1>4, <1>5, OnlyTab DEF SInv

\* A settlement writes the marker of the order it read about, which is still
\* the retained one; wherever it stops, a marker that says finished is true.
LEMMA SettleSafe ==
  ASSUME OneTab, TInv, SInv, NEW t \in Tabs, Settle(t)
  PROVE  SInv'
<1> DEFINE read == tab[t].snapshot
           marker == Marked(read)
           finished == [marker EXCEPT !.pending = FALSE]
           cleans == marker.print = read.cart
<1>1. /\ tab[t].doing = "settle"
      /\ read \in [retained : Retentions, cart : Carts]
      /\ read.retained = retained
      /\ retained.capability = issued
      /\ attempts[issued].state = "paid"
      /\ ~AlreadySettled(retained)
  BY DEF Settle, TInv, TabOK, TabStates, SInv, TabSafe, MarkerSafe
<1>2. PICK done \in IF Fault("unwritable") THEN 0 .. 3 ELSE {3} :
        /\ retained' = CASE done = 0 -> retained
                         [] done = 3 -> finished
                         [] OTHER -> marker
        /\ cleaned' = IF done >= 2 /\ cleans THEN cleaned \cup {issued}
                      ELSE cleaned
        /\ settled' = IF done = 3 THEN settled \cup {issued} ELSE settled
        /\ fresh' = IF done >= 2 /\ cleans THEN {} ELSE fresh
  BY <1>1 DEF Settle
<1>3. /\ marker \in Retentions
      /\ marker.capability = issued
      /\ marker.order = issued
      /\ marker = retained \/ marker.pending = TRUE
  BY <1>1, MarkedTyped DEF RetainedOK
<1> HIDE DEF marker
<1>4. /\ finished.capability = issued
      /\ finished.order = issued
      /\ finished.pending = FALSE
  BY <1>3 DEF Retentions
<1> HIDE DEF finished, cleans
<1>5. LeavesTab(t, retained') /\ UNCHANGED commerceVars
  BY SettleTyped
<1>6. AttemptsSafe'
  BY <1>2, <1>5 DEF SInv, AttemptsSafe, commerceVars
<1>7. MarkerSafe'
  <2>1. CASE done = 3
    BY <1>1, <1>2, <1>4, <1>5, <2>1 DEF MarkerSafe, commerceVars
  <2>2. CASE done # 3 /\ (retained' = retained)
    BY <1>2, <1>5, <2>2 DEF SInv, MarkerSafe, commerceVars
  <2>3. CASE done # 3 /\ retained' = marker /\ marker.pending = TRUE
    BY <1>1, <1>3, <1>5, <2>3 DEF MarkerSafe, commerceVars
  <2> QED BY <1>2, <1>3, <2>1, <2>2, <2>3
<1>8. CleanedSafe'
  <2>1. issued \in Nat /\ issued' = issued
    BY <1>5, CheckoutAssumption DEF TInv, TypeOK, commerceVars
  <2>2. \A c \in cleaned' : c <= issued'
    BY <1>2, <2>1 DEF SInv, CleanedSafe
  <2>3. fresh' # {} => issued' \in cleaned'
    BY <1>2, <2>1 DEF SInv, CleanedSafe
  <2>4. "unwritable" \notin Faults => AlreadySettled(retained')
    BY <1>2, <1>4 DEF Fault, AlreadySettled
  <2> QED BY <2>2, <2>3, <2>4 DEF CleanedSafe, AlreadySettled
<1>9. \A u \in Tabs : TabSafe(tab[u])'
  BY <1>5, OnlyTab, PlacedSafe DEF LeavesTab
<1> QED BY <1>6, <1>7, <1>8, <1>9 DEF SInv

\* An edit of the cart, or another cart shown, disturbs no checkout.
LEMMA EditSafe ==
  ASSUME OneTab, TInv, SInv, NEW t \in Tabs, ChangesCart(t)
  PROVE  SInv'
<1>1. PICK n : Becomes(t, n) /\ TabOK(n) /\ SameCall(tab[t], n)
  BY EditTyped
<1>2. /\ UNCHANGED <<retained, commerceVars, cleaned, settled>>
      /\ fresh' = fresh \/ retained.capability \in cleaned
  BY DEF ChangesCart, EditCart, ToolWrites, SyncCart, historyVars
<1>3. AttemptsSafe' /\ MarkerSafe' /\ CleanedSafe'
  BY <1>2 DEF SInv, AttemptsSafe, MarkerSafe, CleanedSafe, commerceVars,
     AlreadySettled
<1>4. TabSafe(n)'
  BY <1>1, <1>2 DEF SInv, TabSafe, SameCall, commerceVars, AlreadySettled,
     Renewable
<1> QED BY <1>1, <1>3, <1>4, OnlyTab DEF SInv

\* Every step keeps the invariant.
LEMMA StepSafe == OneTab /\ TInv /\ SInv /\ [Next]_vars => SInv'
<1> SUFFICES ASSUME OneTab, TInv, SInv, [Next]_vars PROVE SInv'
  OBVIOUS
<1>1. ASSUME NEW t \in Tabs, NEW p \in Pages, Open(t, p) PROVE SInv'
  <2>1. LeavesTab(t, retained) /\ Abandons(t)
    BY <1>1, LoadedTyped DEF Open
  <2>2. UNCHANGED <<retained, issued, attempts, historyVars>>
    BY <1>1 DEF Open
  <2> QED BY <2>1, <2>2, QuietStep
<1>2. ASSUME NEW t \in Tabs, ClickCheckout(t) PROVE SInv'
  <2>1. UNCHANGED <<issued, attempts, late, historyVars>>
    BY <1>2 DEF ClickCheckout, commerceVars
  <2> QED BY <1>2, <2>1, ClickCheckoutTyped, QuietStep
<1>3. ASSUME NEW t \in Tabs, ClickRecover(t) \/ PrepareFailed(t) PROVE SInv'
  <2>1. UNCHANGED <<retained, issued, attempts, late, historyVars>>
    BY <1>3 DEF ClickRecover, PrepareFailed, commerceVars
  <2>2. LeavesTab(t, retained)
    BY <1>3, ClickRecoverTyped, PrepareFailedTyped
  <2> QED BY <2>1, <2>2, QuietStep
<1>4. ASSUME NEW t \in Tabs, CallFailed(t) \/ Unassociated(t) PROVE SInv'
  <2>1. /\ UNCHANGED <<retained, issued, attempts, historyVars>>
        /\ late' = late \/ Abandons(t)
    BY <1>4 DEF CallFailed, Unassociated, commerceVars
  <2> QED BY <1>4, <2>1, CallFailedTyped, QuietStep
<1>5. ASSUME NEW t \in Tabs, StartAnswered(t) \/ StatusAnswered(t) PROVE SInv'
  <2>1. UNCHANGED <<issued, attempts, late, historyVars>>
    BY <1>5 DEF StartAnswered, StatusAnswered, commerceVars
  <2> QED BY <1>5, <2>1, StartAnsweredTyped, StatusAnsweredTyped, QuietStep
<1>6. CASE UNCHANGED vars
  BY <1>6 DEF vars, SInv, AttemptsSafe, MarkerSafe, CleanedSafe, TabSafe,
     AlreadySettled, Renewable
<1> QED BY <1>1, <1>2, <1>3, <1>4, <1>5, <1>6, EditSafe, CommerceStartsSafe,
           CommerceReportsSafe, CommerceSafe, PrepareAnsweredSafe,
           PaidAnsweredSafe, SettleSafe DEF Next, TabStep, ChangesCart

\* Both invariants hold of every state a browser with one tab reaches.
LEMMA OneTabInvariant == OneTab => (Spec => [](TInv /\ SInv))
<1>1. ASSUME OneTab PROVE Spec => [](TInv /\ SInv)
  <2>1. Init => TInv /\ SInv
    BY InitTyped, InitSafe
  <2>2. TInv /\ SInv /\ [Next]_vars => (TInv /\ SInv)'
    BY <1>1, StepTyped, StepSafe
  <2> QED BY <2>1, <2>2, PTL DEF Spec
<1> QED BY <1>1

\* "Keep guest capability and attempt identity across reload, network retry
\* and delayed return": with one tab, whatever fails, no attempt that is open,
\* or paid and not settled, is ever of a capability the browser has dropped.
THEOREM AttemptKept == OneTab => (Spec => []AttemptRecoverable)
<1>1. TInv /\ SInv => AttemptRecoverable
  <2> SUFFICES ASSUME TInv, SInv, NEW c \in Capabilities, Live(c)
               PROVE  retained.capability = c
    BY DEF AttemptRecoverable
  <2>1. attempts[c].state # "none"
    BY DEF Live, Unpaid
  <2>2. ~(c > issued)
    BY <2>1 DEF SInv, AttemptsSafe
  <2>3. ~(c < issued)
    BY DEF SInv, AttemptsSafe, Live, Unpaid
  <2>4. c \in Nat /\ issued \in Nat
    BY CheckoutAssumption DEF TInv, TypeOK, Capabilities
  <2> QED BY <2>2, <2>3, <2>4 DEF SInv, MarkerSafe
<1> QED BY <1>1, OneTabInvariant, PTL

\* With one tab and storage that can be written, a settlement never touches a
\* line set since the order's lines were removed: it is over by then.
THEOREM IntentKept ==
  OneTab /\ "unwritable" \notin Faults => (Spec => NewIntentKept)
<1>1. ASSUME OneTab, "unwritable" \notin Faults PROVE Spec => NewIntentKept
  <2>1. TInv /\ SInv /\ [Next]_vars =>
          [\A t \in Tabs : SettlesNow(t) => \A l \in fresh : cart'[l] = cart[l]]_vars
    <3> SUFFICES ASSUME SInv, NEW t \in Tabs, tab[t].doing = "settle"
                 PROVE  fresh = {}
      BY DEF SettlesNow
    <3>1. ~AlreadySettled(retained)
      BY DEF SInv, TabSafe
    <3> QED BY <1>1, <3>1 DEF SInv, CleanedSafe
  <2> QED BY <1>1, <2>1, OneTabInvariant, PTL DEF Spec, NewIntentKept
<1> QED BY <1>1
-----------------------------------------------------------------------------
(***************************************************************************)
(* What is sent is what the shopper reviewed, in any number of tabs.  A    *)
(* call in flight locks the page's cart against the shopper and the other  *)
(* tabs, though not against the page's tools; and a product page, whose    *)
(* cart is never locked, makes no call.                                    *)
(***************************************************************************)
Reviewed(s) ==
  /\ s.page = "shop" => s.doing = "idle" /\ ~s.recovery
  /\ s.doing \in {"prepare", "start"} /\ ~s.rewritten => s.intent = s.call.lines

\* A page that asks for the status, or has had its answer, sends nothing.
LEMMA CheckReviewed ==
  ASSUME NEW s \in TabStates, s.page # "shop", NEW ret
  PROVE  /\ Reviewed(Idle(s))
         /\ Reviewed(Checking(s, ret))
         /\ Reviewed(AfterCheck(s, ret))
<1>1. Idle(s).page = s.page /\ Idle(s).doing = "idle"
  BY DEF Idle, TabStates
<1>2. Checking(s, ret).page = s.page /\ Checking(s, ret).doing = "check"
  BY DEF Checking, TabStates
<1>3. PICK rest : rest = [Idle(s) EXCEPT !.auto = FALSE]
  OBVIOUS
<1>4. /\ rest.page = s.page
      /\ rest.doing = "idle"
      /\ [rest EXCEPT !.doing = "probe"].page = s.page
      /\ [rest EXCEPT !.doing = "probe"].doing = "probe"
  BY <1>3 DEF Idle, TabStates
<1>5. AfterCheck(s, ret) \in {rest, [rest EXCEPT !.doing = "probe"]}
  BY <1>3 DEF AfterCheck
<1> QED BY <1>1, <1>2, <1>4, <1>5 DEF Reviewed

\* A start sends the lines the page shows, or a tool rewrote what it shows.
LEMMA StartReviewed ==
  ASSUME TInv, NEW t \in Tabs, NEW s \in TabStates, NEW ret, NEW lines,
         s.rewritten \/ lines = s.intent,
         s.page # "shop", Start(t, s, ret, lines)
  PROVE  Reviewed(tab'[t])
<1>1. PICK sent : sent = [s EXCEPT !.startAllowed = FALSE, !.doing = "start",
                       !.recovery = FALSE,
                       !.call = [NoCall EXCEPT !.capability = ret.capability,
                                               !.lines = lines]]
  OBVIOUS
<1>2. sent.page # "shop" /\ (sent.rewritten \/ sent.intent = sent.call.lines)
  BY <1>1 DEF TabStates, NoCall
<1>3. PICK kept : kept = [Idle(s) EXCEPT !.startAllowed = FALSE, !.recovery = TRUE]
  OBVIOUS
<1>4. kept.page # "shop" /\ kept.doing = "idle"
  BY <1>3 DEF Idle, TabStates
<1>5. Becomes(t, sent) \/ Becomes(t, kept)
  BY <1>1, <1>3 DEF Start
<1>6. tab'[t] \in {sent, kept}
  BY <1>5 DEF Becomes, TInv, TypeOK
<1> QED BY <1>2, <1>4, <1>6 DEF Reviewed

\* A page that loads, or that the shopper clicks on.
LEMMA ClickReviewed ==
  ASSUME TInv, NEW t \in Tabs, Reviewed(tab[t]),
         \/ \E p \in Pages : Open(t, p)
         \/ ClickCheckout(t) \/ ClickRecover(t) \/ ChangesCart(t)
  PROVE  Reviewed(tab'[t])
<1> PICK s : s = tab[t]
  OBVIOUS
<1>1. s \in TabStates /\ Reviewed(s) /\ tab \in [Tabs -> TabStates]
  BY DEF TInv, TypeOK
<1>2. ASSUME NEW p \in Pages, Open(t, p) PROVE Reviewed(tab'[t])
  <2>1. PICK b : b = Blank(p)
    OBVIOUS
  <2>2. b \in TabStates /\ b.page = p /\ b.doing = "idle" /\ ~b.recovery
    BY <2>1, BlankTyped DEF Blank, TabOK
  <2>3. CASE p = "shop"
    BY <1>1, <1>2, <2>1, <2>2, <2>3 DEF Open, Becomes, Reviewed
  <2>4. CASE p = "return"
    <3>1. tab'[t] = LoadedReturn(b)
      BY <1>1, <1>2, <2>1, <2>4 DEF Open, Becomes
    <3> QED BY <2>2, <2>4, <3>1, CheckReviewed DEF LoadedReturn, Reviewed
  <2>5. CASE p = "checkout"
    <3>1. tab'[t] = LoadedCheckout(b)
      BY <1>1, <1>2, <2>1, <2>5 DEF Open, Becomes
    <3>2. PICK ready : ready = [b EXCEPT !.admitted = TRUE,
                          !.recovery = Retains(retained) /\ ~PreparedOnly]
      OBVIOUS
    <3>3. /\ ready \in TabStates /\ ready.page # "shop"
          /\ [ready EXCEPT !.auto = TRUE] \in TabStates
          /\ [ready EXCEPT !.auto = TRUE].page # "shop"
      BY <2>2, <2>5, <3>2 DEF TabStates, Retains, PreparedOnly
    <3>4. PICK asks : asks = Checking(ready, retained)
      OBVIOUS
    <3>5. asks.page = ready.page /\ asks.doing = "check"
      BY <3>3, <3>4 DEF Checking, TabStates
    <3>6. /\ [asks EXCEPT !.auto = TRUE].page = asks.page
          /\ [asks EXCEPT !.auto = TRUE].doing = asks.doing
      BY <3>4 DEF Checking
    <3>7. LoadedCheckout(b) \in {[asks EXCEPT !.auto = TRUE],
                        AfterCheck([ready EXCEPT !.auto = TRUE], retained)}
      BY <3>2, <3>4 DEF LoadedCheckout
    <3>8. Reviewed(AfterCheck([ready EXCEPT !.auto = TRUE], retained))
      BY <3>3, CheckReviewed
    <3>9. Reviewed([asks EXCEPT !.auto = TRUE])
      BY <3>3, <3>5, <3>6 DEF Reviewed
    <3> QED BY <3>1, <3>7, <3>8, <3>9
  <2> QED BY <2>3, <2>4, <2>5 DEF Pages
<1>3. CASE ClickCheckout(t)
  <2>1. s.page # "shop"
    BY <1>3 DEF ClickCheckout
  <2>2. CASE Start(t, s, retained, s.intent)
    BY <1>1, <2>1, <2>2, StartReviewed
  <2>3. CASE tab' = [tab EXCEPT ![t] =
               [s EXCEPT !.doing = "prepare", !.recovery = FALSE,
                         !.call = [NoCall EXCEPT !.lines = s.intent]]]
    BY <1>1, <2>1, <2>3 DEF TabStates, NoCall, Reviewed
  <2> QED BY <1>3, <2>2, <2>3 DEF ClickCheckout, Becomes
<1>4. CASE ClickRecover(t)
  <2>1. s.page # "shop" /\ tab'[t] = Checking(s, retained)
    BY <1>1, <1>4 DEF ClickRecover, Becomes, Reviewed
  <2> QED BY <1>1, <2>1, CheckReviewed
<1>5. CASE EditCart(t) \/ SyncCart(t)
  <2>1. s.doing = "idle"
    BY <1>1, <1>5 DEF EditCart, SyncCart, Locked, Reviewed
  <2>2. ASSUME NEW i, tab'[t] = [s EXCEPT !.intent = i] PROVE Reviewed(tab'[t])
    BY <1>1, <2>1, <2>2 DEF Reviewed, TabStates
  <2>3. \/ tab'[t] = [s EXCEPT !.intent = cart']
        \/ tab'[t] = [s EXCEPT !.intent = cart]
    BY <1>1, <1>5 DEF EditCart, SyncCart, Becomes
  <2> QED BY <2>2, <2>3
<1>6. CASE ToolWrites(t)
  <2>1. cart' \in Carts
    BY <1>6 DEF ToolWrites
  <2>2. PICK m : m = Rewritten(s)
    OBVIOUS
  <2>3. /\ m \in TabStates /\ m.page = s.page /\ m.doing = s.doing
        /\ m.recovery = s.recovery
        /\ s.doing \in {"prepare", "start"} => m.rewritten
    BY <1>1, <2>1, <2>2, RewrittenTyped
  <2>4. PICK n : n = Notified(m)
    OBVIOUS
  <2>5. /\ n.page = m.page /\ SameCall(m, n) /\ n.rewritten = m.rewritten
        /\ s.page = "shop" => n = m
    BY <2>3, <2>4, NotifiedTyped
  <2>6. tab'[t] = n
    BY <1>1, <1>6, <2>2, <2>4 DEF ToolWrites, Becomes
  <2> QED BY <1>1, <2>3, <2>5, <2>6 DEF Reviewed, SameCall
<1> QED BY <1>2, <1>3, <1>4, <1>5, <1>6 DEF ChangesCart

\* An answer arrives, or is given up on.
LEMMA AnswerReviewed ==
  ASSUME TInv, NEW t \in Tabs, Reviewed(tab[t]),
         \/ CommerceStarts(t) \/ CommerceReports(t)
         \/ PrepareAnswered(t) \/ PrepareFailed(t) \/ CallFailed(t)
         \/ Unassociated(t) \/ StartAnswered(t) \/ StatusAnswered(t)
         \/ PaidAnswered(t) \/ Settle(t)
  PROVE  Reviewed(tab'[t])
<1> PICK s : s = tab[t]
  OBVIOUS
<1>1. s \in TabStates /\ Reviewed(s) /\ tab \in [Tabs -> TabStates]
  BY DEF TInv, TypeOK
<1>2. s.doing # "idle" /\ s.page # "shop"
  <2>1. CommerceStarts(t) \/ CommerceReports(t) => s.doing # "idle"
    BY DEF CommerceStarts, CommerceReports
  <2>2. PrepareAnswered(t) \/ PrepareFailed(t) => s.doing # "idle"
    BY DEF PrepareAnswered, PrepareFailed
  <2>3. CallFailed(t) \/ Unassociated(t) \/ StartAnswered(t) => s.doing # "idle"
    BY DEF CallFailed, Unassociated, StartAnswered
  <2>4. StatusAnswered(t) \/ PaidAnswered(t) \/ Settle(t) => s.doing # "idle"
    <3>1. StatusAnswered(t) \/ Settle(t) => s.doing # "idle"
      BY DEF StatusAnswered, Settle
    <3>2. PaidAnswered(t) => s.doing # "idle"
      BY <1>1 DEF PaidAnswered, TabStates
    <3> QED BY <3>1, <3>2
  <2>5. s.doing # "idle"
    BY <2>1, <2>2, <2>3, <2>4, Zenon
  <2> QED BY <1>1, <2>5 DEF Reviewed
<1>3. CASE CommerceStarts(t) \/ CommerceReports(t)
  <2>1. \E a : Becomes(t, [s EXCEPT !.call.answer = a])
    <3>1. ASSUME CommerceStarts(t)
          PROVE  \E a : Becomes(t, [s EXCEPT !.call.answer = a])
      BY <3>1, Zenon DEF CommerceStarts
    <3>2. ASSUME CommerceReports(t)
          PROVE  \E a : Becomes(t, [s EXCEPT !.call.answer = a])
      BY <3>2, Zenon DEF CommerceReports
    <3> QED BY <1>3, <3>1, <3>2
  <2>2. PICK a : tab'[t] = [s EXCEPT !.call.answer = a]
    BY <1>1, <2>1 DEF Becomes
  <2>3. /\ tab'[t].page = s.page /\ tab'[t].doing = s.doing
        /\ tab'[t].intent = s.intent /\ tab'[t].rewritten = s.rewritten
        /\ tab'[t].call.lines = s.call.lines
    BY <1>1, <2>2 DEF TabStates, Calls
  <2> QED BY <1>1, <1>2, <2>3 DEF Reviewed
<1>4. CASE PrepareAnswered(t)
  <2>1. PICK ready : ready = [Idle(s) EXCEPT !.startAllowed = TRUE, !.confirmed = 0,
                                            !.rewritten = s.rewritten]
    OBVIOUS
  <2>2. /\ ready \in TabStates /\ ready.page = s.page /\ ready.doing = "idle"
        /\ ready.intent = s.intent /\ ready.rewritten = s.rewritten
    <3>1. Idle(s) \in TabStates /\ Idle(s).page = s.page
          /\ Idle(s).doing = "idle" /\ Idle(s).intent = s.intent
      BY <1>1, NullTypes DEF Idle, TabStates
    <3>2. 0 \in 0 .. MaxCapabilities
      BY CheckoutAssumption
    <3>3. s.rewritten \in BOOLEAN
      BY <1>1 DEF TabStates
    <3> QED BY <2>1, <3>1, <3>2, <3>3 DEF TabStates
  <2>3. CASE s.doing = "probe"
    <3>1. tab'[t] = ready
      BY <1>1, <1>4, <2>1, <2>3 DEF PrepareAnswered, Becomes
    <3> QED BY <1>2, <2>2, <3>1 DEF Reviewed
  <2>4. CASE s.doing = "prepare"
    <3>1. \E new : Start(t, ready, new, s.call.lines)
      BY <1>4, <2>1, <2>4 DEF PrepareAnswered
    <3>2. ready.rewritten \/ s.call.lines = ready.intent
      BY <1>1, <2>2, <2>4 DEF Reviewed
    <3> QED BY <1>2, <2>2, <3>1, <3>2, StartReviewed
  <2> QED BY <1>4, <2>3, <2>4 DEF PrepareAnswered
<1>5. CASE PrepareFailed(t)
  <2>1. Idle(s).page = s.page /\ Idle(s).doing = "idle"
    BY <1>1 DEF Idle, TabStates
  <2>2. \/ tab'[t] = [Idle(s) EXCEPT !.admitted = FALSE]
        \/ tab'[t] = [Idle(s) EXCEPT !.recovery = Retains(retained)]
    BY <1>1, <1>5 DEF PrepareFailed, Becomes
  <2>3. tab'[t].page = Idle(s).page /\ tab'[t].doing = Idle(s).doing
    BY <1>1, <2>2 DEF Idle, TabStates
  <2> QED BY <1>2, <2>1, <2>3 DEF Reviewed
<1>6. CASE CallFailed(t) \/ Unassociated(t)
  <2>1. tab'[t] = Failed(s, retained)
    BY <1>1, <1>6 DEF CallFailed, Unassociated, Becomes
  <2>2. Idle(s).page = s.page /\ Idle(s).doing = "idle"
    BY <1>1 DEF Idle, TabStates
  <2>3. \A r \in BOOLEAN : /\ [Idle(s) EXCEPT !.recovery = r].page = Idle(s).page
                           /\ [Idle(s) EXCEPT !.recovery = r].doing = Idle(s).doing
    BY <1>1 DEF Idle, TabStates
  <2>4. /\ [s EXCEPT !.recovery = TRUE] \in TabStates
        /\ [s EXCEPT !.recovery = TRUE].page = s.page
    BY <1>1 DEF TabStates
  <2>5. Reviewed(AfterCheck([s EXCEPT !.recovery = TRUE], retained))
    BY <1>2, <2>4, CheckReviewed
  <2>6. Retains(retained) \in BOOLEAN
    BY DEF Retains
  <2> QED BY <1>2, <2>1, <2>2, <2>3, <2>5, <2>6 DEF Failed, Reviewed
<1>7. CASE StartAnswered(t)
  <2>1. PICK rest : rest = [Idle(s) EXCEPT !.recovery = TRUE]
    OBVIOUS
  <2>2. rest \in TabStates /\ rest.page = s.page /\ rest.doing = "idle"
    BY <1>1, <2>1, NullTypes DEF Idle, TabStates
  <2>3. tab'[t] = rest \/ \E ret : tab'[t] = Checking(rest, ret)
    BY <1>1, <1>7, <2>1 DEF StartAnswered, Becomes
  <2> QED BY <1>2, <2>2, <2>3, CheckReviewed DEF Reviewed
<1>8. CASE StatusAnswered(t)
  <2>1. \E may, again, ret :
          tab'[t] = AfterCheck([s EXCEPT !.startAllowed = may,
                                         !.recovery = again], ret)
            /\ may \in BOOLEAN /\ again \in BOOLEAN
    BY <1>1, <1>8 DEF StatusAnswered, Becomes
  <2>2. PICK may, again, ret :
          tab'[t] = AfterCheck([s EXCEPT !.startAllowed = may,
                                         !.recovery = again], ret)
            /\ may \in BOOLEAN /\ again \in BOOLEAN
    BY <2>1
  <2>3. PICK known : known = [s EXCEPT !.startAllowed = may, !.recovery = again]
    OBVIOUS
  <2>4. known \in TabStates /\ known.page # "shop"
    BY <1>1, <1>2, <2>2, <2>3 DEF TabStates
  <2> QED BY <2>2, <2>3, <2>4, CheckReviewed
<1>9. CASE PaidAnswered(t)
  <2>1. PICK paid : paid = [s EXCEPT !.confirmed = s.call.capability,
                                     !.startAllowed = FALSE]
    OBVIOUS
  <2>2. paid \in TabStates /\ paid.page = s.page
    BY <1>1, <2>1 DEF TabStates, Calls
  <2>3. ASSUME NEW ret, tab'[t] = Confirmed([paid EXCEPT !.intent = cart], ret, TRUE)
        PROVE  Reviewed(tab'[t])
    <3>1. PICK k : k = [[paid EXCEPT !.intent = cart] EXCEPT !.recovery =
             [paid EXCEPT !.intent = cart].page = "checkout" /\ ~TRUE]
      OBVIOUS
    <3>2. k \in TabStates /\ k.page = s.page
      BY <2>2, <3>1 DEF TabStates, TInv, TypeOK, CartTypeOK
    <3>3. tab'[t] = AfterCheck(k, ret)
      BY <2>3, <3>1 DEF Confirmed
    <3> QED BY <1>2, <3>2, <3>3, CheckReviewed
  <2>4. ASSUME NEW read, tab'[t] = [paid EXCEPT !.doing = "settle", !.snapshot = read]
        PROVE  Reviewed(tab'[t])
    BY <1>2, <2>2, <2>4 DEF Reviewed, TabStates
  <2>5. \/ \E ret : tab'[t] = Confirmed([paid EXCEPT !.intent = cart], ret, TRUE)
        \/ \E read : tab'[t] = [paid EXCEPT !.doing = "settle", !.snapshot = read]
    BY <1>1, <1>9, <2>1 DEF PaidAnswered, Becomes
  <2> QED BY <2>3, <2>4, <2>5
<1>10. CASE Settle(t)
  <2>1. \E done :
          Becomes(t, Confirmed([s EXCEPT !.intent = cart'], retained', done = 3))
    BY <1>10, Zenon DEF Settle
  <2>2. PICK done :
          tab'[t] = Confirmed([s EXCEPT !.intent = cart'], retained', done = 3)
    BY <1>1, <2>1 DEF Becomes
  <2>3. cart' \in Carts
    BY <1>10, SettleTyped DEF CartTypeOK
  <2>4. PICK k : k = [[s EXCEPT !.intent = cart'] EXCEPT !.recovery =
           [s EXCEPT !.intent = cart'].page = "checkout" /\ ~(done = 3)]
    OBVIOUS
  <2>5. k \in TabStates /\ k.page = s.page
    BY <1>1, <2>3, <2>4 DEF TabStates
  <2>6. tab'[t] = AfterCheck(k, retained')
    BY <2>2, <2>4 DEF Confirmed
  <2> QED BY <1>2, <2>5, <2>6, CheckReviewed
<1> QED BY <1>3, <1>4, <1>5, <1>6, <1>7, <1>8, <1>9, <1>10

AllReviewed == \A t \in Tabs : Reviewed(tab[t])

\* The invariant holds at first.
LEMMA InitReviewed == Init => AllReviewed
<1> SUFFICES ASSUME Init, NEW t \in Tabs PROVE Reviewed(tab[t])
  BY DEF AllReviewed
<1>1. tab[t] = [Blank("shop") EXCEPT !.intent = Empty]
  BY DEF Init
<1>2. tab[t].doing = "idle" /\ ~tab[t].recovery
  BY <1>1 DEF Blank
<1> QED BY <1>2 DEF Reviewed

\* Every step keeps it.
LEMMA StepReviewed == TInv /\ AllReviewed /\ [Next]_vars => AllReviewed'
<1> SUFFICES ASSUME TInv, AllReviewed, [Next]_vars, NEW u \in Tabs
             PROVE  Reviewed(tab'[u])
  BY DEF AllReviewed, Reviewed
<1>1. CASE tab' = tab
  BY <1>1 DEF AllReviewed
<1>2. ASSUME NEW t \in Tabs, TabStep(t) PROVE Reviewed(tab'[u])
  <2>1. Reviewed(tab'[t])
    BY <1>2, ClickReviewed, AnswerReviewed DEF TabStep, AllReviewed, ChangesCart
  <2>2. u # t => tab'[u] = tab[u]
    <3>1. \E n : Becomes(t, n)
      BY <1>2 DEF TabStep, Open, ClickCheckout, ClickRecover, EditCart,
         ToolWrites, SyncCart, CommerceStarts, CommerceReports, PrepareAnswered,
         PrepareFailed, CallFailed, Unassociated, StartAnswered,
         StatusAnswered, PaidAnswered, Settle, Start
    <3> QED BY <3>1 DEF Becomes, TInv, TypeOK
  <2> QED BY <2>1, <2>2 DEF AllReviewed
<1>3. ASSUME NEW request \in late, LateStart(request) PROVE tab' = tab
  BY <1>3 DEF LateStart
<1>4. ASSUME NEW c \in Capabilities, PaymentMoves(c) PROVE tab' = tab
  BY <1>4 DEF PaymentMoves
<1> QED BY <1>1, <1>2, <1>3, <1>4 DEF Next, vars

\* "An active checkout also keeps its reviewed intent": in any number of tabs
\* and with every fault, what a checkout click sends is what its page shows,
\* whatever other tabs write; unless the page's own tools rewrote the cart.
THEOREM IntentIsSent == Spec => []ReviewedIsSent
<1>1. AllReviewed => ReviewedIsSent
  BY DEF AllReviewed, Reviewed, ReviewedIsSent
<1> QED BY <1>1, InitReviewed, StepReviewed, InitTyped, StepTyped, PTL DEF Spec
-----------------------------------------------------------------------------
\* With one tab and storage that can be written, whatever else fails: a
\* settlement that changes the cart is of a paid order whose lines were never
\* cleaned before; it removes a line nobody set meanwhile only when the order
\* bought exactly that quantity; and one that a tool set meanwhile is undone.
THEOREM ClearedOnce ==
  OneTab /\ "unwritable" \notin Faults => (Spec => ClearsOnceWhatItRead)
<1> DEFINE Clears(t) ==
      LET read == tab[t].snapshot
          order == attempts[read.retained.capability]
      IN  /\ order.state = "paid"
          /\ read.retained.capability \notin cleaned
          /\ \A l \in Lines : cart'[l] # cart[l] =>
               \/ cart'[l] = 0 /\ read.cart[l] = order.lines[l]
               \/ cart'[l] = read.cart[l]
<1>1. ASSUME OneTab, "unwritable" \notin Faults PROVE Spec => ClearsOnceWhatItRead
  <2>1. TInv /\ SInv /\ [Next]_vars =>
          [\A t \in Tabs : SettlesNow(t) /\ cart' # cart => Clears(t)]_vars
    <3> SUFFICES ASSUME TInv, SInv, [Next]_vars,
                        NEW t \in Tabs, SettlesNow(t), cart' # cart
                 PROVE  Clears(t)
      OBVIOUS
    <3>1. tab[t].doing = "settle" /\ tab'[t].doing # "settle"
      BY DEF SettlesNow
    <3>2. /\ tab[t].snapshot.retained = retained /\ ~AlreadySettled(retained)
          /\ attempts[retained.capability].state = "paid"
          /\ retained.capability = issued
      BY <3>1 DEF SInv, TabSafe, MarkerSafe
    <3>3. retained.capability \notin cleaned
      BY <1>1, <3>2 DEF SInv, CleanedSafe
    <3>4. \E u \in Tabs : ChangesCart(u) \/ Settle(u)
      BY DEF Next, TabStep, vars, Open, ClickCheckout, ClickRecover,
         CommerceStarts, CommerceReports, PrepareAnswered, PrepareFailed,
         CallFailed, Unassociated, StartAnswered, StatusAnswered, PaidAnswered,
         LateStart, PaymentMoves, ChangesCart
    <3>5. ChangesCart(t) \/ Settle(t)
      BY <1>1, <3>4 DEF OneTab
    <3>6. ~ChangesCart(t)
      <4>1. ASSUME NEW n, Becomes(t, n), SameCall(tab[t], n) PROVE FALSE
        BY <3>1, <4>1 DEF SameCall, Becomes, TInv, TypeOK
      <4> QED BY <4>1, EditTyped
    <3>7. PICK read : read = tab[t].snapshot
      OBVIOUS
    <3>8. cart' = cart \/ cart' = Remaining(read.cart, attempts[retained.capability].lines)
      BY <3>2, <3>5, <3>6, <3>7 DEF Settle
    <3>9. \A l \in Lines : cart'[l] # cart[l] =>
            \/ /\ cart'[l] = 0
               /\ read.cart[l] = attempts[retained.capability].lines[l]
            \/ cart'[l] = read.cart[l]
      BY <3>8 DEF Remaining
    <3> QED BY <3>2, <3>3, <3>7, <3>9
  <2> QED BY <2>1, <1>1, OneTabInvariant, PTL DEF Spec, ClearsOnceWhatItRead
<1> QED BY <1>1
-----------------------------------------------------------------------------
(***************************************************************************)
(* Which attempt is asked about, with one tab and no start that outlives   *)
(* the page that gave up on it.  `n` is the number of the capability's     *)
(* current attempt.  The retention names it or no attempt, or says that a  *)
(* start may be on its way; so does what the tab asked and was answered.   *)
(***************************************************************************)
Names(attempt, n) == attempt \in {0, n}

RetentionCurrent(ret, n) ==
  ret.attempt <= n /\ (~ret.awaitingStart => Names(ret.attempt, n))

TabCurrent(s, ret, n) ==
  /\ s.doing = "start" => ret.awaitingStart
  /\ s.doing = "check" => Names(s.call.asked, n)
  /\ s.doing \in {"start", "check"} /\ s.call.answer.state \in States
       => s.call.answer.attempt = n

NumbersKept == \A c \in Capabilities : c > issued => attempts[c].number = 0

Current(c) ==
  /\ RetentionCurrent(retained, attempts[c].number)
  /\ \A t \in Tabs : TabCurrent(tab[t], retained, attempts[c].number)

CInv ==
  /\ late = {}
  /\ NumbersKept
  /\ \A c \in Capabilities : retained.capability = c => Current(c)

\* What a step leaves of the tab that takes it: it asks about what is retained.
AsksRetained(s, ret) ==
  /\ s.doing \in {"start", "check"} => s.call.answer = NoAnswer
  /\ s.doing = "start" => ret.awaitingStart
  /\ s.doing = "check" => s.call.asked = Asked(ret)

\* A tab that asks about what is retained asks about the current attempt.
LEMMA AskingCurrent ==
  ASSUME NEW s, NEW ret, NEW n, AsksRetained(s, ret), RetentionCurrent(ret, n)
  PROVE  TabCurrent(s, ret, n)
<1>1. NoAnswer.state \notin States
  BY DEF NoAnswer, States, Unpaid
<1> QED BY <1>1 DEF AsksRetained, RetentionCurrent, TabCurrent, Names, Asked

\* What the controller leaves of a tab: at rest, probing, or asking.
LEMMA CheckAsks ==
  ASSUME NEW s \in TabStates, NEW ret
  PROVE  /\ AsksRetained(Idle(s), ret)
         /\ AsksRetained(Checking(s, ret), ret)
         /\ AsksRetained(AfterCheck(s, ret), ret)
         /\ AsksRetained(Failed(s, ret), ret)
         /\ \A done \in BOOLEAN : AsksRetained(Confirmed(s, ret, done), ret)
<1> DEFINE Rests(r) == r.doing \in {"idle", "probe"}
<1>1. \A r : Rests(r) => AsksRetained(r, ret)
  BY DEF AsksRetained
<1>2. ASSUME NEW r \in TabStates
      PROVE  Rests(Idle(r)) /\ Rests(AfterCheck(r, ret))
  <2>1. Idle(r).doing = "idle"
    BY <1>2 DEF Idle, TabStates
  <2>2. PICK rest : rest = [Idle(r) EXCEPT !.auto = FALSE]
    OBVIOUS
  <2>3. rest.doing = "idle" /\ [rest EXCEPT !.doing = "probe"].doing = "probe"
    BY <1>2, <2>2 DEF Idle, TabStates
  <2>4. AfterCheck(r, ret) \in {rest, [rest EXCEPT !.doing = "probe"]}
    BY <2>2 DEF AfterCheck
  <2> QED BY <2>1, <2>3, <2>4
<1>3. AsksRetained(Checking(s, ret), ret)
  <2>1. PICK call : call = [NoCall EXCEPT !.capability = ret.capability,
                             !.had = ret.attempt, !.asked = Asked(ret)]
    OBVIOUS
  <2>2. call.answer = NoAnswer /\ call.asked = Asked(ret)
    BY <2>1 DEF NoCall
  <2>3. /\ Checking(s, ret).doing = "check"
        /\ Checking(s, ret).call = call
    BY <2>1 DEF Checking, TabStates
  <2> QED BY <2>2, <2>3 DEF AsksRetained
<1>4. \A b \in BOOLEAN : [s EXCEPT !.recovery = b] \in TabStates
  BY DEF TabStates
<1>5. Rests(Failed(s, ret))
  <2>1. \A b \in BOOLEAN : [Idle(s) EXCEPT !.recovery = b].doing = "idle"
    BY DEF Idle, TabStates
  <2>2. Retains(ret) \in BOOLEAN
    BY DEF Retains
  <2> QED BY <1>2, <1>4, <2>1, <2>2 DEF Failed
<1>6. \A done \in BOOLEAN : Rests(Confirmed(s, ret, done))
  BY <1>2, <1>4 DEF Confirmed
<1> QED BY <1>1, <1>2, <1>3, <1>5, <1>6

\* A start marks the retention before it leaves.
LEMMA StartAsks ==
  ASSUME TInv, NEW t \in Tabs, NEW s \in TabStates, NEW ret \in Retentions,
         NEW lines, Start(t, s, ret, lines)
  PROVE  /\ AsksRetained(tab'[t], retained')
         /\ retained'.capability = ret.capability
         /\ \A n : RetentionCurrent(ret, n) => RetentionCurrent(retained', n)
<1>1. CASE /\ retained' = Sent(ret)
           /\ Becomes(t, [s EXCEPT !.startAllowed = FALSE, !.doing = "start",
                       !.recovery = FALSE,
                       !.call = [NoCall EXCEPT !.capability = ret.capability,
                                               !.lines = lines]])
  <2>1. PICK call : call = [NoCall EXCEPT !.capability = ret.capability,
                                          !.lines = lines]
    OBVIOUS
  <2>2. call.answer = NoAnswer
    BY <2>1 DEF NoCall
  <2>3. tab'[t].doing = "start" /\ tab'[t].call = call
    BY <1>1, <2>1 DEF Becomes, TInv, TypeOK, TabStates
  <2>4. /\ retained'.awaitingStart = TRUE
        /\ retained'.attempt = ret.attempt
        /\ retained'.capability = ret.capability
    BY <1>1 DEF Sent, Retentions
  <2> QED BY <2>2, <2>3, <2>4 DEF AsksRetained, RetentionCurrent
<1>2. CASE /\ retained' = ret
           /\ Becomes(t, [Idle(s) EXCEPT !.startAllowed = FALSE, !.recovery = TRUE])
  <2>1. tab'[t].doing = "idle"
    BY <1>2 DEF Becomes, TInv, TypeOK, Idle, TabStates
  <2> QED BY <1>2, <2>1 DEF AsksRetained
<1> QED BY <1>1, <1>2 DEF Start

\* An answer that names the current attempt makes the retention name it.
LEMMA UpdatedCurrent ==
  ASSUME NEW ret \in Retentions, NEW answer \in Answers, NEW n \in Nat,
         answer.attempt = n, RetentionCurrent(ret, n)
  PROVE  RetentionCurrent(Updated(ret, answer), n)
<1>1. Updated(ret, answer).attempt = IF n # 0 THEN n ELSE ret.attempt
  BY DEF Updated, Retentions
<1>2. ret.attempt \in Nat
  BY CheckoutAssumption DEF Retentions, Attempts
<1> QED BY <1>1, <1>2 DEF RetentionCurrent, Names

\* A step of the one tab that asks about what it leaves retained.
LEMMA AskingStep ==
  ASSUME OneTab, CInv, NEW t \in Tabs, late' = {},
         UNCHANGED <<issued, attempts>>,
         AsksRetained(tab'[t], retained'),
         retained'.capability = retained.capability,
         \A c \in Capabilities : retained.capability = c
           => RetentionCurrent(retained', attempts[c].number)
  PROVE  CInv'
<1>1. \A u \in Tabs : AsksRetained(tab'[u], retained')
  BY DEF OneTab
<1>2. ASSUME NEW c \in Capabilities, retained'.capability = c
      PROVE  Current(c)'
  <2>1. RetentionCurrent(retained', attempts'[c].number)
    BY <1>2
  <2> QED BY <1>1, <2>1, AskingCurrent DEF Current
<1> QED BY <1>2 DEF CInv, NumbersKept

\* What the tab does while what is retained stays.
LEMMA SameRetention ==
  ASSUME OneTab, TInv, CInv, NEW t \in Tabs,
         \/ \E p \in Pages : Open(t, p)
         \/ ClickRecover(t) \/ PrepareFailed(t)
         \/ CallFailed(t) \/ Unassociated(t),
         "late" \notin Faults
  PROVE  CInv'
<1> PICK s : s = tab[t]
  OBVIOUS
<1>1. s \in TabStates /\ tab \in [Tabs -> TabStates]
  BY DEF TInv, TypeOK
<1>2. UNCHANGED <<issued, attempts, retained>>
  BY DEF Open, ClickRecover, PrepareFailed, CallFailed, Unassociated,
     commerceVars
<1>3. late' = {}
  <2>1. Abandons(t) => late' = late
    BY DEF Abandons, Fault
  <2> QED BY <2>1 DEF Open, ClickRecover, PrepareFailed, CallFailed,
             Unassociated, commerceVars, CInv
<1>4. AsksRetained(tab'[t], retained)
  <2>1. ASSUME NEW p \in Pages, Open(t, p) PROVE AsksRetained(tab'[t], retained)
    <3>1. PICK b : b = Blank(p)
      OBVIOUS
    <3>2. b \in TabStates /\ b.doing = "idle"
      BY <3>1, BlankTyped DEF TabOK
    <3>3. CASE p = "shop"
      BY <1>1, <2>1, <3>1, <3>2, <3>3 DEF Open, Becomes, AsksRetained
    <3>4. CASE p = "return"
      <4>1. tab'[t] = LoadedReturn(b)
        BY <1>1, <2>1, <3>1, <3>4 DEF Open, Becomes
      <4> QED BY <3>2, <4>1, CheckAsks DEF LoadedReturn, AsksRetained
    <3>5. CASE p = "checkout"
      <4>1. tab'[t] = LoadedCheckout(b)
        BY <1>1, <2>1, <3>1, <3>5 DEF Open, Becomes
      <4>2. PICK ready : ready = [b EXCEPT !.admitted = TRUE,
                            !.recovery = Retains(retained) /\ ~PreparedOnly]
        OBVIOUS
      <4>3. /\ ready \in TabStates
            /\ [ready EXCEPT !.auto = TRUE] \in TabStates
        BY <3>2, <4>2 DEF TabStates, Retains, PreparedOnly
      <4>4. PICK asks : asks = Checking(ready, retained)
        OBVIOUS
      <4>5. AsksRetained(asks, retained)
        BY <4>3, <4>4, CheckAsks
      <4>6. /\ [asks EXCEPT !.auto = TRUE].call = asks.call
            /\ [asks EXCEPT !.auto = TRUE].doing = asks.doing
        BY <4>4 DEF Checking
      <4>7. AsksRetained([asks EXCEPT !.auto = TRUE], retained)
        BY <4>5, <4>6 DEF AsksRetained
      <4>8. AsksRetained(AfterCheck([ready EXCEPT !.auto = TRUE], retained),
                         retained)
        BY <4>3, CheckAsks
      <4>9. LoadedCheckout(b) \in {[asks EXCEPT !.auto = TRUE],
                          AfterCheck([ready EXCEPT !.auto = TRUE], retained)}
        BY <4>2, <4>4 DEF LoadedCheckout
      <4> QED BY <4>1, <4>7, <4>8, <4>9
    <3> QED BY <3>3, <3>4, <3>5 DEF Pages
  <2>2. CASE ClickRecover(t)
    <3>1. tab'[t] = Checking(s, retained)
      BY <1>1, <2>2 DEF ClickRecover, Becomes
    <3> QED BY <1>1, <3>1, CheckAsks
  <2>3. CASE PrepareFailed(t)
    <3>1. \/ tab'[t] = [Idle(s) EXCEPT !.admitted = FALSE]
          \/ tab'[t] = [Idle(s) EXCEPT !.recovery = Retains(retained)]
      BY <1>1, <2>3 DEF PrepareFailed, Becomes
    <3>2. tab'[t].doing = "idle"
      BY <1>1, <3>1 DEF Idle, TabStates
    <3> QED BY <3>2 DEF AsksRetained
  <2>4. CASE CallFailed(t) \/ Unassociated(t)
    <3>1. tab'[t] = Failed(s, retained)
      BY <1>1, <2>4 DEF CallFailed, Unassociated, Becomes
    <3> QED BY <1>1, <3>1, CheckAsks
  <2> QED BY <2>1, <2>2, <2>3, <2>4
<1> QED BY <1>2, <1>3, <1>4, AskingStep DEF CInv, Current

\* A click starts an attempt, which the retention then says, or prepares one.
LEMMA ClickAsks ==
  ASSUME OneTab, TInv, CInv, NEW t \in Tabs, ClickCheckout(t)
  PROVE  CInv'
<1> PICK s : s = tab[t]
  OBVIOUS
<1>1. /\ s \in TabStates /\ tab \in [Tabs -> TabStates]
      /\ retained \in Retentions
  BY DEF TInv, TypeOK
<1>2. UNCHANGED <<issued, attempts, late>>
  BY DEF ClickCheckout, commerceVars
<1>3. CASE Start(t, s, retained, s.intent)
  BY <1>1, <1>2, <1>3, StartAsks, AskingStep DEF CInv, Current
<1>4. CASE /\ tab' = [tab EXCEPT ![t] =
                [s EXCEPT !.doing = "prepare", !.recovery = FALSE,
                          !.call = [NoCall EXCEPT !.lines = s.intent]]]
           /\ retained' = retained
  <2>1. tab'[t].doing = "prepare"
    BY <1>1, <1>4 DEF TabStates
  <2>2. AsksRetained(tab'[t], retained')
    BY <2>1 DEF AsksRetained
  <2> QED BY <1>2, <1>4, <2>2, AskingStep DEF CInv, Current
<1> QED BY <1>3, <1>4 DEF ClickCheckout, Becomes

\* A new capability has no attempt yet.
LEMMA PreparedAsks ==
  ASSUME OneTab, TInv, CInv, NEW t \in Tabs, PrepareAnswered(t)
  PROVE  CInv'
<1> PICK s : s = tab[t]
  OBVIOUS
<1>1. s \in TabStates /\ tab \in [Tabs -> TabStates]
  BY DEF TInv, TypeOK
<1>2. PICK new : new = [NoRetention EXCEPT !.capability = issued + 1]
  OBVIOUS
<1>3. PICK ready : ready = [Idle(s) EXCEPT !.startAllowed = TRUE, !.confirmed = 0,
                                            !.rewritten = s.rewritten]
  OBVIOUS
<1>4. /\ issued' = issued + 1 /\ issued' \in Capabilities
      /\ UNCHANGED <<attempts, late>>
      /\ \/ Start(t, ready, new, s.call.lines)
         \/ retained' = new /\ Becomes(t, ready)
  BY <1>2, <1>3 DEF PrepareAnswered
<1>5. /\ new \in Retentions /\ new.attempt = 0
      /\ new.capability = issued + 1
  <2>1. issued + 1 \in 0 .. MaxCapabilities
    BY <1>4, CheckoutAssumption DEF Capabilities
  <2>2. new.attempt = 0 /\ new.capability = issued + 1
    BY <1>2 DEF NoRetention
  <2>3. NoRetention \in Retentions
    BY NullTypes
  <2>4. new \in Retentions
    BY <1>2, <2>1, <2>3 DEF Retentions
  <2> QED BY <2>2, <2>4
<1>6. ready \in TabStates /\ ready.doing = "idle"
  <2>1. Idle(s) \in TabStates /\ Idle(s).doing = "idle"
    BY <1>1, NullTypes DEF Idle, TabStates
  <2>2. 0 \in 0 .. MaxCapabilities
    BY CheckoutAssumption
  <2>3. s.rewritten \in BOOLEAN
    BY <1>1 DEF TabStates
  <2> QED BY <1>3, <2>1, <2>2, <2>3 DEF TabStates
<1>7. /\ AsksRetained(tab'[t], retained')
      /\ retained'.capability = issued + 1
      /\ RetentionCurrent(new, 0) => RetentionCurrent(retained', 0)
  <2>1. CASE Start(t, ready, new, s.call.lines)
    BY <1>5, <1>6, <2>1, StartAsks
  <2>2. CASE retained' = new /\ Becomes(t, ready)
    <3>1. tab'[t] = ready
      BY <1>1, <2>2 DEF Becomes
    <3> QED BY <1>5, <1>6, <2>2, <3>1 DEF AsksRetained
  <2> QED BY <1>4, <2>1, <2>2
<1>8. RetentionCurrent(new, 0)
  BY <1>5 DEF RetentionCurrent, Names
<1>9. issued \in Nat /\ attempts[issued + 1].number = 0
  BY <1>4, CheckoutAssumption DEF TInv, TypeOK, CInv, NumbersKept, Capabilities
<1>10. \A u \in Tabs : TabCurrent(tab'[u], retained', 0)
  BY <1>7, <1>8, AskingCurrent DEF OneTab
<1>11. NumbersKept'
  BY <1>4, <1>9 DEF CInv, NumbersKept, Capabilities
<1> QED BY <1>4, <1>7, <1>8, <1>9, <1>10, <1>11 DEF CInv, Current

\* An answer is of the capability's current attempt, and is kept as that.
LEMMA AnsweredAsks ==
  ASSUME OneTab, TInv, SInv, CInv, NEW t \in Tabs,
         StartAnswered(t) \/ StatusAnswered(t) \/ PaidAnswered(t)
  PROVE  CInv'
<1> PICK s : s = tab[t]
  OBVIOUS
<1>1. /\ s \in TabStates /\ tab \in [Tabs -> TabStates]
      /\ retained \in Retentions /\ RetainedOK(retained)
      /\ s.call \in Calls /\ s.call.answer \in Answers
  BY DEF TInv, TypeOK, TabStates, Calls
<1>2. PICK next : next = Updated(retained, s.call.answer)
  OBVIOUS
<1>3. /\ s.doing \in {"start", "check"}
      /\ s.call.answer.state \in States
      /\ retained' = next
      /\ UNCHANGED <<issued, attempts, late>>
  <2>1. CASE StartAnswered(t)
    BY <1>2, <2>1 DEF StartAnswered, States, commerceVars
  <2>2. CASE StatusAnswered(t)
    BY <1>2, <2>2 DEF StatusAnswered, States, commerceVars
  <2>3. CASE PaidAnswered(t)
    BY <1>1, <1>2, <2>3 DEF PaidAnswered, States, commerceVars, TabStates
  <2> QED BY <2>1, <2>2, <2>3
<1>4. next.capability = retained.capability
  BY <1>1, <1>2, UpdatedTyped
<1>5. ASSUME NEW c \in Capabilities, retained.capability = c
      PROVE  RetentionCurrent(next, attempts[c].number)
  <2>1. attempts[c].number \in Nat
    BY CheckoutAssumption DEF TInv, TypeOK, Attempts
  <2>2. /\ RetentionCurrent(retained, attempts[c].number)
        /\ TabCurrent(s, retained, attempts[c].number)
    BY <1>5 DEF CInv, Current
  <2>3. s.call.answer.attempt = attempts[c].number
    BY <1>3, <2>2 DEF TabCurrent
  <2> QED BY <1>1, <1>2, <2>1, <2>2, <2>3, UpdatedCurrent
<1>6. AsksRetained(tab'[t], next)
  <2>1. CASE StartAnswered(t)
    <3>1. PICK rest : rest = [Idle(s) EXCEPT !.recovery = TRUE]
      OBVIOUS
    <3>2. rest \in TabStates /\ rest.doing = "idle"
      BY <1>1, <3>1, NullTypes DEF Idle, TabStates
    <3>3. tab'[t] = rest \/ tab'[t] = Checking(rest, next)
      BY <1>1, <1>2, <2>1, <3>1 DEF StartAnswered, Becomes
    <3> QED BY <3>2, <3>3, CheckAsks DEF AsksRetained
  <2>2. CASE StatusAnswered(t)
    <3>1. \E may, again :
            tab'[t] = AfterCheck([s EXCEPT !.startAllowed = may,
                                           !.recovery = again], next)
              /\ may \in BOOLEAN /\ again \in BOOLEAN
      BY <1>1, <1>2, <2>2 DEF StatusAnswered, Becomes
    <3>2. PICK may, again :
            tab'[t] = AfterCheck([s EXCEPT !.startAllowed = may,
                                           !.recovery = again], next)
              /\ may \in BOOLEAN /\ again \in BOOLEAN
      BY <3>1
    <3>3. [s EXCEPT !.startAllowed = may, !.recovery = again] \in TabStates
      BY <1>1, <3>2 DEF TabStates
    <3> QED BY <3>2, <3>3, CheckAsks
  <2>3. CASE PaidAnswered(t)
    <3>1. PICK paid : paid = [s EXCEPT !.confirmed = s.call.capability,
                                       !.startAllowed = FALSE]
      OBVIOUS
    <3>2. /\ paid \in TabStates
          /\ [paid EXCEPT !.intent = cart] \in TabStates
      BY <1>1, <3>1 DEF TabStates, Calls, TInv, TypeOK, CartTypeOK
    <3>3. paid.call = s.call
      BY <1>1, <3>1 DEF TabStates
    <3>4. PICK reads : reads = [paid EXCEPT !.doing = "settle",
                          !.snapshot = [retained |-> next, cart |-> cart]]
      OBVIOUS
    <3>5. \/ tab'[t] = Confirmed([paid EXCEPT !.intent = cart], next, TRUE)
          \/ tab'[t] = reads
      <4>1. next = Updated(retained, paid.call.answer)
        BY <1>2, <3>3
      <4>2. \/ Becomes(t, Confirmed([paid EXCEPT !.intent = cart],
                                   Updated(retained, paid.call.answer), TRUE))
            \/ Becomes(t, [paid EXCEPT !.doing = "settle",
                             !.snapshot = [retained |-> Updated(retained, paid.call.answer),
                                           cart |-> cart]])
        BY <2>3, <3>1 DEF PaidAnswered
      <4> QED BY <1>1, <3>4, <4>1, <4>2 DEF Becomes
    <3>6. reads.doing = "settle"
      BY <3>2, <3>4 DEF TabStates
    <3>7. AsksRetained(reads, next)
      BY <3>6 DEF AsksRetained
    <3>8. AsksRetained(Confirmed([paid EXCEPT !.intent = cart], next, TRUE), next)
      BY <3>2, CheckAsks
    <3> QED BY <3>5, <3>7, <3>8
  <2> QED BY <2>1, <2>2, <2>3
<1> QED BY <1>3, <1>4, <1>5, <1>6, AskingStep DEF CInv

\* A settlement marks the order and leaves the attempt as it was.
LEMMA SettleAsks ==
  ASSUME OneTab, TInv, SInv, CInv, NEW t \in Tabs, Settle(t)
  PROVE  CInv'
<1> PICK s : s = tab[t]
  OBVIOUS
<1>1. /\ s \in TabStates /\ tab \in [Tabs -> TabStates]
      /\ s.snapshot \in [retained : Retentions, cart : Carts]
      /\ s.snapshot.retained = retained
      /\ retained \in Retentions
  BY DEF Settle, TInv, TypeOK, TabStates, SInv, TabSafe
<1>2. PICK marker : marker = Marked(s.snapshot)
  OBVIOUS
<1>3. /\ marker \in Retentions
      /\ marker.capability = retained.capability
      /\ marker.attempt = retained.attempt
      /\ marker.awaitingStart = retained.awaitingStart
  <2>1. RetainedOK(marker) /\ marker.capability = retained.capability
    BY <1>1, <1>2, MarkedTyped
  <2>2. /\ marker.attempt = retained.attempt
        /\ marker.awaitingStart = retained.awaitingStart
    BY <1>1, <1>2 DEF Marked, Retentions
  <2> QED BY <2>1, <2>2 DEF RetainedOK
<1>4. PICK finished : finished = [marker EXCEPT !.pending = FALSE]
  OBVIOUS
<1>5. /\ finished.capability = retained.capability
      /\ finished.attempt = retained.attempt
      /\ finished.awaitingStart = retained.awaitingStart
  BY <1>3, <1>4 DEF Retentions
<1>6. /\ retained' \in {retained, marker, finished}
      /\ \E done : Becomes(t, Confirmed([s EXCEPT !.intent = cart'], retained',
                                        done = 3))
  BY <1>2, <1>4 DEF Settle
<1>7. /\ retained'.capability = retained.capability
      /\ retained'.attempt = retained.attempt
      /\ retained'.awaitingStart = retained.awaitingStart
  BY <1>3, <1>5, <1>6
<1>8. AsksRetained(tab'[t], retained')
  <2>1. cart' \in Carts
    BY SettleTyped DEF CartTypeOK
  <2>2. [s EXCEPT !.intent = cart'] \in TabStates
    BY <1>1, <2>1 DEF TabStates
  <2>3. \A done : (done = 3) \in BOOLEAN
    OBVIOUS
  <2>4. \E done : tab'[t] = Confirmed([s EXCEPT !.intent = cart'], retained',
                                      done = 3)
    BY <1>1, <1>6 DEF Becomes
  <2> QED BY <2>2, <2>3, <2>4, CheckAsks
<1>9. UNCHANGED <<issued, attempts, late>>
  BY SettleTyped DEF commerceVars
<1> QED BY <1>7, <1>8, <1>9, AskingStep DEF CInv, Current, RetentionCurrent, Names

\* Commerce takes the start, which the retention says may be on its way, or
\* answers the current attempt.
LEMMA StartsCurrent ==
  ASSUME OneTab, TInv, SInv, CInv, NEW t \in Tabs, CommerceStarts(t)
  PROVE  CInv'
<1> PICK s : s = tab[t]
  OBVIOUS
<1> PICK c : c = s.call.capability
  OBVIOUS
<1>1. /\ s \in TabStates /\ s.call \in Calls
      /\ tab \in [Tabs -> TabStates]
      /\ retained \in Retentions
      /\ s.doing = "start"
      /\ UNCHANGED <<retained, issued, late>>
  BY DEF CommerceStarts, TInv, TypeOK, TabStates
<1>2. /\ c \in Capabilities
      /\ c = retained.capability
      /\ c = issued
  <2>1. c \in Capabilities
    BY CommerceStartsTyped
  <2>2. c = retained.capability
    BY <1>1 DEF SInv, TabSafe
  <2> QED BY <2>1, <2>2 DEF SInv, MarkerSafe
<1> PICK n : n = attempts[c].number
  OBVIOUS
<1>3. n \in Nat /\ c \in Nat
  BY <1>2, CheckoutAssumption DEF TInv, TypeOK, Attempts, Capabilities
<1>4. retained.attempt <= n /\ retained.awaitingStart
  BY <1>1, <1>2 DEF CInv, Current, RetentionCurrent, TabCurrent
<1>5. /\ \A d \in Capabilities \ {c} : attempts'[d] = attempts[d]
      /\ attempts'[c].number \in {n, n + 1}
      /\ \E answer : /\ Becomes(t, [s EXCEPT !.call.answer = answer])
                     /\ answer.state \in States
                          => answer.attempt = attempts'[c].number
  <2>1. ASSUME Startable(c), Started(c, s.call.lines)
        PROVE  /\ \A d \in Capabilities \ {c} : attempts'[d] = attempts[d]
               /\ attempts'[c].number = n + 1
    BY <1>2, <2>1 DEF Started, TInv, TypeOK
  <2>2. CASE /\ Startable(c)
             /\ Started(c, s.call.lines)
             /\ Becomes(t, [s EXCEPT !.call.answer =
                              [attempt |-> n + 1, state |-> "pending"]])
    <3>1. PICK answer : answer = [attempt |-> n + 1, state |-> "pending"]
      OBVIOUS
    <3>2. Becomes(t, [s EXCEPT !.call.answer = answer])
      BY <2>2, <3>1
    <3>3. answer.attempt = attempts'[c].number
      BY <2>1, <2>2, <3>1
    <3> QED BY <2>1, <2>2, <3>2, <3>3
  <2>3. CASE /\ Becomes(t, [s EXCEPT !.call.answer =
                              [attempt |-> n, state |-> attempts[c].state]])
             /\ UNCHANGED attempts
    <3>1. PICK answer : answer = [attempt |-> n, state |-> attempts[c].state]
      OBVIOUS
    <3>2. Becomes(t, [s EXCEPT !.call.answer = answer])
      BY <2>3, <3>1
    <3>3. answer.attempt = attempts'[c].number
      BY <2>3, <3>1
    <3> QED BY <2>3, <3>2, <3>3
  <2>4. CASE /\ Becomes(t, [s EXCEPT !.call.answer =
                              [NoAnswer EXCEPT !.state = "error"]])
             /\ UNCHANGED attempts
    <3>1. [NoAnswer EXCEPT !.state = "error"].state \notin States
      BY DEF NoAnswer, States, Unpaid
    <3> QED BY <2>4, <3>1
  <2> QED BY <2>2, <2>3, <2>4 DEF CommerceStarts
<1>6. PICK answer : /\ Becomes(t, [s EXCEPT !.call.answer = answer])
                    /\ answer.state \in States
                         => answer.attempt = attempts'[c].number
  BY <1>5
<1>7. tab'[t].doing = "start" /\ tab'[t].call.answer = answer
  BY <1>1, <1>6 DEF Becomes, TabStates, Calls
<1>8. RetentionCurrent(retained, attempts'[c].number)
  BY <1>1, <1>3, <1>4, <1>5 DEF RetentionCurrent, Retentions, Attempts
<1>9. TabCurrent(tab'[t], retained, attempts'[c].number)
  BY <1>4, <1>6, <1>7 DEF TabCurrent
<1>10. NumbersKept'
  <2>1. \A d \in Capabilities : d > issued => d # c
    BY <1>2, <1>3
  <2> QED BY <1>1, <1>5, <2>1 DEF CInv, NumbersKept
<1> QED BY <1>1, <1>2, <1>8, <1>9, <1>10 DEF CInv, Current, OneTab

\* A status asked of the current attempt, or of no attempt in particular, is
\* the current attempt's.
LEMMA ReportsCurrent ==
  ASSUME OneTab, TInv, SInv, CInv, NEW t \in Tabs, CommerceReports(t)
  PROVE  CInv'
<1> PICK s : s = tab[t]
  OBVIOUS
<1> PICK c : c = s.call.capability
  OBVIOUS
<1>1. /\ s \in TabStates /\ s.call \in Calls
      /\ tab \in [Tabs -> TabStates]
      /\ s.doing = "check"
      /\ UNCHANGED <<retained, issued, late, attempts>>
  BY DEF CommerceReports, TInv, TypeOK, TabStates, commerceVars
<1>2. c = retained.capability
  BY <1>1 DEF SInv, TabSafe
<1>3. PICK answer \in {StatusOf(c, s.call.asked),
                       [NoAnswer EXCEPT !.state = "error"]} :
        Becomes(t, [s EXCEPT !.call.answer = answer])
  BY Zenon DEF CommerceReports
<1>4. /\ tab'[t].doing = "check"
      /\ tab'[t].call.answer = answer
      /\ tab'[t].call.asked = s.call.asked
  <2>1. tab'[t] = [s EXCEPT !.call.answer = answer]
    BY <1>1, <1>3 DEF Becomes
  <2> QED BY <1>1, <2>1 DEF TabStates, Calls
<1>5. ASSUME c \in Capabilities
      PROVE  TabCurrent(tab'[t], retained, attempts[c].number)
  <2>1. Names(s.call.asked, attempts[c].number)
    BY <1>1, <1>2, <1>5 DEF CInv, Current, TabCurrent
  <2>2. StatusOf(c, s.call.asked).attempt = attempts[c].number
    BY <2>1 DEF StatusOf, Names
  <2>3. [NoAnswer EXCEPT !.state = "error"].state \notin States
    BY DEF NoAnswer, States, Unpaid
  <2>4. answer.state \in States => answer.attempt = attempts[c].number
    BY <1>3, <2>2, <2>3
  <2> QED BY <1>4, <2>1, <2>4 DEF TabCurrent
<1>6. ASSUME NEW d \in Capabilities, retained.capability = d
      PROVE  Current(d)'
  BY <1>1, <1>2, <1>5, <1>6 DEF CInv, Current, OneTab
<1>7. NumbersKept'
  BY <1>1 DEF CInv, NumbersKept
<1> QED BY <1>1, <1>6, <1>7 DEF CInv

\* Editing the cart, and showing another tab's, changes no call.
LEMMA EditsCurrent ==
  ASSUME OneTab, TInv, CInv, NEW t \in Tabs, ChangesCart(t)
  PROVE  CInv'
<1>1. UNCHANGED <<retained, issued, attempts, late>>
  BY DEF ChangesCart, EditCart, ToolWrites, SyncCart, commerceVars
<1>2. PICK n : Becomes(t, n) /\ TabOK(n) /\ SameCall(tab[t], n)
  BY EditTyped
<1>3. /\ tab'[t].doing \in {"start", "check"} => tab'[t].doing = tab[t].doing
      /\ tab'[t].call = tab[t].call
  BY <1>2, TabBecomes DEF SameCall
<1>4. ASSUME NEW ret, NEW n1, NEW u \in Tabs, TabCurrent(tab[u], ret, n1)
      PROVE  TabCurrent(tab'[u], ret, n1)
  BY <1>3, <1>4 DEF TabCurrent, OneTab
<1>5. ASSUME NEW c \in Capabilities, retained.capability = c
      PROVE  Current(c)'
  BY <1>1, <1>4, <1>5 DEF CInv, Current
<1> QED BY <1>1, <1>5 DEF CInv, NumbersKept

\* A payment leaves every attempt its number.
LEMMA PaymentCurrent ==
  ASSUME TInv, CInv, NEW p \in Capabilities, PaymentMoves(p)
  PROVE  CInv'
<1>1. UNCHANGED <<retained, tab, issued, late>>
  BY DEF PaymentMoves
<1>2. ASSUME NEW c \in Capabilities
      PROVE  attempts'[c].number = attempts[c].number
  BY <1>2 DEF PaymentMoves, TInv, TypeOK
<1>3. NumbersKept'
  BY <1>1, <1>2 DEF CInv, NumbersKept
<1>4. ASSUME NEW c \in Capabilities, retained.capability = c
      PROVE  Current(c)'
  BY <1>1, <1>2, <1>4 DEF CInv, Current
<1> QED BY <1>1, <1>3, <1>4 DEF CInv

\* At first nothing is asked; every step keeps what is asked current.
LEMMA InitCurrent == Init => CInv
<1> SUFFICES ASSUME Init PROVE CInv
  OBVIOUS
<1>1. late = {} /\ NumbersKept
  BY DEF Init, NumbersKept
<1>2. ASSUME NEW c \in Capabilities PROVE retained.capability # c
  BY <1>2, CheckoutAssumption DEF Init, NoRetention, Capabilities
<1> QED BY <1>1, <1>2 DEF CInv

\* Every step keeps what the retention says of the current attempt.
LEMMA StepCurrent ==
  OneTab /\ "late" \notin Faults /\ TInv /\ SInv /\ CInv /\ [Next]_vars => CInv'
<1> SUFFICES ASSUME OneTab, "late" \notin Faults, TInv, SInv, CInv, [Next]_vars
             PROVE  CInv'
  OBVIOUS
<1>1. ASSUME NEW t \in Tabs, TabStep(t) PROVE CInv'
  <2>1. \A p \in Pages : Open(t, p) => CInv'
    BY SameRetention
  <2>2. ClickCheckout(t) => CInv'
    BY ClickAsks
  <2>3. ClickRecover(t) \/ PrepareFailed(t) \/ CallFailed(t) \/ Unassociated(t)
          => CInv'
    BY SameRetention
  <2>4. EditCart(t) \/ ToolWrites(t) \/ SyncCart(t) => CInv'
    BY EditsCurrent DEF ChangesCart
  <2>5. CommerceStarts(t) => CInv'
    BY StartsCurrent
  <2>6. CommerceReports(t) => CInv'
    BY ReportsCurrent
  <2>7. PrepareAnswered(t) => CInv'
    BY PreparedAsks
  <2>8. StartAnswered(t) \/ StatusAnswered(t) \/ PaidAnswered(t) => CInv'
    BY AnsweredAsks
  <2>9. Settle(t) => CInv'
    BY SettleAsks
  <2> QED BY <1>1, <2>1, <2>2, <2>3, <2>4, <2>5, <2>6, <2>7, <2>8, <2>9, Zenon
          DEF TabStep
<1>2. ~\E request \in late : LateStart(request)
  BY DEF CInv
<1>3. CASE UNCHANGED vars
  BY <1>3 DEF vars, CInv, NumbersKept, Current
<1> QED BY <1>1, <1>2, <1>3, PaymentCurrent DEF Next

\* "A lost successor response must recover the capability's CURRENT attempt
\* rather than re-query its released parent": with one tab, when a start given
\* up on is not taken after all, the next status check never asks about an
\* attempt that has a successor, whatever else fails.
THEOREM CurrentAsked ==
  OneTab /\ "late" \notin Faults => (Spec => []AsksCurrent)
<1>1. ASSUME OneTab, "late" \notin Faults PROVE Spec => []AsksCurrent
  <2>1. Init => TInv /\ SInv /\ CInv
    BY InitTyped, InitSafe, InitCurrent
  <2>2. TInv /\ SInv /\ CInv /\ [Next]_vars => (TInv /\ SInv /\ CInv)'
    BY <1>1, StepTyped, StepSafe, StepCurrent
  <2>3. CInv => AsksCurrent
    BY DEF CInv, Current, RetentionCurrent, Names, AsksCurrent, Asked
  <2> QED BY <2>1, <2>2, <2>3, PTL DEF Spec
<1> QED BY <1>1
=============================================================================
