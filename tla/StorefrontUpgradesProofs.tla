----------------------- MODULE StorefrontUpgradesProofs -----------------------
(***************************************************************************)
(* Proofs about StorefrontUpgrades for any number of runners, steps and    *)
(* template versions, with failures and evictions at every await; and the  *)
(* safety halves of what it and PaymentWakes come to in the end.           *)
(***************************************************************************)
EXTENDS StorefrontUpgrades, PaymentWakes, TLAPS

(***************************************************************************)
(* The inductive invariant.  A list that only names steps that ran and has *)
(* no gap keeps that however often an older copy replaces it; what must be *)
(* added is what a runner in the middle of its run knows.                  *)
(***************************************************************************)
GapFree(S) == S \subseteq ran /\ OldestFirstIn(S)

\* A runner's own list has no gap, and when it works on a step every older
\* one has run.
RunnerInv(i) ==
  /\ GapFree(known[i])
  /\ pc[i] \in {"run", "save"} => /\ at[i] \in 1 .. Version[i]
                                  /\ 1 .. at[i] - 1 \subseteq known[i]
  /\ pc[i] = "save" => at[i] \in ran
  /\ done[i] => 1 .. Version[i] \subseteq ran

IInv ==
  /\ TypeOK
  /\ OldestFirst
  /\ GapFree(recorded)
  /\ \A i \in Runners : RunnerInv(i)

-----------------------------------------------------------------------------
\* Adding the step right after a gap-free start leaves no gap.
LEMMA AddNext ==
  ASSUME NEW S \in SUBSET Upgrades, NEW k \in Upgrades,
         OldestFirstIn(S), 1 .. k - 1 \subseteq S
  PROVE  OldestFirstIn(S \cup {k})
BY UpgradeAssumption DEF OldestFirstIn, Upgrades

\* Where a runner goes from here: to the oldest step its list misses, every
\* older one being in the list, or to its end with all of them in the list.
LEMMA Onwards ==
  ASSUME TypeOK, NEW i \in Runners, NEW list \in SUBSET Upgrades,
         NEW from \in Nat \ {0}, 1 .. from - 1 \subseteq list,
         Continue(i, list, from)
  PROVE  \/ /\ pc' = [pc EXCEPT ![i] = "run"]
            /\ at' \in [Runners -> Nat]
            /\ \A j \in Runners \ {i} : at'[j] = at[j]
            /\ at'[i] \in 1 .. Version[i]
            /\ 1 .. at'[i] - 1 \subseteq list
            /\ done' = done
         \/ /\ pc' = [pc EXCEPT ![i] = "idle"]
            /\ at' = at
            /\ done' = [done EXCEPT ![i] = TRUE]
            /\ 1 .. Version[i] \subseteq list
<1> USE UpgradeAssumption
<1>1. Version[i] \in Nat
  OBVIOUS
<1>2. CASE Remaining(i, list, from) # {}
  <2>1. PICK k \in Remaining(i, list, from) :
          /\ \A j \in Remaining(i, list, from) : k <= j
          /\ at' = [at EXCEPT ![i] = k]
    BY <1>2 DEF Continue
  <2>2. k \in 1 .. Version[i]
    BY <1>1, <2>1 DEF Remaining
  <2>3. ASSUME NEW j \in 1 .. k - 1 PROVE j \in list
    <3>1. CASE j < from
      BY <3>1
    <3>2. CASE j >= from
      <4>1. j \in from .. Version[i] /\ ~(k <= j)
        BY <1>1, <2>2, <3>2
      <4>2. j \notin Remaining(i, list, from)
        BY <2>1, <4>1
      <4> QED BY <4>1, <4>2 DEF Remaining
    <3> QED BY <2>2, <3>1, <3>2
  <2>4. pc' = [pc EXCEPT ![i] = "run"] /\ done' = done
    BY <1>2 DEF Continue, Goto
  <2>5. /\ at' \in [Runners -> Nat]
        /\ \A j \in Runners \ {i} : at'[j] = at[j]
        /\ at'[i] = k
    BY <2>1, <2>2 DEF TypeOK
  <2> QED BY <2>2, <2>3, <2>4, <2>5
<1>3. CASE Remaining(i, list, from) = {}
  <2>1. ASSUME NEW j \in 1 .. Version[i] PROVE j \in list
    <3>1. CASE j < from
      BY <3>1
    <3>2. CASE j >= from
      BY <1>1, <1>3, <3>2 DEF Remaining
    <3> QED BY <1>1, <3>1, <3>2
  <2> QED BY <1>3, <2>1 DEF Continue, Goto
<1> QED BY <1>2, <1>3

\* A runner that does not move keeps its part of the invariant, since steps
\* that ran stay run.
LEMMA OthersKept ==
  ASSUME NEW j \in Runners, RunnerInv(j), ran \subseteq ran',
         known'[j] = known[j], pc'[j] = pc[j], at'[j] = at[j],
         done'[j] = done[j]
  PROVE  RunnerInv(j)'
BY DEF RunnerInv, GapFree

\* The initial states satisfy the invariant: nothing has run or is known.
LEMMA UpgradeInit == Init => IInv
BY UpgradeAssumption DEF Init, IInv, TypeOK, OldestFirst, GapFree, RunnerInv,
   OldestFirstIn, Upgrades

\* Every step of the runners keeps the invariant; the two that write, running
\* a step and recording it, are where it is needed.
LEMMA UpgradeStep == IInv /\ [Next]_vars => IInv'
<1> SUFFICES ASSUME IInv, [Next]_vars PROVE IInv'
  OBVIOUS
<1> USE UpgradeAssumption
<1>1. TypeOK
  BY DEF IInv
<1>2. ASSUME Seed PROVE IInv'
  BY <1>2 DEF IInv, Seed, TypeOK, OldestFirst, GapFree, RunnerInv
<1>3. ASSUME NEW i \in Runners, Begin(i) PROVE IInv'
  <2>1. \A j \in Runners : RunnerInv(j)'
    BY <1>1, <1>3 DEF IInv, Begin, Goto, TypeOK, RunnerInv, GapFree
  <2> QED BY <1>3, <2>1 DEF IInv, Begin, Goto, TypeOK, OldestFirst, GapFree
<1>4. ASSUME NEW i \in Runners, ReadList(i) PROVE IInv'
  <2>0. 1 \in Nat \ {0} /\ 1 .. 1 - 1 \subseteq recorded
    OBVIOUS
  <2>1. GapFree(recorded) /\ recorded \in SUBSET Upgrades
    BY DEF IInv, TypeOK
  <2>2. UNCHANGED <<seeded, ran, recorded>> /\ Continue(i, recorded, 1)
    BY <1>4 DEF ReadList
  <2>3. known' \in [Runners -> SUBSET Upgrades] /\ known'[i] = recorded
    BY <1>1, <1>4, <2>1 DEF ReadList, TypeOK
  <2>4. \A j \in Runners \ {i} : RunnerInv(j)'
    <3>1. \A j \in Runners \ {i} : known'[j] = known[j]
      BY <1>1, <1>4 DEF ReadList, TypeOK
    <3>2. \A j \in Runners \ {i} :
            pc'[j] = pc[j] /\ at'[j] = at[j] /\ done'[j] = done[j]
      BY <1>1, <2>0, <2>1, <2>2, Onwards DEF TypeOK
    <3> QED BY <2>2, <3>1, <3>2, OthersKept DEF IInv
  <2>5. TypeOK' /\ RunnerInv(i)'
    <3>1. \/ /\ pc' = [pc EXCEPT ![i] = "run"]
             /\ at' \in [Runners -> Nat]
             /\ at'[i] \in 1 .. Version[i]
             /\ 1 .. at'[i] - 1 \subseteq recorded
             /\ done' = done
          \/ /\ pc' = [pc EXCEPT ![i] = "idle"]
             /\ at' = at
             /\ done' = [done EXCEPT ![i] = TRUE]
             /\ 1 .. Version[i] \subseteq recorded
      BY <1>1, <2>0, <2>1, <2>2, Onwards
    <3>2. TypeOK'
      BY <1>1, <2>2, <2>3, <3>1 DEF TypeOK
    <3>3. RunnerInv(i)
      BY DEF IInv
    <3>4. RunnerInv(i)'
      BY <1>1, <2>1, <2>2, <2>3, <3>1, <3>3 DEF RunnerInv, GapFree, TypeOK
    <3> QED BY <3>2, <3>4
  <2> QED BY <2>2, <2>4, <2>5 DEF IInv, OldestFirst, GapFree
<1>5. ASSUME NEW i \in Runners, RunUpgrade(i) PROVE IInv'
  <2>1. at[i] \in Upgrades /\ 1 .. at[i] - 1 \subseteq ran
    BY <1>1, <1>5 DEF IInv, RunUpgrade, RunnerInv, GapFree, Upgrades, TypeOK
  <2>2. ran' = ran \cup {at[i]} /\ UNCHANGED <<seeded, recorded, known, at, done>>
    BY <1>5 DEF RunUpgrade
  <2>3. OldestFirst'
    BY <1>1, <2>1, <2>2, AddNext DEF IInv, OldestFirst, TypeOK, OldestFirstIn
  <2>4. TypeOK'
    BY <1>1, <1>5, <2>1, <2>2 DEF TypeOK, RunUpgrade, Goto
  <2>5. RunnerInv(i)'
    BY <1>1, <1>5, <2>2 DEF IInv, RunnerInv, GapFree, RunUpgrade, Goto, TypeOK
  <2>6. \A j \in Runners \ {i} : RunnerInv(j)'
    <3>1. \A j \in Runners \ {i} : pc'[j] = pc[j]
      BY <1>1, <1>5 DEF RunUpgrade, Goto, TypeOK
    <3> QED BY <2>2, <3>1, OthersKept DEF IInv
  <2> QED BY <2>2, <2>3, <2>4, <2>5, <2>6 DEF IInv, GapFree
<1>6. ASSUME NEW i \in Runners, RecordUpgrade(i) PROVE IInv'
  <2> DEFINE list == known[i] \cup {at[i]}
  <2>1. /\ at[i] \in Upgrades
        /\ at[i] \in ran
        /\ known[i] \in SUBSET Upgrades
        /\ GapFree(known[i])
        /\ 1 .. at[i] - 1 \subseteq known[i]
    BY <1>1, <1>6 DEF IInv, RecordUpgrade, RunnerInv, Upgrades, TypeOK
  <2>2. /\ list \in SUBSET Upgrades
        /\ list \subseteq ran
        /\ OldestFirstIn(list)
    BY <2>1, AddNext DEF GapFree
  <2>3. /\ at[i] + 1 \in Nat \ {0}
        /\ 1 .. (at[i] + 1) - 1 \subseteq list
    BY <2>1 DEF Upgrades
  <2>4. /\ Continue(i, list, at[i] + 1)
        /\ recorded' = list
        /\ known' = [known EXCEPT ![i] = list]
        /\ UNCHANGED <<seeded, ran>>
    BY <1>6 DEF RecordUpgrade
  <2> HIDE DEF list
  <2>5. \/ /\ pc' = [pc EXCEPT ![i] = "run"]
           /\ at' \in [Runners -> Nat]
           /\ \A j \in Runners \ {i} : at'[j] = at[j]
           /\ at'[i] \in 1 .. Version[i]
           /\ 1 .. at'[i] - 1 \subseteq list
           /\ done' = done
        \/ /\ pc' = [pc EXCEPT ![i] = "idle"]
           /\ at' = at
           /\ done' = [done EXCEPT ![i] = TRUE]
           /\ 1 .. Version[i] \subseteq list
    BY <1>1, <2>2, <2>3, <2>4, Onwards
  <2>6. TypeOK'
    BY <1>1, <2>2, <2>4, <2>5 DEF TypeOK
  <2>7. RunnerInv(i)'
    BY <1>1, <2>2, <2>4, <2>5 DEF IInv, RunnerInv, GapFree, TypeOK
  <2>8. \A j \in Runners \ {i} : RunnerInv(j)'
    <3>1. \A j \in Runners \ {i} :
            /\ known'[j] = known[j] /\ pc'[j] = pc[j]
            /\ at'[j] = at[j] /\ done'[j] = done[j]
      BY <1>1, <2>4, <2>5 DEF TypeOK
    <3> QED BY <2>4, <3>1, OthersKept DEF IInv
  <2> QED BY <2>2, <2>4, <2>6, <2>7, <2>8 DEF IInv, OldestFirst, GapFree
<1>7. ASSUME NEW i \in Runners, ReadFails(i) \/ RunFails(i) PROVE IInv'
  <2>1. \A j \in Runners : RunnerInv(j)'
    BY <1>1, <1>7 DEF IInv, ReadFails, RunFails, Goto, TypeOK, RunnerInv, GapFree
  <2> QED BY <1>7, <2>1 DEF IInv, ReadFails, RunFails, Goto, TypeOK,
             OldestFirst, GapFree
<1>10. ASSUME NEW i \in Runners, RecordFails(i) PROVE IInv'
  <2>1. \A j \in Runners : RunnerInv(j)'
    BY <1>1, <1>10 DEF IInv, RecordFails, Goto, TypeOK, RunnerInv, GapFree
  <2>2. /\ at[i] \in Upgrades
        /\ at[i] \in ran
        /\ known[i] \in SUBSET Upgrades
        /\ GapFree(known[i])
        /\ 1 .. at[i] - 1 \subseteq known[i]
    BY <1>1, <1>10 DEF IInv, RecordFails, RunnerInv, Upgrades, TypeOK
  <2>3. GapFree(known[i] \cup {at[i]})
    BY <2>2, AddNext DEF GapFree
  <2>4. recorded' \in SUBSET Upgrades /\ GapFree(recorded)'
    BY <1>1, <1>10, <2>2, <2>3 DEF IInv, RecordFails, GapFree, TypeOK
  <2>5. TypeOK' /\ OldestFirst'
    BY <1>1, <1>10, <2>4 DEF IInv, RecordFails, Goto, TypeOK, OldestFirst
  <2> QED BY <2>1, <2>4, <2>5 DEF IInv
<1>8. ASSUME NEW i \in Runners, Evict(i) PROVE IInv'
  <2>1. \A j \in Runners : RunnerInv(j)'
    BY <1>1, <1>8 DEF IInv, Evict, Goto, TypeOK, RunnerInv, GapFree
  <2> QED BY <1>8, <2>1 DEF IInv, Evict, Goto, TypeOK, OldestFirst, GapFree
<1>9. ASSUME UNCHANGED vars PROVE IInv'
  BY <1>9 DEF vars, IInv, TypeOK, OldestFirst, GapFree, RunnerInv
<1> QED BY <1>2, <1>3, <1>4, <1>5, <1>6, <1>7, <1>8, <1>9, <1>10
  DEF Next, Work

\* The invariant holds of every state the upgrades can reach.
LEMMA UpgradeInvariant == Spec => []IInv
BY UpgradeInit, UpgradeStep, PTL DEF Spec

\* Types: in particular no runner works on a step its template does not have.
THEOREM UpgradesTyped == Spec => []TypeOK
<1>1. IInv => TypeOK
  BY DEF IInv
<1> QED BY <1>1, UpgradeInvariant, PTL

\* No step has run before every older one, for any number of overlapping
\* runs of whatever templates.
THEOREM StepsInOrder == Spec => []OldestFirst
<1>1. IInv => OldestFirst
  BY DEF IInv
<1> QED BY <1>1, UpgradeInvariant, PTL

\* The stored list never names a step that has not run, and has no gap, though
\* runners write their own copies of it over each other's.
THEOREM ListTells == Spec => []RecordedRan
<1>1. IInv => RecordedRan
  BY DEF IInv, RecordedRan, GapFree
<1> QED BY <1>1, UpgradeInvariant, PTL

\* A runner that will not look again has nothing left to run.
THEOREM DoneIsRun == Spec => []DoneMeansRun
<1>1. IInv => DoneMeansRun
  BY DEF IInv, DoneMeansRun, RunnerInv
<1> QED BY <1>1, UpgradeInvariant, PTL

(***************************************************************************)
(* What UpgradesEnd rests on beside fairness.                              *)
(***************************************************************************)
\* A step that has not run is passed over by nobody whose template has it: no
\* such runner is done, whatever list it reads leaves the step to it, and in a
\* run it is at that step or an older one.
NonePassedOver ==
  \A i \in Runners : \A k \in (1 .. Version[i]) \ ran :
    /\ ~done[i]
    /\ k \in Remaining(i, recorded, 1)
    /\ pc[i] = "run" => at[i] <= k
    /\ pc[i] = "save" => k \in Remaining(i, known[i] \cup {at[i]}, at[i] + 1)

\* What has run stays so, and a run that goes on goes on to a later step.
GoesForward ==
  /\ ran \subseteq ran'
  /\ \A i \in Runners : pc[i] = "save" /\ pc'[i] = "run" => at'[i] > at[i]

\* However the runs overlap, fail and put older lists back, none of them comes
\* to believe of a step that has not run that it has.
THEOREM NoStepPassedOver == Spec => []NonePassedOver
<1>1. IInv => NonePassedOver
  <2> SUFFICES ASSUME IInv, NEW i \in Runners, NEW k \in (1 .. Version[i]) \ ran
               PROVE  /\ ~done[i]
                      /\ k \in Remaining(i, recorded, 1)
                      /\ pc[i] = "run" => at[i] <= k
                      /\ pc[i] = "save" =>
                           k \in Remaining(i, known[i] \cup {at[i]}, at[i] + 1)
    BY DEF NonePassedOver
  <2>1. Version[i] \in Nat /\ at[i] \in Nat /\ k \in Nat
    BY UpgradeAssumption DEF IInv, TypeOK
  <2>2. RunnerInv(i) /\ recorded \subseteq ran /\ known[i] \subseteq ran
    BY DEF IInv, RunnerInv, GapFree
  <2>3. ~done[i] /\ k \in Remaining(i, recorded, 1)
    BY <2>1, <2>2 DEF RunnerInv, Remaining
  <2>4. ASSUME pc[i] \in {"run", "save"} PROVE at[i] <= k
    <3>1. 1 .. at[i] - 1 \subseteq ran
      BY <2>2, <2>4 DEF RunnerInv
    <3> QED BY <2>1, <3>1
  <2>5. ASSUME pc[i] = "save"
        PROVE  k \in Remaining(i, known[i] \cup {at[i]}, at[i] + 1)
    <3>1. at[i] \in ran
      BY <2>2, <2>5 DEF RunnerInv
    <3>2. k # at[i] /\ at[i] <= k /\ k \notin known[i] \cup {at[i]}
      BY <2>2, <2>4, <2>5, <3>1
    <3> QED BY <2>1, <3>2 DEF Remaining
  <2> QED BY <2>3, <2>4, <2>5
<1> QED BY <1>1, UpgradeInvariant, PTL

\* Every step a runner takes keeps what has run and goes forward in its run.
THEOREM UpgradesGoForward == Spec => [][GoesForward]_vars
<1>1. IInv /\ [Next]_vars => [GoesForward]_vars
  <2> SUFFICES ASSUME IInv, Next PROVE GoesForward
    OBVIOUS
  <2>1. ran \subseteq ran'
    BY DEF Next, Work, Seed, Begin, ReadList, ReadFails, RunUpgrade, RunFails,
       RecordUpgrade, RecordFails, Evict
  <2>2. TypeOK
    BY DEF IInv
  <2>3. ASSUME NEW i \in Runners, pc[i] = "save", pc'[i] = "run"
        PROVE  at'[i] > at[i]
    <3>1. Version[i] \in Nat /\ at[i] \in Nat
      BY <2>2, UpgradeAssumption DEF TypeOK
    <3>2. RecordUpgrade(i)
      <4>1. PICK j \in Runners : Work(j) \/ Evict(j)
        BY <2>3 DEF Next, Seed
      <4>2. j = i
        BY <2>2, <2>3, <4>1 DEF Work, Begin, ReadList, ReadFails, RunUpgrade,
           RunFails, RecordUpgrade, RecordFails, Evict, Continue, Goto, TypeOK
      <4> QED
        BY <2>2, <2>3, <4>1, <4>2 DEF Work, Begin, ReadList, ReadFails,
           RunUpgrade, RunFails, RecordFails, Evict, Goto, TypeOK
    <3>3. PICK k \in Remaining(i, known[i] \cup {at[i]}, at[i] + 1) :
            at' = [at EXCEPT ![i] = k]
      BY <2>2, <2>3, <3>2 DEF RecordUpgrade, Continue, Goto, TypeOK
    <3> QED BY <2>2, <3>1, <3>3 DEF Remaining, TypeOK
  <2> QED BY <2>1, <2>3 DEF GoesForward
<1> QED BY <1>1, UpgradeInvariant, PTL DEF Spec

-----------------------------------------------------------------------------
(***************************************************************************)
(* What PaidComesToOrder rests on beside fairness: the wake of a payment   *)
(* outlives every failure until the order is stored.                       *)
(***************************************************************************)
\* A paid attempt without an order still has the last wake delivered for it.
PaidKeepsWake ==
  \A a \in paidAt \ ordered : waking[a] = delivered[a] /\ delivered[a] > 0

\* The states of the driver between its steps.
DriverStates ==
  [at : {"idle", "list", "look", "acknowledge"},
   wakes : SUBSET Wakes, now : Wakes \cup {NoWake},
   reason : {"none", "not_configured", "integration_limit_unsupported", "error"}]

\* The wake about to be acknowledged is of an attempt whose order is stored.
WakeInv ==
  /\ WakesTypeOK
  /\ waking \in [WakeAttempts -> Generations]
  /\ delivered \in [WakeAttempts -> Generations]
  /\ driver \in DriverStates
  /\ driver.at = "acknowledge" =>
       driver.now \in driver.wakes /\ driver.now.attempt \in ordered
  /\ PaidKeepsWake

\* No wake waits at the start.
LEMMA WakesBegin == WakesInit => WakeInv
BY WakeAssumption DEF DriverStates, WakesInit, WakeInv, WakesTypeOK, Generations, Wakes,
   Waiting, NoWake, PaidKeepsWake

\* Payments delivers a wake, one generation on, to an attempt not yet paid.
LEMMA DeliverKeeps ==
  ASSUME WakeInv, NEW a \in WakeAttempts, NEW paid \in BOOLEAN, Deliver(a, paid)
  PROVE  WakeInv'
<1> USE WakeAssumption
<1>1. /\ delivered' = [delivered EXCEPT ![a] = @ + 1]
      /\ waking' = [waking EXCEPT ![a] = delivered[a] + 1]
      /\ UNCHANGED <<setup, ordered, driver>>
      /\ paidAt \subseteq paidAt' /\ paidAt' \subseteq paidAt \cup {a}
      /\ delivered[a] < MaxDeliveries
  BY DEF Deliver
<1>2. delivered[a] \in Nat /\ delivered[a] + 1 \in Generations
  BY <1>1 DEF WakeInv, Generations
<1>3. /\ waking' \in [WakeAttempts -> Generations]
      /\ delivered' \in [WakeAttempts -> Generations]
      /\ \A b \in WakeAttempts :
           \/ waking'[b] = waking[b] /\ delivered'[b] = delivered[b]
           \/ /\ b = a
              /\ waking'[b] = delivered[b] + 1 /\ delivered'[b] = delivered[b] + 1
  BY <1>1, <1>2 DEF WakeInv
<1>4. \A b \in WakeAttempts : delivered[b] \in Nat /\ delivered[b] <= delivered'[b]
  BY <1>3 DEF WakeInv, Generations
<1>5. \A w \in driver'.wakes : w \in Wakes /\ w.generation <= delivered'[w.attempt]
  <2> SUFFICES ASSUME NEW w \in driver.wakes
               PROVE  w \in Wakes /\ w.generation <= delivered'[w.attempt]
    BY <1>1
  <2>1. w \in Wakes /\ w.generation <= delivered[w.attempt]
    BY DEF WakeInv, WakesTypeOK
  <2>2. w.generation \in Nat /\ w.attempt \in WakeAttempts
    BY <2>1 DEF Wakes, Generations
  <2>3. delivered[w.attempt] \in Nat /\ delivered'[w.attempt] \in Nat
    BY <1>3, <2>2 DEF WakeInv, Generations
  <2> QED BY <1>4, <2>1, <2>2, <2>3
<1>6. WakesTypeOK'
  BY <1>1, <1>3, <1>5 DEF WakeInv, WakesTypeOK
<1>7. PaidKeepsWake'
  <2> SUFFICES ASSUME NEW b \in paidAt' \ ordered'
               PROVE  waking'[b] = delivered'[b] /\ delivered'[b] > 0
    BY DEF PaidKeepsWake
  <2>1. b = a \/ b \in paidAt \ ordered
    BY <1>1
  <2>2. b \in WakeAttempts
    BY <2>1 DEF WakeInv, WakesTypeOK
  <2> QED BY <1>1, <1>2, <1>3, <2>1, <2>2 DEF WakeInv, PaidKeepsWake
<1> QED BY <1>1, <1>3, <1>6, <1>7 DEF WakeInv

\* A step of the driver that acknowledges nothing and holds no wake Payments
\* has not delivered.
LEMMA DriverMoves ==
  ASSUME WakeInv, UNCHANGED <<setup, paidAt, waking, delivered>>,
         ordered \subseteq ordered', ordered' \subseteq paidAt,
         driver' \in DriverStates,
         \A w \in driver'.wakes : w.generation <= delivered[w.attempt],
         driver'.at = "acknowledge" =>
           driver'.now \in driver'.wakes /\ driver'.now.attempt \in ordered'
  PROVE  WakeInv'
BY DEF WakeInv, WakesTypeOK, PaidKeepsWake, DriverStates

\* A wake that is done with leaves the run with the others of its list.
LEMMA HandledMoves ==
  ASSUME WakeInv, NEW w, Handled(w)
  PROVE  /\ driver' \in DriverStates
         /\ driver'.at # "acknowledge"
         /\ driver'.wakes \subseteq driver.wakes
BY DEF WakeInv, Handled, DriverStates, NoWake

\* A run lists, looks up and acknowledges: only a stored order's wake goes.
LEMMA DriverKeeps ==
  ASSUME WakeInv, WakeStep \/ LookStep
  PROVE  WakeInv'
<1>0. \A w \in driver.wakes : w \in Wakes /\ w.generation <= delivered[w.attempt]
  BY DEF WakeInv, WakesTypeOK
<1>1. ordered \subseteq paidAt
  BY DEF WakeInv, WakesTypeOK
<1>2. CASE StartsRun
  <2>1. driver' \in DriverStates /\ driver'.wakes = {} /\ driver'.at # "acknowledge"
    BY <1>2 DEF StartsRun, Waiting, DriverStates, NoWake, WakeInv, WakesTypeOK, Setups
  <2> QED BY <1>1, <1>2, <2>1, DriverMoves DEF StartsRun
<1>3. CASE ListFails
  <2>1. driver' \in DriverStates /\ driver'.wakes = {} /\ driver'.at # "acknowledge"
    BY <1>3 DEF ListFails, RunError, Waiting, DriverStates, NoWake
  <2> QED BY <1>1, <1>3, <2>1, DriverMoves DEF ListFails
<1>4. CASE ListsWakes
  <2>1. PICK list \in SUBSET Listed :
          IF Admissible(list) /\ Valid(list)
          THEN driver' = [driver EXCEPT !.wakes = list,
                            !.at = IF list = {} THEN "idle" ELSE "look"]
          ELSE RunError
    BY <1>4 DEF ListsWakes
  <2>2. \A w \in list : w \in Wakes /\ w.generation <= delivered[w.attempt]
    <3> SUFFICES ASSUME NEW w \in list
                 PROVE  w \in Wakes /\ w.generation <= delivered[w.attempt]
      OBVIOUS
    <3>1. w \in Wakes /\ w.generation = waking[w.attempt]
      BY DEF Listed
    <3>2. w.attempt \in WakeAttempts /\ w.generation \in Generations \ {0}
      BY <3>1 DEF Wakes
    <3>3. waking[w.attempt] \in {0, delivered[w.attempt]}
      BY <3>2 DEF WakeInv, WakesTypeOK
    <3>4. delivered[w.attempt] \in Nat
      BY <3>2 DEF WakeInv, Generations
    <3> QED BY <3>1, <3>2, <3>3, <3>4
  <2>3. CASE Admissible(list) /\ Valid(list)
    <3>1. driver' \in DriverStates /\ driver'.wakes = list /\ driver'.at # "acknowledge"
      BY <2>1, <2>2, <2>3 DEF DriverStates, WakeInv
    <3> QED BY <1>1, <1>4, <2>2, <3>1, DriverMoves DEF ListsWakes
  <2>4. CASE ~(Admissible(list) /\ Valid(list))
    <3>1. driver' \in DriverStates /\ driver'.wakes = {} /\ driver'.at # "acknowledge"
      BY <2>1, <2>4 DEF RunError, Waiting, DriverStates, NoWake
    <3> QED BY <1>1, <1>4, <3>1, DriverMoves DEF ListsWakes
  <2> QED BY <2>3, <2>4
<1>5. ASSUME NEW w \in Wakes, LooksUpWake(w) PROVE WakeInv'
  <2>1. CASE w.attempt \in paidAt
    <3>1. /\ ordered' = ordered \cup {w.attempt}
          /\ driver' = [driver EXCEPT !.at = "acknowledge", !.now = w]
          /\ w \in driver.wakes
      BY <1>5, <2>1 DEF LooksUpWake
    <3>2. /\ driver' \in DriverStates /\ driver'.wakes = driver.wakes
          /\ driver'.now = w
      BY <3>1 DEF DriverStates, WakeInv
    <3> QED BY <1>0, <1>1, <1>5, <2>1, <3>1, <3>2, DriverMoves DEF LooksUpWake
  <2>2. CASE w.attempt \notin paidAt
    <3>1. Handled(w) /\ UNCHANGED ordered
      BY <1>5, <2>2 DEF LooksUpWake
    <3> QED BY <1>0, <1>1, <1>5, <3>1, HandledMoves, DriverMoves DEF LooksUpWake
  <2> QED BY <2>1, <2>2
<1>6. ASSUME NEW w \in Wakes, OutcomeUnknown(w) PROVE WakeInv'
  BY <1>0, <1>1, <1>6, HandledMoves, DriverMoves DEF OutcomeUnknown
<1>7. CASE AcknowledgeFails
  BY <1>0, <1>1, <1>7, HandledMoves, DriverMoves DEF AcknowledgeFails
<1>8. CASE Acknowledges
  <2> DEFINE n == driver.now
             b == n.attempt
  <2>1. /\ n \in driver.wakes /\ b \in ordered
        /\ waking' = [waking EXCEPT ![b] = IF @ = n.generation THEN 0 ELSE @]
        /\ Handled(n)
        /\ UNCHANGED <<setup, spoilt, paidAt, delivered, ordered>>
    BY <1>8 DEF Acknowledges, WakeInv
  <2>2. b \in WakeAttempts
    BY <1>0, <2>1 DEF Wakes
  <2>3. /\ waking' \in [WakeAttempts -> Generations]
        /\ \A a \in WakeAttempts :
             waking'[a] = waking[a] \/ (a = b /\ waking'[a] = 0)
    <3>1. 0 \in Generations
      BY WakeAssumption DEF Generations
    <3> QED BY <2>1, <2>2, <3>1 DEF WakeInv
  <2>4. driver' \in DriverStates /\ driver'.at # "acknowledge"
        /\ driver'.wakes \subseteq driver.wakes
    BY <2>1, HandledMoves
  <2>5. WakesTypeOK'
    BY <1>0, <2>1, <2>3, <2>4 DEF WakeInv, WakesTypeOK, DriverStates
  <2>6. PaidKeepsWake'
    BY <1>1, <2>1, <2>3 DEF WakeInv, WakesTypeOK, PaidKeepsWake
  <2> QED BY <2>1, <2>3, <2>4, <2>5, <2>6 DEF WakeInv, DriverStates
<1> QED BY <1>2, <1>3, <1>4, <1>5, <1>6, <1>7, <1>8 DEF WakeStep, LookStep

\* Every step of Payments and of the driver keeps it.
LEMMA WakesStep == WakeInv /\ [WakesNext]_wakeVars => WakeInv'
<1> SUFFICES ASSUME WakeInv, [WakesNext]_wakeVars PROVE WakeInv'
  OBVIOUS
<1>1. CASE UNCHANGED wakeVars
  BY <1>1 DEF wakeVars, WakeInv, WakesTypeOK, PaidKeepsWake
<1> QED BY <1>1, DeliverKeeps, DriverKeeps DEF WakesNext

\* A paid attempt's wake is there, the newest one, until its order is stored:
\* however lists, lookups and acknowledgements fail or cross with deliveries,
\* for any attempts, list limit and number of deliveries.
THEOREM WakeOutlivesFailures == WakesSpec => [](WakesTypeOK /\ PaidKeepsWake)
<1>1. WakeInv => WakesTypeOK /\ PaidKeepsWake
  BY DEF WakeInv
<1> QED BY <1>1, WakesBegin, WakesStep, PTL DEF WakesSpec
=============================================================================
