-------------------------- MODULE StorefrontUpgrades --------------------------
(***************************************************************************)
(* The storefront upgrades a store set up from an older seed still has to  *)
(* run (features/store-shell/storefront-upgrades.ts).  Every isolate runs  *)
(* them on its first request, and `pnpm search:upgrade` reruns them all;   *)
(* nothing keeps two of these from running at once.  Each reads the list   *)
(* of recorded names once and writes it back whole after every step, so a  *)
(* slow writer can put an older list back.  What one step does to the      *)
(* schema is abstracted to whether it has run to its end; a step is safe   *)
(* to run twice.                                                           *)
(***************************************************************************)
EXTENDS Naturals

CONSTANTS
  Runners,    \* isolates and command-line runs
  Repairers,  \* the runners that rerun every step (`all`)
  Last,       \* the newest template's last step
  Version,    \* per runner: the last step of the template it was built from
  MayFail     \* whether a step, or the write of the list, can fail

ASSUME UpgradeAssumption ==
  /\ Last \in Nat
  /\ Repairers \subseteq Runners
  /\ Version \in [Runners -> 0 .. Last]
  /\ MayFail \in BOOLEAN

VARIABLES
  seeded,    \* EmDash finished seeding the store, or its owner setting it up
  ran,       \* steps that have run to their end at least once
  recorded,  \* the option dinkus:storefront-upgrades
  pc,        \* per runner: the await it is at
  known,     \* per runner: its own copy of the list
  at,        \* per runner: the step it runs or records
  done       \* per runner: it has nothing left to do in this isolate

vars == <<seeded, ran, recorded, pc, known, at, done>>

Upgrades == 1 .. Last

TypeOK ==
  /\ seeded \in BOOLEAN
  /\ ran \subseteq Upgrades
  /\ recorded \subseteq Upgrades
  /\ pc \in [Runners -> {"idle", "read", "run", "save"}]
  /\ known \in [Runners -> SUBSET Upgrades]
  /\ at \in [Runners -> Nat]
  /\ done \in [Runners -> BOOLEAN]

Init ==
  /\ seeded \in BOOLEAN
  /\ ran = {} /\ recorded = {}
  /\ pc = [i \in Runners |-> "idle"]
  /\ known = [i \in Runners |-> {}]
  /\ at = [i \in Runners |-> 1]
  /\ done = [i \in Runners |-> FALSE]
-----------------------------------------------------------------------------
Goto(i, stage) == pc' = [pc EXCEPT ![i] = stage]

\* Mutant: the list says one step too many.
RemainingPast(i, list, from) ==
  {k \in from .. Version[i] + 1 : i \in Repairers \/ k \notin list}

\* The steps a runner still has to run once those before `from` are behind it.
Remaining(i, list, from) ==
  {k \in from .. Version[i] : i \in Repairers \/ k \notin list}

\* On to the oldest step that remains, or to the end of the run.
Continue(i, list, from) ==
  \/ /\ Remaining(i, list, from) # {}
     /\ \E k \in Remaining(i, list, from) :
          /\ \A j \in Remaining(i, list, from) : k <= j
          /\ at' = [at EXCEPT ![i] = k]
     /\ Goto(i, "run")
     /\ UNCHANGED done
  \/ /\ Remaining(i, list, from) = {}
     /\ Goto(i, "idle")
     /\ done' = [done EXCEPT ![i] = TRUE]
     /\ UNCHANGED at

\* EmDash seeds the store, or its owner sets it up.
Seed ==
  /\ ~seeded
  /\ seeded' = TRUE
  /\ UNCHANGED <<ran, recorded, pc, known, at, done>>

\* storefrontUpgrader: a request starts the run unless it is done or running,
\* and only once the store is set up; the command line does not ask.
Begin(i) ==
  /\ pc[i] = "idle"
  /\ ~done[i]
  /\ seeded \/ i \in Repairers
  /\ Goto(i, "read")
  /\ UNCHANGED <<seeded, ran, recorded, known, at, done>>

ReadList(i) ==
  /\ pc[i] = "read"
  /\ known' = [known EXCEPT ![i] = recorded]
  /\ Continue(i, recorded, 1)
  /\ UNCHANGED <<seeded, ran, recorded>>

ReadFails(i) ==
  /\ pc[i] = "read"
  /\ MayFail
  /\ Goto(i, "idle")
  /\ UNCHANGED <<seeded, ran, recorded, known, at, done>>

RunUpgrade(i) ==
  /\ pc[i] = "run"
  /\ ran' = ran \cup {at[i]}
  /\ Goto(i, "save")
  /\ UNCHANGED <<seeded, recorded, known, at, done>>

\* Mutant: a failed step does not stop the run.
RunOn(i) ==
  /\ pc[i] = "run"
  /\ MayFail
  /\ Goto(i, "save")
  /\ UNCHANGED <<seeded, ran, recorded, known, at, done>>

\* Mutant: a run that failed counts as done.
RunGivesUp(i) ==
  /\ pc[i] = "run"
  /\ MayFail
  /\ Goto(i, "idle")
  /\ done' = [done EXCEPT ![i] = TRUE]
  /\ UNCHANGED <<seeded, ran, recorded, known, at>>

\* A step that fails stops the run, unrecorded, to be tried again later.
RunFails(i) ==
  /\ pc[i] = "run"
  /\ MayFail
  /\ Goto(i, "idle")
  /\ UNCHANGED <<seeded, ran, recorded, known, at, done>>

\* The runner's own list, with the step just run, replaces the stored one.
RecordUpgrade(i) ==
  LET list == known[i] \cup {at[i]} IN
  /\ pc[i] = "save"
  /\ known' = [known EXCEPT ![i] = list]
  /\ recorded' = list
  /\ Continue(i, list, at[i] + 1)
  /\ UNCHANGED <<seeded, ran>>

\* The write is refused, or its answer is lost after it was applied.
RecordFails(i) ==
  /\ pc[i] = "save"
  /\ MayFail
  /\ recorded' \in {recorded, known[i] \cup {at[i]}}
  /\ Goto(i, "idle")
  /\ UNCHANGED <<seeded, ran, known, at, done>>

\* The isolate goes, and a new one takes its place.
Evict(i) ==
  /\ Goto(i, "idle")
  /\ done' = [done EXCEPT ![i] = FALSE]
  /\ UNCHANGED <<seeded, ran, recorded, known, at>>

Work(i) ==
  \/ Begin(i) \/ ReadList(i) \/ ReadFails(i)
  \/ RunUpgrade(i) \/ RunFails(i)
  \/ RecordUpgrade(i) \/ RecordFails(i)

Next == Seed \/ \E i \in Runners : Work(i) \/ Evict(i)

Spec == Init /\ [][Next]_vars

(***************************************************************************)
(* What it takes to get there: the store is set up at some time, requests  *)
(* keep coming, and neither an isolate's read nor a step's run or write    *)
(* fails, or finds the isolate evicted, every time it is tried.            *)
(***************************************************************************)
LastingSpec ==
  /\ Init
  /\ [][Next]_vars
  /\ WF_vars(Seed)
  /\ \A i \in Runners :
       /\ WF_vars(Begin(i))
       /\ SF_vars(ReadList(i))
  /\ \A k \in Upgrades :
       /\ SF_vars(\E i \in Runners : at[i] = k /\ RunUpgrade(i))
       /\ SF_vars(\E i \in Runners : at[i] = k /\ RecordUpgrade(i))
-----------------------------------------------------------------------------
OldestFirstIn(S) == \A k \in S : \A j \in 1 .. k : j \in S

\* "Runs, in order": no step has run before every older one has, however the
\* runs overlap, fail and restart, and whichever template each came from.
OldestFirst == OldestFirstIn(ran)

\* "Recording each one as it succeeds": the stored list, also when an older
\* copy was put back, names only steps that have run, and leaves no gap.
RecordedRan == recorded \subseteq ran /\ OldestFirstIn(recorded)

\* A runner that is done has seen every step of its template run, though the
\* stored list may say otherwise.
DoneMeansRun == \A i \in Runners : done[i] => 1 .. Version[i] \subseteq ran

\* "A failed step stops the run unrecorded, so the next run starts again from
\* it": every step of every template comes to run in the end, however often it
\* failed and whichever older list was put back meanwhile.
UpgradesEnd == \A i \in Runners : <>(1 .. Version[i] \subseteq ran)
=============================================================================
