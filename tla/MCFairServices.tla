---------------------------- MODULE MCFairServices ----------------------------
(***************************************************************************)
(* The two parts of the store that start again until they have done what   *)
(* they are for, each on a small instance and under its own fairness: the  *)
(* storefront upgrades and the wakes of paid attempts.  They share no      *)
(* state; a behaviour is one of the part that `focus` names.               *)
(***************************************************************************)
EXTENDS StorefrontUpgrades, PaymentWakes

CONSTANTS old, new, repair

VARIABLE focus

\* Isolates of an older template stop one step short of the newest.
Versions == [i \in Runners |-> IF i = old THEN Last - 1 ELSE Last]

fairVars == <<focus, vars, wakeVars>>

\* The part that is not looked at has one beginning.
FairInit ==
  /\ focus \in {"upgrades", "wakes"}
  /\ Init /\ (focus = "upgrades" \/ seeded)
  /\ WakesInit /\ (focus = "wakes" \/ (setup = "none" /\ spoilt = {}))

InUpgrades(A) == focus = "upgrades" /\ A /\ UNCHANGED <<focus, wakeVars>>
InWakes(A) == focus = "wakes" /\ A /\ UNCHANGED <<focus, vars>>

FairNext == InUpgrades(Next) \/ InWakes(WakesNext)

\* LastingSpec and WakesFairSpec, each of the part that is looked at.
FairSpec ==
  /\ FairInit
  /\ [][FairNext]_fairVars
  /\ WF_fairVars(InUpgrades(Seed))
  /\ \A i \in Runners :
       /\ WF_fairVars(InUpgrades(Begin(i)))
       /\ SF_fairVars(InUpgrades(ReadList(i)))
  /\ \A k \in Upgrades :
       /\ SF_fairVars(InUpgrades(\E i \in Runners : at[i] = k /\ RunUpgrade(i)))
       /\ SF_fairVars(InUpgrades(\E i \in Runners : at[i] = k /\ RecordUpgrade(i)))
  /\ WF_fairVars(InWakes(WakeStep))
  /\ SF_fairVars(InWakes(ListsWakes))
  /\ \A a \in WakeAttempts : SF_fairVars(InWakes(LooksUp(a)))

\* UpgradesEnd of the behaviours that run upgrades: "a failed step stops the
\* run unrecorded, so the next run starts again from it", and every step of
\* every template comes to run in the end.
UpgradesComeToEnd == focus = "upgrades" => UpgradesEnd
=============================================================================
