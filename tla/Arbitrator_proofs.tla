------------------------- MODULE Arbitrator_proofs -------------------------
(***************************************************************************)
(* The Arbitrator's safety properties, for every budget, speed, settle     *)
(* window, and every pattern of failed applies.                            *)
(*                                                                         *)
(* IInv is inductive.  CountMeansOverBudget is the part the listed         *)
(* properties lack: a compensator that has counted a cycle did so in the   *)
(* latest one, against the budget now in force.  Without it nothing ties   *)
(* the over_count a penalty grows from to the speeds of the poll before.   *)
(***************************************************************************)
EXTENDS Arbitrator, Allocator_proofs

CountMeansOverBudget == compensator.over_count > 0 => OverBudget

IInv == /\ ArbTypeOK
        /\ PenaltyFitsBudget
        /\ FairShareOnScale
        /\ RecommendedWithinScale
        /\ CountMeansOverBudget

\* A budget is one the fractions of allocator.py divide exactly.
LEMMA TotalFacts ==
    ASSUME NEW total \in Totals
    PROVE  total \in Nat /\ total % 200 = 0
BY TotalsAssumption DEF TotalsAssumption

\* The longer of the settle windows is a number of ticks.
LEMMA CapFacts == AgeCap \in Nat
BY SettleAssumption DEF SettleAssumption, AgeCap, Greatest

\* Everything step() computes from type-correct fields, named once: the share
\* it decides and the limit it leaves qBittorrent after the penalty.
LEMMA StepOutcome ==
    ASSUME ArbTypeOK,
           NEW qs \in Nat, NEW ss \in Nat,
           NEW total \in Totals, NEW rebaseline \in BOOLEAN,
           Step(qs, ss, total, rebaseline)
    PROVE  \E share \in [qbit : Nat, sab : Nat], new_qbit \in Nat :
              /\ 2 * share.qbit >= 2 * Headroom(total) - Byte
              /\ 2 * share.qbit <= 2 * total + Byte
              /\ 2 * share.sab >= 2 * Headroom(total) - Byte
              /\ 2 * share.sab <= 2 * total + Byte
              /\ 2 * new_qbit >= 2 * Headroom(total) - Byte
              /\ 2 * new_qbit <= 2 * total + Byte
              /\ Active(qs) /\ Active(ss) => new_qbit + share.sab <= total + Byte
              /\ to_apply' =
                    [qbit |-> IF QbitShouldApply(new_qbit, compensator'.penalty, rebaseline)
                              THEN new_qbit ELSE NoApply,
                     sab |-> IF SabShouldApply(share.sab, rebaseline)
                             THEN share.sab ELSE NoApply]
              /\ qbit_fair_share' \in {share.qbit, ShareBase(total, rebaseline).qbit}
              /\ since_reallocation' =
                    IF /\ FairnessAllowed(rebaseline)
                       /\ \/ share.qbit # ShareBase(total, rebaseline).qbit
                          \/ share.sab # limit["sab"]
                    THEN 0 ELSE since_reallocation
              /\ since_qbit_apply' \in {0, since_qbit_apply}
<1> DEFINE base == ShareBase(total, rebaseline)
           share == Allocate(qs, ss, base.qbit, base.sab, total)
           updated == OvershootUpdate(CompensatorFor(total), qs + ss, total)
           new_qbit == Corrected(share.qbit, updated.penalty, total)
<1>1. total \in Nat /\ total % 200 = 0
  BY TotalFacts
<1>2. base.qbit \in Int /\ base.sab \in Int
  BY <1>1 DEF ShareBase, ArbTypeOK, App
<1>3. share = [qbit |-> share.qbit, sab |-> share.sab]
  BY DEF Allocate
<1>4. compensator' = updated
  BY DEF Step
<1>5. CompensatorFor(total) \in Compensators
  BY DEF CompensatorFor, NewCompensator, ArbTypeOK, ConfirmCycles, Compensators
<1>6. /\ to_apply' =
            [qbit |-> IF QbitShouldApply(new_qbit, updated.penalty, rebaseline)
                      THEN new_qbit ELSE NoApply,
             sab |-> IF SabShouldApply(share.sab, rebaseline)
                     THEN share.sab ELSE NoApply]
      /\ qbit_fair_share' \in {share.qbit, base.qbit}
      /\ since_reallocation' =
            IF /\ FairnessAllowed(rebaseline)
               /\ share.qbit # base.qbit \/ share.sab # limit["sab"]
            THEN 0 ELSE since_reallocation
      /\ since_qbit_apply' \in {0, since_qbit_apply}
  BY DEF Step
<1> HIDE DEF base
<1>7. /\ share.qbit \in Nat /\ share.sab \in Nat
      /\ 2 * share.qbit >= 2 * Headroom(total) - Byte
      /\ 2 * share.sab >= 2 * Headroom(total) - Byte
      /\ 2 * share.qbit <= 2 * total + Byte
      /\ 2 * share.sab <= 2 * total + Byte
      /\ Active(qs) /\ Active(ss) =>
            /\ share.qbit + share.sab <= total + Byte
            /\ 2 * share.sab <= 2 * (total - Headroom(total)) + Byte
  <2> HIDE DEF share
  <2>1. share = Allocate(qs, ss, base.qbit, base.sab, total)
    BY DEF share
  <2> QED
    BY <1>1, <1>2, <2>1, AllocateFitsBudget
<1>8. updated.penalty \in Nat
  <2>1. qs + ss \in Nat
    BY <1>1
  <2> DEFINE comp == CompensatorFor(total)
  <2>2. comp \in Compensators /\ updated = OvershootUpdate(comp, qs + ss, total)
    BY <1>5
  <2> HIDE DEF comp, updated, share, new_qbit
  <2>3. updated \in Compensators
    BY <1>1, <2>1, <2>2, OvershootUpdateBound
  <2> QED
    BY <2>3 DEF Compensators
<1> HIDE DEF share, updated
<1>9. /\ new_qbit \in Nat
      /\ 2 * new_qbit >= 2 * Headroom(total) - Byte
      /\ 2 * new_qbit <= 2 * total + Byte
      /\ new_qbit <= share.qbit \/ new_qbit = Headroom(total)
  BY <1>1, <1>7, <1>8, HeadroomBound, ByteType DEF Corrected, Greatest
<1> HIDE DEF new_qbit
<1>10. Active(qs) /\ Active(ss) => new_qbit + share.sab <= total + Byte
  BY <1>1, <1>7, <1>9, HeadroomBound, ByteType
<1>11. share \in [qbit : Nat, sab : Nat]
  BY <1>3, <1>7
<1> QED
  BY <1>4, <1>6, <1>7, <1>9, <1>10, <1>11 DEF base

\* The Arbitrator that __init__ makes satisfies the inductive invariant.
THEOREM InitIInv == ArbInit => IInv
<1> SUFFICES ASSUME ArbInit PROVE IInv
  OBVIOUS
<1> PICK total \in Totals : ArbInitAt(total)
  BY DEF ArbInit
<1> USE DEF ArbInitAt
<1>1. total \in Nat /\ total % 200 = 0
  BY TotalFacts
<1>2. ArbTypeOK
  BY <1>1, CapFacts DEF ArbTypeOK, NewCompensator, Compensators, ConfirmCycles,
                      NothingAsked
<1>3. PenaltyFitsBudget
  BY <1>1 DEF PenaltyFitsBudget, NewCompensator
<1>4. FairShareOnScale
  BY <1>1, HeadroomBound, ByteType DEF FairShareOnScale
<1>5. RecommendedWithinScale
  BY DEF RecommendedWithinScale
<1>6. CountMeansOverBudget
  BY DEF CountMeansOverBudget, NewCompensator
<1> QED
  BY <1>2, <1>3, <1>4, <1>5, <1>6 DEF IInv

\* The compensator after a step(): what it may have become and why.
LEMMA CompensatorOutcome ==
    ASSUME ArbTypeOK, PenaltyFitsBudget, CountMeansOverBudget,
           NEW qs \in Nat, NEW ss \in Nat,
           NEW total \in Totals, NEW rebaseline \in BOOLEAN,
           Step(qs, ss, total, rebaseline)
    PROVE  /\ compensator' \in Compensators
           /\ PenaltyFitsBudget'
           /\ CountMeansOverBudget'
           /\ compensator'.penalty > 0 =>
                 /\ last_total' = last_total
                 /\ \/ compensator'.penalty <= compensator.penalty
                    \/ OverBudget /\ OverBudget'
<1> DEFINE comp == CompensatorFor(total)
           combined == qs + ss
<1>1. total \in Nat /\ total % 200 = 0 /\ combined \in Nat
  BY TotalFacts
<1>2. /\ comp \in Compensators
      /\ comp.penalty <= total
      /\ total # last_total => comp.penalty = 0 /\ comp.over_count = 0
      /\ total = last_total => comp = compensator
  BY <1>1 DEF CompensatorFor, NewCompensator, ArbTypeOK, ConfirmCycles,
                 PenaltyFitsBudget, Compensators
<1>3. compensator' = OvershootUpdate(comp, combined, total)
  BY DEF Step
<1>4. /\ last_total' = total
      /\ OverBudget' <=> OverMargin(combined, total)
  BY DEF Step, OverBudget
<1> HIDE DEF comp, combined
<1>5. /\ compensator' \in Compensators
      /\ comp.penalty <= total => compensator'.penalty <= total
      /\ compensator'.over_count > 0 => OverMargin(combined, total)
      /\ compensator'.penalty > comp.penalty =>
            OverMargin(combined, total) /\ comp.over_count > 0
  BY <1>1, <1>2, <1>3, OvershootUpdateBound
<1>6. PenaltyFitsBudget'
  BY <1>2, <1>4, <1>5 DEF PenaltyFitsBudget
<1>7. CountMeansOverBudget'
  BY <1>4, <1>5 DEF CountMeansOverBudget
<1>8. ASSUME compensator'.penalty > 0
      PROVE  /\ last_total' = last_total
             /\ \/ compensator'.penalty <= compensator.penalty
                \/ OverBudget /\ OverBudget'
  <2>1. CASE compensator'.penalty <= comp.penalty
    <3>1. comp.penalty > 0
      BY <1>2, <1>5, <1>8, <2>1 DEF Compensators
    <3> QED
      BY <1>2, <1>4, <2>1, <3>1
  <2>2. CASE compensator'.penalty > comp.penalty
    <3>1. comp.over_count > 0 /\ OverBudget'
      BY <1>4, <1>5, <2>2
    <3>2. total = last_total /\ comp = compensator
      BY <1>2, <3>1
    <3> QED
      BY <1>4, <3>1, <3>2 DEF CountMeansOverBudget
  <2> QED
    BY <1>2, <1>5, <2>1, <2>2 DEF Compensators
<1> QED
  BY <1>5, <1>6, <1>7, <1>8

\* Every call of step() preserves the inductive invariant.
LEMMA PollIInv ==
    ASSUME IInv, Poll
    PROVE  IInv'
<1> USE DEF IInv
<1> PICK qs \in Speeds, ss \in Speeds, total \in Totals, rebaseline \in BOOLEAN :
        /\ total # last_total => rebaseline
        /\ Step(qs, ss, total, rebaseline)
  BY DEF Poll
<1>1. /\ total \in Nat /\ total % 200 = 0 /\ last_total' = total
      /\ qs \in Nat /\ ss \in Nat
  BY TotalFacts, SpeedsAssumption DEF Step, SpeedsAssumption
<1> PICK share \in [qbit : Nat, sab : Nat], new_qbit \in Nat :
        /\ 2 * share.qbit >= 2 * Headroom(total) - Byte
        /\ 2 * share.qbit <= 2 * total + Byte
        /\ 2 * share.sab >= 2 * Headroom(total) - Byte
        /\ 2 * share.sab <= 2 * total + Byte
        /\ 2 * new_qbit >= 2 * Headroom(total) - Byte
        /\ 2 * new_qbit <= 2 * total + Byte
        /\ to_apply' =
              [qbit |-> IF QbitShouldApply(new_qbit, compensator'.penalty, rebaseline)
                        THEN new_qbit ELSE NoApply,
               sab |-> IF SabShouldApply(share.sab, rebaseline)
                       THEN share.sab ELSE NoApply]
        /\ qbit_fair_share' \in {share.qbit, ShareBase(total, rebaseline).qbit}
        /\ since_reallocation' \in {0, since_reallocation}
        /\ since_qbit_apply' \in {0, since_qbit_apply}
  BY <1>1, StepOutcome
<1>2. /\ compensator' \in Compensators
      /\ PenaltyFitsBudget'
      /\ CountMeansOverBudget'
  BY <1>1, CompensatorOutcome
<1>3. /\ to_apply' \in [App -> Nat \cup {NoApply}]
      /\ to_apply'["qbit"] \in {NoApply, new_qbit}
      /\ to_apply'["sab"] \in {NoApply, share.sab}
  BY DEF App
<1>4. FairShareOnScale' /\ qbit_fair_share' \in Nat
  <2>1. CASE qbit_fair_share' = share.qbit
    BY <1>1, <2>1 DEF FairShareOnScale
  <2>2. CASE qbit_fair_share' = ShareBase(total, rebaseline).qbit /\ rebaseline
    BY <1>1, <2>2, ByteType, HeadroomBound DEF FairShareOnScale, ShareBase
  <2>3. CASE qbit_fair_share' = ShareBase(total, rebaseline).qbit /\ ~rebaseline
    BY <1>1, <2>3 DEF FairShareOnScale, ShareBase, ArbTypeOK
  <2> QED
    BY <2>1, <2>2, <2>3
<1>5. ArbTypeOK'
  <2>1. /\ limit' = limit /\ limit_known' = limit_known
        /\ first_cycle' = FALSE
        /\ asked' = [qbit |-> qs, sab |-> ss, rebaseline |-> rebaseline]
    BY DEF Step
  <2>2. since_reallocation' \in 0..AgeCap /\ since_qbit_apply' \in 0..AgeCap
    BY CapFacts DEF ArbTypeOK
  <2> QED
    BY <1>1, <1>2, <1>3, <1>4, <2>1, <2>2 DEF ArbTypeOK
<1>6. RecommendedWithinScale'
  BY <1>1, <1>3 DEF RecommendedWithinScale, App
<1> QED
  BY <1>2, <1>4, <1>5, <1>6

\* Recording an applied limit preserves the inductive invariant.
LEMMA LimitAppliedIInv ==
    ASSUME IInv, NEW a \in App, LimitApplied(a)
    PROVE  IInv'
<1> USE DEF IInv, LimitApplied
<1>1. ArbTypeOK'
  BY DEF ArbTypeOK
<1>2. PenaltyFitsBudget' /\ FairShareOnScale' /\ CountMeansOverBudget'
  BY DEF PenaltyFitsBudget, FairShareOnScale, CountMeansOverBudget, OverBudget
<1>3. \A b \in App : to_apply'[b] # NoApply =>
          to_apply'[b] = to_apply[b]
  BY DEF ArbTypeOK
<1>4. RecommendedWithinScale'
  BY <1>3 DEF RecommendedWithinScale
<1> QED
  BY <1>1, <1>2, <1>4

\* A failed or skipped apply preserves the inductive invariant.
LEMMA LimitNotAppliedIInv ==
    ASSUME IInv, NEW a \in App, LimitNotApplied(a)
    PROVE  IInv'
<1> USE DEF IInv, LimitNotApplied
<1>1. ArbTypeOK'
  BY DEF ArbTypeOK
<1>2. PenaltyFitsBudget' /\ FairShareOnScale' /\ CountMeansOverBudget'
  BY DEF PenaltyFitsBudget, FairShareOnScale, CountMeansOverBudget, OverBudget
<1>3. \A b \in App : to_apply'[b] # NoApply => to_apply'[b] = to_apply[b]
  BY DEF ArbTypeOK
<1>4. RecommendedWithinScale'
  BY <1>3 DEF RecommendedWithinScale
<1> QED
  BY <1>1, <1>2, <1>4

\* The passing of time preserves the inductive invariant.
LEMMA TickIInv ==
    ASSUME IInv, Tick
    PROVE  IInv'
<1> USE DEF IInv, Tick
<1>1. ArbTypeOK'
  <2>1. since_reallocation' \in 0..AgeCap /\ since_qbit_apply' \in 0..AgeCap
    BY CapFacts DEF ArbTypeOK, Least
  <2> QED
    BY <2>1 DEF ArbTypeOK
<1>2. PenaltyFitsBudget' /\ FairShareOnScale' /\ CountMeansOverBudget'
  BY DEF PenaltyFitsBudget, FairShareOnScale, CountMeansOverBudget, OverBudget
<1>3. RecommendedWithinScale'
  BY DEF RecommendedWithinScale
<1> QED
  BY <1>1, <1>2, <1>3

\* The inductive invariant is preserved by everything that can happen to the
\* Arbitrator between two calls of its caller.
THEOREM NextIInv == IInv /\ [ArbNext]_arbVars => IInv'
<1> SUFFICES ASSUME IInv, [ArbNext]_arbVars PROVE IInv'
  OBVIOUS
<1>1. CASE Poll
  BY <1>1, PollIInv
<1>2. ASSUME NEW a \in App, LimitApplied(a) PROVE IInv'
  BY <1>2, LimitAppliedIInv
<1>3. ASSUME NEW a \in App, LimitNotApplied(a) PROVE IInv'
  BY <1>3, LimitNotAppliedIInv
<1>4. CASE Tick
  BY <1>4, TickIInv
<1>5. CASE UNCHANGED arbVars
  BY <1>5 DEF arbVars, IInv, ArbTypeOK, PenaltyFitsBudget, FairShareOnScale,
              RecommendedWithinScale, CountMeansOverBudget, OverBudget
<1> QED
  BY <1>1, <1>2, <1>3, <1>4, <1>5 DEF ArbNext

\* The inductive invariant holds of every Arbitrator at all times.
THEOREM Inductive == ArbSpec => []IInv
BY InitIInv, NextIInv, PTL DEF ArbSpec

-----------------------------------------------------------------------------
\* The fields keep their types: no share, limit or penalty goes negative and
\* no age is lost, under any sequence of polls and apply failures.
THEOREM TypeCorrect == ArbSpec => []ArbTypeOK
BY Inductive, PTL DEF IInv

\* The penalty never exceeds the budget in force, whatever budget it grew under.
THEOREM PenaltyIsBounded == ArbSpec => []PenaltyFitsBudget
BY Inductive, PTL DEF IInv

\* The fair share step() remembers is always a share of the budget in force.
THEOREM FairShareIsOnScale == ArbSpec => []FairShareOnScale
BY Inductive, PTL DEF IInv

\* Every limit step() asks for is between the minimum share and the budget.
THEOREM RecommendationIsOnScale == ArbSpec => []RecommendedWithinScale
BY Inductive, PTL DEF IInv

\* The arguments a call of step() was recorded with are arguments it can have.
LEMMA RecordedArguments ==
    ASSUME IInv'
    PROVE  /\ asked'.qbit \in Nat /\ asked'.sab \in Nat
           /\ asked'.rebaseline \in BOOLEAN
           /\ last_total' \in Totals
<1>1. ArbTypeOK'
  BY DEF IInv
<1>2. /\ asked' \in [qbit : Speeds \cup {0}, sab : Speeds \cup {0}, rebaseline : BOOLEAN]
      /\ last_total' \in Totals
  BY <1>1 DEF ArbTypeOK
<1>3. Speeds \cup {0} \subseteq Nat
  BY SpeedsAssumption DEF SpeedsAssumption
<1>4. /\ asked'.qbit \in Speeds \cup {0} /\ asked'.sab \in Speeds \cup {0}
      /\ asked'.rebaseline \in BOOLEAN
  BY <1>2
<1> QED
  BY <1>2, <1>3, <1>4

\* Two limits step() lets through for two downloading apps fit the budget.
LEMMA AllowedSplitStep ==
    IInv /\ IInv' =>
         [ Stepped /\ BothActive' /\ FairnessAllowed(asked'.rebaseline)
           => SplitFits' ]_arbVars
<1>1. ASSUME IInv, IInv', Stepped, BothActive', FairnessAllowed(asked'.rebaseline)
      PROVE  SplitFits'
  <2> DEFINE total == last_total'
             rebaseline == asked'.rebaseline
  <2>1. /\ asked'.qbit \in Nat /\ asked'.sab \in Nat
        /\ rebaseline \in BOOLEAN /\ total \in Totals
    BY <1>1, RecordedArguments
  <2>2. Step(asked'.qbit, asked'.sab, total, rebaseline)
    BY <1>1 DEF Stepped
  <2>3. Active(asked'.qbit) /\ Active(asked'.sab)
    BY <1>1 DEF BothActive
  <2>4. PICK share \in [qbit : Nat, sab : Nat], new_qbit \in Nat :
           /\ new_qbit + share.sab <= total + Byte
           /\ to_apply' =
                 [qbit |-> IF QbitShouldApply(new_qbit, compensator'.penalty, rebaseline)
                           THEN new_qbit ELSE NoApply,
                  sab |-> IF SabShouldApply(share.sab, rebaseline)
                          THEN share.sab ELSE NoApply]
    <3> HIDE DEF total, rebaseline
    <3> QED
      BY <1>1, <2>1, <2>2, <2>3, StepOutcome DEF IInv
  <2>5. limit' = limit
    BY <2>2 DEF Step
  <2>6. InForce("qbit")' = new_qbit
    BY <1>1, <2>4, <2>5 DEF InForce, QbitShouldApply, NoApply
  <2>7. InForce("sab")' = share.sab
    BY <1>1, <2>4, <2>5 DEF InForce, SabShouldApply, NoApply
  <2> QED
    BY <2>4, <2>6, <2>7 DEF SplitFits
<1> QED
  BY <1>1

\* Two downloading apps are left with limits that fit the budget by every
\* decision the settle gate lets through.
THEOREM AllowedSplitFits == ArbSpec => AllowedSplitFitsBudget
BY Inductive, AllowedSplitStep, PTL DEF AllowedSplitFitsBudget

\* A penalty that grows in a step has been earned by it and the one before.
LEMMA PenaltyStep ==
    IInv /\ IInv' =>
         [ Stepped /\ compensator'.penalty > 0 =>
             /\ last_total' = last_total
             /\ \/ compensator'.penalty <= compensator.penalty
                \/ OverBudget /\ OverBudget' ]_arbVars
<1>1. ASSUME IInv, IInv', Stepped, compensator'.penalty > 0
      PROVE  /\ last_total' = last_total
             /\ \/ compensator'.penalty <= compensator.penalty
                \/ OverBudget /\ OverBudget'
  <2>1. /\ asked'.qbit \in Nat /\ asked'.sab \in Nat
        /\ asked'.rebaseline \in BOOLEAN /\ last_total' \in Totals
    BY <1>1, RecordedArguments
  <2>2. Step(asked'.qbit, asked'.sab, last_total', asked'.rebaseline)
    BY <1>1 DEF Stepped
  <2> QED
    BY <1>1, <2>1, <2>2, CompensatorOutcome DEF IInv
<1> QED
  BY <1>1

\* The penalty grows only on two successive polls over the margin of the same
\* budget, and none survives a budget swap.
THEOREM PenaltyIsEarned == ArbSpec => EveryPenaltyIsEarned
BY Inductive, PenaltyStep, PTL DEF EveryPenaltyIsEarned

\* A step that pushes SABnzbd's known limit needs the window elapsed, and restarts it.
LEMMA SabPacedStep ==
    IInv /\ IInv' =>
         [ Stepped /\ limit_known["sab"] /\ to_apply'["sab"] # NoApply =>
             /\ since_reallocation' = 0
             /\ \/ since_reallocation >= ReallocationSettle
                \/ first_cycle
                \/ asked'.rebaseline ]_arbVars
<1>1. ASSUME IInv, IInv', Stepped, limit_known["sab"], to_apply'["sab"] # NoApply
      PROVE  /\ since_reallocation' = 0
             /\ \/ since_reallocation >= ReallocationSettle
                \/ first_cycle
                \/ asked'.rebaseline
  <2> DEFINE total == last_total'
             rebaseline == asked'.rebaseline
  <2>1. /\ asked'.qbit \in Nat /\ asked'.sab \in Nat
        /\ rebaseline \in BOOLEAN /\ total \in Totals
    BY <1>1, RecordedArguments
  <2>2. Step(asked'.qbit, asked'.sab, total, rebaseline)
    BY <1>1 DEF Stepped
  <2> HIDE DEF total, rebaseline
  <2>3. PICK share \in [qbit : Nat, sab : Nat] :
           /\ to_apply'["sab"] = IF SabShouldApply(share.sab, rebaseline)
                                 THEN share.sab ELSE NoApply
           /\ since_reallocation' =
                 IF /\ FairnessAllowed(rebaseline)
                    /\ \/ share.qbit # ShareBase(total, rebaseline).qbit
                       \/ share.sab # limit["sab"]
                 THEN 0 ELSE since_reallocation
    BY <1>1, <2>1, <2>2, StepOutcome DEF IInv
  <2>4. FairnessAllowed(rebaseline) /\ share.sab # limit["sab"]
    BY <1>1, <2>3 DEF SabShouldApply
  <2> QED
    BY <2>3, <2>4 DEF FairnessAllowed, rebaseline
<1> QED
  BY <1>1

\* SABnzbd's known limit is changed at most once per settle window, rebaselines
\* aside.
THEOREM SabIsPaced == ArbSpec => SabPushesArePaced
BY Inductive, SabPacedStep, PTL DEF SabPushesArePaced

\* The penalty step() goes on with is a number of units.
LEMMA StepPenalty ==
    ASSUME ArbTypeOK, NEW qs \in Nat, NEW ss \in Nat, NEW total \in Totals,
           NEW rebaseline \in BOOLEAN, Step(qs, ss, total, rebaseline)
    PROVE  compensator'.penalty \in Nat
<1> DEFINE comp == CompensatorFor(total)
<1>1. total \in Nat /\ total % 200 = 0 /\ qs + ss \in Nat
  BY TotalFacts
<1>2. comp \in Compensators
  BY DEF CompensatorFor, NewCompensator, ArbTypeOK, ConfirmCycles, Compensators
<1>3. compensator' = OvershootUpdate(comp, qs + ss, total)
  BY DEF Step
<1> HIDE DEF comp
<1>4. compensator' \in Compensators
  BY <1>1, <1>2, <1>3, OvershootUpdateBound
<1> QED
  BY <1>4 DEF Compensators

\* step() with a rebaseline leaves two downloading apps half the budget each, less
\* qBittorrent's penalty, unless one of them has its half to spare for the other.
LEMMA EvenStep ==
    ASSUME ArbTypeOK,
           NEW qs \in Nat, NEW ss \in Nat, NEW total \in Totals,
           Step(qs, ss, total, TRUE),
           Active(qs), Active(ss),
           ~(Slack(qs, total \div 2) /\ Hungry(ss, total \div 2)),
           ~(Slack(ss, total \div 2) /\ Hungry(qs, total \div 2))
    PROVE  /\ InForce("sab")' = Round(total \div 2)
           /\ InForce("qbit")' = Corrected(Round(total \div 2), compensator'.penalty, total)
<1> DEFINE half == total \div 2
           base == ShareBase(total, TRUE)
           share == Allocate(qs, ss, base.qbit, base.sab, total)
           comp == OvershootUpdate(CompensatorFor(total), qs + ss, total)
           new_qbit == Corrected(share.qbit, comp.penalty, total)
<1>1. total \in Nat /\ total % 200 = 0
  BY TotalFacts
<1>2. base.qbit = half /\ base.sab = half
  BY DEF ShareBase
<1>3. /\ compensator' = comp
      /\ to_apply' = [qbit |-> IF QbitShouldApply(new_qbit, comp.penalty, TRUE)
                               THEN new_qbit ELSE NoApply,
                      sab |-> IF SabShouldApply(share.sab, TRUE)
                              THEN share.sab ELSE NoApply]
      /\ limit' = limit
  BY DEF Step
<1>4. share = [qbit |-> Round(half), sab |-> Round(half)]
  <2> HIDE DEF base
  <2> QED
    BY <1>1, <1>2, AllocateEvenly
<1>9. comp.penalty \in Nat
  BY <1>1, <1>3, StepPenalty
<1> HIDE DEF base, comp, share
<1>5. new_qbit = Corrected(Round(half), comp.penalty, total)
  BY <1>4
<1>6. Round(half) \in Nat
  BY <1>1, RoundNat
<1>10. new_qbit \in Nat
  BY <1>1, <1>5, <1>6, <1>9, HeadroomBound DEF Corrected, Greatest
<1> HIDE DEF half, new_qbit
<1>7. InForce("qbit")' = new_qbit
  <2>1. CASE QbitShouldApply(new_qbit, comp.penalty, TRUE)
    BY <1>3, <1>10, <2>1 DEF InForce, NoApply
  <2>2. CASE ~QbitShouldApply(new_qbit, comp.penalty, TRUE)
    <3>1. limit["qbit"] = new_qbit
      BY <2>2 DEF QbitShouldApply, FairnessAllowed
    <3> QED
      BY <1>3, <2>2, <3>1 DEF InForce
  <2> QED
    BY <2>1, <2>2
<1>8. InForce("sab")' = Round(half)
  BY <1>3, <1>4, <1>6 DEF InForce, SabShouldApply, FairnessAllowed, NoApply
<1> QED
  BY <1>3, <1>5, <1>7, <1>8 DEF half

\* So it does in every step that is a call of step().
LEMMA RebaselineStep ==
    IInv /\ IInv' =>
         [ /\ Stepped /\ asked'.rebaseline /\ BothActive'
           /\ ~(Slack(asked'.qbit, last_total' \div 2) /\ Hungry(asked'.sab, last_total' \div 2))
           /\ ~(Slack(asked'.sab, last_total' \div 2) /\ Hungry(asked'.qbit, last_total' \div 2))
           => /\ InForce("sab")' = Round(last_total' \div 2)
              /\ InForce("qbit")' =
                    Corrected(Round(last_total' \div 2), compensator'.penalty, last_total') ]_arbVars
<1>1. ASSUME IInv, IInv', Stepped, asked'.rebaseline, BothActive',
             ~(Slack(asked'.qbit, last_total' \div 2) /\ Hungry(asked'.sab, last_total' \div 2)),
             ~(Slack(asked'.sab, last_total' \div 2) /\ Hungry(asked'.qbit, last_total' \div 2))
      PROVE  /\ InForce("sab")' = Round(last_total' \div 2)
             /\ InForce("qbit")' =
                   Corrected(Round(last_total' \div 2), compensator'.penalty, last_total')
  <2> DEFINE qs == asked'.qbit
             ss == asked'.sab
             total == last_total'
             rebaseline == asked'.rebaseline
  <2>1. /\ qs \in Nat /\ ss \in Nat /\ total \in Totals /\ rebaseline = TRUE
    BY <1>1, RecordedArguments
  <2>2. Active(qs) /\ Active(ss) /\ Step(qs, ss, total, rebaseline)
    BY <1>1 DEF BothActive, Stepped
  <2>3. /\ ~(Slack(qs, total \div 2) /\ Hungry(ss, total \div 2))
        /\ ~(Slack(ss, total \div 2) /\ Hungry(qs, total \div 2))
        /\ ArbTypeOK
    BY <1>1 DEF IInv
  <2> HIDE DEF qs, ss, total, rebaseline
  <2>4. /\ InForce("sab")' = Round(total \div 2)
        /\ InForce("qbit")' = Corrected(Round(total \div 2), compensator'.penalty, total)
    BY <2>1, <2>2, <2>3, EvenStep
  <2> QED
    BY <2>4 DEF total
<1> QED
  BY <1>1

\* Whenever a rebaseline is consumed with both apps downloading, each restarts from
\* half the budget, less a penalty of qBittorrent's that is still valid, unless one
\* has its half to spare for the other.
THEOREM RebaselineSplitsEvenly == ArbSpec => RebaselineIsEven
BY Inductive, RebaselineStep, PTL DEF RebaselineIsEven

\* step() with the settle gate open leaves limits that hand out the whole budget.
LEMMA StepHandsOut ==
    ASSUME ArbTypeOK, NEW qs \in Nat, NEW ss \in Nat, NEW total \in Totals,
           NEW rebaseline \in BOOLEAN, Step(qs, ss, total, rebaseline),
           FairnessAllowed(rebaseline)
    PROVE  /\ Active(qs) /\ Active(ss) =>
                  InForce("qbit")' + InForce("sab")' >= total - compensator'.penalty - Byte
           /\ ~(Active(qs) /\ Active(ss)) =>
                  /\ InForce("sab")' = Round(total)
                  /\ InForce("qbit")' >= Round(total) - compensator'.penalty
<1> DEFINE base == ShareBase(total, rebaseline)
           share == Allocate(qs, ss, base.qbit, base.sab, total)
           comp == OvershootUpdate(CompensatorFor(total), qs + ss, total)
           new_qbit == Corrected(share.qbit, comp.penalty, total)
<1>1. total \in Nat /\ total % 200 = 0
  BY TotalFacts
<1>2. base.qbit \in Int /\ base.sab \in Int
  BY <1>1 DEF ShareBase, ArbTypeOK, App
<1>3. /\ compensator' = comp
      /\ to_apply' = [qbit |-> IF QbitShouldApply(new_qbit, comp.penalty, rebaseline)
                               THEN new_qbit ELSE NoApply,
                      sab |-> IF SabShouldApply(share.sab, rebaseline)
                              THEN share.sab ELSE NoApply]
      /\ limit' = limit
  BY DEF Step
<1>4. comp.penalty \in Nat
  BY <1>3, StepPenalty
<1>5. ~(Active(qs) /\ Active(ss)) => share.qbit = Round(total) /\ share.sab = Round(total)
  BY DEF Allocate
<1> HIDE DEF base, comp
<1>6. /\ share.qbit \in Nat /\ share.sab \in Nat
      /\ Active(qs) /\ Active(ss) => share.qbit + share.sab >= total - Byte
  <2> HIDE DEF share
  <2>1. share = Allocate(qs, ss, base.qbit, base.sab, total)
    BY DEF share
  <2> QED
    BY <1>1, <1>2, <2>1, AllocateFitsBudget
<1> HIDE DEF share
<1>7. new_qbit \in Nat /\ new_qbit >= share.qbit - comp.penalty
  BY <1>1, <1>4, <1>6, HeadroomBound DEF Corrected, Greatest
<1> HIDE DEF new_qbit
<1>8. InForce("qbit")' = new_qbit
  BY <1>3, <1>7 DEF InForce, QbitShouldApply, NoApply
<1>9. InForce("sab")' = share.sab
  BY <1>3, <1>6 DEF InForce, SabShouldApply, NoApply
<1>10. Active(qs) /\ Active(ss) => new_qbit + share.sab >= total - comp.penalty - Byte
  BY <1>1, <1>4, <1>6, <1>7, ByteType
<1> QED
  BY <1>3, <1>5, <1>7, <1>8, <1>9, <1>10

\* So does every step that is a call of step().
LEMMA StrandedStep ==
    IInv /\ IInv' =>
         [ Stepped /\ FairnessAllowed(asked'.rebaseline) =>
             /\ BothActive' => InForce("qbit")' + InForce("sab")'
                                  >= last_total' - compensator'.penalty - Byte
             /\ ~BothActive' =>
                   /\ InForce("sab")' = Round(last_total')
                   /\ InForce("qbit")' >= Round(last_total') - compensator'.penalty ]_arbVars
<1>1. ASSUME IInv, IInv', Stepped, FairnessAllowed(asked'.rebaseline)
      PROVE  /\ BothActive' => InForce("qbit")' + InForce("sab")'
                                  >= last_total' - compensator'.penalty - Byte
             /\ ~BothActive' =>
                   /\ InForce("sab")' = Round(last_total')
                   /\ InForce("qbit")' >= Round(last_total') - compensator'.penalty
  <2> DEFINE qs == asked'.qbit
             ss == asked'.sab
             total == last_total'
             rebaseline == asked'.rebaseline
  <2>1. qs \in Nat /\ ss \in Nat /\ rebaseline \in BOOLEAN /\ total \in Totals
    BY <1>1, RecordedArguments
  <2>2. ArbTypeOK /\ Step(qs, ss, total, rebaseline) /\ FairnessAllowed(rebaseline)
    BY <1>1 DEF Stepped, IInv
  <2>3. BothActive' <=> Active(qs) /\ Active(ss)
    BY DEF BothActive
  <2> HIDE DEF qs, ss, total, rebaseline
  <2>4. /\ BothActive' => InForce("qbit")' + InForce("sab")'
                             >= total - compensator'.penalty - Byte
        /\ ~BothActive' =>
              /\ InForce("sab")' = Round(total)
              /\ InForce("qbit")' >= Round(total) - compensator'.penalty
    BY <2>1, <2>2, <2>3, StepHandsOut
  <2> QED
    BY <2>4 DEF total
<1> QED
  BY <1>1

\* No decision that may move shares leaves budget unused: a lone downloader has all
\* of it (allocator.py:30-31) and two make it up, but for the penalty, whatever
\* shares, penalties, failed calls and budgets came before.
THEOREM BudgetIsHandedOut == ArbSpec => NoBudgetIsStranded
BY Inductive, StrandedStep, PTL DEF NoBudgetIsStranded
=============================================================================
