----------------------------- MODULE Arbitrator -----------------------------
(***************************************************************************)
(* allocator.py's Arbitrator: allocate(), OvershootCompensator and the two *)
(* settle gates combined into the one decision taken per poll cycle.       *)
(*                                                                         *)
(* The variables are the object's fields.  Its two timestamps are kept as  *)
(* ages (now - last_..._at), counted up to the longer settle window: an    *)
(* age beyond it decides nothing more.  They are born there, the fields    *)
(* starting at 0.0 and the clock being time.time().                        *)
(*                                                                         *)
(* The caller is part of the specification only through what it may do to  *)
(* the object: call step() with this cycle's speeds, then report which of  *)
(* the recommended limits were really applied (the qbit_limit/sab_limit    *)
(* setters), at any pace and with any failures.  It asks for a rebaseline  *)
(* whenever it changes the budget; Controller is the caller.               *)
(***************************************************************************)
EXTENDS Allocator

CONSTANTS
    Totals,              \* the budgets: one per WAN link
    Speeds,              \* the speeds an app may be measured at
    ReallocationSettle,  \* reallocation_settle_seconds, in clock ticks
    OvershootSettle      \* overshoot_settle_seconds, in clock ticks

ASSUME TotalsAssumption ==
    /\ Totals # {}
    /\ \A t \in Totals : t \in Nat /\ t % 200 = 0
ASSUME SpeedsAssumption == Speeds \subseteq Nat
ASSUME SettleAssumption == ReallocationSettle \in Nat /\ OvershootSettle \in Nat

VARIABLES
    qbit_fair_share,     \* allocate()'s own share of qBittorrent
    limit,               \* limit[a]: _qbit_limit, _sab_limit
    limit_known,         \* limit_known[a]: whether limit[a] was ever applied
    since_reallocation,  \* now - last_reallocation_at
    since_qbit_apply,    \* now - last_qbit_apply_at
    compensator,         \* overshoot_compensator
    last_total,
    first_cycle,
    to_apply,            \* to_apply[a]: the limit step() asked for, or NoApply
    asked                \* the arguments of the latest step()

arbVars == <<qbit_fair_share, limit, limit_known, since_reallocation,
             since_qbit_apply, compensator, last_total, first_cycle,
             to_apply, asked>>

App == {"qbit", "sab"}
NoApply == -1
AgeCap == Greatest(ReallocationSettle, OvershootSettle)
NothingAsked == [qbit |-> 0, sab |-> 0, rebaseline |-> FALSE]

ArbTypeOK ==
    /\ qbit_fair_share \in Nat
    /\ limit \in [App -> Nat]
    /\ limit_known \in [App -> BOOLEAN]
    /\ since_reallocation \in 0..AgeCap
    /\ since_qbit_apply \in 0..AgeCap
    /\ compensator \in Compensators
    /\ last_total \in Totals
    /\ first_cycle \in BOOLEAN
    /\ to_apply \in [App -> Nat \cup {NoApply}]
    /\ asked \in [qbit : Speeds \cup {0}, sab : Speeds \cup {0}, rebaseline : BOOLEAN]

ArbInitAt(total) ==
    /\ qbit_fair_share = total
    /\ limit = [a \in App |-> total]
    /\ limit_known = [a \in App |-> FALSE]
    /\ since_reallocation = AgeCap
    /\ since_qbit_apply = AgeCap
    /\ compensator = NewCompensator
    /\ last_total = total
    /\ first_cycle = TRUE
    /\ to_apply = [a \in App |-> NoApply]
    /\ asked = NothingAsked

ArbInit == \E total \in Totals : ArbInitAt(total)

\* A new Arbitrator takes the place of the old one.
ArbRestart(total) ==
    /\ qbit_fair_share' = total
    /\ limit' = [a \in App |-> total]
    /\ limit_known' = [a \in App |-> FALSE]
    /\ since_reallocation' = AgeCap
    /\ since_qbit_apply' = AgeCap
    /\ compensator' = NewCompensator
    /\ last_total' = total
    /\ first_cycle' = TRUE
    /\ to_apply' = [a \in App |-> NoApply]
    /\ asked' = NothingAsked

-----------------------------------------------------------------------------
(***************************************************************************)
(* step(), piece by piece.                                                 *)
(***************************************************************************)

\* Mutant: a rebaseline resets qBittorrent's share only.
SabShareStale(total, rebaseline) ==
    [qbit |-> IF rebaseline THEN total \div 2 ELSE qbit_fair_share,
     sab |-> limit["sab"]]

\* The shares allocate() starts from: a rebaseline makes them a neutral half,
\* otherwise qBittorrent's is remembered and SABnzbd's is its applied limit.
ShareBase(total, rebaseline) ==
    IF rebaseline
    THEN [qbit |-> total \div 2, sab |-> total \div 2]
    ELSE [qbit |-> qbit_fair_share, sab |-> limit["sab"]]

\* Mutant: the penalty survives a budget swap.
PenaltyCarriedOver(total) == compensator

\* A penalty is sized against the budget it grew under.
CompensatorFor(total) ==
    IF total # last_total THEN NewCompensator ELSE compensator

\* Mutant: no floor under the corrected limit.
CorrectedPastFloor(share, penalty, total) == share - penalty

Corrected(share, penalty, total) ==
    IF penalty > 0 THEN Greatest(Headroom(total), share - penalty) ELSE share

FairnessAllowed(rebaseline) ==
    first_cycle \/ rebaseline \/ since_reallocation >= ReallocationSettle

OvershootAllowed(rebaseline) ==
    first_cycle \/ rebaseline \/ since_qbit_apply >= OvershootSettle

\* Mutants: only the overshoot correction pushes a limit; the limit is taken
\* for known from the start.
QbitOnlyOnOvershoot(new, penalty, rebaseline) ==
    \/ ~limit_known["qbit"]
    \/ penalty > 0 /\ new # limit["qbit"] /\ OvershootAllowed(rebaseline)
QbitAssumedKnown(new, penalty, rebaseline) ==
    \/ FairnessAllowed(rebaseline) /\ new # limit["qbit"]
    \/ penalty > 0 /\ new # limit["qbit"] /\ OvershootAllowed(rebaseline)

QbitShouldApply(new, penalty, rebaseline) ==
    \/ ~limit_known["qbit"]
    \/ FairnessAllowed(rebaseline) /\ new # limit["qbit"]
    \/ penalty > 0 /\ new # limit["qbit"] /\ OvershootAllowed(rebaseline)

\* Mutants: a new limit is compared with the share SABnzbd should have, not
\* with the limit it has; it is pushed whatever the settle gate says.
SabAssumedApplied(new, rebaseline) ==
    \/ ~limit_known["sab"]
    \/ FairnessAllowed(rebaseline) /\ new # last_total - qbit_fair_share
SabUngated(new, rebaseline) == ~limit_known["sab"] \/ new # limit["sab"]

SabShouldApply(new, rebaseline) ==
    \/ ~limit_known["sab"]
    \/ FairnessAllowed(rebaseline) /\ new # limit["sab"]

Step(qbit_speed, sab_speed, total, rebaseline) ==
    LET base == ShareBase(total, rebaseline)
        share == Allocate(qbit_speed, sab_speed, base.qbit, base.sab, total)
        updated == OvershootUpdate(CompensatorFor(total), qbit_speed + sab_speed, total)
        new_qbit == Corrected(share.qbit, updated.penalty, total)
        push_qbit == QbitShouldApply(new_qbit, updated.penalty, rebaseline)
        push_sab == SabShouldApply(share.sab, rebaseline)
        adopt == /\ FairnessAllowed(rebaseline)
                 /\ share.qbit # base.qbit \/ share.sab # limit["sab"]
    IN  /\ to_apply' = [qbit |-> IF push_qbit THEN new_qbit ELSE NoApply,
                        sab |-> IF push_sab THEN share.sab ELSE NoApply]
        /\ qbit_fair_share' = IF adopt THEN share.qbit ELSE base.qbit
        /\ since_reallocation' = IF adopt THEN 0 ELSE since_reallocation
        /\ since_qbit_apply' = IF push_qbit THEN 0 ELSE since_qbit_apply
        /\ compensator' = updated
        /\ last_total' = total
        /\ first_cycle' = FALSE
        /\ asked' = [qbit |-> qbit_speed, sab |-> sab_speed, rebaseline |-> rebaseline]
        /\ UNCHANGED <<limit, limit_known>>

\* The caller's set_download_limit() succeeded: it records the limit.
LimitApplied(a) ==
    /\ to_apply[a] # NoApply
    /\ limit' = [limit EXCEPT ![a] = to_apply[a]]
    /\ limit_known' = [limit_known EXCEPT ![a] = TRUE]
    /\ to_apply' = [to_apply EXCEPT ![a] = NoApply]
    /\ UNCHANGED <<qbit_fair_share, since_reallocation, since_qbit_apply,
                   compensator, last_total, first_cycle, asked>>

\* The call failed, or was never made because the app is unreachable.
LimitNotApplied(a) ==
    /\ to_apply[a] # NoApply
    /\ to_apply' = [to_apply EXCEPT ![a] = NoApply]
    /\ UNCHANGED <<qbit_fair_share, limit, limit_known, since_reallocation,
                   since_qbit_apply, compensator, last_total, first_cycle, asked>>

Tick ==
    /\ since_reallocation' = Least(since_reallocation + 1, AgeCap)
    /\ since_qbit_apply' = Least(since_qbit_apply + 1, AgeCap)
    /\ UNCHANGED <<qbit_fair_share, limit, limit_known, compensator,
                   last_total, first_cycle, to_apply, asked>>

Settled == \A a \in App : to_apply[a] = NoApply

\* One poll: the outcome of the previous decision's calls is in.
Poll ==
    /\ Settled
    /\ \E qbit_speed, sab_speed \in Speeds, total \in Totals, rebaseline \in BOOLEAN :
          /\ total # last_total => rebaseline
          /\ Step(qbit_speed, sab_speed, total, rebaseline)

ArbNext ==
    \/ Poll
    \/ \E a \in App : LimitApplied(a) \/ LimitNotApplied(a)
    \/ Tick

ArbSpec == ArbInit /\ [][ArbNext]_arbVars

-----------------------------------------------------------------------------
(***************************************************************************)
(* Properties.                                                             *)
(***************************************************************************)
BothActive == Active(asked.qbit) /\ Active(asked.sab)

OverBudget == OverMargin(asked.qbit + asked.sab, last_total)

\* The transition is a call of step(): the one for the arguments recorded.
Stepped == Settled /\ Step(asked'.qbit, asked'.sab, last_total', asked'.rebaseline)

\* The limit an app has once the pending decision is carried out.
InForce(a) == IF to_apply[a] # NoApply THEN to_apply[a] ELSE limit[a]

SplitFits == InForce("qbit") + InForce("sab") <= last_total + Byte

\* The overshoot correction never exceeds the budget it corrects for, also
\* when a failover has just made the budget dozens of times smaller.
PenaltyFitsBudget == compensator.penalty <= last_total

\* Whatever shares, penalty and budget swaps came before, a limit step() asks
\* for lies between the minimum share and the whole of the budget in force
\* (both to the rounding of a byte): never zero, negative or the old link's.
RecommendedWithinScale ==
    \A a \in App : to_apply[a] # NoApply =>
        /\ 2 * to_apply[a] >= 2 * Headroom(last_total) - Byte
        /\ 2 * to_apply[a] <= 2 * last_total + Byte

\* qBittorrent's remembered fair share is always a share of the budget now in
\* force, so allocate()'s clamp never has to force a jump unrelated to demand
\* (the scenario of the rebaseline comment in step()).
FairShareOnScale ==
    /\ 2 * qbit_fair_share >= 2 * Headroom(last_total) - Byte
    /\ 2 * qbit_fair_share <= 2 * last_total + Byte

\* Whenever the settle gate lets a reallocation through, two downloading apps
\* are left with limits that together fit the budget, penalties and stale or
\* failed earlier applies notwithstanding.
AllowedSplitFitsBudget ==
    [][ Stepped /\ BothActive' /\ FairnessAllowed(asked'.rebaseline) => SplitFits' ]_arbVars

\* Nor does such a decision leave budget unused: the limits of two downloading
\* apps make it up but for the overshoot penalty, and a lone downloader has all
\* of it (less the penalty, in qBittorrent's case), whatever calls failed since
\* a share was adopted and whatever penalty or budget their limits are from.
NoBudgetIsStranded ==
    [][ Stepped /\ FairnessAllowed(asked'.rebaseline) =>
          /\ BothActive' => InForce("qbit")' + InForce("sab")'
                               >= last_total' - compensator'.penalty - Byte
          /\ ~BothActive' =>
                /\ InForce("sab")' = Round(last_total')
                /\ InForce("qbit")' >= Round(last_total') - compensator'.penalty ]_arbVars

\* The overshoot penalty only ever grows on two successive polls over the
\* margin of one and the same budget; a one-off excursion, or one that spans
\* a budget swap, adds nothing and a swap forgets what was there.
EveryPenaltyIsEarned ==
    [][ Stepped /\ compensator'.penalty > 0 =>
          /\ last_total' = last_total
          /\ \/ compensator'.penalty <= compensator.penalty
             \/ OverBudget /\ OverBudget' ]_arbVars

\* SABnzbd's limit, once known, changes at most once per settle window, unless
\* a rebaseline forces it: each push needs the window elapsed and restarts it.
SabPushesArePaced ==
    [][ Stepped /\ limit_known["sab"] /\ to_apply'["sab"] # NoApply =>
          /\ since_reallocation' = 0
          /\ \/ since_reallocation >= ReallocationSettle
             \/ first_cycle
             \/ asked'.rebaseline ]_arbVars

\* A step with a rebaseline that finds both apps downloading leaves each half
\* the budget, whatever shares and limits they had on the old link or before
\* the outage -- unless one is slack against its half and the other hungry for
\* more than its own.  A penalty that survives (the budget is the same) still
\* comes off qBittorrent's half.
RebaselineIsEven ==
    [][ /\ Stepped /\ asked'.rebaseline /\ BothActive'
        /\ ~(Slack(asked'.qbit, last_total' \div 2) /\ Hungry(asked'.sab, last_total' \div 2))
        /\ ~(Slack(asked'.sab, last_total' \div 2) /\ Hungry(asked'.qbit, last_total' \div 2))
        => /\ InForce("sab")' = Round(last_total' \div 2)
           /\ InForce("qbit")' =
                 Corrected(Round(last_total' \div 2), compensator'.penalty, last_total') ]_arbVars

(***************************************************************************)
(* Claims of the source's comments that the code does not keep.            *)
(***************************************************************************)

\* "Otherwise a penalty that's merely decaying by a fixed fraction each cycle
\* forces a new limit to be pushed to qBittorrent on literally every poll":
\* with an unchanged fair share and no rebaseline, qBittorrent's known limit
\* is only changed after a quiet overshoot settle window.
PenaltyPushIsPaced ==
    [][ /\ Stepped /\ limit_known["qbit"] /\ ~first_cycle /\ ~asked'.rebaseline
        /\ qbit_fair_share' = qbit_fair_share
        /\ to_apply'["qbit"] # NoApply
        => since_qbit_apply >= OvershootSettle ]_arbVars

\* "The two can never sum to more than total": limits that fit the budget
\* still do after a poll in which both apps keep downloading.
SplitIsNeverBroken ==
    [][ Stepped /\ BothActive /\ BothActive' /\ last_total' = last_total /\ SplitFits
        => SplitFits' ]_arbVars
=============================================================================
