----------------------------- MODULE Allocator -----------------------------
(***************************************************************************)
(* The pure part of bandwidtharr/allocator.py: allocate(), which decides   *)
(* both apps' shares of the download budget from their measured speeds,    *)
(* and OvershootCompensator.update(), which sizes the correction taken     *)
(* off qBittorrent's limit while combined speed stays above the budget.    *)
(*                                                                         *)
(* Every speed, share and limit is a number of model units.  Byte units    *)
(* make one byte per second, so that the code's floats that are not whole  *)
(* bytes (half a budget, a budget of 1037500.0000000001) are integers here *)
(* and Python's round() is an operation that can lose something.  The      *)
(* fractions of the code (0.9, 0.85, 0.1, ...) are exact: a budget is a    *)
(* multiple of 200 units (BudgetAssumption in the modules that have one).  *)
(***************************************************************************)
EXTENDS Integers

CONSTANTS
    Byte,            \* model units in one byte per second
    ActiveThreshold  \* active_threshold: a faster app is downloading

ASSUME AllocatorAssumption ==
    /\ Byte \in Nat \ {0} /\ Byte % 2 = 0
    /\ ActiveThreshold \in Nat

Least(x, y) == IF x <= y THEN x ELSE y
Greatest(x, y) == IF x >= y THEN x ELSE y

(***************************************************************************)
(* Python's round(): the nearest whole byte, a tie going to the even one.  *)
(***************************************************************************)
Round(x) ==
    LET low == x - (x % Byte)
    IN  IF \/ 2 * (x % Byte) < Byte
           \/ /\ 2 * (x % Byte) = Byte
              /\ low % (2 * Byte) = 0
        THEN low
        ELSE low + Byte

\* MIN_SHARE_FRACTION of the budget: both the least share an app can be left
\* with and the room a shrunk app is given to grow back.
Headroom(total) == total \div 10

Active(speed) == speed > ActiveThreshold
Hungry(speed, share) == share > 0 /\ 10 * speed >= 9 * share
Slack(speed, share) == share > 0 /\ 20 * speed < 17 * share

\* Mutant: a slack app is cut to its speed, with no room to grow back.
ShrunkToSpeed(speed, share, total) == speed

Shrunk(speed, share, total) == Least(share, speed + Headroom(total))

\* Mutants: two hungry apps are left as they are; the step goes past the
\* midpoint.
NoStep(qbit, sab, total) == qbit
Overstep(qbit, sab, total) ==
    IF qbit < sab THEN qbit + total \div 20 + (sab - qbit) \div 2
                  ELSE qbit - total \div 20 - (qbit - sab) \div 2

\* Both apps want more: one bounded step toward the midpoint of the shares.
TowardMidpoint(qbit, sab, total) ==
    LET step == total \div 20
        midpoint == (qbit + sab) \div 2
    IN  IF qbit < midpoint THEN Least(qbit + step, midpoint)
        ELSE IF sab < midpoint THEN Greatest(qbit - step, midpoint)
        ELSE qbit

\* qBittorrent's new share before it is clamped.  The three cases exclude
\* one another: no app is both hungry and slack.
Reshared(qbitSpeed, sabSpeed, qbit, sab, total) ==
    CASE Slack(qbitSpeed, qbit) /\ Hungry(sabSpeed, sab) ->
            Shrunk(qbitSpeed, qbit, total)
      [] Slack(sabSpeed, sab) /\ Hungry(qbitSpeed, qbit) ->
            total - Shrunk(sabSpeed, sab, total)
      [] Hungry(qbitSpeed, qbit) /\ Hungry(sabSpeed, sab) ->
            TowardMidpoint(qbit, sab, total)
      [] OTHER -> qbit

\* Mutants: the share is left unclamped; the minimum is a fixed number of
\* bytes, the bug MIN_SHARE_FRACTION's comment tells of.
Unclamped(share, total) == share
FixedMinimum(share, total) == Greatest(500, Least(total - 500, share))

Clamped(share, total) ==
    Greatest(Headroom(total), Least(total - Headroom(total), share))

\* Mutant: the ceiling of a lone downloader is taken for a share.
CeilingNeverSeen(qbit, sab, total) == FALSE

\* Both shares are still the ceiling a lone downloader is given.
AtCeiling(qbit, sab, total) == qbit >= total /\ sab >= total

(***************************************************************************)
(* allocate(): the full budget to each app while at most one of them is    *)
(* downloading, otherwise one decision on qBittorrent's share with the     *)
(* rest going to SABnzbd.                                                  *)
(***************************************************************************)
Allocate(qbitSpeed, sabSpeed, qbit, sab, total) ==
    IF Active(qbitSpeed) /\ Active(sabSpeed)
    THEN LET half == total \div 2
             reset == AtCeiling(qbit, sab, total)
             new == Clamped(Reshared(qbitSpeed, sabSpeed,
                                     IF reset THEN half ELSE qbit,
                                     IF reset THEN half ELSE sab, total), total)
         IN  [qbit |-> Round(new), sab |-> Round(total - new)]
    ELSE [qbit |-> Round(total), sab |-> Round(total)]

-----------------------------------------------------------------------------
(***************************************************************************)
(* OvershootCompensator: over_count counts consecutive cycles above the    *)
(* 3% margin (the code never reads it beyond CONFIRM_CYCLES, so it is kept *)
(* there); the penalty grows by at most 2% of the budget per confirmed     *)
(* cycle and decays by 1% in every cycle within the margin.                *)
(***************************************************************************)
ConfirmCycles == 2

Compensators == [penalty : Nat, over_count : 0..ConfirmCycles]

NewCompensator == [penalty |-> 0, over_count |-> 0]

OverMargin(combined, total) == 100 * (combined - total) > 3 * total

Grown(penalty, overshoot, total) ==
    Least(total, penalty + Least(overshoot, total \div 50))

\* Mutant: the count of over-budget cycles survives a cycle within budget.
CountNeverReset(comp, combined, total) ==
    LET count == Least(comp.over_count + 1, ConfirmCycles)
    IN  IF OverMargin(combined, total)
        THEN [over_count |-> count,
              penalty |-> IF count >= ConfirmCycles
                          THEN Grown(comp.penalty, combined - total, total)
                          ELSE comp.penalty]
        ELSE [comp EXCEPT !.penalty = Greatest(0, @ - total \div 100)]

\* Mutant: the decay does not stop at zero.
DecayBelowZero(comp, combined, total) ==
    LET count == Least(comp.over_count + 1, ConfirmCycles)
    IN  IF OverMargin(combined, total)
        THEN [over_count |-> count,
              penalty |-> IF count >= ConfirmCycles
                          THEN Grown(comp.penalty, combined - total, total)
                          ELSE comp.penalty]
        ELSE [over_count |-> 0, penalty |-> comp.penalty - total \div 100]

OvershootUpdate(comp, combined, total) ==
    LET count == Least(comp.over_count + 1, ConfirmCycles)
    IN  IF OverMargin(combined, total)
        THEN [over_count |-> count,
              penalty |-> IF count >= ConfirmCycles
                          THEN Grown(comp.penalty, combined - total, total)
                          ELSE comp.penalty]
        ELSE [over_count |-> 0,
              penalty |-> Greatest(0, comp.penalty - total \div 100)]
=============================================================================
