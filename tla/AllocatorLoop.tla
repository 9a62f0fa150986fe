--------------------------- MODULE AllocatorLoop ---------------------------
(***************************************************************************)
(* allocate() iterated: each decision's shares are the next one's input.   *)
(* No settle timers, penalties or failures: what the arithmetic of         *)
(* allocate() alone promises.                                              *)
(*                                                                         *)
(* The speeds are arbitrary at first.  From some point on each app may     *)
(* have a steady demand and obey its limit: it then downloads at the       *)
(* lesser of the two, which closes the loop.                               *)
(***************************************************************************)
EXTENDS Allocator

CONSTANTS
    Total,   \* the budget
    Speeds,  \* the speeds an app may be measured at
    Demands, \* the speeds it would download at without a limit
    Rounds   \* the decisions it may take until the shares are fair

ASSUME BudgetAssumption == Total \in Nat /\ Total % 200 = 0
ASSUME SpeedsAssumption == Speeds \subseteq Nat /\ Demands \subseteq Nat
ASSUME RoundsAssumption == Rounds \in Nat

VARIABLES
    qbit_share,  \* the two shares in force
    sab_share,
    qbit_speed,  \* the speeds the shares in force were decided on
    sab_speed,
    steady,      \* the apps have a demand each and obey their limits
    demand,      \* demand[a]: what each then wants
    rounds       \* history: decisions taken since, up to Rounds

vars == <<qbit_share, sab_share, qbit_speed, sab_speed, steady, demand, rounds>>

App == {"qbit", "sab"}

TypeOK == /\ {qbit_share, sab_share, qbit_speed, sab_speed} \subseteq Nat
          /\ steady \in BOOLEAN
          /\ demand \in [App -> Demands \cup {0}]
          /\ rounds \in 0..Rounds

Init == /\ qbit_share = Total
        /\ sab_share = Total
        /\ qbit_speed = 0
        /\ sab_speed = 0
        /\ steady = FALSE
        /\ demand = [a \in App |-> 0]
        /\ rounds = 0

Share(a) == IF a = "qbit" THEN qbit_share ELSE sab_share

Decide(qs, ss) ==
    LET share == Allocate(qs, ss, qbit_share, sab_share, Total)
    IN  /\ qbit_share' = share.qbit
        /\ sab_share' = share.sab
        /\ qbit_speed' = qs
        /\ sab_speed' = ss
        /\ UNCHANGED <<steady, demand>>

Reallocate ==
    /\ ~steady
    /\ \E qs, ss \in Speeds : Decide(qs, ss)
    /\ UNCHANGED rounds

BecomeSteady ==
    /\ ~steady
    /\ steady' = TRUE
    /\ demand' \in [App -> Demands]
    /\ UNCHANGED <<qbit_share, sab_share, qbit_speed, sab_speed, rounds>>

\* What an app downloads at under the share it has.
Served(a) == Least(demand[a], Share(a))

ReallocateSteady ==
    /\ steady
    /\ Decide(Served("qbit"), Served("sab"))
    /\ rounds' = Least(rounds + 1, Rounds)

Next == Reallocate \/ BecomeSteady \/ ReallocateSteady

Spec == Init /\ [][Next]_vars

-----------------------------------------------------------------------------
BothActive == Active(qbit_speed) /\ Active(sab_speed)

\* Once both apps download, their shares partition the budget to within the
\* rounding of one byte, and neither is squeezed below the minimum share,
\* however the speeds have moved (allocate()'s last claim in its docstring,
\* with the rounding slack its tests allow).
SharesPartitionBudget ==
    BothActive =>
        /\ qbit_share + sab_share <= Total + Byte
        /\ qbit_share + sab_share >= Total - Byte
        /\ 2 * qbit_share >= 2 * Headroom(Total) - Byte
        /\ 2 * sab_share >= 2 * Headroom(Total) - Byte

\* The first decision after a lone downloader's ceiling splits evenly,
\* whichever app had ramped up faster -- unless one of them is already slack
\* against its half, which then gives it up to the hungry one.
FirstSplitIsEven ==
    [][ /\ ~BothActive /\ BothActive'
        /\ ~(Slack(qbit_speed, Total \div 2) /\ Hungry(sab_speed, Total \div 2))'
        /\ ~(Slack(sab_speed, Total \div 2) /\ Hungry(qbit_speed, Total \div 2))'
        => /\ qbit_share' = Round(Total \div 2)
           /\ sab_share' = Round(Total \div 2) ]_vars

\* While both apps download, an app that is not slack loses share only if it
\* holds the larger one: a hungry app is never squeezed below parity, so no
\* run of decisions can starve it ("it can't run away indefinitely").
OnlySlackOrLargerYields ==
    [][ BothActive /\ BothActive' =>
        /\ qbit_share' < qbit_share - Byte =>
              Slack(qbit_speed', qbit_share) \/ qbit_share > sab_share
        /\ sab_share' < sab_share - Byte =>
              Slack(sab_speed', sab_share) \/ sab_share > qbit_share ]_vars

\* A slack app keeps what it demonstrably uses plus headroom to grow back: it
\* is never shrunk below the speed it was measured at.
ShrinkLeavesHeadroom ==
    [][ BothActive /\ BothActive' =>
        /\ qbit_share' < qbit_share - Byte /\ Slack(qbit_speed', qbit_share)
              => qbit_share' > qbit_speed'
        /\ sab_share' < sab_share - Byte /\ Slack(sab_speed', sab_share)
              => sab_share' > sab_speed' ]_vars

\* What a decision leaves over from app b once it is cut to what it uses and
\* its room to grow.
Leftover(b) == Total - Headroom(Total) - demand[b]

\* App b is still slack with its room: it is left that even where it makes
\* more than half of the budget.
KeepsRoom(b) == Slack(demand[b], Round(demand[b] + Headroom(Total)))

\* What a split serves app a if it is fair: its demand, as far as half the
\* budget goes, or as what the other leaves of it.
FairTo(a, b) ==
    Least(demand[a], IF KeepsRoom(b) THEN Leftover(b) ELSE Total \div 2)

\* Between the two thresholds: neither hungry nor slack.
Between(a) == ~Hungry(Served(a), Share(a)) /\ ~Slack(Served(a), Share(a))

\* Whatever shares the past has left, Rounds decisions later two apps with
\* steady demands are each served half the budget, or what the other leaves
\* of it, and they stay so -- unless one of them uses between 85% and 90% of
\* its share, which leaves all shares as they are.
ConvergesToFair ==
    rounds = Rounds =>
        \A a, b \in App : a # b => Served(a) >= FairTo(a, b) - Byte \/ Between(b)

\* "Max-min fair-share allocation": the same without the exception.
MaxMinFair ==
    rounds = Rounds => \A a, b \in App : a # b => Served(a) >= FairTo(a, b) - Byte
=============================================================================
