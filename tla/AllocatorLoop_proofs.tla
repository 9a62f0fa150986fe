------------------------ MODULE AllocatorLoop_proofs ------------------------
(***************************************************************************)
(* allocate() iterated on its own output, for every budget, every set of   *)
(* speeds and demands, and histories of any length.                        *)
(***************************************************************************)
EXTENDS AllocatorLoop, Allocator_proofs

IInv == TypeOK /\ SharesPartitionBudget

\* One decision on type-correct shares, whatever speeds it is given.
LEMMA DecideKeepsBudget ==
    ASSUME TypeOK, NEW qs \in Nat, NEW ss \in Nat, Decide(qs, ss)
    PROVE  /\ {qbit_share', sab_share', qbit_speed', sab_speed'} \subseteq Nat
           /\ SharesPartitionBudget'
<1> DEFINE share == Allocate(qs, ss, qbit_share, sab_share, Total)
<1>1. /\ qbit_share' = share.qbit /\ sab_share' = share.sab
      /\ qbit_speed' = qs /\ sab_speed' = ss
  BY DEF Decide
<1>2. qbit_share \in Int /\ sab_share \in Int /\ Total \in Nat /\ Total % 200 = 0
  BY BudgetAssumption DEF TypeOK, BudgetAssumption
<1>3. /\ share.qbit \in Nat /\ share.sab \in Nat
      /\ 2 * share.qbit >= 2 * Headroom(Total) - Byte
      /\ 2 * share.sab >= 2 * Headroom(Total) - Byte
      /\ Active(qs) /\ Active(ss) =>
            share.qbit + share.sab <= Total + Byte /\ share.qbit + share.sab >= Total - Byte
  BY <1>2, AllocateFitsBudget
<1> HIDE DEF share
<1> QED
  BY <1>1, <1>3 DEF SharesPartitionBudget, BothActive

\* Before the first decision nothing downloads.
LEMMA InitIInv == Init => IInv
<1> SUFFICES ASSUME Init PROVE IInv
  OBVIOUS
<1>1. ~BothActive
  BY AllocatorAssumption DEF Init, BothActive, Active, AllocatorAssumption
<1>2. TypeOK
  <2>1. {qbit_share, sab_share, qbit_speed, sab_speed} \subseteq Nat
    BY BudgetAssumption DEF Init, BudgetAssumption
  <2>2. demand \in [App -> Demands \cup {0}]
    BY DEF Init
  <2>3. steady \in BOOLEAN
    BY DEF Init
  <2>4. rounds \in 0..Rounds
    BY RoundsAssumption DEF Init, RoundsAssumption
  <2> QED
    BY <2>1, <2>2, <2>3, <2>4 DEF TypeOK
<1> QED
  BY <1>1, <1>2 DEF IInv, SharesPartitionBudget

\* Speeds measured at random keep it.
LEMMA ReallocateIInv == IInv /\ Reallocate => IInv'
<1> SUFFICES ASSUME IInv, Reallocate PROVE IInv'
  OBVIOUS
<1>1. PICK qs \in Speeds, ss \in Speeds : Decide(qs, ss)
  BY DEF Reallocate
<1>2. qs \in Nat /\ ss \in Nat
  BY SpeedsAssumption DEF SpeedsAssumption
<1>3. UNCHANGED <<steady, demand, rounds>>
  BY <1>1 DEF Decide, Reallocate
<1> QED
  BY <1>1, <1>2, <1>3, DecideKeepsBudget DEF IInv, TypeOK

\* The apps' demands do not touch the shares.
LEMMA BecomeSteadyIInv == IInv /\ BecomeSteady => IInv'
<1> SUFFICES ASSUME IInv, BecomeSteady PROVE IInv'
  OBVIOUS
<1>1. demand' \in [App -> Demands \cup {0}]
  BY DEF BecomeSteady
<1>2. steady' = TRUE /\ UNCHANGED <<qbit_share, sab_share, qbit_speed, sab_speed, rounds>>
  BY DEF BecomeSteady
<1> QED
  BY <1>1, <1>2 DEF IInv, TypeOK, SharesPartitionBudget, BothActive

\* Nor do apps that obey their limits break it.
LEMMA ReallocateSteadyIInv == IInv /\ ReallocateSteady => IInv'
<1> SUFFICES ASSUME IInv, ReallocateSteady PROVE IInv'
  OBVIOUS
<1>1. ASSUME NEW a \in App PROVE Served(a) \in Nat
  <2>1. demand[a] \in Demands \cup {0}
    BY DEF IInv, TypeOK
  <2>2. demand[a] \in Nat
    <3>1. Demands \subseteq Nat
      BY SpeedsAssumption DEF SpeedsAssumption
    <3>2. CASE demand[a] \in Demands
      BY <3>1, <3>2, Zenon
    <3>3. CASE demand[a] = 0
      BY <3>3, SMT
    <3> QED
      BY <2>1, <3>2, <3>3, Zenon
  <2>3. Share(a) \in Nat
    BY DEF IInv, TypeOK, Share
  <2> QED
    BY <2>2, <2>3 DEF Served, Least
<1>2. Served("qbit") \in Nat /\ Served("sab") \in Nat
  BY <1>1 DEF App
<1>3. Decide(Served("qbit"), Served("sab")) /\ rounds' = Least(rounds + 1, Rounds)
  BY DEF ReallocateSteady
<1>4. rounds' \in 0..Rounds /\ UNCHANGED <<steady, demand>>
  BY <1>3, RoundsAssumption DEF IInv, TypeOK, Least, Decide, RoundsAssumption
<1> QED
  BY <1>2, <1>3, <1>4, DecideKeepsBudget DEF IInv, TypeOK

\* Shares, speeds and the budget hold together throughout.
LEMMA Inductive == Spec => []IInv
<1>1. IInv /\ [Next]_vars => IInv'
  <2> SUFFICES ASSUME IInv, [Next]_vars PROVE IInv'
    OBVIOUS
  <2>1. CASE Next
    BY <2>1, ReallocateIInv, BecomeSteadyIInv, ReallocateSteadyIInv DEF Next
  <2>2. CASE UNCHANGED vars
    BY <2>2 DEF vars, IInv, TypeOK, SharesPartitionBudget, BothActive
  <2> QED
    BY <2>1, <2>2
<1> QED
  BY InitIInv, <1>1, PTL DEF Spec

\* The shares stay natural numbers, whatever allocate() has made of them before.
THEOREM SharesAreTyped == Spec => []TypeOK
<1>1. IInv => TypeOK
  BY DEF IInv
<1> QED
  BY Inductive, <1>1, PTL

\* However long allocate() is fed its own shares, at whatever speeds: while both
\* apps download, their shares make up the budget to the rounding of a byte, and
\* neither is under the minimum share (the last claim of its docstring).
THEOREM BudgetIsPartitioned == Spec => []SharesPartitionBudget
<1>1. IInv => SharesPartitionBudget
  BY DEF IInv
<1> QED
  BY Inductive, <1>1, PTL

-----------------------------------------------------------------------------
(***************************************************************************)
(* What one decision may take from an app whose share the last one set.    *)
(***************************************************************************)
\* Two shares that a decision has split the budget into.
IsSplit(q, s) ==
    \E new \in Headroom(Total)..(Total - Headroom(Total)) :
        q = Round(new) /\ s = Round(Total - new)

\* They are whole bytes, add up to the budget to the rounding of one, and leave
\* each other the minimum share.
LEMMA SplitBounds ==
    ASSUME NEW q, NEW s, IsSplit(q, s)
    PROVE  /\ q \in Nat /\ s \in Nat
           /\ IsWhole(q)
           /\ IsWhole(s)
           /\ q + s <= Total + Byte
           /\ 2 * q <= 2 * (Total - Headroom(Total)) + Byte
           /\ 2 * s <= 2 * (Total - Headroom(Total)) + Byte
<1>1. PICK new \in Headroom(Total)..(Total - Headroom(Total)) :
          q = Round(new) /\ s = Round(Total - new)
  BY DEF IsSplit
<1>2. /\ Total \in Nat /\ Headroom(Total) \in Nat /\ Total = 10 * Headroom(Total)
  BY BudgetAssumption, HeadroomBound DEF BudgetAssumption
<1>3. /\ new \in Nat /\ Total - new \in Nat
      /\ Headroom(Total) <= new /\ new <= Total - Headroom(Total)
  BY <1>2
<1>4. /\ 2 * q <= 2 * new + Byte /\ 2 * s <= 2 * (Total - new) + Byte
      /\ q \in Nat /\ s \in Nat
  BY <1>1, <1>3, RoundBound, RoundNat
<1>5. IsWhole(q) /\ IsWhole(s)
  BY <1>1, <1>3, RoundIsWhole
<1> QED
  BY <1>2, <1>3, <1>4, <1>5, ByteType

\* What the three branches leave each app: an app that is not slack and holds no
\* more than the other keeps its share to a byte, and a slack one either its
\* share or what it uses and room to grow.
LEMMA ResharedLeaves ==
    ASSUME NEW qs \in Nat, NEW ss \in Nat, NEW q \in Nat, NEW s \in Nat,
           q + s <= Total + Byte,
           NEW r, r = Reshared(qs, ss, q, s, Total)
    PROVE  /\ r \in Int
           /\ ~Slack(qs, q) /\ q <= s => r >= q - Byte
           /\ ~Slack(ss, s) /\ s <= q => Total - r >= s - Byte
           /\ Slack(qs, q) => r >= q - Byte \/ r = qs + Headroom(Total)
           /\ Slack(ss, s) => Total - r >= s - Byte \/ Total - r = ss + Headroom(Total)
<1>1. /\ Total \in Nat /\ Headroom(Total) \in Nat /\ Total % 200 = 0
  BY BudgetAssumption, HeadroomBound DEF BudgetAssumption
<1>2. ~(Slack(qs, q) /\ Hungry(qs, q)) /\ ~(Slack(ss, s) /\ Hungry(ss, s))
  BY DEF Slack, Hungry
<1>3. CASE Slack(qs, q) /\ Hungry(ss, s)
  <2>1. r = Shrunk(qs, q, Total)
    BY <1>2, <1>3 DEF Reshared
  <2> QED
    BY <1>1, <1>2, <1>3, <2>1, ByteType DEF Shrunk, Least
<1>4. CASE Slack(ss, s) /\ Hungry(qs, q)
  <2>1. r = Total - Shrunk(ss, s, Total)
    BY <1>2, <1>4 DEF Reshared
  <2> QED
    BY <1>1, <1>2, <1>4, <2>1, ByteType DEF Shrunk, Least
<1>5. CASE Hungry(qs, q) /\ Hungry(ss, s)
  <2>1. r = TowardMidpoint(q, s, Total)
    BY <1>2, <1>5 DEF Reshared
  <2>2. r \in Int /\ (q <= s => r >= q) /\ (s <= q => r <= q)
    BY <1>1, <2>1 DEF TowardMidpoint, Least, Greatest
  <2> QED
    BY <1>1, <1>2, <1>5, <2>2, ByteType
<1>6. CASE /\ ~(Slack(qs, q) /\ Hungry(ss, s)) /\ ~(Slack(ss, s) /\ Hungry(qs, q))
           /\ ~(Hungry(qs, q) /\ Hungry(ss, s))
  <2>1. r = q
    BY <1>6 DEF Reshared
  <2> QED
    BY <1>1, <2>1, ByteType
<1> QED
  BY <1>3, <1>4, <1>5, <1>6

\* The clamp takes nothing below what may be kept anyway.
LEMMA ClampedLeaves ==
    ASSUME NEW r \in Int, NEW kept \in Int, kept <= Total - Headroom(Total)
    PROVE  /\ Clamped(r, Total) \in Nat /\ Total - Clamped(r, Total) \in Nat
           /\ r >= kept => Clamped(r, Total) >= kept
           /\ Total - r >= kept => Total - Clamped(r, Total) >= kept
BY BudgetAssumption, HeadroomBound DEF BudgetAssumption, Clamped, Greatest, Least

\* Rounding takes a share that was a whole number of bytes no further down than
\* it has been decided to go.
LEMMA RoundLeaves ==
    ASSUME NEW c \in Int, NEW share \in Int, IsWhole(share),
           c >= share - Byte
    PROVE  Round(c) >= share - Byte
<1>1. PICK k \in Int : share = Byte * k
  BY DEF IsWhole
<1>2. share - Byte = Byte * (k - 1) /\ k - 1 \in Int
  BY <1>1, ByteType
<1> QED
  BY <1>2, RoundKeepsWhole

\* A decision on a share (c, not yet rounded) that leaves one app either its share
\* to a byte or what it uses and room to grow.
LEMMA GivesRoom ==
    ASSUME NEW c \in Int, NEW share \in Nat, NEW speed \in Nat,
           IsWhole(share),
           c >= share - Byte \/ c >= speed + Headroom(Total),
           Total > 5 * Byte,
           Round(c) < share - Byte
    PROVE  Round(c) > speed
<1>1. /\ Total \in Nat /\ Headroom(Total) \in Nat /\ Total = 10 * Headroom(Total)
  BY BudgetAssumption, HeadroomBound DEF BudgetAssumption
<1>2. Round(c) \in Int /\ 2 * Round(c) >= 2 * c - Byte
  BY RoundBound
<1>3. c >= speed + Headroom(Total)
  BY <1>2, RoundLeaves, ByteType
<1> QED
  BY <1>1, <1>2, <1>3, ByteType

\* What a joint decision takes from either app, the other way round for the other.
LEMMA DecisionLeaves ==
    ASSUME NEW qs \in Nat, NEW ss \in Nat, NEW q, NEW s, IsSplit(q, s),
           Active(qs), Active(ss),
           NEW share, share = Allocate(qs, ss, q, s, Total)
    PROVE  /\ share.qbit < q - Byte => Slack(qs, q) \/ q > s
           /\ share.sab < s - Byte => Slack(ss, s) \/ s > q
           /\ Total > 5 * Byte =>
                 /\ share.qbit < q - Byte /\ Slack(qs, q) => share.qbit > qs
                 /\ share.sab < s - Byte /\ Slack(ss, s) => share.sab > ss
<1>1. /\ q \in Nat /\ s \in Nat
      /\ IsWhole(q)
      /\ IsWhole(s)
      /\ q + s <= Total + Byte
      /\ 2 * q <= 2 * (Total - Headroom(Total)) + Byte
      /\ 2 * s <= 2 * (Total - Headroom(Total)) + Byte
  BY SplitBounds
<1>2. /\ Total \in Nat /\ Headroom(Total) \in Nat /\ Total = 10 * Headroom(Total)
      /\ Total % 200 = 0
  BY BudgetAssumption, HeadroomBound DEF BudgetAssumption
<1>3. CASE AtCeiling(q, s, Total)
  <2>1. q <= Byte /\ s <= Byte
    BY <1>1, <1>2, <1>3, ByteType DEF AtCeiling
  <2>2. share.qbit \in Nat /\ share.sab \in Nat
    <3>1. q \in Int /\ s \in Int
      BY <1>1
    <3> QED
      BY <3>1, <1>2, AllocateFitsBudget
  <2> QED
    BY <1>1, <2>1, <2>2, ByteType
<1>4. CASE ~AtCeiling(q, s, Total)
  <2> DEFINE r == Reshared(qs, ss, q, s, Total)
             c == Clamped(r, Total)
  <2>1. share.qbit = Round(c) /\ share.sab = Round(Total - c)
    BY <1>4 DEF Allocate
  <2>2. /\ r \in Int
        /\ ~Slack(qs, q) /\ q <= s => r >= q - Byte
        /\ ~Slack(ss, s) /\ s <= q => Total - r >= s - Byte
        /\ Slack(qs, q) => r >= q - Byte \/ r = qs + Headroom(Total)
        /\ Slack(ss, s) => Total - r >= s - Byte \/ Total - r = ss + Headroom(Total)
    BY <1>1, ResharedLeaves
  <2> HIDE DEF r
  <2>3. ASSUME NEW kept \in Int, kept <= Total - Headroom(Total)
        PROVE  /\ c \in Int /\ Total - c \in Int
               /\ r >= kept => c >= kept
               /\ Total - r >= kept => Total - c >= kept
    <3>1. r \in Int
      BY <2>2
    <3>2. /\ c \in Nat /\ Total - c \in Nat
          /\ r >= kept => c >= kept
          /\ Total - r >= kept => Total - c >= kept
      BY <3>1, <2>3, ClampedLeaves
    <3> QED
      BY <3>2
  <2>4. /\ q - Byte \in Int /\ q - Byte <= Total - Headroom(Total)
        /\ s - Byte \in Int /\ s - Byte <= Total - Headroom(Total)
    BY <1>1, <1>2, ByteType
  <2>5. /\ c \in Int /\ Total - c \in Int
        /\ r >= q - Byte => c >= q - Byte
        /\ Total - r >= s - Byte => Total - c >= s - Byte
    BY <2>3, <2>4
  <2>6. /\ r = qs + Headroom(Total) => c >= q - Byte \/ c >= qs + Headroom(Total)
        /\ Total - r = ss + Headroom(Total)
              => Total - c >= s - Byte \/ Total - c >= ss + Headroom(Total)
    <3>1. 0 + Headroom(Total) \in Int /\ Total - Headroom(Total) \in Int
      BY <1>2
    <3>2. \A x \in Nat : x + Headroom(Total) \in Int
      BY <1>2
    <3>3. /\ r >= Total - Headroom(Total) => c >= Total - Headroom(Total)
          /\ Total - r >= Total - Headroom(Total) => Total - c >= Total - Headroom(Total)
      BY <2>3, <3>1, <1>2
    <3>4. qs + Headroom(Total) <= Total - Headroom(Total)
            => (r = qs + Headroom(Total) => c >= qs + Headroom(Total))
      BY <2>2, <2>3, <3>2, <1>2
    <3>5. ss + Headroom(Total) <= Total - Headroom(Total)
            => (Total - r = ss + Headroom(Total) => Total - c >= ss + Headroom(Total))
      BY <2>2, <2>3, <3>2, <1>2
    <3> QED
      BY <1>2, <2>2, <2>4, <2>5, <3>3, <3>4, <3>5
  <2> HIDE DEF c
  <2>7. /\ share.qbit < q - Byte => ~(c >= q - Byte)
        /\ share.sab < s - Byte => ~(Total - c >= s - Byte)
    <3>1. c >= q - Byte => Round(c) >= q - Byte
      BY <1>1, <2>5, RoundLeaves
    <3>2. Total - c >= s - Byte => Round(Total - c) >= s - Byte
      BY <1>1, <2>5, RoundLeaves
    <3>3. Round(c) \in Int /\ Round(Total - c) \in Int
      BY <2>5, RoundBound
    <3> QED
      BY <2>1, <2>4, <3>1, <3>2, <3>3
  <2>8. /\ share.qbit < q - Byte => Slack(qs, q) \/ q > s
        /\ share.sab < s - Byte => Slack(ss, s) \/ s > q
    BY <1>1, <2>2, <2>5, <2>7
  <2>9. ASSUME Total > 5 * Byte, share.qbit < q - Byte, Slack(qs, q)
        PROVE  share.qbit > qs
    <3>1. c >= q - Byte \/ c >= qs + Headroom(Total)
      BY <2>2, <2>5, <2>6, <2>9
    <3> QED
      BY <1>1, <2>1, <2>5, <2>9, <3>1, GivesRoom
  <2>10. ASSUME Total > 5 * Byte, share.sab < s - Byte, Slack(ss, s)
         PROVE  share.sab > ss
    <3>1. Total - c >= s - Byte \/ Total - c >= ss + Headroom(Total)
      BY <2>2, <2>5, <2>6, <2>10
    <3> QED
      BY <1>1, <2>1, <2>5, <2>10, <3>1, GivesRoom
  <2> QED
    BY <2>8, <2>9, <2>10
<1> QED
  BY <1>3, <1>4

-----------------------------------------------------------------------------
(***************************************************************************)
(* The same for the decisions of the loop.                                 *)
(***************************************************************************)
\* While both apps download their shares are a split of the budget, otherwise
\* they are its ceiling.
SharesAreSplit ==
    IF BothActive THEN IsSplit(qbit_share, sab_share)
                  ELSE {qbit_share, sab_share} \subseteq {Total, Round(Total)}

\* Every step decides on some speeds, or leaves shares and speeds alone.
Decided(qs, ss) ==
    /\ qs \in Nat /\ ss \in Nat
    /\ qbit_speed' = qs /\ sab_speed' = ss
    /\ \E share : /\ share = Allocate(qs, ss, qbit_share, sab_share, Total)
                  /\ qbit_share' = share.qbit /\ sab_share' = share.sab

\* So it is for each action of the loop.
LEMMA StepDecides ==
    ASSUME IInv', [Next]_vars
    PROVE  \/ UNCHANGED <<qbit_share, sab_share, qbit_speed, sab_speed>>
           \/ \E qs, ss : Decided(qs, ss)
<1>1. ASSUME NEW qs, NEW ss, Decide(qs, ss) PROVE Decided(qs, ss)
  BY <1>1 DEF Decide, Decided, IInv, TypeOK
<1>2. CASE Reallocate
  BY <1>1, <1>2 DEF Reallocate
<1>3. CASE ReallocateSteady
  BY <1>1, <1>3 DEF ReallocateSteady
<1>4. CASE BecomeSteady \/ UNCHANGED vars
  BY <1>4 DEF BecomeSteady, vars
<1> QED
  BY <1>2, <1>3, <1>4 DEF Next

\* allocate() returns a split or the ceiling.
LEMMA DecisionIsSplit ==
    ASSUME TypeOK, NEW qs, NEW ss, Decided(qs, ss)
    PROVE  SharesAreSplit'
<1> DEFINE share == Allocate(qs, ss, qbit_share, sab_share, Total)
<1>1. /\ qbit_share' = share.qbit /\ sab_share' = share.sab
      /\ qbit_speed' = qs /\ sab_speed' = ss
      /\ qs \in Nat /\ ss \in Nat
  BY DEF Decided
<1>2. /\ qbit_share \in Nat /\ sab_share \in Nat
      /\ Total \in Nat /\ Total % 200 = 0
  BY BudgetAssumption DEF TypeOK, BudgetAssumption
<1>3. CASE Active(qs) /\ Active(ss)
  <2> DEFINE half == Total \div 2
             reset == AtCeiling(qbit_share, sab_share, Total)
             q == IF reset THEN half ELSE qbit_share
             s == IF reset THEN half ELSE sab_share
             new == Clamped(Reshared(qs, ss, q, s, Total), Total)
  <2>1. share.qbit = Round(new) /\ share.sab = Round(Total - new)
    BY <1>3 DEF Allocate
  <2>2. q \in Int /\ s \in Int
    BY <1>2
  <2> HIDE DEF q, s
  <2>3. Reshared(qs, ss, q, s, Total) \in Int
    BY <1>1, <1>2, <2>2, ResharedInt
  <2>4. new \in Nat /\ new >= Headroom(Total) /\ Total - new >= Headroom(Total)
    BY <1>2, <2>3, ClampedBound
  <2> HIDE DEF new
  <2>5. new \in Headroom(Total)..(Total - Headroom(Total))
    BY <1>2, <2>4, HeadroomBound
  <2>6. IsSplit(share.qbit, share.sab)
    BY <2>1, <2>5 DEF IsSplit
  <2>7. IsSplit(qbit_share, sab_share)'
    BY <1>1, <2>6 DEF IsSplit
  <2> QED
    BY <1>1, <1>3, <2>7 DEF SharesAreSplit, BothActive
<1>4. CASE ~(Active(qs) /\ Active(ss))
  <2>1. share.qbit = Round(Total) /\ share.sab = Round(Total)
    BY <1>4 DEF Allocate
  <2> QED
    BY <1>1, <1>4, <2>1 DEF SharesAreSplit, BothActive
<1> QED
  BY <1>3, <1>4

\* The shares in force always come from allocate(), or are the initial ceiling.
LEMMA SplitInductive == Spec => [](IInv /\ SharesAreSplit)
<1>1. Init => SharesAreSplit
  BY AllocatorAssumption
     DEF Init, SharesAreSplit, BothActive, Active, AllocatorAssumption
<1>2. IInv /\ IInv' /\ SharesAreSplit /\ [Next]_vars => SharesAreSplit'
  <2> SUFFICES ASSUME IInv, IInv', SharesAreSplit, [Next]_vars PROVE SharesAreSplit'
    OBVIOUS
  <2>1. CASE UNCHANGED <<qbit_share, sab_share, qbit_speed, sab_speed>>
    BY <2>1 DEF SharesAreSplit, BothActive, IsSplit
  <2>2. CASE \E qs, ss : Decided(qs, ss)
    BY <2>2, DecisionIsSplit DEF IInv
  <2> QED
    BY <2>1, <2>2, StepDecides
<1> QED
  BY Inductive, <1>1, <1>2, PTL DEF Spec

\* A budget of whole bytes is split evenly by the first decision that sees both
\* apps download, whichever was faster (allocator.py:34-39), unless one of them
\* leaves its half to a hungry other.  A budget with a fraction of a byte need not
\* be: run AllocatorFraction.
THEOREM FirstSplit ==
    ASSUME Total % Byte = 0
    PROVE  Spec => FirstSplitIsEven
<1> DEFINE First ==
      /\ ~BothActive /\ BothActive'
      /\ ~(Slack(qbit_speed, Total \div 2) /\ Hungry(sab_speed, Total \div 2))'
      /\ ~(Slack(sab_speed, Total \div 2) /\ Hungry(qbit_speed, Total \div 2))'
<1>1. IInv' /\ SharesAreSplit /\ [Next]_vars
        => [First => /\ qbit_share' = Round(Total \div 2)
                     /\ sab_share' = Round(Total \div 2)]_vars
  <2> SUFFICES ASSUME IInv', SharesAreSplit, [Next]_vars, First
               PROVE  /\ qbit_share' = Round(Total \div 2)
                      /\ sab_share' = Round(Total \div 2)
    OBVIOUS
  <2>1. Total \in Nat /\ Total % 200 = 0
    BY BudgetAssumption DEF BudgetAssumption
  <2>2. qbit_share = Total /\ sab_share = Total
    BY <2>1, RoundOfWhole DEF SharesAreSplit
  <2>3. PICK qs, ss : Decided(qs, ss)
    BY StepDecides DEF BothActive
  <2>4. /\ qs \in Nat /\ ss \in Nat /\ qbit_speed' = qs /\ sab_speed' = ss
        /\ qbit_share' = Allocate(qs, ss, Total, Total, Total).qbit
        /\ sab_share' = Allocate(qs, ss, Total, Total, Total).sab
    BY <2>2, <2>3 DEF Decided
  <2>5. /\ Active(qs) /\ Active(ss)
        /\ ~(Slack(qs, Total \div 2) /\ Hungry(ss, Total \div 2))
        /\ ~(Slack(ss, Total \div 2) /\ Hungry(qs, Total \div 2))
    BY <2>4 DEF BothActive
  <2> QED
    BY <2>1, <2>4, <2>5, AllocateFromCeiling
<1> QED
  BY SplitInductive, <1>1, PTL DEF Spec, FirstSplitIsEven

\* What a step from one joint decision to the next may take.
LEMMA NextDecisionLeaves ==
    ASSUME IInv, IInv', SharesAreSplit, [Next]_vars, BothActive, BothActive'
    PROVE  /\ qbit_share' < qbit_share - Byte =>
                 Slack(qbit_speed', qbit_share) \/ qbit_share > sab_share
           /\ sab_share' < sab_share - Byte =>
                 Slack(sab_speed', sab_share) \/ sab_share > qbit_share
           /\ Total > 5 * Byte =>
                 /\ qbit_share' < qbit_share - Byte /\ Slack(qbit_speed', qbit_share)
                       => qbit_share' > qbit_speed'
                 /\ sab_share' < sab_share - Byte /\ Slack(sab_speed', sab_share)
                       => sab_share' > sab_speed'
<1>1. CASE UNCHANGED <<qbit_share, sab_share, qbit_speed, sab_speed>>
  BY <1>1, ByteType DEF IInv, TypeOK
<1>2. CASE \E qs, ss : Decided(qs, ss)
  <2>1. PICK qs, ss : Decided(qs, ss)
    BY <1>2
  <2> DEFINE share == Allocate(qs, ss, qbit_share, sab_share, Total)
  <2>2. /\ qs \in Nat /\ ss \in Nat /\ qbit_speed' = qs /\ sab_speed' = ss
        /\ qbit_share' = share.qbit /\ sab_share' = share.sab
    BY <2>1 DEF Decided
  <2>3. Active(qs) /\ Active(ss) /\ IsSplit(qbit_share, sab_share)
    BY <2>2 DEF BothActive, SharesAreSplit
  <2> HIDE DEF share
  <2> QED
    BY <2>2, <2>3, DecisionLeaves DEF share
<1> QED
  BY <1>1, <1>2, StepDecides

\* From one joint decision to the next an app that uses its share loses some of
\* it only if it holds the larger one: no run of decisions starves a hungry app
\* below parity ("it can't run away indefinitely", allocator.py:55-56).
THEOREM NoHungryAppIsSqueezed == Spec => OnlySlackOrLargerYields
<1>1. IInv /\ IInv' /\ SharesAreSplit /\ [Next]_vars
        => [BothActive /\ BothActive' =>
              /\ qbit_share' < qbit_share - Byte =>
                    Slack(qbit_speed', qbit_share) \/ qbit_share > sab_share
              /\ sab_share' < sab_share - Byte =>
                    Slack(sab_speed', sab_share) \/ sab_share > qbit_share]_vars
  BY NextDecisionLeaves
<1> QED
  BY SplitInductive, <1>1, PTL DEF Spec, OnlySlackOrLargerYields

\* A slack app keeps more than it was measured at, whatever is taken from it, if
\* the budget is more than five bytes a second: the headroom, a tenth of it, then
\* outweighs what round() can take.
THEOREM SlackAppKeepsItsSpeed ==
    ASSUME Total > 5 * Byte
    PROVE  Spec => ShrinkLeavesHeadroom
<1>1. IInv /\ IInv' /\ SharesAreSplit /\ [Next]_vars
        => [BothActive /\ BothActive' =>
              /\ qbit_share' < qbit_share - Byte /\ Slack(qbit_speed', qbit_share)
                    => qbit_share' > qbit_speed'
              /\ sab_share' < sab_share - Byte /\ Slack(sab_speed', sab_share)
                    => sab_share' > sab_speed']_vars
  BY NextDecisionLeaves
<1> QED
  BY SplitInductive, <1>1, PTL DEF Spec, ShrinkLeavesHeadroom

-----------------------------------------------------------------------------
(***************************************************************************)
(* Convergence.  For a budget of an even number of bytes, at least 200 of  *)
(* them so that round() is small beside a step, and with the threshold of  *)
(* activity under the minimum share so that no app is taken for idle for   *)
(* being held there.                                                       *)
(***************************************************************************)
FineBudget ==
    /\ Total % (2 * Byte) = 0
    /\ Total >= 200 * Byte
    /\ ActiveThreshold + Byte <= Headroom(Total)

\* One step toward the midpoint, a twentieth of the budget.
Nudge == Total \div 20

LeastShare == Round(Headroom(Total))

\* The parts of the budget in terms of the nudge.
LEMMA BudgetParts ==
    ASSUME FineBudget
    PROVE  /\ Nudge \in Nat /\ Byte \in Nat /\ Byte > 0 /\ Nudge >= 10 * Byte
           /\ Total = 20 * Nudge /\ Total \div 2 = 10 * Nudge
           /\ Headroom(Total) = 2 * Nudge
           /\ ActiveThreshold \in Nat /\ ActiveThreshold + Byte <= 2 * Nudge
<1>1. Total \in Nat /\ Total % 200 = 0 /\ Byte \in Nat /\ Byte > 0 /\ ActiveThreshold \in Nat
  BY BudgetAssumption, ByteType, AllocatorAssumption
     DEF BudgetAssumption, AllocatorAssumption
<1>2. Nudge \in Nat /\ Total = 20 * Nudge
  BY <1>1 DEF Nudge
<1>3. Total \div 2 = 10 * Nudge /\ Total \div 10 = 2 * Nudge
  <2> HIDE DEF Nudge
  <2> QED
    BY <1>2
<1> QED
  BY <1>1, <1>2, <1>3 DEF FineBudget, Headroom

LEMMA HalfIsWhole ==
    ASSUME FineBudget
    PROVE  IsWhole(10 * Nudge) /\ IsWhole(Total)
<1> DEFINE b == 2 * Byte
           t == Total \div b
<1>1. Byte \in Nat /\ Byte > 0 /\ Nudge \in Nat /\ Total = 20 * Nudge /\ Total % b = 0
  BY BudgetParts DEF FineBudget
<1>2. b \in Nat /\ b > 0 /\ t \in Int /\ Total = b * t
  <2>1. b \in Nat /\ b > 0 /\ Total \in Int
    BY <1>1
  <2> HIDE DEF b
  <2>2. t \in Int /\ Total = b * t + (Total % b)
    BY <2>1
  <2>3. b * t \in Int
    BY <2>1, <2>2
  <2> QED
    BY <1>1, <2>1, <2>2, <2>3
<1>3. b * t = Byte * t + Byte * t /\ b * t = Byte * (2 * t) /\ Byte * t \in Int
  BY <1>1, <1>2
<1> HIDE DEF t, b
<1>4. 10 * Nudge = Byte * t /\ Total = Byte * (2 * t) /\ 2 * t \in Int
  BY <1>1, <1>2, <1>3
<1> QED
  BY <1>2, <1>4 DEF IsWhole

\* The minimum share is more than what counts as idle.
LEMMA LeastShareBounds ==
    ASSUME FineBudget
    PROVE  /\ LeastShare \in Nat /\ IsWhole(LeastShare)
           /\ 2 * LeastShare <= 4 * Nudge + Byte /\ 2 * LeastShare >= 4 * Nudge - Byte
           /\ LeastShare > ActiveThreshold
<1>1. Headroom(Total) \in Int /\ Headroom(Total) = 2 * Nudge
  BY BudgetParts
<1>2. /\ LeastShare \in Int /\ IsWhole(LeastShare)
      /\ 2 * LeastShare <= 2 * Headroom(Total) + Byte
      /\ 2 * LeastShare >= 2 * Headroom(Total) - Byte
  BY <1>1, RoundBound, RoundIsWhole DEF LeastShare
<1> QED
  BY <1>1, <1>2, BudgetParts

\* What a number of whole bytes rounds to between bounds.
LEMMA RoundUpTo ==
    ASSUME NEW x \in Int, NEW y, IsWhole(y)
    PROVE  /\ x <= y => Round(x) <= y
           /\ y <= x => y <= Round(x)
<1>1. y \in Int /\ Round(y) = y
  BY WholeRounds
<1> QED
  BY <1>1, RoundKeepsOrder

-----------------------------------------------------------------------------
\* The shares after a decision on two downloading apps.
Exact(q, s) ==
    /\ IsWhole(q) /\ IsWhole(s) /\ q + s = Total
    /\ q >= LeastShare /\ s >= LeastShare

\* What an app that wants d is taken for at share x.
HungryAt(d, x) == 10 * d >= 9 * x
SlackAt(d, x) == 20 * d < 17 * x
MidAt(d, x) == ~HungryAt(d, x) /\ ~SlackAt(d, x)

\* The speed v tells as much of demand d.
Tells(v, d, x) ==
    /\ v \in Nat
    /\ Hungry(v, x) <=> HungryAt(d, x)
    /\ Slack(v, x) <=> SlackAt(d, x)
    /\ SlackAt(d, x) => v = d

\* An app obeying a limit y no less than its share tells of its demand.
LEMMA ServedTells ==
    ASSUME NEW d \in Nat, NEW x \in Nat, x > 0, NEW y \in Nat, y >= x
    PROVE  Tells(Least(d, y), d, x)
<1>1. CASE d <= y
  BY <1>1 DEF Least, Tells, Hungry, Slack, HungryAt, SlackAt
<1>2. CASE ~(d <= y)
  BY <1>2 DEF Least, Tells, Hungry, Slack, HungryAt, SlackAt
<1> QED
  BY <1>1, <1>2

\* A clamped share rounds to an exact split.
LEMMA ClampedIsExact ==
    ASSUME FineBudget, NEW x \in Int, NEW c, c = Clamped(x, Total)
    PROVE  /\ c \in Int /\ Exact(Round(c), Round(Total - c))
           /\ Round(Total - c) = Total - Round(c)
<1>1. /\ c \in Nat /\ Total \in Nat /\ c >= Headroom(Total) /\ Total - c >= Headroom(Total)
      /\ Headroom(Total) \in Int
  <2>1. Total \in Nat /\ Total % 200 = 0
    BY BudgetAssumption DEF BudgetAssumption
  <2>2. Headroom(Total) \in Int
    BY <2>1, HeadroomBound
  <2> QED
    BY <2>1, <2>2, ClampedBound
<1>2. Round(c) + Round(Total - c) = Total /\ Round(c) \in Int /\ Round(Total - c) \in Int
  BY <1>1, RoundPair, RoundBound DEF FineBudget
<1>3. IsWhole(Round(c)) /\ IsWhole(Round(Total - c))
  BY <1>1, RoundIsWhole
<1>4. Round(c) >= LeastShare /\ Round(Total - c) >= LeastShare
  <2>1. Total - c \in Int
    BY <1>1
  <2> QED
    BY <1>1, <2>1, RoundKeepsOrder DEF LeastShare
<1> QED
  BY <1>1, <1>2, <1>3, <1>4 DEF Exact

\* A share between the bounds stays what it is.
LEMMA ExactStays ==
    ASSUME FineBudget, NEW q, NEW s, Exact(q, s)
    PROVE  /\ q \in Nat /\ s \in Nat /\ q > 0 /\ s > 0
           /\ Round(Clamped(q, Total)) = q
<1>1. /\ q \in Int /\ s \in Int /\ Round(q) = q
      /\ q + s = Total /\ q >= LeastShare /\ s >= LeastShare
  BY WholeRounds DEF Exact
<1>2. /\ Nudge \in Nat /\ Byte \in Nat /\ Byte > 0 /\ Nudge >= 10 * Byte
      /\ Total = 20 * Nudge /\ Headroom(Total) = 2 * Nudge
  BY BudgetParts
<1>3. /\ LeastShare \in Nat /\ IsWhole(LeastShare)
      /\ 2 * LeastShare <= 4 * Nudge + Byte /\ 2 * LeastShare >= 4 * Nudge - Byte
  BY LeastShareBounds
<1>4. CASE q < Headroom(Total)
  <2>1. Clamped(q, Total) = Headroom(Total)
    BY <1>1, <1>2, <1>4 DEF Clamped, Greatest, Least
  <2>2. IsWhole(q)
    BY DEF Exact
  <2>3. q < LeastShare + Byte /\ LeastShare < q + Byte
    BY <1>1, <1>2, <1>3, <1>4
  <2>4. q = LeastShare
    BY <1>3, <2>2, <2>3, WholeGap
  <2> QED
    BY <1>1, <1>2, <1>3, <2>1, <2>4 DEF LeastShare
<1>5. CASE s < Headroom(Total)
  <2>1. Clamped(q, Total) = Total - Headroom(Total)
    BY <1>1, <1>2, <1>5 DEF Clamped, Greatest, Least
  <2>2. IsWhole(s)
    BY DEF Exact
  <2>3. s < LeastShare + Byte /\ LeastShare < s + Byte
    BY <1>1, <1>2, <1>3, <1>5
  <2>4. s = LeastShare
    BY <1>3, <2>2, <2>3, WholeGap
  <2>5. Round(Headroom(Total)) + Round(Total - Headroom(Total)) = Total
    BY <1>2, RoundPair DEF FineBudget
  <2>6. Round(Total - Headroom(Total)) \in Int
    BY <1>2, RoundBound
  <2> QED
    BY <1>1, <1>2, <1>3, <2>1, <2>4, <2>5, <2>6 DEF LeastShare
<1>6. CASE q >= Headroom(Total) /\ s >= Headroom(Total)
  <2>1. Clamped(q, Total) = q
    BY <1>1, <1>2, <1>6 DEF Clamped, Greatest, Least
  <2> QED
    BY <1>1, <1>2, <1>3, <2>1
<1> QED
  BY <1>1, <1>2, <1>3, <1>4, <1>5, <1>6

-----------------------------------------------------------------------------
\* Where an app comes to that a decision cuts down, or nudges up.
Cut(d, x) == Round(Clamped(Least(x, d + Headroom(Total)), Total))
Nudged(x) == Round(Least(x + Nudge, 10 * Nudge))

\* What a decision makes of shares q and s of apps that want dq and ds.
Outcome(dq, ds, q, s, nq, ns) ==
    /\ SlackAt(dq, q) /\ HungryAt(ds, s) => nq = Cut(dq, q)
    /\ SlackAt(ds, s) /\ HungryAt(dq, q) => ns = Cut(ds, s)
    /\ HungryAt(dq, q) /\ HungryAt(ds, s) =>
          /\ q <= s => nq = Nudged(q)
          /\ s <= q => ns = Nudged(s)
    /\ \/ SlackAt(dq, q) /\ HungryAt(ds, s)
       \/ SlackAt(ds, s) /\ HungryAt(dq, q)
       \/ HungryAt(dq, q) /\ HungryAt(ds, s)
       \/ nq = q /\ ns = s

\* The clamp has the same effect on both sides of the split.
LEMMA ClampedOther ==
    ASSUME FineBudget, NEW x \in Int
    PROVE  Total - Clamped(Total - x, Total) = Clamped(x, Total)
<1>1. Total \in Nat /\ Headroom(Total) \in Nat /\ Total = 10 * Headroom(Total)
  BY BudgetAssumption, HeadroomBound DEF BudgetAssumption
<1> QED
  BY <1>1 DEF Clamped, Greatest, Least

\* A step toward the midpoint, seen from the app that gains.
LEMMA NudgeOutcome ==
    ASSUME FineBudget, NEW q, NEW s, Exact(q, s),
           NEW c, c = Clamped(TowardMidpoint(q, s, Total), Total)
    PROVE  /\ q <= s => c = Least(q + Nudge, 10 * Nudge)
           /\ s <= q => Total - c = Least(s + Nudge, 10 * Nudge)
<1>1. /\ q \in Nat /\ s \in Nat /\ q + s = Total /\ q >= LeastShare /\ s >= LeastShare
      /\ LeastShare \in Nat /\ 2 * LeastShare >= 4 * Nudge - Byte
  BY ExactStays, LeastShareBounds DEF Exact
<1>2. /\ Nudge \in Nat /\ Byte \in Nat /\ Byte > 0 /\ Nudge >= 10 * Byte
      /\ Total = 20 * Nudge /\ Headroom(Total) = 2 * Nudge
      /\ Total \div 20 = Nudge /\ (q + s) \div 2 = 10 * Nudge
  BY <1>1, BudgetParts DEF Nudge
<1> DEFINE r == TowardMidpoint(q, s, Total)
<1>3. /\ r = IF q < 10 * Nudge THEN Least(q + Nudge, 10 * Nudge)
             ELSE IF s < 10 * Nudge THEN Greatest(q - Nudge, 10 * Nudge)
             ELSE q
  BY <1>2 DEF TowardMidpoint
<1> HIDE DEF r
<1>4. CASE q < 10 * Nudge
  <2>1. r = Least(q + Nudge, 10 * Nudge) /\ q < s
    BY <1>1, <1>2, <1>3, <1>4
  <2>2. r \in Int /\ r >= 2 * Nudge /\ r <= 18 * Nudge
    BY <1>1, <1>2, <2>1 DEF Least
  <2>3. c = r
    BY <1>2, <2>2 DEF r, Clamped, Greatest, Least
  <2> QED
    BY <1>1, <2>1, <2>3
<1>5. CASE s < 10 * Nudge
  <2>1. r = Greatest(q - Nudge, 10 * Nudge) /\ s < q
    BY <1>1, <1>2, <1>3, <1>5
  <2>2. r \in Int /\ r >= 2 * Nudge /\ r <= 18 * Nudge
    BY <1>1, <1>2, <1>5, <2>1 DEF Greatest
  <2>3. c = r
    BY <1>2, <2>2 DEF r, Clamped, Greatest, Least
  <2> QED
    BY <1>1, <1>2, <2>1, <2>3 DEF Greatest, Least
<1>6. CASE q = 10 * Nudge /\ s = 10 * Nudge
  <2>1. r = 10 * Nudge
    BY <1>3, <1>6
  <2>2. c = r
    BY <1>2, <2>1 DEF r, Clamped, Greatest, Least
  <2> QED
    BY <1>2, <1>6, <2>1, <2>2 DEF Least
<1> QED
  BY <1>1, <1>2, <1>4, <1>5, <1>6

\* A decision in terms of the demands.
LEMMA SteadyDecision ==
    ASSUME FineBudget, NEW q, NEW s, Exact(q, s),
           NEW dq \in Nat, NEW ds \in Nat, NEW vq, NEW vs,
           Tells(vq, dq, q), Tells(vs, ds, s),
           NEW c, c = Clamped(Reshared(vq, vs, q, s, Total), Total)
    PROVE  /\ Exact(Round(c), Round(Total - c))
           /\ Outcome(dq, ds, q, s, Round(c), Round(Total - c))
<1> DEFINE r == Reshared(vq, vs, q, s, Total)
<1>1. /\ q \in Nat /\ s \in Nat /\ q > 0 /\ s > 0 /\ q + s = Total
      /\ Round(Clamped(q, Total)) = q
      /\ vq \in Nat /\ vs \in Nat
  BY ExactStays DEF Exact, Tells
<1>2. Total \in Nat /\ Total % 200 = 0 /\ Headroom(Total) \in Nat
  BY BudgetAssumption, HeadroomBound DEF BudgetAssumption
<1>3. r \in Int
  BY <1>1, <1>2, ResharedInt
<1>4. /\ c \in Int /\ Exact(Round(c), Round(Total - c))
      /\ Round(Total - c) = Total - Round(c)
  BY <1>3, ClampedIsExact
<1>5. /\ ~(SlackAt(dq, q) /\ HungryAt(dq, q)) /\ ~(SlackAt(ds, s) /\ HungryAt(ds, s))
  BY <1>1 DEF SlackAt, HungryAt
<1>6. /\ Hungry(vq, q) <=> HungryAt(dq, q)
      /\ Slack(vq, q) <=> SlackAt(dq, q)
      /\ SlackAt(dq, q) => vq = dq
      /\ Hungry(vs, s) <=> HungryAt(ds, s)
      /\ Slack(vs, s) <=> SlackAt(ds, s)
      /\ SlackAt(ds, s) => vs = ds
  BY DEF Tells
<1>7. CASE SlackAt(dq, q) /\ HungryAt(ds, s)
  <2>1. r = Shrunk(vq, q, Total)
    BY <1>5, <1>6, <1>7 DEF Reshared
  <2>2. c = Clamped(Least(q, dq + Headroom(Total)), Total)
    BY <1>6, <1>7, <2>1 DEF Shrunk
  <2> QED
    BY <1>4, <1>5, <1>7, <2>2 DEF Outcome, Cut
<1>8. CASE SlackAt(ds, s) /\ HungryAt(dq, q)
  <2> DEFINE x == Least(s, ds + Headroom(Total))
  <2>1. r = Total - Shrunk(vs, s, Total)
    BY <1>5, <1>6, <1>8 DEF Reshared
  <2>2. x \in Int /\ r = Total - x
    BY <1>1, <1>2, <1>6, <1>8, <2>1 DEF Shrunk, Least
  <2>3. Total - c = Clamped(x, Total)
    BY <2>2, ClampedOther
  <2> QED
    BY <1>4, <1>5, <1>8, <2>3 DEF Outcome, Cut
<1>9. CASE HungryAt(dq, q) /\ HungryAt(ds, s)
  <2>1. r = TowardMidpoint(q, s, Total)
    BY <1>5, <1>6, <1>9 DEF Reshared
  <2>2. /\ q <= s => c = Least(q + Nudge, 10 * Nudge)
        /\ s <= q => Total - c = Least(s + Nudge, 10 * Nudge)
    BY <2>1, NudgeOutcome
  <2> QED
    BY <1>4, <1>5, <1>9, <2>2 DEF Outcome, Nudged
<1>10. CASE /\ ~(SlackAt(dq, q) /\ HungryAt(ds, s)) /\ ~(SlackAt(ds, s) /\ HungryAt(dq, q))
            /\ ~(HungryAt(dq, q) /\ HungryAt(ds, s))
  <2>1. r = q
    BY <1>6, <1>10 DEF Reshared
  <2>2. Round(c) = q /\ Round(Total - c) = s
    BY <1>1, <1>2, <1>4, <2>1
  <2> QED
    BY <1>4, <1>10, <2>2 DEF Outcome
<1> QED
  BY <1>7, <1>8, <1>9, <1>10


-----------------------------------------------------------------------------
\* Shares that no decision changes while the demands last: an app between the
\* thresholds, both slack, or a slack app that is down to its room.
AtRest(dq, ds, q, s) ==
    \/ MidAt(dq, q)
    \/ MidAt(ds, s)
    \/ SlackAt(dq, q) /\ SlackAt(ds, s)
    \/ SlackAt(dq, q) /\ q <= Round(dq + Headroom(Total))
    \/ SlackAt(ds, s) /\ s <= Round(ds + Headroom(Total))

\* How far n steps toward the midpoint bring a share, each of them less what
\* round() takes of it.
Approached(n, x) ==
    \/ x >= 10 * Nudge
    \/ 2 * x >= 4 * Nudge - Byte + n * (2 * Nudge - Byte)

\* Both apps use their shares, and have for n decisions.
Approaching(n, dq, ds, q, s) ==
    /\ HungryAt(dq, q) /\ HungryAt(ds, s)
    /\ Approached(n, q) /\ Approached(n, s)

\* Exact shares with their bounds.
LEMMA ExactBounds ==
    ASSUME FineBudget, NEW q, NEW s, Exact(q, s)
    PROVE  /\ q \in Nat /\ s \in Nat /\ q > 0 /\ s > 0 /\ q + s = 20 * Nudge
           /\ 2 * q >= 4 * Nudge - Byte /\ 2 * s >= 4 * Nudge - Byte
           /\ Exact(s, q)
<1>1. /\ q \in Nat /\ s \in Nat /\ q > 0 /\ s > 0 /\ q + s = Total
      /\ q >= LeastShare /\ s >= LeastShare
  BY ExactStays DEF Exact
<1>2. LeastShare \in Nat /\ 2 * LeastShare >= 4 * Nudge - Byte
  BY LeastShareBounds
<1>3. Total = 20 * Nudge /\ Nudge \in Nat /\ Byte \in Nat
  BY BudgetParts
<1>4. Exact(s, q)
  BY <1>1 DEF Exact
<1> QED
  BY <1>1, <1>2, <1>3, <1>4

\* An app cut down is left at rest: still slack but down to its room, or between
\* the thresholds.
LEMMA CutRests ==
    ASSUME FineBudget, NEW d \in Nat, NEW x, NEW y, NEW xx, NEW yy,
           Exact(x, y), Exact(xx, yy), SlackAt(d, x), xx = Cut(d, x)
    PROVE  \/ MidAt(d, xx)
           \/ SlackAt(d, xx) /\ xx <= Round(d + Headroom(Total))
<1> DEFINE c == Clamped(Least(x, d + Headroom(Total)), Total)
           room == Round(d + Headroom(Total))
<1>1. /\ Nudge \in Nat /\ Byte \in Nat /\ Byte > 0 /\ Nudge >= 10 * Byte
      /\ Total = 20 * Nudge /\ Headroom(Total) = 2 * Nudge
  BY BudgetParts
<1>2. /\ x \in Nat /\ y \in Nat /\ x + y = 20 * Nudge
      /\ 2 * x >= 4 * Nudge - Byte /\ 2 * y >= 4 * Nudge - Byte
  BY ExactBounds
<1>3. xx \in Nat /\ yy \in Nat
  BY ExactBounds
<1>4. /\ c \in Int /\ c <= d + 2 * Nudge
      /\ c >= x \/ c >= d + 2 * Nudge \/ c >= 18 * Nudge
  BY <1>1, <1>2 DEF Clamped, Least, Greatest
<1>5. xx = Round(c)
  BY DEF Cut
<1> HIDE DEF c
<1>6. 2 * xx >= 2 * c - Byte
  BY <1>4, <1>5, RoundBound
<1>7. xx <= room
  BY <1>1, <1>4, <1>5, RoundKeepsOrder
<1>8. 20 * d < 17 * x
  BY DEF SlackAt
<1>9. 10 * d < 9 * xx
  <2>1. CASE c >= x
    BY <1>1, <1>2, <1>3, <1>4, <1>6, <1>8, <2>1
  <2>2. CASE c >= d + 2 * Nudge
    BY <1>1, <1>2, <1>3, <1>4, <1>6, <1>8, <2>2
  <2>3. CASE c >= 18 * Nudge
    BY <1>1, <1>2, <1>3, <1>4, <1>6, <1>8, <2>3
  <2> QED
    BY <1>4, <2>1, <2>2, <2>3
<1>10. ~HungryAt(d, xx)
  BY <1>3, <1>9 DEF HungryAt
<1> QED
  BY <1>7, <1>10 DEF MidAt

\* Down to its room, it is cut no further.
LEMMA RestCutStays ==
    ASSUME FineBudget, NEW d \in Nat, NEW x, NEW y, Exact(x, y),
           SlackAt(d, x), x <= Round(d + Headroom(Total))
    PROVE  Cut(d, x) = x
<1>1. /\ Nudge \in Nat /\ Byte \in Nat /\ Byte > 0 /\ Nudge >= 10 * Byte
      /\ Total = 20 * Nudge /\ Headroom(Total) = 2 * Nudge
  BY BudgetParts
<1>2. /\ x \in Nat /\ y \in Nat /\ x + y = 20 * Nudge
      /\ 2 * y >= 4 * Nudge - Byte
  BY ExactBounds
<1>3. Round(Clamped(x, Total)) = x /\ Round(x) = x
  BY ExactStays, WholeRounds DEF Exact
<1>4. CASE x <= d + Headroom(Total)
  BY <1>3, <1>4 DEF Cut, Least
<1>5. CASE ~(x <= d + Headroom(Total))
  <2>1. d + Headroom(Total) \in Int /\ d + Headroom(Total) <= x
    BY <1>1, <1>2, <1>5
  <2>2. Round(d + Headroom(Total)) <= x /\ Round(d + Headroom(Total)) \in Int
    BY <1>2, <1>3, <2>1, RoundKeepsOrder, RoundBound
  <2>3. Round(d + Headroom(Total)) = x
    BY <1>2, <2>2
  <2>4. 20 * d < 17 * x
    BY DEF SlackAt
  <2>5. Clamped(d + Headroom(Total), Total) = d + Headroom(Total)
    BY <1>1, <1>2, <2>4 DEF Clamped, Least, Greatest
  <2> QED
    BY <1>5, <2>3, <2>5 DEF Cut, Least
<1> QED
  BY <1>4, <1>5

\* Shares at rest are left as they are.
LEMMA RestStays ==
    ASSUME FineBudget, NEW dq \in Nat, NEW ds \in Nat, NEW q, NEW s, NEW nq, NEW ns,
           Exact(q, s), Exact(nq, ns), Outcome(dq, ds, q, s, nq, ns),
           AtRest(dq, ds, q, s)
    PROVE  nq = q /\ ns = s
<1>1. /\ q \in Nat /\ s \in Nat /\ q > 0 /\ s > 0 /\ q + s = 20 * Nudge
      /\ Exact(s, q)
  BY ExactBounds
<1>2. nq \in Nat /\ ns \in Nat /\ nq + ns = 20 * Nudge
  BY ExactBounds
<1>3. ~(SlackAt(dq, q) /\ HungryAt(dq, q)) /\ ~(SlackAt(ds, s) /\ HungryAt(ds, s))
  BY <1>1 DEF SlackAt, HungryAt
<1>4. CASE SlackAt(dq, q) /\ HungryAt(ds, s)
  <2>1. q <= Round(dq + Headroom(Total))
    BY <1>3, <1>4 DEF AtRest, MidAt
  <2>2. nq = q
    BY <1>4, <2>1, RestCutStays DEF Outcome
  <2> QED
    BY <1>1, <1>2, <2>2, BudgetParts
<1>5. CASE SlackAt(ds, s) /\ HungryAt(dq, q)
  <2>1. s <= Round(ds + Headroom(Total))
    BY <1>3, <1>5 DEF AtRest, MidAt
  <2>2. ns = s
    BY <1>1, <1>5, <2>1, RestCutStays DEF Outcome
  <2> QED
    BY <1>1, <1>2, <2>2, BudgetParts
<1>6. CASE HungryAt(dq, q) /\ HungryAt(ds, s)
  BY <1>3, <1>6 DEF AtRest, MidAt
<1> QED
  BY <1>4, <1>5, <1>6 DEF Outcome

\* One more step toward the midpoint, for the app that holds no more than half:
\* it comes a step closer, or is left with no more than its room.
LEMMA NudgeApproaches ==
    ASSUME FineBudget, NEW n \in Nat, NEW d \in Nat, NEW e \in Nat,
           NEW x, NEW y, NEW xx, NEW yy,
           Exact(x, y), Exact(xx, yy), HungryAt(d, x), HungryAt(e, y),
           Approached(n, x), x <= y, xx = Nudged(x)
    PROVE  /\ HungryAt(e, yy) /\ Approached(n + 1, yy)
           /\ \/ MidAt(d, xx)
              \/ SlackAt(d, xx) /\ xx <= Round(d + Headroom(Total))
              \/ HungryAt(d, xx) /\ Approached(n + 1, xx)
<1> DEFINE m == Least(x + Nudge, 10 * Nudge)
           step == 2 * Nudge - Byte
           k == n * step
<1>1. /\ Nudge \in Nat /\ Byte \in Nat /\ Byte > 0 /\ Nudge >= 10 * Byte
      /\ Total = 20 * Nudge /\ Headroom(Total) = 2 * Nudge
  BY BudgetParts
<1>2. x \in Nat /\ y \in Nat /\ x + y = 20 * Nudge
  BY ExactBounds
<1>3. xx \in Nat /\ yy \in Nat /\ xx + yy = 20 * Nudge
  BY ExactBounds
<1>4. /\ m \in Int /\ m <= x + Nudge /\ m <= 10 * Nudge /\ x <= m
      /\ m = x + Nudge \/ m = 10 * Nudge
  BY <1>1, <1>2 DEF Least
<1>5. xx = Round(m)
  BY DEF Nudged
<1> HIDE DEF m
<1>6. xx <= 10 * Nudge /\ (10 * Nudge <= m => 10 * Nudge <= xx)
  BY <1>4, <1>5, HalfIsWhole, RoundUpTo
<1>7. x <= xx
  <2>1. IsWhole(x)
    BY DEF Exact
  <2> QED
    BY <1>4, <1>5, <2>1, RoundUpTo
<1>8. 2 * xx >= 2 * m - Byte
  BY <1>4, <1>5, RoundBound
<1>9. 10 * Nudge <= yy /\ yy <= y
  BY <1>1, <1>2, <1>3, <1>6, <1>7
<1>10. HungryAt(e, yy) /\ Approached(n + 1, yy)
  BY <1>1, <1>2, <1>3, <1>9 DEF HungryAt, Approached
<1>11. 10 * d >= 9 * x
  BY DEF HungryAt
<1>12. xx <= Round(d + Headroom(Total))
  <2>1. m <= d + Headroom(Total) /\ d + Headroom(Total) \in Int
    BY <1>1, <1>2, <1>4, <1>11
  <2> QED
    BY <1>4, <1>5, <2>1, RoundKeepsOrder
<1>13. Approached(n + 1, xx)
  <2>1. CASE 10 * Nudge <= m
    BY <1>6, <2>1 DEF Approached
  <2>2. CASE x >= 10 * Nudge
    BY <1>1, <1>2, <1>3, <1>7, <2>2 DEF Approached
  <2>3. CASE m = x + Nudge /\ 2 * x >= 4 * Nudge - Byte + k
    <3>1. step \in Int /\ k \in Int /\ (n + 1) * step = k + step
      BY <1>1
    <3>2. step = 2 * Nudge - Byte
      OBVIOUS
    <3> HIDE DEF k
    <3>3. 2 * xx >= 4 * Nudge - Byte + (k + step)
      <4> HIDE DEF step
      <4> QED
        BY <1>1, <1>2, <1>3, <1>8, <2>3, <3>1, <3>2
    <3> QED
      BY <3>1, <3>3 DEF Approached
  <2>4. x >= 10 * Nudge \/ 2 * x >= 4 * Nudge - Byte + k
    BY DEF Approached
  <2> QED
    BY <1>1, <1>4, <2>1, <2>2, <2>3, <2>4
<1> QED
  BY <1>10, <1>12, <1>13 DEF MidAt

\* A decision on steady demands leaves the shares at rest, or a step closer to
\* even.
LEMMA DecisionRests ==
    ASSUME FineBudget, NEW n \in Nat, NEW dq \in Nat, NEW ds \in Nat,
           NEW q, NEW s, NEW nq, NEW ns,
           Exact(q, s), Exact(nq, ns), Outcome(dq, ds, q, s, nq, ns),
           n = 0 \/ AtRest(dq, ds, q, s) \/ Approaching(n, dq, ds, q, s)
    PROVE  AtRest(dq, ds, nq, ns) \/ Approaching(n + 1, dq, ds, nq, ns)
<1>1. /\ q \in Nat /\ s \in Nat /\ q > 0 /\ s > 0 /\ Exact(s, q)
      /\ 2 * q >= 4 * Nudge - Byte /\ 2 * s >= 4 * Nudge - Byte
  BY ExactBounds
<1>2. Exact(ns, nq)
  BY ExactBounds
<1>3. CASE AtRest(dq, ds, q, s)
  <2>1. nq = q /\ ns = s
    BY <1>3, RestStays
  <2> QED
    BY <1>3, <2>1
<1>4. CASE SlackAt(dq, q) /\ HungryAt(ds, s)
  <2>1. nq = Cut(dq, q)
    BY <1>4 DEF Outcome
  <2> QED
    BY <1>4, <2>1, CutRests DEF AtRest
<1>5. CASE SlackAt(ds, s) /\ HungryAt(dq, q)
  <2>1. ns = Cut(ds, s)
    BY <1>5 DEF Outcome
  <2> QED
    BY <1>1, <1>2, <1>5, <2>1, CutRests DEF AtRest
<1>6. CASE HungryAt(dq, q) /\ HungryAt(ds, s)
  <2>1. ~AtRest(dq, ds, q, s)
    BY <1>1, <1>6 DEF AtRest, MidAt, SlackAt, HungryAt
  <2>2. Approached(n, q) /\ Approached(n, s)
    <3>1. CASE n = 0
      <4>1. Nudge \in Nat /\ Byte \in Nat
        BY BudgetParts
      <4>2. n * (2 * Nudge - Byte) = 0
        BY <3>1, <4>1
      <4> QED
        BY <1>1, <4>1, <4>2 DEF Approached
    <3> QED
      BY <2>1, <3>1 DEF Approaching
  <2>3. CASE q <= s
    <3>1. nq = Nudged(q)
      BY <1>6, <2>3 DEF Outcome
    <3>2. /\ HungryAt(ds, ns) /\ Approached(n + 1, ns)
          /\ \/ MidAt(dq, nq)
             \/ SlackAt(dq, nq) /\ nq <= Round(dq + Headroom(Total))
             \/ HungryAt(dq, nq) /\ Approached(n + 1, nq)
      BY <1>6, <2>2, <2>3, <3>1, NudgeApproaches
    <3> QED
      BY <3>2 DEF AtRest, Approaching
  <2>4. CASE s <= q
    <3>1. ns = Nudged(s)
      BY <1>6, <2>4 DEF Outcome
    <3>2. /\ HungryAt(dq, nq) /\ Approached(n + 1, nq)
          /\ \/ MidAt(ds, ns)
             \/ SlackAt(ds, ns) /\ ns <= Round(ds + Headroom(Total))
             \/ HungryAt(ds, ns) /\ Approached(n + 1, ns)
      BY <1>1, <1>2, <1>6, <2>2, <2>4, <3>1, NudgeApproaches
    <3> QED
      BY <3>2 DEF AtRest, Approaching
  <2> QED
    BY <1>1, <2>3, <2>4
<1>7. CASE /\ ~(SlackAt(dq, q) /\ HungryAt(ds, s)) /\ ~(SlackAt(ds, s) /\ HungryAt(dq, q))
           /\ ~(HungryAt(dq, q) /\ HungryAt(ds, s))
  <2>1. AtRest(dq, ds, q, s)
    BY <1>7 DEF AtRest, MidAt
  <2> QED
    BY <1>3, <2>1
<1> QED
  BY <1>4, <1>5, <1>6, <1>7

\* More steps than it is taken to make are as good.
LEMMA ApproachedSooner ==
    ASSUME FineBudget, NEW n \in Nat, NEW x \in Nat, Approached(n + 1, x)
    PROVE  Approached(n, x)
<1> DEFINE step == 2 * Nudge - Byte
           k == n * step
<1>1. Nudge \in Nat /\ Byte \in Nat /\ Nudge >= 10 * Byte
  BY BudgetParts
<1>2. step \in Nat
  BY <1>1
<1>3. k \in Nat /\ (n + 1) * step = k + step
  <2> HIDE DEF step
  <2> QED
    BY <1>2
<1>4. x >= 10 * Nudge \/ 2 * x >= 4 * Nudge - Byte + (k + step)
  BY <1>3 DEF Approached
<1> HIDE DEF step
<1>5. x >= 10 * Nudge \/ 2 * x >= 4 * Nudge - Byte + k
  <2> HIDE DEF k
  <2> QED
    BY <1>1, <1>2, <1>3, <1>4
<1> QED
  BY <1>5 DEF Approached, step

\* Nine steps make the shares even.
LEMMA NineSteps ==
    ASSUME FineBudget, NEW n \in Nat, n >= 9, NEW q, NEW s, Exact(q, s),
           Approached(n, q), Approached(n, s)
    PROVE  q = 10 * Nudge /\ s = 10 * Nudge
<1> DEFINE step == 2 * Nudge - Byte
           k == n * step
<1>1. Nudge \in Nat /\ Byte \in Nat /\ Nudge >= 10 * Byte
  BY BudgetParts
<1>2. step \in Nat /\ 9 * step = 18 * Nudge - 9 * Byte
  BY <1>1
<1>3. k \in Nat /\ k >= 9 * step
  <2> HIDE DEF step
  <2> QED
    BY <1>2
<1>4. q \in Nat /\ s \in Nat /\ q + s = 20 * Nudge
  BY ExactBounds
<1>5. /\ q >= 10 * Nudge \/ 2 * q >= 4 * Nudge - Byte + k
      /\ s >= 10 * Nudge \/ 2 * s >= 4 * Nudge - Byte + k
  BY DEF Approached
<1> HIDE DEF k, step
<1> QED
  BY <1>1, <1>2, <1>3, <1>4, <1>5


-----------------------------------------------------------------------------
\* What FairTo() is for demands d and e.
Due(d, e) ==
    Least(d, IF Slack(e, Round(e + Headroom(Total)))
             THEN Total - Headroom(Total) - e ELSE Total \div 2)

\* Shares at rest serve each app its due, or the other is between the thresholds.
LEMMA RestIsFair ==
    ASSUME FineBudget, NEW d \in Nat, NEW e \in Nat, NEW x, NEW y,
           Exact(x, y), AtRest(d, e, x, y) \/ AtRest(e, d, y, x)
    PROVE  Least(d, x) >= Due(d, e) - Byte \/ MidAt(e, y)
<1> DEFINE room == Round(e + Headroom(Total))
           rest == IF Slack(e, room) THEN Total - Headroom(Total) - e ELSE Total \div 2
<1>1. /\ Nudge \in Nat /\ Byte \in Nat /\ Byte > 0 /\ Nudge >= 10 * Byte
      /\ Total = 20 * Nudge /\ Total \div 2 = 10 * Nudge /\ Headroom(Total) = 2 * Nudge
  BY BudgetParts
<1>2. x \in Nat /\ y \in Nat /\ x > 0 /\ y > 0 /\ x + y = 20 * Nudge
  BY ExactBounds
<1>3. room \in Int /\ 2 * room <= 2 * (e + 2 * Nudge) + Byte
  <2>1. e + Headroom(Total) \in Int /\ e + Headroom(Total) = e + 2 * Nudge
    BY <1>1
  <2>2. room \in Int /\ 2 * room <= 2 * (e + Headroom(Total)) + Byte
    BY <2>1, RoundBound
  <2> HIDE DEF room
  <2> QED
    BY <2>1, <2>2
<1> HIDE DEF room
<1>4. rest \in Int
  BY <1>1
<1>5. CASE ~HungryAt(d, x)
  <2>1. Least(d, x) = d
    BY <1>2, <1>5 DEF HungryAt, Least
  <2>2. Least(d, rest) <= d
    BY <1>4 DEF Least
  <2>3. Least(d, rest) \in Int
    BY <1>4 DEF Least
  <2> QED
    BY <1>1, <2>1, <2>2, <2>3 DEF Due, room
<1>6. CASE SlackAt(e, y) /\ y <= room
  <2>1. 20 * e < 17 * room
    BY <1>2, <1>3, <1>6 DEF SlackAt
  <2>2. Slack(e, room)
    BY <1>2, <1>3, <1>6, <2>1 DEF Slack
  <2>3. rest = 18 * Nudge - e
    BY <1>1, <2>2
  <2> HIDE DEF rest
  <2>4. x >= rest - Byte
    BY <1>1, <1>2, <1>3, <1>6, <2>3
  <2>5. Least(d, x) >= Least(d, rest) - Byte
    BY <1>1, <1>2, <1>4, <2>4 DEF Least
  <2> QED
    BY <2>5 DEF Due, rest, room
<1>7. CASE HungryAt(d, x) /\ ~(SlackAt(e, y) /\ y <= room)
  <2>1. ~SlackAt(d, x) /\ ~MidAt(d, x)
    BY <1>2, <1>7 DEF HungryAt, SlackAt, MidAt
  <2> QED
    BY <1>7, <2>1 DEF AtRest, room
<1> QED
  BY <1>5, <1>6, <1>7

\* So do even shares that both use.
LEMMA EvenIsFair ==
    ASSUME FineBudget, NEW d \in Nat, NEW e \in Nat, HungryAt(e, 10 * Nudge)
    PROVE  Least(d, 10 * Nudge) >= Due(d, e) - Byte
<1> DEFINE rest == IF Slack(e, Round(e + Headroom(Total)))
                   THEN Total - Headroom(Total) - e ELSE Total \div 2
<1>1. /\ Nudge \in Nat /\ Byte \in Nat
      /\ Total = 20 * Nudge /\ Total \div 2 = 10 * Nudge /\ Headroom(Total) = 2 * Nudge
  BY BudgetParts
<1>2. e >= 9 * Nudge
  BY <1>1 DEF HungryAt
<1>3. rest \in Int /\ rest <= 10 * Nudge
  BY <1>1, <1>2
<1> HIDE DEF rest
<1>4. Least(d, 10 * Nudge) >= Least(d, rest) - Byte
  BY <1>1, <1>3 DEF Least
<1> QED
  BY <1>4 DEF Due, rest

\* And the whole budget each.
LEMMA CeilingIsFair ==
    ASSUME FineBudget, NEW d \in Nat, NEW e \in Nat
    PROVE  Least(d, Total) >= Due(d, e) - Byte
<1> DEFINE rest == IF Slack(e, Round(e + Headroom(Total)))
                   THEN Total - Headroom(Total) - e ELSE Total \div 2
<1>1. /\ Nudge \in Nat /\ Byte \in Nat
      /\ Total = 20 * Nudge /\ Total \div 2 = 10 * Nudge /\ Headroom(Total) = 2 * Nudge
  BY BudgetParts
<1>2. rest \in Int /\ rest <= 20 * Nudge
  BY <1>1
<1> HIDE DEF rest
<1>3. Least(d, 20 * Nudge) >= Least(d, rest) - Byte
  BY <1>1, <1>2 DEF Least
<1> QED
  BY <1>1, <1>3 DEF Due, rest

-----------------------------------------------------------------------------
\* Both apps want to download.
Wanted == Active(demand["qbit"]) /\ Active(demand["sab"])

\* What holds of the shares of apps with steady demands once a decision has
\* been taken on them.
Settling ==
    IF Wanted
    THEN /\ BothActive
         /\ \/ AtRest(demand["qbit"], demand["sab"], qbit_share, sab_share)
            \/ Approaching(rounds, demand["qbit"], demand["sab"], qbit_share, sab_share)
    ELSE ~BothActive

\* The shares are a split to the byte or the ceiling, and settle.
ConvInv ==
    /\ IF BothActive THEN Exact(qbit_share, sab_share)
                     ELSE qbit_share = Total /\ sab_share = Total
    /\ ~steady => rounds = 0
    /\ rounds > 0 => Settling

\* The shares are decided from some exact split, the present one unless both are
\* the ceiling.
DecidedFrom(qs, ss, q, s, share) ==
    \E from, other, c :
       /\ Exact(from, other)
       /\ q >= from /\ s >= other
       /\ Exact(q, s) => from = q /\ other = s
       /\ c = Clamped(Reshared(qs, ss, from, other, Total), Total)
       /\ share.qbit = Round(c) /\ share.sab = Round(Total - c)
       /\ Exact(Round(c), Round(Total - c))

\* A decision on two downloading apps, from the shares it is reset to if they
\* are at the ceiling.
LEMMA JointDecision ==
    ASSUME FineBudget, NEW qs \in Nat, NEW ss \in Nat, Active(qs), Active(ss),
           NEW q, NEW s,
           Exact(q, s) \/ (q = Total /\ s = Total),
           NEW share, share = Allocate(qs, ss, q, s, Total)
    PROVE  DecidedFrom(qs, ss, q, s, share)
<1>1. /\ Nudge \in Nat /\ Byte \in Nat /\ Byte > 0 /\ Nudge >= 10 * Byte
      /\ Total = 20 * Nudge /\ Total \div 2 = 10 * Nudge
      /\ LeastShare \in Nat /\ 2 * LeastShare <= 4 * Nudge + Byte
  BY BudgetParts, LeastShareBounds
<1>2. Total \in Nat /\ Total % 200 = 0
  BY BudgetAssumption DEF BudgetAssumption
<1>3. ASSUME NEW from, NEW other, Exact(from, other),
             NEW c, c = Clamped(Reshared(qs, ss, from, other, Total), Total)
      PROVE  Exact(Round(c), Round(Total - c))
  <2>1. from \in Int /\ other \in Int
    BY <1>3, ExactBounds
  <2>2. Reshared(qs, ss, from, other, Total) \in Int
    BY <1>2, <2>1, ResharedInt
  <2> QED
    BY <1>3, <2>2, ClampedIsExact
<1>4. CASE Exact(q, s)
  <2>1. ~AtCeiling(q, s, Total) /\ q \in Nat /\ s \in Nat
    <3>1. q \in Nat /\ s \in Nat /\ q > 0 /\ s > 0 /\ q + s = 20 * Nudge
      BY <1>4, ExactBounds
    <3> QED
      BY <1>1, <3>1 DEF AtCeiling
  <2> DEFINE c == Clamped(Reshared(qs, ss, q, s, Total), Total)
  <2>2. share.qbit = Round(c) /\ share.sab = Round(Total - c)
    BY <2>1 DEF Allocate
  <2>3. Exact(Round(c), Round(Total - c))
    BY <1>3, <1>4
  <2>4. q >= q /\ s >= s
    BY <2>1
  <2> HIDE DEF c
  <2> QED
    BY <1>4, <2>2, <2>3, <2>4 DEF c, DecidedFrom
<1>5. CASE ~Exact(q, s)
  <2> DEFINE half == Total \div 2
             c == Clamped(Reshared(qs, ss, half, half, Total), Total)
  <2>1. q = Total /\ s = Total /\ AtCeiling(q, s, Total)
    BY <1>2, <1>5 DEF AtCeiling
  <2>2. share.qbit = Round(c) /\ share.sab = Round(Total - c)
    BY <2>1 DEF Allocate
  <2>3. Exact(half, half) /\ Total >= half
    BY <1>1, HalfIsWhole DEF Exact
  <2>4. Exact(Round(c), Round(Total - c))
    BY <1>3, <2>3
  <2> HIDE DEF c, half
  <2> QED
    BY <1>5, <2>1, <2>2, <2>3, <2>4 DEF c, DecidedFrom
<1> QED
  BY <1>4, <1>5

\* The apps' demands, and the shares, as numbers.
LEMMA DemandsAreNat ==
    ASSUME TypeOK
    PROVE  /\ demand["qbit"] \in Nat /\ demand["sab"] \in Nat
           /\ qbit_share \in Nat /\ sab_share \in Nat /\ rounds \in Nat
<1>1. Demands \cup {0} \subseteq Nat
  BY SpeedsAssumption DEF SpeedsAssumption
<1>2. demand["qbit"] \in Demands \cup {0} /\ demand["sab"] \in Demands \cup {0}
  BY DEF TypeOK, App
<1>3. rounds \in Nat
  BY RoundsAssumption DEF TypeOK, RoundsAssumption
<1> QED
  BY <1>1, <1>2, <1>3 DEF TypeOK

\* No app counts as idle for the share it is held to.
LEMMA ServedIsActive ==
    ASSUME FineBudget, ConvInv, TypeOK
    PROVE  /\ Active(Served("qbit")) <=> Active(demand["qbit"])
           /\ Active(Served("sab")) <=> Active(demand["sab"])
           /\ Served("qbit") \in Nat /\ Served("sab") \in Nat
<1>1. /\ LeastShare \in Nat /\ LeastShare > ActiveThreshold /\ ActiveThreshold \in Nat
      /\ 2 * LeastShare <= 4 * Nudge + Byte
  BY LeastShareBounds, BudgetParts
<1>2. /\ demand["qbit"] \in Nat /\ demand["sab"] \in Nat
      /\ qbit_share \in Nat /\ sab_share \in Nat
  BY DemandsAreNat
<1>3. Nudge \in Nat /\ Byte \in Nat /\ Nudge >= 10 * Byte /\ Total = 20 * Nudge
  BY BudgetParts
<1>4. qbit_share >= LeastShare /\ sab_share >= LeastShare
  <2>1. CASE BothActive
    BY <2>1 DEF ConvInv, Exact
  <2>2. CASE ~BothActive
    BY <1>1, <1>2, <1>3, <2>2 DEF ConvInv
  <2> QED
    BY <2>1, <2>2
<1>5. /\ Served("qbit") = Least(demand["qbit"], qbit_share)
      /\ Served("sab") = Least(demand["sab"], sab_share)
  BY DEF Served, Share
<1> QED
  BY <1>1, <1>2, <1>4, <1>5 DEF Least, Active

\* Any decision leaves an exact split, or the ceiling.
LEMMA DecideIsExact ==
    ASSUME FineBudget, ConvInv, TypeOK, NEW qs \in Nat, NEW ss \in Nat, Decide(qs, ss)
    PROVE  /\ BothActive' <=> Active(qs) /\ Active(ss)
           /\ IF BothActive' THEN Exact(qbit_share, sab_share)'
                             ELSE qbit_share' = Total /\ sab_share' = Total
<1> DEFINE share == Allocate(qs, ss, qbit_share, sab_share, Total)
<1>1. /\ qbit_share' = share.qbit /\ sab_share' = share.sab
      /\ qbit_speed' = qs /\ sab_speed' = ss
  BY DEF Decide
<1>2. BothActive' <=> Active(qs) /\ Active(ss)
  BY <1>1 DEF BothActive
<1>3. CASE Active(qs) /\ Active(ss)
  <2>1. Exact(qbit_share, sab_share) \/ (qbit_share = Total /\ sab_share = Total)
    BY DEF ConvInv
  <2>2. PICK from, other, c :
              /\ share.qbit = Round(c) /\ share.sab = Round(Total - c)
              /\ Exact(Round(c), Round(Total - c))
    <3>1. share = Allocate(qs, ss, qbit_share, sab_share, Total)
      OBVIOUS
    <3> HIDE DEF share
    <3>2. /\ qs \in Nat /\ ss \in Nat /\ Active(qs) /\ Active(ss)
      BY <1>3
    <3>3. DecidedFrom(qs, ss, qbit_share, sab_share, share)
      BY <2>1, <3>1, <3>2, JointDecision
    <3> QED
      BY <3>3 DEF DecidedFrom
  <2> HIDE DEF share
  <2>3. Exact(qbit_share', sab_share')
    BY <1>1, <2>2
  <2> QED
    BY <1>2, <1>3, <2>3 DEF Exact
<1>4. CASE ~(Active(qs) /\ Active(ss))
  <2>1. share.qbit = Round(Total) /\ share.sab = Round(Total)
    BY <1>4 DEF Allocate
  <2>2. Round(Total) = Total
    BY HalfIsWhole, WholeRounds
  <2> HIDE DEF share
  <2> QED
    BY <1>1, <1>2, <1>4, <2>1, <2>2
<1> QED
  BY <1>3, <1>4

LEMMA InitConv == FineBudget /\ Init => ConvInv
<1> SUFFICES ASSUME FineBudget, Init PROVE ConvInv
  OBVIOUS
<1>1. ~BothActive
  BY AllocatorAssumption DEF Init, BothActive, Active, AllocatorAssumption
<1> QED
  BY <1>1 DEF Init, ConvInv

\* Before the demands are steady no decision counts.
LEMMA ReallocateConv ==
    ASSUME FineBudget, TypeOK, ConvInv, Reallocate
    PROVE  ConvInv'
<1>1. PICK qs \in Speeds, ss \in Speeds : Decide(qs, ss)
  BY DEF Reallocate
<1>2. qs \in Nat /\ ss \in Nat
  BY SpeedsAssumption DEF SpeedsAssumption
<1>3. rounds' = 0 /\ steady' = steady
  BY <1>1 DEF Reallocate, Decide, ConvInv
<1>4. IF BothActive' THEN Exact(qbit_share, sab_share)'
                     ELSE qbit_share' = Total /\ sab_share' = Total
  BY <1>1, <1>2, DecideIsExact
<1>5. ~(rounds' > 0)
  BY <1>3
<1> QED
  BY <1>3, <1>4, <1>5 DEF ConvInv

LEMMA BecomeSteadyConv == ConvInv /\ BecomeSteady => ConvInv'
<1> SUFFICES ASSUME ConvInv, BecomeSteady PROVE ConvInv'
  OBVIOUS
<1>1. /\ steady' = TRUE /\ rounds' = 0
      /\ UNCHANGED <<qbit_share, sab_share, qbit_speed, sab_speed>>
  BY DEF BecomeSteady, ConvInv
<1>2. ~(rounds' > 0)
  BY <1>1
<1> QED
  BY <1>1, <1>2 DEF ConvInv, BothActive, Exact

\* A decision on what the apps download at under their shares brings them to
\* rest or a step closer to even.
LEMMA ReallocateSteadyConv ==
    ASSUME FineBudget, Rounds > 0, TypeOK, ConvInv, ReallocateSteady
    PROVE  ConvInv'
<1> DEFINE dq == demand["qbit"]
           ds == demand["sab"]
           vq == Served("qbit")
           vs == Served("sab")
           share == Allocate(vq, vs, qbit_share, sab_share, Total)
<1>1. /\ dq \in Nat /\ ds \in Nat /\ qbit_share \in Nat /\ sab_share \in Nat
      /\ rounds \in Nat /\ rounds <= Rounds /\ Rounds \in Nat
  BY DemandsAreNat, RoundsAssumption DEF TypeOK, RoundsAssumption
<1>2. /\ Decide(vq, vs) /\ steady' = TRUE /\ steady /\ demand' = demand
      /\ rounds' = Least(rounds + 1, Rounds)
  BY DEF ReallocateSteady, Decide, TypeOK
<1>3. /\ vq \in Nat /\ vs \in Nat
      /\ Active(vq) <=> Active(dq)
      /\ Active(vs) <=> Active(ds)
  BY ServedIsActive
<1>4. /\ BothActive' <=> Wanted
      /\ IF BothActive' THEN Exact(qbit_share, sab_share)'
                        ELSE qbit_share' = Total /\ sab_share' = Total
  <2> HIDE DEF vq, vs
  <2> QED
    BY <1>2, <1>3, DecideIsExact DEF Wanted
<1>5. Wanted' <=> Wanted
  BY <1>2 DEF Wanted
<1>6. vq = Least(dq, qbit_share) /\ vs = Least(ds, sab_share)
  BY DEF Served, Share
<1>7. qbit_share' = share.qbit /\ sab_share' = share.sab
  BY <1>2 DEF Decide
<1>8. ASSUME Wanted
      PROVE  \/ AtRest(dq, ds, qbit_share', sab_share')
             \/ Approaching(rounds + 1, dq, ds, qbit_share', sab_share')
  <2>1. Active(vq) /\ Active(vs)
    BY <1>3, <1>8 DEF Wanted
  <2>2. Exact(qbit_share, sab_share) \/ (qbit_share = Total /\ sab_share = Total)
    BY DEF ConvInv
  <2> HIDE DEF share, vq, vs, dq, ds
  <2>3. PICK from, other, c :
              /\ Exact(from, other)
              /\ qbit_share >= from /\ sab_share >= other
              /\ Exact(qbit_share, sab_share) => from = qbit_share /\ other = sab_share
              /\ c = Clamped(Reshared(vq, vs, from, other, Total), Total)
              /\ share.qbit = Round(c) /\ share.sab = Round(Total - c)
              /\ Exact(Round(c), Round(Total - c))
    <3>1. share = Allocate(vq, vs, qbit_share, sab_share, Total)
      BY DEF share
    <3>2. DecidedFrom(vq, vs, qbit_share, sab_share, share)
      BY <1>3, <2>1, <2>2, <3>1, JointDecision
    <3> QED
      BY <3>2 DEF DecidedFrom
  <2>4. from \in Nat /\ other \in Nat /\ from > 0 /\ other > 0
    BY <2>3, ExactBounds
  <2>5. Tells(vq, dq, from) /\ Tells(vs, ds, other)
    BY <1>1, <1>6, <2>3, <2>4, ServedTells
  <2>6. Outcome(dq, ds, from, other, Round(c), Round(Total - c))
    BY <1>1, <2>3, <2>5, SteadyDecision
  <2>7. \/ rounds = 0
        \/ AtRest(dq, ds, from, other)
        \/ Approaching(rounds, dq, ds, from, other)
    <3>1. CASE rounds > 0
      <4>1. BothActive /\ Exact(qbit_share, sab_share)
        BY <1>8, <3>1 DEF ConvInv, Settling
      <4>2. from = qbit_share /\ other = sab_share
        BY <2>3, <4>1
      <4> QED
        BY <1>8, <3>1, <4>2 DEF ConvInv, Settling, dq, ds
    <3> QED
      BY <1>1, <3>1
  <2>8. \/ AtRest(dq, ds, Round(c), Round(Total - c))
        \/ Approaching(rounds + 1, dq, ds, Round(c), Round(Total - c))
    BY <1>1, <2>3, <2>6, <2>7, DecisionRests
  <2> QED
    BY <1>7, <2>3, <2>8
<1>9. ASSUME Wanted
      PROVE  \/ AtRest(dq, ds, qbit_share', sab_share')
             \/ Approaching(rounds', dq, ds, qbit_share', sab_share')
  <2>1. rounds' = rounds + 1 \/ rounds' = rounds
    BY <1>1, <1>2 DEF Least
  <2>2. qbit_share' \in Nat /\ sab_share' \in Nat
    <3>1. Exact(qbit_share', sab_share')
      BY <1>4, <1>9 DEF Exact
    <3> QED
      BY <3>1, ExactBounds
  <2>3. Approaching(rounds + 1, dq, ds, qbit_share', sab_share')
          => Approaching(rounds, dq, ds, qbit_share', sab_share')
    BY <1>1, <2>2, ApproachedSooner DEF Approaching
  <2> QED
    BY <1>8, <1>9, <2>1, <2>3
<1> HIDE DEF vq, vs, share
<1>10. Settling'
  BY <1>2, <1>4, <1>5, <1>9
     DEF Settling, AtRest, Approaching, Approached, MidAt, SlackAt, HungryAt
<1> QED
  BY <1>2, <1>4, <1>10 DEF ConvInv

\* What the shares have settled to is fair.
LEMMA SettledIsFair ==
    ASSUME FineBudget, Rounds >= 9, TypeOK, ConvInv
    PROVE  ConvergesToFair
<1> SUFFICES ASSUME rounds = Rounds, NEW a \in App, NEW b \in App, a # b
             PROVE  Served(a) >= FairTo(a, b) - Byte \/ Between(b)
  BY DEF ConvergesToFair
<1> DEFINE d == demand[a]
           e == demand[b]
           x == Share(a)
           y == Share(b)
<1>1. /\ d \in Nat /\ e \in Nat /\ x \in Nat /\ y \in Nat
      /\ rounds \in Nat /\ rounds >= 9 /\ rounds > 0
  BY DemandsAreNat, RoundsAssumption DEF App, Share, RoundsAssumption
<1>2. FairTo(a, b) = Due(d, e) /\ Served(a) = Least(d, x)
  BY DEF FairTo, KeepsRoom, Leftover, Due, Served
<1>3. CASE Wanted
  <2>1. /\ Exact(x, y)
        /\ \/ AtRest(d, e, x, y)
           \/ AtRest(e, d, y, x)
           \/ /\ HungryAt(e, y) /\ HungryAt(d, x)
              /\ Approached(rounds, x) /\ Approached(rounds, y)
    <3>1. Exact(qbit_share, sab_share) /\ Exact(sab_share, qbit_share)
      BY <1>1, <1>3, ExactBounds DEF ConvInv, Settling
    <3>2. \/ AtRest(demand["qbit"], demand["sab"], qbit_share, sab_share)
          \/ Approaching(rounds, demand["qbit"], demand["sab"], qbit_share, sab_share)
      BY <1>1, <1>3 DEF ConvInv, Settling
    <3>3. CASE a = "qbit" /\ b = "sab"
      BY <3>1, <3>2, <3>3 DEF Approaching, Share
    <3>4. CASE a = "sab" /\ b = "qbit"
      BY <3>1, <3>2, <3>4 DEF Approaching, Share
    <3> QED
      BY <3>3, <3>4 DEF App
  <2> HIDE DEF d, e, x, y
  <2>2. Least(d, x) >= Due(d, e) - Byte \/ MidAt(e, y)
    <3>1. CASE AtRest(d, e, x, y) \/ AtRest(e, d, y, x)
      BY <1>1, <2>1, <3>1, RestIsFair
    <3>2. CASE /\ HungryAt(e, y) /\ HungryAt(d, x)
               /\ Approached(rounds, x) /\ Approached(rounds, y)
      <4>1. x = 10 * Nudge /\ y = 10 * Nudge
        BY <1>1, <2>1, <3>2, NineSteps
      <4> QED
        BY <1>1, <3>2, <4>1, EvenIsFair
    <3> QED
      BY <2>1, <3>1, <3>2
  <2>3. MidAt(e, y) => Between(b)
    <3>1. y > 0
      BY <2>1, ExactBounds
    <3>2. Tells(Least(e, y), e, y)
      BY <1>1, <3>1, ServedTells
    <3>3. Served(b) = Least(e, y) /\ Share(b) = y
      BY DEF Served, e, y
    <3> QED
      BY <3>2, <3>3 DEF Tells, Between, MidAt
  <2> QED
    BY <1>2, <2>2, <2>3
<1>4. CASE ~Wanted
  <2>1. x = Total
    BY <1>1, <1>4 DEF ConvInv, Settling, Share
  <2> HIDE DEF d, e, x, y
  <2> QED
    BY <1>1, <1>2, <2>1, CeilingIsFair
<1> QED
  BY <1>3, <1>4

\* Nine decisions after two apps' demands have become steady, whatever shares the
\* past has left, each is served half the budget or what the other leaves of it,
\* and is ever after, unless the other uses between 85% and 90% of its share
\* (allocator.py:26-59).  Nine, because round() takes up to half a byte of each
\* step of a twentieth of the budget.
THEOREM SharesConverge ==
    ASSUME FineBudget, Rounds >= 9
    PROVE  Spec => []ConvergesToFair
<1>1. Init => ConvInv
  BY InitConv
<1>2. IInv /\ ConvInv /\ [Next]_vars => ConvInv'
  <2> SUFFICES ASSUME IInv, ConvInv, [Next]_vars PROVE ConvInv'
    OBVIOUS
  <2>1. TypeOK /\ Rounds > 0
    BY RoundsAssumption DEF IInv, RoundsAssumption
  <2>2. CASE Reallocate
    BY <2>1, <2>2, ReallocateConv
  <2>3. CASE BecomeSteady
    BY <2>3, BecomeSteadyConv
  <2>4. CASE ReallocateSteady
    BY <2>1, <2>4, ReallocateSteadyConv
  <2>5. CASE UNCHANGED vars
    BY <2>5 DEF vars, ConvInv, Settling, Wanted, BothActive, Exact, AtRest,
                Approaching, Approached, MidAt, SlackAt, HungryAt
  <2> QED
    BY <2>2, <2>3, <2>4, <2>5 DEF Next
<1>3. IInv /\ ConvInv => ConvergesToFair
  BY SettledIsFair DEF IInv
<1> QED
  BY Inductive, <1>1, <1>2, <1>3, PTL DEF Spec
=============================================================================
