-------------------------- MODULE Allocator_proofs --------------------------
(***************************************************************************)
(* What allocate() returns and how OvershootCompensator.update() moves its *)
(* penalty, for every speed, share and budget.                             *)
(***************************************************************************)
EXTENDS Allocator, TLAPS

\* A byte is a positive number of model units.
LEMMA ByteType == Byte \in Nat /\ Byte > 0
BY AllocatorAssumption DEF AllocatorAssumption

\* The remainder round() cuts off is a fraction of a byte.
LEMMA Remainder ==
    ASSUME NEW x \in Int
    PROVE  /\ x % Byte \in Int
           /\ 0 <= x % Byte
           /\ x % Byte < Byte
BY ByteType

\* Python's round() moves a value by at most half a byte, and never below
\* zero a value that was not.
LEMMA RoundBound ==
    ASSUME NEW x \in Int
    PROVE  /\ Round(x) \in Int
           /\ 2 * Round(x) <= 2 * x + Byte
           /\ 2 * Round(x) >= 2 * x - Byte
<1> DEFINE r == x % Byte
           low == x - r
<1>1. r \in Int /\ 0 <= r /\ r < Byte
  BY Remainder
<1>2. Round(x) = low \/ Round(x) = low + Byte
  BY DEF Round
<1>3. Round(x) = low => 2 * r <= Byte
  BY <1>1, ByteType DEF Round
<1>4. Round(x) = low + Byte => 2 * r >= Byte
  BY <1>1, ByteType DEF Round
<1> QED
  BY <1>1, <1>2, <1>3, <1>4, ByteType

\* round() takes natural numbers to natural numbers.
LEMMA RoundNat ==
    ASSUME NEW x \in Nat
    PROVE  Round(x) \in Nat
<1>1. x % Byte \in Int /\ x % Byte <= x
  <2> DEFINE whole == Byte * (x \div Byte)
  <2>1. x \div Byte \in Nat
    BY ByteType
  <2>2. whole \in Nat
    BY <2>1, ByteType
  <2>3. x = whole + (x % Byte)
    BY ByteType
  <2> HIDE DEF whole
  <2> QED
    BY <2>2, <2>3, Remainder
<1>2. Round(x) = x - (x % Byte) \/ Round(x) = x - (x % Byte) + Byte
  BY DEF Round
<1> QED
  BY <1>1, <1>2, ByteType

\* The headroom is exactly a tenth of a budget.
LEMMA HeadroomBound ==
    ASSUME NEW total \in Nat, total % 200 = 0
    PROVE  /\ Headroom(total) \in Nat
           /\ total = 10 * Headroom(total)
BY DEF Headroom

\* The clamp leaves both sides of the split at least the minimum share.
LEMMA ClampedBound ==
    ASSUME NEW total \in Nat, total % 200 = 0, NEW share \in Int
    PROVE  /\ Clamped(share, total) \in Nat
           /\ Clamped(share, total) >= Headroom(total)
           /\ total - Clamped(share, total) >= Headroom(total)
BY HeadroomBound DEF Clamped, Greatest, Least

\* Every branch of allocate() decides a number.
LEMMA ResharedInt ==
    ASSUME NEW qs \in Nat, NEW ss \in Nat, NEW qbit \in Int, NEW sab \in Int,
           NEW total \in Nat, total % 200 = 0
    PROVE  Reshared(qs, ss, qbit, sab, total) \in Int
<1>1. Shrunk(qs, qbit, total) \in Int /\ Shrunk(ss, sab, total) \in Int
  BY HeadroomBound DEF Shrunk, Least
<1>2. TowardMidpoint(qbit, sab, total) \in Int
  BY DEF TowardMidpoint, Least, Greatest
<1> QED
  BY <1>1, <1>2 DEF Reshared

\* Whatever the speeds and the shares it starts from, a share allocate()
\* decides is a limit on the budget's scale; two downloading apps get shares
\* that together make up the budget, each at least the minimum share (all to
\* the rounding of a byte): the claim that closes allocate()'s docstring.
THEOREM AllocateFitsBudget ==
    ASSUME NEW qs \in Nat, NEW ss \in Nat, NEW qbit \in Int, NEW sab \in Int,
           NEW total \in Nat, total % 200 = 0,
           NEW share, share = Allocate(qs, ss, qbit, sab, total)
    PROVE  /\ share.qbit \in Nat /\ share.sab \in Nat
           /\ 2 * share.qbit >= 2 * Headroom(total) - Byte
           /\ 2 * share.sab >= 2 * Headroom(total) - Byte
           /\ 2 * share.qbit <= 2 * total + Byte
           /\ 2 * share.sab <= 2 * total + Byte
           /\ Active(qs) /\ Active(ss) =>
                 /\ share.qbit + share.sab <= total + Byte
                 /\ share.qbit + share.sab >= total - Byte
                 /\ 2 * share.sab <= 2 * (total - Headroom(total)) + Byte
<1>1. CASE Active(qs) /\ Active(ss)
  <2> DEFINE half == total \div 2
             reset == AtCeiling(qbit, sab, total)
             q == IF reset THEN half ELSE qbit
             s == IF reset THEN half ELSE sab
             new == Clamped(Reshared(qs, ss, q, s, total), total)
  <2>1. q \in Int /\ s \in Int
    OBVIOUS
  <2>2. Reshared(qs, ss, q, s, total) \in Int
    <3> HIDE DEF q, s
    <3> QED BY <2>1, ResharedInt
  <2>3. /\ new \in Nat
        /\ new >= Headroom(total)
        /\ total - new >= Headroom(total)
    <3> HIDE DEF q, s
    <3> QED BY <2>2, ClampedBound
  <2>4. share = [qbit |-> Round(new), sab |-> Round(total - new)]
    BY <1>1 DEF Allocate
  <2> HIDE DEF new
  <2>5. total - new \in Nat
    BY <2>3, HeadroomBound
  <2>6. /\ Round(new) \in Nat
        /\ 2 * Round(new) <= 2 * new + Byte
        /\ 2 * Round(new) >= 2 * new - Byte
    BY <2>3, RoundNat, RoundBound
  <2>7. /\ Round(total - new) \in Nat
        /\ 2 * Round(total - new) <= 2 * (total - new) + Byte
        /\ 2 * Round(total - new) >= 2 * (total - new) - Byte
    BY <2>5, RoundNat, RoundBound
  <2> QED
    BY <2>3, <2>4, <2>6, <2>7, HeadroomBound, ByteType
<1>2. CASE ~(Active(qs) /\ Active(ss))
  <2>1. share = [qbit |-> Round(total), sab |-> Round(total)]
    BY <1>2 DEF Allocate
  <2>2. /\ Round(total) \in Nat
        /\ 2 * Round(total) <= 2 * total + Byte
        /\ 2 * Round(total) >= 2 * total - Byte
    BY RoundNat, RoundBound
  <2> QED
    BY <1>2, <2>1, <2>2, HeadroomBound, ByteType
<1> QED
  BY <1>1, <1>2

\* A whole number of bytes.
IsWhole(x) == \E k \in Int : x = Byte * k

\* That is what a rounded value is.
LEMMA RoundIsWhole ==
    ASSUME NEW x \in Int
    PROVE  IsWhole(Round(x))
<1> DEFINE k == x \div Byte
<1>1. k \in Int /\ x = Byte * k + (x % Byte)
  BY ByteType
<1>2. x % Byte \in Int
  BY Remainder
<1> HIDE DEF k
<1>3. x - (x % Byte) = Byte * k
  BY <1>1, <1>2, ByteType
<1>4. Round(x) = Byte * k \/ Round(x) = Byte * k + Byte
  BY <1>3 DEF Round
<1>5. Byte * k + Byte = Byte * (k + 1) /\ k + 1 \in Int
  BY <1>1, ByteType
<1> QED
  BY <1>1, <1>4, <1>5 DEF IsWhole

\* round() takes no value below a whole number of bytes that it has reached.
LEMMA RoundKeepsWhole ==
    ASSUME NEW x \in Int, NEW j \in Int, x >= Byte * j
    PROVE  Round(x) >= Byte * j
<1> DEFINE k == x \div Byte
           r == x % Byte
<1>1. k \in Int /\ x = Byte * k + r
  BY ByteType
<1>2. r \in Int /\ 0 <= r /\ r < Byte
  BY Remainder
<1>3. Round(x) = x - r \/ Round(x) = x - r + Byte
  BY DEF Round
<1> HIDE DEF k, r
<1>4. Byte * (k + 1) > Byte * j
  BY <1>1, <1>2, ByteType
<1>5. k + 1 > j
  BY <1>1, <1>4, ByteType
<1>6. Byte * k >= Byte * j
  BY <1>1, <1>5, ByteType
<1>7. Byte * k \in Int /\ Byte * j \in Int
  BY <1>1, ByteType
<1> QED
  BY <1>1, <1>2, <1>3, <1>6, <1>7, ByteType

\* A budget of whole bytes is its own rounding.
LEMMA RoundOfWhole ==
    ASSUME NEW x \in Int, x % Byte = 0
    PROVE  Round(x) = x
BY ByteType DEF Round

\* Two apps that each start from half the budget are each given half, unless one
\* is slack against it and the other hungry.
LEMMA HalvesStay ==
    ASSUME NEW qs \in Nat, NEW ss \in Nat, NEW total \in Nat, total % 200 = 0,
           ~(Slack(qs, total \div 2) /\ Hungry(ss, total \div 2)),
           ~(Slack(ss, total \div 2) /\ Hungry(qs, total \div 2))
    PROVE  /\ Clamped(Reshared(qs, ss, total \div 2, total \div 2, total), total) = total \div 2
           /\ total - total \div 2 = total \div 2
<1> DEFINE half == total \div 2
<1>1. half \in Nat /\ total - half = half
  OBVIOUS
<1>2. /\ ~(Slack(qs, half) /\ Hungry(ss, half))
      /\ ~(Slack(ss, half) /\ Hungry(qs, half))
  OBVIOUS
<1>3. (half + half) \div 2 = half
  OBVIOUS
<1> HIDE DEF half
<1>4. TowardMidpoint(half, half, total) = half
  BY <1>1, <1>3 DEF TowardMidpoint
<1>5. Reshared(qs, ss, half, half, total) = half
  BY <1>2, <1>4 DEF Reshared
<1>6. Clamped(half, total) = half
  BY <1>1, HeadroomBound DEF Clamped, Greatest, Least
<1> QED
  BY <1>1, <1>5, <1>6 DEF half

\* Two apps that start from a half each are both given half, unless one is slack
\* against it and the other hungry for more than its own.
LEMMA AllocateEvenly ==
    ASSUME NEW qs \in Nat, NEW ss \in Nat, NEW total \in Nat, total % 200 = 0,
           Active(qs), Active(ss),
           ~(Slack(qs, total \div 2) /\ Hungry(ss, total \div 2)),
           ~(Slack(ss, total \div 2) /\ Hungry(qs, total \div 2))
    PROVE  Allocate(qs, ss, total \div 2, total \div 2, total)
              = [qbit |-> Round(total \div 2), sab |-> Round(total \div 2)]
<1> DEFINE half == total \div 2
           new == Clamped(Reshared(qs, ss, half, half, total), total)
<1>1. new = half /\ total - half = half
  BY HalvesStay
<1>2. Allocate(qs, ss, half, half, total) = [qbit |-> Round(new), sab |-> Round(total - new)]
  BY DEF Allocate
<1> QED
  BY <1>1, <1>2

\* The first split from the ceiling a lone downloader was given is even, unless
\* one app is slack against its half and the other hungry for more than its own.
LEMMA AllocateFromCeiling ==
    ASSUME NEW qs \in Nat, NEW ss \in Nat, NEW total \in Nat, total % 200 = 0,
           Active(qs), Active(ss),
           ~(Slack(qs, total \div 2) /\ Hungry(ss, total \div 2)),
           ~(Slack(ss, total \div 2) /\ Hungry(qs, total \div 2))
    PROVE  Allocate(qs, ss, total, total, total)
              = [qbit |-> Round(total \div 2), sab |-> Round(total \div 2)]
<1> DEFINE half == total \div 2
           new == Clamped(Reshared(qs, ss, half, half, total), total)
<1>1. new = half /\ total - half = half
  BY HalvesStay
<1>2. AtCeiling(total, total, total)
  BY DEF AtCeiling
<1>3. Allocate(qs, ss, total, total, total) = [qbit |-> Round(new), sab |-> Round(total - new)]
  BY <1>2 DEF Allocate
<1> QED
  BY <1>1, <1>3

\* The penalty never exceeds the larger of what it was and the budget, and
\* only a cycle over the margin that follows another one makes it grow.
THEOREM OvershootUpdateBound ==
    ASSUME NEW comp \in Compensators,
           NEW combined \in Nat, NEW total \in Nat, total % 200 = 0,
           NEW updated, updated = OvershootUpdate(comp, combined, total)
    PROVE  /\ updated \in Compensators
           /\ comp.penalty <= total => updated.penalty <= total
           /\ updated.over_count > 0 => OverMargin(combined, total)
           /\ updated.penalty > comp.penalty =>
                 OverMargin(combined, total) /\ comp.over_count > 0
<1> DEFINE count == Least(comp.over_count + 1, ConfirmCycles)
<1>1. /\ count \in 0..ConfirmCycles
      /\ count >= ConfirmCycles => comp.over_count > 0
  BY DEF Least, ConfirmCycles, Compensators
<1>2. CASE OverMargin(combined, total)
  <2>1. combined - total \in Nat
    BY <1>2 DEF OverMargin
  <2>2. /\ Grown(comp.penalty, combined - total, total) \in Nat
        /\ Grown(comp.penalty, combined - total, total) <= total
    BY <2>1 DEF Grown, Least, Compensators
  <2> QED
    BY <1>1, <1>2, <2>2 DEF OvershootUpdate, Compensators
<1>3. CASE ~OverMargin(combined, total)
  <2>1. /\ Greatest(0, comp.penalty - total \div 100) \in Nat
        /\ Greatest(0, comp.penalty - total \div 100) <= comp.penalty
    BY DEF Greatest, Compensators
  <2> QED
    BY <1>3, <2>1 DEF OvershootUpdate, ConfirmCycles, Compensators
<1> QED
  BY <1>2, <1>3

-----------------------------------------------------------------------------
(***************************************************************************)
(* round() keeps order, and of an even number of bytes it rounds the two   *)
(* parts to two that still make it up.                                     *)
(***************************************************************************)
\* Two whole numbers of bytes less than a byte apart are the same.
LEMMA WholeGap ==
    ASSUME NEW x, NEW y, IsWhole(x), IsWhole(y), x < y + Byte, y < x + Byte
    PROVE  x = y
<1>1. PICK i \in Int : x = Byte * i
  BY DEF IsWhole
<1>2. PICK j \in Int : y = Byte * j
  BY DEF IsWhole
<1>3. Byte * i < Byte * (j + 1) /\ Byte * j < Byte * (i + 1)
  BY <1>1, <1>2, ByteType
<1>4. i < j + 1 /\ j < i + 1
  BY <1>3, ByteType
<1> QED
  BY <1>1, <1>2, <1>4

LEMMA RoundKeepsOrder ==
    ASSUME NEW x \in Int, NEW y \in Int, x <= y
    PROVE  Round(x) <= Round(y)
<1>1. /\ Round(x) \in Int /\ 2 * Round(x) <= 2 * x + Byte
      /\ Round(y) \in Int /\ 2 * Round(y) >= 2 * y - Byte
  BY RoundBound
<1>2. IsWhole(Round(x)) /\ IsWhole(Round(y))
  BY RoundIsWhole
<1>3. CASE x = y
  BY <1>1, <1>3
<1>4. CASE x < y
  <2>1. SUFFICES ASSUME Round(x) > Round(y) PROVE FALSE
    BY <1>1
  <2>2. Round(x) < Round(y) + Byte /\ Round(y) < Round(x) + Byte
    BY <1>1, <1>4, <2>1, ByteType
  <2> QED
    BY <1>1, <1>2, <2>1, <2>2, WholeGap
<1> QED
  BY <1>3, <1>4

\* The remainder is the only one.
LEMMA RemainderIs ==
    ASSUME NEW b \in Nat, b > 0, NEW i \in Int, NEW r \in Int, 0 <= r, r < b
    PROVE  (b * i + r) % b = r
<1> DEFINE x == b * i + r
           j == x \div b
           p == x % b
<1>1. x \in Int /\ j \in Int /\ p \in Int /\ 0 <= p /\ p < b /\ x = b * j + p
  OBVIOUS
<1>2. x = b * i + r
  OBVIOUS
<1> HIDE DEF x, j, p
<1>3. b * i < b * (j + 1) /\ b * j < b * (i + 1)
  BY <1>1, <1>2
<1>4. i < j + 1 /\ j < i + 1
  BY <1>1, <1>3
<1>5. i = j
  BY <1>1, <1>4
<1>6. b * i \in Int
  OBVIOUS
<1> QED
  BY <1>1, <1>2, <1>5, <1>6 DEF p, x

LEMMA WholeRounds ==
    ASSUME NEW x, IsWhole(x)
    PROVE  x \in Int /\ Round(x) = x
<1>1. PICK k \in Int : x = Byte * k
  BY DEF IsWhole
<1>2. (Byte * k + 0) % Byte = 0
  BY ByteType, RemainderIs
<1>3. x \in Int /\ x % Byte = 0
  BY <1>1, <1>2, ByteType
<1> QED
  BY <1>3, RoundOfWhole

\* round() between two even numbers of bytes.
LEMMA RoundForm ==
    ASSUME NEW i \in Int, NEW r \in Int, 0 <= r, r < 2 * Byte,
           NEW x, x = 2 * Byte * i + r
    PROVE  Round(x) = 2 * Byte * i + (IF 2 * r <= Byte THEN 0
                                      ELSE IF 2 * r < 3 * Byte THEN Byte ELSE 2 * Byte)
<1> DEFINE e == 2 * Byte * i
<1>1. Byte \in Nat /\ Byte > 0 /\ e \in Int /\ e = Byte * (2 * i) /\ x = e + r
  BY ByteType
<1>2. CASE r < Byte
  <2>1. x = Byte * (2 * i) + r /\ 2 * i \in Int
    BY <1>1
  <2>2. x % Byte = r
    BY <1>1, <1>2, <2>1, RemainderIs
  <2>3. (2 * Byte * i + 0) % (2 * Byte) = 0
    BY <1>1, RemainderIs
  <2>4. e % (2 * Byte) = 0
    BY <1>1, <2>3
  <2>5. x - (x % Byte) = e
    BY <1>1, <2>2
  <2> HIDE DEF e
  <2> QED
    BY <1>1, <1>2, <2>2, <2>4, <2>5 DEF Round, e
<1>3. CASE r >= Byte
  <2> DEFINE m == 2 * i + 1
             n == r - Byte
             b == 2 * Byte
  <2>1. /\ x = Byte * m + n /\ m \in Int
        /\ n \in Int /\ 0 <= n /\ n < Byte
        /\ b \in Nat /\ b > 0 /\ Byte \in Int /\ 0 <= Byte /\ Byte < b
    BY <1>1, <1>3
  <2>2. x % Byte = r - Byte
    <3>1. n = r - Byte
      OBVIOUS
    <3> HIDE DEF m, n
    <3>2. (Byte * m + n) % Byte = n
      BY <1>1, <2>1, RemainderIs
    <3> QED
      BY <2>1, <3>1, <3>2
  <2>3. (2 * Byte * i + Byte) % (2 * Byte) = Byte
    <3> HIDE DEF b
    <3>1. (b * i + Byte) % b = Byte
      BY <2>1, RemainderIs
    <3> QED
      BY <3>1 DEF b
  <2>4. (e + Byte) % (2 * Byte) = Byte
    BY <2>3
  <2>5. x - (x % Byte) = e + Byte
    BY <1>1, <2>2
  <2> HIDE DEF e
  <2> QED
    BY <1>1, <1>3, <2>2, <2>4, <2>5 DEF Round, e
<1> QED
  BY <1>1, <1>2, <1>3

\* What one part of an even budget loses by round() the other gains.
LEMMA RoundPair ==
    ASSUME NEW total \in Int, total % (2 * Byte) = 0, NEW x \in Int
    PROVE  Round(x) + Round(total - x) = total
<1> DEFINE b == 2 * Byte
           t == total \div b
           i == x \div b
           r == x % b
<1>1. Byte \in Nat /\ b \in Nat /\ b > 0 /\ b = 2 * Byte
  BY ByteType
<1>2. /\ t \in Int /\ total = b * t
      /\ i \in Int /\ r \in Int /\ 0 <= r /\ r < b /\ x = b * i + r
  BY <1>1
<1>3. CASE r = 0
  <2>1. total - x = b * (t - i) + 0 /\ t - i \in Int
    BY <1>1, <1>2, <1>3
  <2>2. x = Byte * (2 * i) /\ total - x = Byte * (2 * (t - i)) /\ 2 * i \in Int /\ 2 * (t - i) \in Int
    BY <1>1, <1>2, <1>3, <2>1
  <2>3. IsWhole(x) /\ IsWhole(total - x)
    BY <2>2 DEF IsWhole
  <2>4. Round(x) = x /\ Round(total - x) = total - x
    BY <2>3, WholeRounds
  <2> QED
    BY <2>4
<1>4. CASE r # 0
  <2> DEFINE p == b - r
             j == t - i - 1
  <2>1. j \in Int /\ p \in Int /\ 0 <= p /\ p < b /\ total - x = b * j + p
    BY <1>1, <1>2, <1>4
  <2>2. b * i + b * j + b = total
    BY <1>1, <1>2
  <2>3. p = b - r
    OBVIOUS
  <2> HIDE DEF b, t, i, r, p, j
  <2> DEFINE up(y) == IF 2 * y <= Byte THEN 0 ELSE IF 2 * y < 3 * Byte THEN Byte ELSE 2 * Byte
  <2>4. Round(x) = b * i + up(r)
    BY <1>1, <1>2, RoundForm
  <2>5. Round(total - x) = b * j + up(p)
    BY <1>1, <2>1, RoundForm
  <2>6. up(r) + up(p) = b /\ up(r) \in Int /\ up(p) \in Int
    BY <1>1, <1>2, <1>4, <2>3
  <2>7. b * i \in Int /\ b * j \in Int
    BY <1>1, <1>2, <2>1
  <2> HIDE DEF up
  <2> QED
    BY <2>2, <2>4, <2>5, <2>6, <2>7
<1> QED
  BY <1>3, <1>4
=============================================================================
