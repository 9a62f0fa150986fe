------------------------- MODULE AsnDetector_proofs -------------------------
(***************************************************************************)
(* The walk over a DNS reply finds what the query asked for in every reply *)
(* that is well formed, and a check of the public address keeps its cache, *)
(* its reading and its deadline whatever the resolvers answer.             *)
(***************************************************************************)
EXTENDS AsnDetector, SequenceTheorems, WellFoundedInduction, TLAPS

(***************************************************************************)
(* Induction over the natural numbers, for a set in place of a predicate.  *)
(***************************************************************************)
LEMMA NatSetInduction ==
    ASSUME NEW S, 0 \in S, \A n \in Nat : n \in S => n + 1 \in S
    PROVE  Nat \subseteq S
<1> DEFINE T == {n \in Nat : n \notin S}
<1> SUFFICES ASSUME T # {} PROVE FALSE
  OBVIOUS
<1>1. PICK x \in T : \A y \in T : ~(<<y, x>> \in OpToRel(<, Nat))
  <2>1. T \subseteq Nat
    OBVIOUS
  <2> HIDE DEF T
  <2> QED
   BY <2>1, NatLessThanWellFounded, WFMin
<1>2. x \in Nat \ {0}
  OBVIOUS
<1>3. x - 1 \in Nat /\ x - 1 < x
  BY <1>2
<1>4. <<x - 1, x>> \in OpToRel(<, Nat)
  BY <1>2, <1>3 DEF OpToRel
<1>5. x - 1 \in S
  BY <1>1, <1>3, <1>4
<1> QED
  BY <1>2, <1>3, <1>5

\* The same up to a bound.
LEMMA BoundedInduction ==
    ASSUME NEW n \in Nat, NEW S, 0 \in S,
           \A m \in Nat : m < n /\ m \in S => m + 1 \in S
    PROVE  0..n \subseteq S
<1> DEFINE T == {m \in Nat : m <= n => m \in S}
<1>1. 0 \in T
  OBVIOUS
<1>2. \A m \in Nat : m \in T => m + 1 \in T
  OBVIOUS
<1> HIDE DEF T
<1>3. Nat \subseteq T
  BY <1>1, <1>2, NatSetInduction
<1> QED
  BY <1>3 DEF T

-----------------------------------------------------------------------------
(***************************************************************************)
(* The recursive functions of Dns exist, so that their equations hold.     *)
(***************************************************************************)
\* A walk over the labels of a name.
IsPast(data, past) ==
    past = [o \in Nat \ {0} |->
              IF o > Len(data) THEN Raised
              ELSE IF data[o] = 0 THEN o + 1
              ELSE past[o + 1 + data[o]]]

Places == (Nat \ {0}) \cup {Raised}

\* It ends, at a place after the name or by raising: every step moves it on.
LEMMA PastExists ==
    ASSUME NEW data \in Seq(Nat)
    PROVE  \E past \in [Nat \ {0} -> Places] : IsPast(data, past)
<1> DEFINE Next1(past, o) == IF o > Len(data) THEN Raised
                             ELSE IF data[o] = 0 THEN o + 1
                             ELSE past[o + 1 + data[o]]
           S == {m \in Nat : \E past \in [Nat \ {0} -> Places] :
                    \A o \in Nat \ {0} : o + m > Len(data) => past[o] = Next1(past, o)}
           n == Len(data)
<1>1. n \in Nat
  BY LenProperties
<1>2. 0 \in S
  <2> DEFINE past == [o \in Nat \ {0} |-> Raised]
  <2>1. past \in [Nat \ {0} -> Places]
    BY DEF Places
  <2>2. \A o \in Nat \ {0} : o + 0 > Len(data) => past[o] = Next1(past, o)
    OBVIOUS
  <2> QED
    BY <2>1, <2>2
<1>3. ASSUME NEW m \in Nat, m < n, m \in S PROVE m + 1 \in S
  <2>1. PICK past \in [Nat \ {0} -> Places] :
            \A o \in Nat \ {0} : o + m > n => past[o] = Next1(past, o)
    BY <1>3
  <2> DEFINE k == n - m
  <2>2. k \in 1..n
    BY <1>1, <1>3
  <2>3. data[k] \in Nat
    BY <2>2, ElementOfSeq
  <2>4. Next1(past, k) \in Places
    BY <1>1, <2>2, <2>3 DEF Places
  <2> DEFINE more == [past EXCEPT ![k] = Next1(past, k)]
  <2>5. more \in [Nat \ {0} -> Places]
    BY <2>1, <2>4
  <2>6. ASSUME NEW o \in Nat \ {0}, o + (m + 1) > n PROVE more[o] = Next1(more, o)
    <3>1. o >= k
      BY <1>1, <2>6
    <3>2. o <= n => data[o] \in Nat /\ o + 1 + data[o] # k /\ o + 1 + data[o] \in Nat \ {0}
      <4> SUFFICES ASSUME o <= n
                   PROVE  data[o] \in Nat /\ o + 1 + data[o] # k
                          /\ o + 1 + data[o] \in Nat \ {0}
        OBVIOUS
      <4>1. o \in 1..n
        BY <1>1
      <4>2. data[o] \in Nat
        BY <4>1, ElementOfSeq
      <4> QED
        BY <3>1, <4>2, <2>2
    <3>3. Next1(more, o) = Next1(past, o)
      BY <1>1, <2>1, <2>2, <3>2
    <3>4. CASE o = k
      BY <2>1, <2>2, <3>3, <3>4
    <3>5. CASE o # k
      <4>1. o + m > n
        BY <1>1, <3>1, <3>5
      <4>2. more[o] = past[o]
        BY <2>1, <3>5
      <4> QED
        BY <2>1, <3>3, <4>1, <4>2
    <3> QED
      BY <3>4, <3>5
  <2>7. \A o \in Nat \ {0} : o + (m + 1) > Len(data) => more[o] = Next1(more, o)
    BY <2>6
  <2> HIDE DEF more
  <2>8. \E p \in [Nat \ {0} -> Places] :
            \A o \in Nat \ {0} : o + (m + 1) > Len(data) => p[o] = Next1(p, o)
    BY <2>5, <2>7, Zenon
  <2>9. m + 1 \in Nat
    OBVIOUS
  <2> QED
    BY <2>8, <2>9, Zenon
<1> HIDE DEF S
<1>4. n \in S
  <2>1. 0..n \subseteq S
    BY <1>1, <1>2, <1>3, BoundedInduction
  <2> QED
    BY <1>1, <2>1
<1>5. PICK past \in [Nat \ {0} -> Places] :
          \A o \in Nat \ {0} : o + n > n => past[o] = Next1(past, o)
  BY <1>4 DEF S
<1>6. past = [o \in Nat \ {0} |-> Next1(past, o)]
  BY <1>1, <1>5
<1> QED
  BY <1>6 DEF IsPast

\* That is all its equation allows.
LEMMA PastType ==
    ASSUME NEW data \in Seq(Nat), NEW past, IsPast(data, past)
    PROVE  /\ past \in [Nat \ {0} -> Places]
           /\ \A o \in Nat \ {0} : past[o] = IF o > Len(data) THEN Raised
                                            ELSE IF data[o] = 0 THEN o + 1
                                            ELSE past[o + 1 + data[o]]
<1> DEFINE n == Len(data)
           S == {m \in Nat : \A o \in Nat \ {0} : o + m > n => past[o] \in Places}
<1>1. n \in Nat
  BY LenProperties
<1>2. \A o \in Nat \ {0} : past[o] = IF o > n THEN Raised
                                   ELSE IF data[o] = 0 THEN o + 1
                                   ELSE past[o + 1 + data[o]]
  BY DEF IsPast
<1>3. 0 \in S
  BY <1>1, <1>2 DEF Places
<1>4. ASSUME NEW m \in Nat, m < n, m \in S PROVE m + 1 \in S
  <2> SUFFICES ASSUME NEW o \in Nat \ {0}, o + (m + 1) > n PROVE past[o] \in Places
    OBVIOUS
  <2>1. CASE o > n
    BY <1>2, <2>1 DEF Places
  <2>2. CASE o <= n
    <3>1. o \in 1..n
      BY <1>1, <2>2
    <3>2. data[o] \in Nat
      BY <3>1, ElementOfSeq
    <3>3. CASE data[o] = 0
      BY <1>1, <1>2, <2>2, <3>3 DEF Places
    <3>4. CASE data[o] # 0
      <4> DEFINE next == o + 1 + data[o]
      <4>1. next \in Nat \ {0} /\ next + m > n
        BY <1>1, <3>2
      <4>2. past[next] \in Places
        BY <1>4, <4>1
      <4> QED
        BY <1>1, <1>2, <2>2, <3>4, <4>2
    <3> QED
      BY <3>3, <3>4
  <2> QED
    BY <1>1, <2>1, <2>2
<1> HIDE DEF S
<1>5. n \in S
  <2>1. 0..n \subseteq S
    BY <1>1, <1>3, <1>4, BoundedInduction
  <2> QED
    BY <1>1, <2>1
<1>6. \A o \in Nat \ {0} : past[o] \in Places
  BY <1>1, <1>5 DEF S
<1>7. past = [o \in Nat \ {0} |-> past[o]]
  BY DEF IsPast
<1> QED
  BY <1>2, <1>6, <1>7

\* _skip_name(), with its loop written as an equation.
LEMMA SkipNameWalks ==
    ASSUME NEW data \in Seq(Nat)
    PROVE  \E past \in [Nat \ {0} -> Places] :
              /\ \A o \in Nat \ {0} : past[o] = IF o > Len(data) THEN Raised
                                               ELSE IF data[o] = 0 THEN o + 1
                                               ELSE past[o + 1 + data[o]]
              /\ \A offset \in Nat \ {0} :
                    SkipName(data, offset) = IF offset <= Len(data) /\ data[offset] >= 192
                                             THEN offset + 2 ELSE past[offset]
<1> DEFINE past == CHOOSE f : IsPast(data, f)
<1>1. IsPast(data, past)
  BY PastExists
<1>2. ASSUME NEW offset \in Nat \ {0}
      PROVE  SkipName(data, offset) = IF offset <= Len(data) /\ data[offset] >= 192
                                      THEN offset + 2 ELSE past[offset]
  BY DEF SkipName, IsPast, PointerBytes
<1> HIDE DEF past
<1> QED
  BY <1>1, <1>2, PastType

\* Where it does not raise it moves on.
LEMMA SkipNameType ==
    ASSUME NEW data \in Seq(Nat), NEW offset \in Nat \ {0}
    PROVE  SkipName(data, offset) \in Places
<1>1. PICK past \in [Nat \ {0} -> Places] :
          SkipName(data, offset) = IF offset <= Len(data) /\ data[offset] >= 192
                                   THEN offset + 2 ELSE past[offset]
  BY SkipNameWalks
<1>2. offset + 2 \in Places /\ past[offset] \in Places
  BY DEF Places
<1> QED
  BY <1>1, <1>2

\* The walk over the answers.
IsFound(data, count, qtype, found) ==
    found = [left \in 0..count |->
              [o \in Nat \ {0} |->
                LET at == SkipName(data, o)
                IN  IF left = 0 \/ at = Raised THEN Raised
                    ELSE IF at + 2 > Len(data) THEN Raised
                    ELSE IF data[at] = qtype /\ data[at + 1] = In
                    THEN SubSeq(data, at + 3, at + 2 + data[at + 2])
                    ELSE found[left - 1][at + 3 + data[at + 2]]]]

\* Each record leaves one less, so that it ends.
LEMMA FoundExists ==
    ASSUME NEW data \in Seq(Nat), NEW count \in Nat, NEW qtype
    PROVE  \E found : IsFound(data, count, qtype, found)
<1> DEFINE at(o) == SkipName(data, o)
           next(o) == at(o) + 3 + data[at(o) + 2]
           Step(f, left, o) ==
               IF left = 0 \/ at(o) = Raised THEN Raised
               ELSE IF at(o) + 2 > Len(data) THEN Raised
               ELSE IF data[at(o)] = qtype /\ data[at(o) + 1] = In
               THEN SubSeq(data, at(o) + 3, at(o) + 2 + data[at(o) + 2])
               ELSE f[left - 1][next(o)]
           Row(f, left) == [o \in Nat \ {0} |-> Step(f, left, o)]
           S == {m \in Nat : \E f : /\ f = [left \in 0..count |-> f[left]]
                                    /\ \A left \in 0..count : left <= m => f[left] = Row(f, left)}
<1>1. ASSUME NEW f, NEW g, NEW left \in 0..count, left > 0 => f[left - 1] = g[left - 1]
      PROVE  Row(f, left) = Row(g, left)
  <2>1. ASSUME NEW o \in Nat \ {0} PROVE Step(f, left, o) = Step(g, left, o)
    <3> HIDE DEF at, next
    <3> QED
      BY <1>1
  <2> HIDE DEF Step
  <2> QED
    BY <2>1
<1> HIDE DEF Row
<1>2. 0 \in S
  <2> DEFINE f == [left \in 0..count |-> Row(<<>>, left)]
  <2>1. f = [left \in 0..count |-> f[left]]
    OBVIOUS
  <2>2. ASSUME NEW left \in 0..count, left <= 0 PROVE f[left] = Row(f, left)
    <3>1. Row(f, left) = Row(<<>>, left)
      BY <1>1, <2>2
    <3> HIDE DEF f
    <3>2. f[left] = Row(<<>>, left)
      BY DEF f
    <3> QED
      BY <3>1, <3>2
  <2> HIDE DEF f
  <2>3. \E g : /\ g = [left \in 0..count |-> g[left]]
               /\ \A left \in 0..count : left <= 0 => g[left] = Row(g, left)
    BY <2>1, <2>2, Zenon
  <2>4. 0 \in Nat
    OBVIOUS
  <2> QED
    BY <2>3, <2>4, Zenon
<1>3. ASSUME NEW m \in Nat, m < count, m \in S PROVE m + 1 \in S
  <2>1. PICK f : /\ f = [left \in 0..count |-> f[left]]
                 /\ \A left \in 0..count : left <= m => f[left] = Row(f, left)
    BY <1>3, Zenon
  <2> DEFINE more == [left \in 0..count |-> IF left = m + 1 THEN Row(f, left) ELSE f[left]]
  <2>2. more = [left \in 0..count |-> more[left]]
    OBVIOUS
  <2>3. ASSUME NEW left \in 0..count, left <= m + 1
        PROVE  more[left] = Row(more, left)
    <3>1. left > 0 => left - 1 \in 0..count /\ left - 1 # m + 1
      BY <2>3
    <3>2. left > 0 => more[left - 1] = f[left - 1]
      BY <3>1
    <3>3. more[left] = IF left = m + 1 THEN Row(f, left) ELSE f[left]
      OBVIOUS
    <3> HIDE DEF more
    <3>4. Row(more, left) = Row(f, left)
      BY <3>2, <1>1
    <3>5. left # m + 1 => f[left] = Row(f, left)
      BY <2>1, <2>3
    <3> QED
      BY <3>3, <3>4, <3>5
  <2> HIDE DEF more
  <2>4. \E g : /\ g = [left \in 0..count |-> g[left]]
               /\ \A left \in 0..count : left <= m + 1 => g[left] = Row(g, left)
    BY <2>2, <2>3, Zenon
  <2>5. m + 1 \in Nat
    OBVIOUS
  <2> QED
    BY <2>4, <2>5, Zenon
<1> HIDE DEF S
<1>4. count \in S
  <2>1. 0..count \subseteq S
    BY <1>2, <1>3, BoundedInduction
  <2> QED
    BY <2>1
<1>5. PICK f : /\ f = [left \in 0..count |-> f[left]]
               /\ \A left \in 0..count : left <= count => f[left] = Row(f, left)
  BY <1>4, Zenon DEF S
<1>6. f = [left \in 0..count |-> Row(f, left)]
  <2>1. \A left \in 0..count : f[left] = Row(f, left)
    BY <1>5
  <2> QED
    BY <1>5, <2>1
<1>7. IsFound(data, count, qtype, f)
  BY <1>6 DEF IsFound, Row
<1> QED
  BY <1>7

\* Its loop, written as an equation.
WalksAnswers(data, count, qtype, found) ==
    \A left \in 0..count, o \in Nat \ {0} :
        LET at == SkipName(data, o)
        IN  found[left][o] =
                IF left = 0 \/ at = Raised THEN Raised
                ELSE IF at + 2 > Len(data) THEN Raised
                ELSE IF data[at] = qtype /\ data[at + 1] = In
                THEN SubSeq(data, at + 3, at + 2 + data[at + 2])
                ELSE found[left - 1][at + 3 + data[at + 2]]

\* What _dns_query() finds is what that loop finds.
LEMMA FirstAnswerWalks ==
    ASSUME NEW data \in Seq(Nat), NEW count \in Nat, NEW qtype, NEW start
    PROVE  \E found : /\ WalksAnswers(data, count, qtype, found)
                     /\ FirstAnswer(data, start, count, qtype) = found[count][start]
<1> DEFINE found == CHOOSE f : IsFound(data, count, qtype, f)
<1>1. IsFound(data, count, qtype, found)
  BY FoundExists
<1>2. FirstAnswer(data, start, count, qtype) = found[count][start]
  BY DEF FirstAnswer, IsFound
<1> HIDE DEF found
<1>3. WalksAnswers(data, count, qtype, found)
  <2> DEFINE Entry(left, o) ==
        LET at == SkipName(data, o)
        IN  IF left = 0 \/ at = Raised THEN Raised
            ELSE IF at + 2 > Len(data) THEN Raised
            ELSE IF data[at] = qtype /\ data[at + 1] = In
            THEN SubSeq(data, at + 3, at + 2 + data[at + 2])
            ELSE found[left - 1][at + 3 + data[at + 2]]
  <2>1. found = [left \in 0..count |-> [o \in Nat \ {0} |-> Entry(left, o)]]
    BY <1>1 DEF IsFound
  <2> HIDE DEF Entry
  <2>2. ASSUME NEW left \in 0..count, NEW o \in Nat \ {0}
        PROVE  found[left][o] = Entry(left, o)
    <3>1. found[left] = [x \in Nat \ {0} |-> Entry(left, x)]
      BY <2>1
    <3> QED
      BY <3>1
  <2> QED
    BY <2>2, Zenon DEF WalksAnswers, Entry
<1> QED
  BY <1>2, <1>3

-----------------------------------------------------------------------------
(***************************************************************************)
(* The cells of a message, laid out one part after the other.              *)
(***************************************************************************)
Cells == Seq(Nat)

IsFlatten(parts, flatten) ==
    flatten = [i \in 1..Len(parts) |->
                 IF i = 1 THEN parts[i] ELSE flatten[i - 1] \o parts[i]]

\* Each part is appended to those before it.
LEMMA FlattenExists ==
    ASSUME NEW parts \in Seq(Cells)
    PROVE  \E flatten : IsFlatten(parts, flatten)
<1> DEFINE n == Len(parts)
           Step(f, i) == IF i = 1 THEN parts[i] ELSE f[i - 1] \o parts[i]
           S == {m \in Nat : \E f : /\ f = [i \in 1..n |-> f[i]]
                                    /\ \A i \in 1..n : i <= m => f[i] = Step(f, i)}
<1>1. n \in Nat
  BY LenProperties
<1> HIDE DEF n
<1>2. ASSUME NEW f, NEW g, NEW i \in 1..n, i # 1 => f[i - 1] = g[i - 1]
      PROVE  Step(f, i) = Step(g, i)
  BY <1>2
<1> HIDE DEF Step
<1>3. 0 \in S
  <2> DEFINE f == [i \in 1..n |-> <<>>]
  <2>1. f = [i \in 1..n |-> f[i]]
    OBVIOUS
  <2> HIDE DEF f
  <2>2. \A i \in 1..n : i <= 0 => f[i] = Step(f, i)
    BY <1>1
  <2>3. 0 \in Nat
    OBVIOUS
  <2> QED
    BY <2>1, <2>2, <2>3, Zenon
<1>4. ASSUME NEW m \in Nat, m < n, m \in S PROVE m + 1 \in S
  <2>1. PICK f : /\ f = [i \in 1..n |-> f[i]]
                 /\ \A i \in 1..n : i <= m => f[i] = Step(f, i)
    BY <1>4, Zenon
  <2> DEFINE more == [i \in 1..n |-> IF i = m + 1 THEN Step(f, i) ELSE f[i]]
  <2>2. more = [i \in 1..n |-> more[i]]
    OBVIOUS
  <2>3. ASSUME NEW i \in 1..n, i <= m + 1 PROVE more[i] = Step(more, i)
    <3>1. i # 1 => i - 1 \in 1..n /\ i - 1 # m + 1
      BY <1>1, <2>3
    <3>2. i # 1 => more[i - 1] = f[i - 1]
      BY <3>1
    <3>3. more[i] = IF i = m + 1 THEN Step(f, i) ELSE f[i]
      OBVIOUS
    <3> HIDE DEF more
    <3>4. Step(more, i) = Step(f, i)
      BY <1>2, <3>2
    <3>5. i # m + 1 => f[i] = Step(f, i)
      BY <2>1, <2>3
    <3> QED
      BY <3>3, <3>4, <3>5
  <2> HIDE DEF more
  <2>4. \E g : /\ g = [i \in 1..n |-> g[i]]
               /\ \A i \in 1..n : i <= m + 1 => g[i] = Step(g, i)
    BY <2>2, <2>3, Zenon
  <2>5. m + 1 \in Nat
    OBVIOUS
  <2> QED
    BY <2>4, <2>5, Zenon
<1> HIDE DEF S
<1>5. n \in S
  <2>1. 0..n \subseteq S
    BY <1>1, <1>3, <1>4, BoundedInduction
  <2> QED
    BY <1>1, <2>1
<1>6. PICK f : /\ f = [i \in 1..n |-> f[i]]
               /\ \A i \in 1..n : i <= n => f[i] = Step(f, i)
  BY <1>5, Zenon DEF S
<1>7. f = [i \in 1..n |-> Step(f, i)]
  <2>1. \A i \in 1..n : f[i] = Step(f, i)
    BY <1>1, <1>6
  <2> QED
    BY <1>6, <2>1
<1>8. IsFlatten(parts, f)
  BY <1>7 DEF IsFlatten, Step, n
<1> QED
  BY <1>8

\* The sequence of the first i parts put together.
Grows(parts, flat) ==
    /\ flat[0] = <<>>
    /\ \A i \in 1..Len(parts) : flat[i] = flat[i - 1] \o parts[i]

LEMMA FlattenGrows ==
    ASSUME NEW parts \in Seq(Cells)
    PROVE  \E flat : Grows(parts, flat) /\ FlattenSeq(parts) = flat[Len(parts)]
<1> DEFINE n == Len(parts)
<1>1. n \in Nat /\ \A i \in 1..n : parts[i] \in Cells
  BY LenProperties, ElementOfSeq
<1>2. PICK g : IsFlatten(parts, g) /\ (n # 0 => FlattenSeq(parts) = g[n])
  <2> DEFINE g == CHOOSE f : IsFlatten(parts, f)
  <2>1. IsFlatten(parts, g)
    BY FlattenExists
  <2>2. n # 0 => FlattenSeq(parts) = g[n]
    BY DEF FlattenSeq, IsFlatten
  <2> HIDE DEF g
  <2> QED
    BY <2>1, <2>2
<1>3. n = 0 => FlattenSeq(parts) = <<>>
  <2>1. n = 0 => FlattenSeq(parts) = parts
    BY DEF FlattenSeq
  <2> QED
    BY <2>1, EmptySeq
<1> DEFINE flat == [i \in 0..n |-> IF i = 0 THEN <<>> ELSE g[i]]
<1>4. ASSUME NEW i \in 1..n PROVE flat[i] = flat[i - 1] \o parts[i]
  <2>1. g[i] = IF i = 1 THEN parts[i] ELSE g[i - 1] \o parts[i]
    BY <1>2 DEF IsFlatten
  <2>2. flat[i] = g[i] /\ (i # 1 => flat[i - 1] = g[i - 1]) /\ (i = 1 => flat[i - 1] = <<>>)
    BY <1>1
  <2> HIDE DEF flat
  <2>3. <<>> \o parts[i] = parts[i]
    BY <1>1, ConcatEmptySeq DEF Cells
  <2> QED
    BY <2>1, <2>2, <2>3
<1>5. flat[0] = <<>> /\ FlattenSeq(parts) = flat[n]
  BY <1>1, <1>2, <1>3
<1> HIDE DEF flat
<1> QED
  BY <1>4, <1>5 DEF Grows

LEMMA GrowsType ==
    ASSUME NEW parts \in Seq(Cells), NEW flat, Grows(parts, flat)
    PROVE  /\ flat[0] = <<>> /\ Len(flat[0]) = 0
           /\ \A i \in 0..Len(parts) : flat[i] \in Cells /\ Len(flat[i]) \in Nat
           /\ \A i \in 1..Len(parts) : /\ parts[i] \in Cells /\ Len(parts[i]) \in Nat
                                       /\ flat[i] = flat[i - 1] \o parts[i]
                                       /\ Len(flat[i]) = Len(flat[i - 1]) + Len(parts[i])
<1> DEFINE n == Len(parts)
           S == {m \in Nat : flat[m] \in Cells}
<1>1. n \in Nat /\ \A i \in 1..n : parts[i] \in Cells
  BY LenProperties, ElementOfSeq
<1>2. flat[0] = <<>> /\ \A i \in 1..n : flat[i] = flat[i - 1] \o parts[i]
  BY DEF Grows
<1>3. 0 \in S
  BY <1>2, EmptySeq DEF Cells
<1>4. ASSUME NEW m \in Nat, m < n, m \in S PROVE m + 1 \in S
  <2>1. m + 1 \in 1..n /\ (m + 1) - 1 = m
    BY <1>1, <1>4
  <2>2. flat[m + 1] = flat[m] \o parts[m + 1]
    BY <1>2, <2>1
  <2>3. flat[m] \in Seq(Nat) /\ parts[m + 1] \in Seq(Nat)
    BY <1>1, <1>4, <2>1 DEF Cells
  <2>4. flat[m + 1] \in Cells
    BY <2>2, <2>3, ConcatProperties DEF Cells
  <2> QED
    BY <2>4
<1>5. 0..n \subseteq S
  <2> HIDE DEF S
  <2> QED
    BY <1>1, <1>3, <1>4, BoundedInduction
<1>6. \A i \in 0..n : flat[i] \in Cells
  BY <1>5
<1>7. \A cells \in Cells : Len(cells) \in Nat
  BY LenProperties DEF Cells
<1>8. ASSUME NEW i \in 1..n PROVE Len(flat[i]) = Len(flat[i - 1]) + Len(parts[i])
  <2>1. i - 1 \in 0..n
    BY <1>1
  <2>2. flat[i - 1] \in Seq(Nat) /\ parts[i] \in Seq(Nat)
    BY <1>1, <1>6, <2>1 DEF Cells
  <2>3. Len(flat[i - 1] \o parts[i]) = Len(flat[i - 1]) + Len(parts[i])
    BY <2>2, ConcatProperties
  <2> QED
    BY <1>2, <2>3
<1> QED
  BY <1>1, <1>2, <1>6, <1>7, <1>8, EmptySeq

\* Places in a sequence of a cells followed by one of b.
LEMMA PlaceInFirst ==
    ASSUME NEW a \in Nat, NEW b \in Nat, NEW x \in 1..a
    PROVE  x \in 1..(a + b) /\ x <= a
  OBVIOUS

LEMMA PlaceInSecond ==
    ASSUME NEW a \in Nat, NEW b \in Nat, NEW j \in 1..b
    PROVE  a + j \in 1..(a + b) /\ ~(a + j <= a) /\ a + j - a = j
  OBVIOUS

\* So each part stands where the lengths of those before add up to.
LEMMA GrowsKeeps ==
    ASSUME NEW parts \in Seq(Cells), NEW flat, Grows(parts, flat),
           NEW i \in 1..Len(parts), NEW j \in 1..Len(parts[i])
    PROVE  LET n == Len(parts)
           IN  /\ Len(flat[i - 1]) + j \in 1..Len(flat[n])
               /\ flat[n][Len(flat[i - 1]) + j] = parts[i][j]
<1> DEFINE n == Len(parts)
           x == Len(flat[i - 1]) + j
           S == {m \in Nat : i + m <= n => /\ x \in 1..Len(flat[i + m])
                                           /\ flat[i + m][x] = parts[i][j]}
<1>1. n \in Nat
  BY LenProperties
<1>2. \A k \in 0..n : flat[k] \in Seq(Nat) /\ Len(flat[k]) \in Nat
  BY GrowsType DEF Cells
<1>3. \A k \in 1..n : /\ parts[k] \in Seq(Nat) /\ Len(parts[k]) \in Nat
                      /\ flat[k] = flat[k - 1] \o parts[k]
                      /\ Len(flat[k]) = Len(flat[k - 1]) + Len(parts[k])
  BY GrowsType DEF Cells
<1>4. i - 1 \in 0..n /\ i \in Nat
  BY <1>1
<1>5. x \in Nat /\ x > Len(flat[i - 1])
  BY <1>2, <1>3, <1>4
<1>6. 0 \in S
  <2>1. Len(flat[i - 1]) \in Nat /\ Len(parts[i]) \in Nat
    BY <1>2, <1>3, <1>4
  <2> DEFINE a == Len(flat[i - 1])
             b == Len(parts[i])
  <2>2. a \in Nat /\ b \in Nat /\ j \in 1..b /\ x = a + j
    BY <2>1
  <2> HIDE DEF a, b, x
  <2>3. x \in 1..(a + b) /\ ~(x <= a) /\ x - a = j
    BY <2>2
  <2>4. (flat[i - 1] \o parts[i])[x] = parts[i][x - a]
    BY <1>2, <1>3, <1>4, <2>3, ConcatProperties DEF a, b
  <2>5. flat[i][x] = parts[i][j] /\ x \in 1..Len(flat[i])
    BY <1>3, <2>3, <2>4 DEF a, b
  <2>6. i + 0 = i
    BY <1>4
  <2> QED
    BY <2>5, <2>6
<1> HIDE DEF x
<1>7. ASSUME NEW m \in Nat, m < n, m \in S PROVE m + 1 \in S
  <2> SUFFICES ASSUME i + (m + 1) <= n
               PROVE  x \in 1..Len(flat[i + (m + 1)]) /\ flat[i + (m + 1)][x] = parts[i][j]
    OBVIOUS
  <2> DEFINE k == i + m
  <2>1. /\ k \in 0..n /\ k + 1 \in 1..n /\ (k + 1) - 1 = k /\ i + (m + 1) = k + 1
        /\ i + m <= n
    BY <1>1, <1>4
  <2>2. x \in 1..Len(flat[k]) /\ flat[k][x] = parts[i][j]
    BY <1>7, <2>1
  <2> HIDE DEF k
  <2>3. /\ flat[k + 1] = flat[k] \o parts[k + 1]
        /\ Len(flat[k + 1]) = Len(flat[k]) + Len(parts[k + 1])
        /\ flat[k] \in Seq(Nat) /\ Len(flat[k]) \in Nat
        /\ parts[k + 1] \in Seq(Nat) /\ Len(parts[k + 1]) \in Nat
    BY <1>2, <1>3, <2>1
  <2>4. x \in 1..Len(flat[k]) + Len(parts[k + 1]) /\ x <= Len(flat[k])
    BY <2>2, <2>3, PlaceInFirst
  <2>5. (flat[k] \o parts[k + 1])[x] = flat[k][x]
    BY <2>3, <2>4, ConcatProperties
  <2> QED
    BY <2>1, <2>2, <2>3, <2>4, <2>5
<1>8. 0..n \subseteq S
  <2> HIDE DEF S
  <2> QED
    BY <1>1, <1>6, <1>7, BoundedInduction
<1>9. n - i \in 0..n /\ i + (n - i) = n /\ i + (n - i) <= n
  BY <1>1, <1>4
<1>10. n - i \in S
  <2> HIDE DEF S
  <2> QED
    BY <1>8, <1>9
<1> QED
  BY <1>9, <1>10 DEF x

-----------------------------------------------------------------------------
(***************************************************************************)
(* _skip_name() ends behind the name it is set on.                         *)
(***************************************************************************)
\* The labels of a name: none is empty, none begins like a pointer.
Names == {labels \in Seq(Cells) : \A i \in 1..Len(labels) : Len(labels[i]) \in 1..191}

\* The cells stand in the data after its first p.
Holds(data, p, cells) ==
    \A i \in 1..Len(cells) : p + i \in 1..Len(data) /\ data[p + i] = cells[i]

\* Two parts one after the other hold each its own place.
LEMMA ConcatHolds ==
    ASSUME NEW data, NEW p \in Nat, NEW s \in Cells, NEW t \in Cells, Holds(data, p, s \o t)
    PROVE  /\ s \o t \in Cells /\ Len(s \o t) = Len(s) + Len(t)
           /\ Len(s) \in Nat /\ Len(t) \in Nat
           /\ Holds(data, p, s) /\ Holds(data, p + Len(s), t)
<1> DEFINE a == Len(s)
           b == Len(t)
<1>1. a \in Nat /\ b \in Nat
  BY LenProperties DEF Cells
<1>2. /\ s \o t \in Cells /\ Len(s \o t) = a + b
      /\ \A i \in 1..(a + b) : (s \o t)[i] = IF i <= a THEN s[i] ELSE t[i - a]
  BY ConcatProperties DEF Cells
<1>3. \A i \in 1..(a + b) : p + i \in 1..Len(data) /\ data[p + i] = (s \o t)[i]
  BY <1>2 DEF Holds
<1> HIDE DEF a, b
<1>4. ASSUME NEW i \in 1..a PROVE p + i \in 1..Len(data) /\ data[p + i] = s[i]
  <2>1. i \in 1..(a + b) /\ i <= a
    BY <1>1
  <2> QED
    BY <1>2, <1>3, <2>1
<1>5. ASSUME NEW i \in 1..b PROVE (p + a) + i \in 1..Len(data) /\ data[(p + a) + i] = t[i]
  <2> DEFINE x == a + i
  <2>1. x \in 1..(a + b) /\ ~(x <= a) /\ x - a = i
    BY <1>1
  <2>2. (p + a) + i = p + x
    BY <1>1
  <2> HIDE DEF x
  <2>3. (s \o t)[x] = t[i]
    BY <1>2, <2>1
  <2>4. p + x \in 1..Len(data) /\ data[p + x] = (s \o t)[x]
    BY <1>3, <2>1
  <2> QED
    BY <2>2, <2>3, <2>4
<1> QED
  BY <1>1, <1>2, <1>4, <1>5 DEF Holds, a, b

\* Where the labels of a name are written.
IsSpelling(labels, cells, at) ==
    /\ at \in [0..Len(labels) -> Nat]
    /\ at[0] = 0
    /\ \A i \in 1..Len(labels) : /\ at[i] = at[i - 1] + 1 + Len(labels[i])
                                 /\ at[i - 1] + 1 \in 1..Len(cells)
                                 /\ cells[at[i - 1] + 1] = Len(labels[i])
    /\ Len(cells) = at[Len(labels)] + 1
    /\ cells[Len(cells)] = 0

LEMMA EncodeNameSpells ==
    ASSUME NEW labels \in Names
    PROVE  /\ EncodeName(labels) \in Cells
           /\ \E at : IsSpelling(labels, EncodeName(labels), at)
<1> DEFINE n == Len(labels)
           parts == [i \in 1..n |-> <<Len(labels[i])>> \o labels[i]]
<1>1. /\ n \in Nat
      /\ \A i \in 1..n : labels[i] \in Seq(Nat) /\ Len(labels[i]) \in 1..191
  BY LenProperties, ElementOfSeq DEF Names, Cells
<1>2. ASSUME NEW i \in 1..n
      PROVE  /\ <<Len(labels[i])>> \o labels[i] \in Cells
             /\ Len(<<Len(labels[i])>> \o labels[i]) = 1 + Len(labels[i])
             /\ (<<Len(labels[i])>> \o labels[i])[1] = Len(labels[i])
  <2> DEFINE l == Len(labels[i])
  <2>1. l \in 1..191 /\ labels[i] \in Seq(Nat)
    BY <1>1
  <2> HIDE DEF l
  <2>2. <<l>> \in Seq(Nat) /\ Len(<<l>>) = 1 /\ <<l>>[1] = l
    BY <2>1
  <2>3. /\ <<l>> \o labels[i] \in Seq(Nat)
        /\ Len(<<l>> \o labels[i]) = Len(<<l>>) + Len(labels[i])
        /\ \A j \in 1..(Len(<<l>>) + Len(labels[i])) :
              (<<l>> \o labels[i])[j] = IF j <= Len(<<l>>) THEN <<l>>[j]
                                        ELSE labels[i][j - Len(<<l>>)]
    BY <2>1, <2>2, ConcatProperties
  <2>4. 1 \in 1..(1 + l)
    BY <2>1
  <2>5. (<<l>> \o labels[i])[1] = l
    BY <2>2, <2>3, <2>4 DEF l
  <2> QED
    BY <2>2, <2>3, <2>5 DEF l, Cells
<1>3. parts \in Seq(Cells) /\ Len(parts) = n
  BY <1>1, <1>2
<1>4. \A i \in 1..n : Len(parts[i]) = 1 + Len(labels[i]) /\ parts[i][1] = Len(labels[i])
  BY <1>2
<1>5. EncodeName(labels) = FlattenSeq(parts) \o <<0>>
  BY DEF EncodeName
<1> HIDE DEF parts
<1>6. PICK flat : Grows(parts, flat) /\ FlattenSeq(parts) = flat[n]
  BY <1>3, FlattenGrows
<1>7. /\ \A i \in 0..n : flat[i] \in Cells /\ Len(flat[i]) \in Nat
      /\ Len(flat[0]) = 0
      /\ \A i \in 1..n : Len(flat[i]) = Len(flat[i - 1]) + Len(parts[i])
  BY <1>3, <1>6, GrowsType
<1>8. flat[n] \in Seq(Nat) /\ <<0>> \in Seq(Nat) /\ Len(<<0>>) = 1 /\ <<0>>[1] = 0
  BY <1>1, <1>7 DEF Cells
<1> DEFINE all == flat[n] \o <<0>>
           last == Len(flat[n])
<1>9. /\ all \in Seq(Nat) /\ Len(all) = last + 1
      /\ \A i \in 1..(last + 1) :
            all[i] = IF i <= last THEN flat[n][i] ELSE <<0>>[i - last]
  BY <1>8, ConcatProperties
<1>10. last \in Nat
  BY <1>1, <1>7
<1> DEFINE at == [i \in 0..n |-> Len(flat[i])]
<1>11. at[n] = last /\ at[0] = 0 /\ at \in [0..n -> Nat]
  BY <1>1, <1>7
<1>12. ASSUME NEW i \in 1..n
       PROVE  /\ at[i] = at[i - 1] + 1 + Len(labels[i])
              /\ at[i - 1] + 1 \in 1..Len(all)
              /\ all[at[i - 1] + 1] = Len(labels[i])
  <2>1. i - 1 \in 0..n /\ i \in 0..n /\ Len(labels[i]) \in 1..191
    BY <1>1
  <2>2. at[i] = Len(flat[i]) /\ at[i - 1] = Len(flat[i - 1])
    BY <2>1
  <2>3. 1 \in 1..Len(parts[i])
    BY <1>4, <2>1
  <2>4. /\ Len(flat[i - 1]) + 1 \in 1..last
        /\ flat[n][Len(flat[i - 1]) + 1] = parts[i][1]
    BY <1>3, <1>6, <2>3, GrowsKeeps
  <2> DEFINE x == at[i - 1] + 1
  <2>5. x \in 1..last /\ flat[n][x] = Len(labels[i])
    BY <1>4, <2>2, <2>4
  <2>6. at[i] = at[i - 1] + 1 + Len(labels[i])
    <3>1. Len(flat[i]) = Len(flat[i - 1]) + (1 + Len(labels[i]))
      BY <1>4, <1>7
    <3>2. Len(flat[i - 1]) \in Nat
      BY <1>7, <2>1
    <3> DEFINE l == Len(labels[i])
               k == Len(flat[i - 1])
    <3>3. l \in Nat /\ k \in Nat
      BY <2>1, <3>2
    <3> HIDE DEF l, k, at
    <3>4. at[i - 1] = k /\ at[i] = k + (1 + l)
      BY <2>2, <3>1 DEF l, k
    <3>5. k + (1 + l) = k + 1 + l
      BY <3>3
    <3> QED
      BY <3>4, <3>5 DEF l
  <2> HIDE DEF x, last, all, at
  <2>7. x \in 1..(last + 1) /\ x <= last
    BY <1>10, <2>5
  <2>8. x \in 1..Len(all) /\ all[x] = Len(labels[i])
    BY <1>9, <2>5, <2>7
  <2> QED
    BY <2>6, <2>8 DEF x
<1>13. all[Len(all)] = 0
  <2> HIDE DEF all, last
  <2> DEFINE end == last + 1
  <2>1. end \in 1..(last + 1) /\ ~(end <= last) /\ end - last = 1 /\ Len(all) = end
    BY <1>9, <1>10
  <2> HIDE DEF end
  <2> QED
    BY <1>8, <1>9, <2>1
<1>14. EncodeName(labels) = all
  BY <1>5, <1>6
<1> HIDE DEF all, at, last
<1>15. IsSpelling(labels, all, at)
  BY <1>9, <1>11, <1>12, <1>13 DEF IsSpelling
<1> QED
  BY <1>9, <1>14, <1>15 DEF Cells

\* A name that is written out: label after label up to the empty one.
LEMMA NameIsSkipped ==
    ASSUME NEW data \in Cells, NEW labels \in Names, NEW p \in Nat,
           Holds(data, p, EncodeName(labels))
    PROVE  SkipName(data, p + 1) = p + 1 + Len(EncodeName(labels))
<1> DEFINE n == Len(labels)
           cells == EncodeName(labels)
<1>1. /\ n \in Nat
      /\ \A i \in 1..n : Len(labels[i]) \in 1..191
  BY LenProperties DEF Names
<1>2. PICK at : IsSpelling(labels, cells, at)
  BY EncodeNameSpells
<1>3. /\ cells \in Cells /\ Len(cells) \in Nat
      /\ \A i \in 1..Len(cells) : p + i \in 1..Len(data) /\ data[p + i] = cells[i]
  BY EncodeNameSpells, LenProperties DEF Cells, Holds
<1>4. PICK past \in [Nat \ {0} -> Places] :
          /\ \A o \in Nat \ {0} : past[o] = IF o > Len(data) THEN Raised
                                           ELSE IF data[o] = 0 THEN o + 1
                                           ELSE past[o + 1 + data[o]]
          /\ \A offset \in Nat \ {0} :
                SkipName(data, offset) = IF offset <= Len(data) /\ data[offset] >= 192
                                         THEN offset + 2 ELSE past[offset]
  BY SkipNameWalks DEF Cells
<1> HIDE DEF cells
<1>5. /\ at \in [0..n -> Nat] /\ at[0] = 0
      /\ \A i \in 1..n : /\ at[i] = at[i - 1] + 1 + Len(labels[i])
                         /\ at[i - 1] + 1 \in 1..Len(cells)
                         /\ cells[at[i - 1] + 1] = Len(labels[i])
      /\ Len(cells) = at[n] + 1 /\ cells[Len(cells)] = 0
  BY <1>2 DEF IsSpelling
<1>6. Len(data) \in Nat
  BY LenProperties DEF Cells
<1> DEFINE end == p + 1 + Len(cells)
           S == {m \in Nat : m <= n => past[p + (at[n - m] + 1)] = end}
<1>7. 0 \in S
  <2> DEFINE o == p + Len(cells)
  <2>1. at[n] \in Nat /\ n - 0 = n
    BY <1>1, <1>5
  <2>2. o \in Nat \ {0} /\ ~(o > Len(data)) /\ data[o] = 0 /\ o + 1 = end
    <3>1. Len(cells) \in 1..Len(cells)
      BY <1>3, <1>5, <2>1
    <3>2. p + Len(cells) \in 1..Len(data) /\ data[p + Len(cells)] = 0
      BY <1>3, <1>5, <3>1
    <3> QED
      BY <1>3, <1>6, <3>2
  <2>3. o = p + (at[n - 0] + 1)
    BY <1>5, <2>1
  <2> HIDE DEF o, end
  <2>4. past[o] = end
    BY <1>4, <2>2
  <2> QED
    BY <2>3, <2>4
<1>8. ASSUME NEW m \in Nat, m < n, m \in S PROVE m + 1 \in S
  <2> DEFINE i == n - m
             o == p + (at[i - 1] + 1)
             l == Len(labels[i])
  <2>1. i \in 1..n /\ i - 1 \in 0..n /\ n - (m + 1) = i - 1 /\ i \in 0..n
    BY <1>1, <1>8
  <2>2. past[p + (at[i] + 1)] = end
    BY <1>1, <1>8
  <2> HIDE DEF i
  <2>3. at[i - 1] \in Nat /\ l \in 1..191 /\ at[i] = at[i - 1] + 1 + l
    BY <1>1, <1>5, <2>1
  <2>4. o \in 1..Len(data) /\ data[o] = l
    <3>1. at[i - 1] + 1 \in 1..Len(cells) /\ cells[at[i - 1] + 1] = l
      BY <1>5, <2>1
    <3> QED
      BY <1>3, <3>1
  <2>5. o + 1 + l = p + (at[i] + 1)
    <3> DEFINE u == at[i - 1]
    <3>1. u \in Nat /\ l \in Nat /\ at[i] = u + 1 + l /\ o = p + (u + 1)
      BY <2>3
    <3> HIDE DEF u, l, o
    <3> QED
      BY <3>1
  <2> HIDE DEF o, l, end
  <2>6. o \in Nat \ {0} /\ ~(o > Len(data)) /\ data[o] # 0
    BY <1>6, <2>3, <2>4
  <2>7. past[o] = end
    BY <1>4, <2>2, <2>4, <2>5, <2>6
  <2>8. past[p + (at[n - (m + 1)] + 1)] = end
    BY <2>1, <2>7 DEF o
  <2>9. m + 1 \in Nat
    OBVIOUS
  <2> QED
    BY <2>8, <2>9
<1>9. past[p + (at[n - n] + 1)] = end
  <2>1. 0..n \subseteq S
    <3> HIDE DEF S
    <3> QED
      BY <1>1, <1>7, <1>8, BoundedInduction
  <2>2. n \in S /\ n <= n
    <3> HIDE DEF S
    <3> QED
      BY <1>1, <2>1
  <2> QED
    BY <2>2
<1>10. p + (at[n - n] + 1) = p + 1
  BY <1>1, <1>5
<1>11. ~(p + 1 <= Len(data) /\ data[p + 1] >= 192)
  <2>1. 1 \in 1..Len(cells) /\ cells[1] \in 0..191
    <3>1. CASE n = 0
      <4>1. Len(cells) = 1
        BY <1>5, <3>1
      <4>2. cells[1] = 0
        <5>1. cells[Len(cells)] = 0
          BY <1>5
        <5> QED
          BY <4>1, <5>1, Zenon
      <4>3. 1 \in 1..1 /\ 0 \in 0..191
        OBVIOUS
      <4> QED
        BY <4>1, <4>2, <4>3, Zenon
    <3>2. CASE n # 0
      <4>1. 1 \in 1..n /\ 1 - 1 = 0 /\ 0 + 1 = 1
        BY <1>1, <3>2
      <4>2. at[0] + 1 \in 1..Len(cells) /\ cells[at[0] + 1] = Len(labels[1])
        BY <1>5, <4>1
      <4>3. at[0] + 1 = 1
        BY <1>5
      <4>4. Len(labels[1]) \in 1..191
        BY <1>1, <4>1
      <4>5. cells[1] = Len(labels[1]) /\ 1 \in 1..Len(cells)
        BY <4>2, <4>3, Zenon
      <4> QED
        BY <4>4, <4>5
    <3> QED
      BY <3>1, <3>2
  <2> DEFINE c == cells[1]
  <2>2. c \in 0..191 /\ data[p + 1] = c
    BY <1>3, <2>1
  <2> HIDE DEF c
  <2> QED
    BY <2>2
<1>12. SkipName(data, p + 1) = past[p + 1]
  BY <1>4, <1>11
<1> QED
  BY <1>9, <1>10, <1>12 DEF cells

\* The owner of a record, written out or a pointer.
LEMMA OwnerIsSkipped ==
    ASSUME NEW data \in Cells, NEW how, NEW labels \in Names, NEW p \in Nat,
           Holds(data, p, Owner(how, labels))
    PROVE  /\ Owner(how, labels) \in Cells
           /\ SkipName(data, p + 1) = p + 1 + Len(Owner(how, labels))
<1>1. CASE how = "pointer"
  <2>1. Owner(how, labels) = <<192, 12>> /\ <<192, 12>> \in Cells /\ Len(<<192, 12>>) = 2
    BY <1>1 DEF Owner, Cells
  <2>2. p + 1 \in 1..Len(data) /\ data[p + 1] = 192
    BY <2>1 DEF Holds
  <2>3. Len(data) \in Nat
    BY LenProperties DEF Cells
  <2>4. SkipName(data, p + 1) = (p + 1) + 2
    BY <2>2, <2>3, SkipNameWalks DEF Cells
  <2> QED
    BY <2>1, <2>4
<1>2. CASE how # "pointer"
  BY <1>2, NameIsSkipped, EncodeNameSpells DEF Owner
<1> QED
  BY <1>1, <1>2

-----------------------------------------------------------------------------
(***************************************************************************)
(* The walk over the answers ends at the first that fits.                  *)
(***************************************************************************)
\* The cells of a record.
RecordCells(a, labels) ==
    Owner(a.owner, labels) \o <<a.type, a.class, Len(a.rdata)>> \o a.rdata

IsRecord(a) == a.type \in Nat /\ a.class \in Nat /\ a.rdata \in Cells

\* One round of the loop reads the record that stands there, and no further.
LEMMA RecordIsRead ==
    ASSUME NEW data \in Cells, NEW labels \in Names, NEW a, IsRecord(a),
           NEW p \in Nat, Holds(data, p, RecordCells(a, labels))
    PROVE  LET at == SkipName(data, p + 1)
           IN  /\ RecordCells(a, labels) \in Cells
               /\ at \in Nat \ {0} /\ at # Raised /\ ~(at + 2 > Len(data))
               /\ data[at] = a.type /\ data[at + 1] = a.class
               /\ SubSeq(data, at + 3, at + 2 + data[at + 2]) = a.rdata
               /\ at + 3 + data[at + 2] = p + Len(RecordCells(a, labels)) + 1
<1> DEFINE owner == Owner(a.owner, labels)
           fixed == <<a.type, a.class, Len(a.rdata)>>
           at == SkipName(data, p + 1)
           u == Len(owner)
           v == Len(a.rdata)
<1>1. v \in Nat /\ a.rdata \in Cells /\ a.type \in Nat /\ a.class \in Nat
  BY LenProperties DEF IsRecord, Cells
<1>2. owner \in Cells
  BY EncodeNameSpells DEF Owner, Cells
<1>3. fixed \in Cells /\ Len(fixed) = 3
  BY <1>1 DEF Cells
<1> HIDE DEF owner
<1>4. RecordCells(a, labels) = (owner \o fixed) \o a.rdata
  BY DEF RecordCells, owner
<1>5. owner \o fixed \in Cells /\ Len(owner \o fixed) = u + 3 /\ u \in Nat
  BY <1>2, <1>3, ConcatProperties, LenProperties DEF Cells
<1>6. /\ Holds(data, p, owner \o fixed)
      /\ Holds(data, p + (u + 3), a.rdata)
      /\ RecordCells(a, labels) \in Cells
      /\ Len(RecordCells(a, labels)) = (u + 3) + v
  <2> DEFINE both == owner \o fixed
             rest == a.rdata
  <2>1. RecordCells(a, labels) = both \o rest /\ Holds(data, p, both \o rest)
    BY <1>4
  <2>2. both \in Cells /\ Len(both) = u + 3 /\ rest \in Cells /\ Len(rest) = v
    BY <1>1, <1>5
  <2> HIDE DEF both, rest, u, v
  <2>3. /\ Holds(data, p, both) /\ Holds(data, p + Len(both), rest)
        /\ both \o rest \in Cells /\ Len(both \o rest) = Len(both) + Len(rest)
    <3>1. Holds(data, p, both) /\ Holds(data, p + Len(both), rest) /\ both \o rest \in Cells
      BY <2>1, <2>2, ConcatHolds, Zenon
    <3>2. Len(both \o rest) = Len(both) + Len(rest)
      BY <2>2, ConcatProperties DEF Cells
    <3> QED
      BY <3>1, <3>2
  <2> QED
    BY <2>1, <2>2, <2>3 DEF both, rest
<1>7. Holds(data, p, owner) /\ Holds(data, p + u, fixed)
  BY <1>2, <1>3, <1>6, ConcatHolds
<1>8. at = p + 1 + u
  BY <1>7, OwnerIsSkipped DEF owner
<1>9. \A i \in 1..3 : (p + u) + i \in 1..Len(data) /\ data[(p + u) + i] = fixed[i]
  BY <1>3, <1>7 DEF Holds
<1>10. /\ (p + u) + 1 = at /\ (p + u) + 2 = at + 1 /\ (p + u) + 3 = at + 2
       /\ at \in Nat \ {0} /\ at # Raised
  BY <1>5, <1>8, DnsAssumption
<1>11. /\ data[at] = a.type /\ data[at + 1] = a.class /\ data[at + 2] = v
       /\ at + 2 \in 1..Len(data)
  <2> HIDE DEF at, u
  <2>1. /\ data[(p + u) + 1] = a.type /\ data[(p + u) + 2] = a.class
        /\ data[(p + u) + 3] = v /\ (p + u) + 3 \in 1..Len(data)
    BY <1>9
  <2> QED
    BY <1>10, <2>1
<1>12. Len(data) \in Nat
  BY LenProperties DEF Cells
<1>13. SubSeq(data, at + 3, at + 2 + v) = a.rdata
  <2> DEFINE from == at + 3
             to == at + 2 + v
             part == SubSeq(data, from, to)
  <2>1. /\ from \in Int /\ to \in Int /\ to - from + 1 = v
        /\ (IF from <= to THEN to - from + 1 ELSE 0) = v
    <3>1. at \in Nat /\ v \in Nat
      BY <1>1, <1>10
    <3> HIDE DEF at, v
    <3> QED
      BY <3>1
  <2>2. \A j \in 1..v : (p + (u + 3)) + j \in 1..Len(data)
                        /\ data[(p + (u + 3)) + j] = a.rdata[j]
    BY <1>6 DEF Holds
  <2> HIDE DEF at, u, v
  <2>3. \A j \in Nat : (p + (u + 3)) + j = from + j - 1
    BY <1>5, <1>8, <1>10
  <2>4. ASSUME NEW i \in from..to PROVE data[i] \in Nat
    <3>1. i - from + 1 \in 1..v /\ i - from + 1 \in Nat
      BY <1>1, <1>10, <2>1
    <3>2. (p + (u + 3)) + (i - from + 1) = i
      BY <1>10, <2>1, <2>3, <3>1
    <3>3. i \in 1..Len(data)
      BY <2>2, <3>1, <3>2
    <3> QED
      BY <3>3, ElementOfSeq DEF Cells
  <2> HIDE DEF from, to
  <2>5. /\ part \in Seq(Nat) /\ Len(part) = v
        /\ \A j \in 1..v : part[j] = data[from + j - 1]
    BY <2>1, <2>4, SubSeqProperties
  <2> HIDE DEF part
  <2>6. ASSUME NEW j \in 1..v PROVE part[j] = a.rdata[j]
    <3>1. (p + (u + 3)) + j = from + j - 1
      BY <1>1, <2>3
    <3> QED
      BY <2>2, <2>5, <3>1
  <2>7. part = a.rdata
    BY <1>1, <2>5, <2>6, SeqEqual DEF Cells, v
  <2> QED
    BY <2>7 DEF part, from, to
<1>14. at + 3 + v = p + ((u + 3) + v) + 1
  <2> HIDE DEF at, u, v
  <2> QED
    BY <1>1, <1>5, <1>8
<1>15. ~(at + 2 > Len(data))
  BY <1>10, <1>11, <1>12
<1> HIDE DEF at
<1> QED
  BY <1>6, <1>10, <1>11, <1>13, <1>14, <1>15 DEF at

\* The least of a set of natural numbers.
LEMMA MinOfSet ==
    ASSUME NEW S \in SUBSET Nat, S # {}
    PROVE  Min(S) \in S /\ \A y \in S : Min(S) <= y
<1>1. PICK x \in S : \A y \in S : ~(<<y, x>> \in OpToRel(<, Nat))
  BY NatLessThanWellFounded, WFMin
<1>2. \A y \in S : x <= y
  <2> SUFFICES ASSUME NEW y \in S PROVE x <= y
    OBVIOUS
  <2>1. x \in Nat /\ y \in Nat
    OBVIOUS
  <2>2. ~(y < x)
    BY <1>1, <2>1 DEF OpToRel
  <2> QED
    BY <2>1, <2>2
<1> QED
  BY <1>2 DEF Min

\* What holds of every round holds of the loop: of the records from k + 1 on it
\* gives the first that fits, or raises if none does.
LEMMA FirstFits ==
    ASSUME NEW n \in Nat, NEW fits \in SUBSET (1..n), NEW rdata, NEW place, NEW found,
           \A k \in 0..n : found[0][place[k]] = Raised,
           \A i \in 1..n, left \in 1..n :
               found[left][place[i - 1]] = IF i \in fits THEN rdata[i]
                                           ELSE found[left - 1][place[i]]
    PROVE  found[n][place[0]] = IF fits = {} THEN Raised ELSE rdata[Min(fits)]
<1> DEFINE First(k, outcome) ==
               \/ /\ \A j \in fits : j <= k
                  /\ outcome = Raised
               \/ \E i \in fits : /\ i > k /\ \A j \in fits : j > k => i <= j
                                  /\ outcome = rdata[i]
           S == {m \in Nat : m <= n => First(n - m, found[m][place[n - m]])}
<1>1. 0 \in S
  <2>1. n - 0 = n /\ n \in 0..n /\ \A j \in fits : j <= n
    OBVIOUS
  <2>2. found[0][place[n - 0]] = Raised
    BY <2>1
  <2> QED
    BY <2>1, <2>2
<1>2. ASSUME NEW m \in Nat, m < n, m \in S PROVE m + 1 \in S
  <2> DEFINE k == n - (m + 1)
             i == n - m
  <2>1. /\ k \in 0..n /\ i = k + 1 /\ i \in 1..n /\ i - 1 = k /\ m + 1 \in 1..n
        /\ (m + 1) - 1 = m
    BY <1>2
  <2>2. First(i, found[m][place[i]])
    BY <1>2
  <2> HIDE DEF k, i
  <2>3. found[m + 1][place[k]] = IF i \in fits THEN rdata[i] ELSE found[m][place[i]]
    BY <2>1
  <2>4. \A j \in fits : j \in Nat /\ (j > k <=> j > i \/ j = i)
    BY <2>1
  <2>5. CASE i \in fits
    <3>1. i > k /\ \A j \in fits : j > k => i <= j
      BY <2>1, <2>4
    <3> QED
      BY <2>3, <2>5, <3>1 DEF k
  <2>6. CASE i \notin fits
    <3>1. \A j \in fits : j > k <=> j > i
      BY <2>4, <2>6
    <3>2. First(k, found[m][place[i]])
      <4>1. CASE (\A j \in fits : j <= i) /\ found[m][place[i]] = Raised
        <5>1. \A j \in fits : j <= k
          BY <2>1, <2>4, <3>1, <4>1
        <5> QED
          BY <4>1, <5>1
      <4>2. CASE \E j \in fits : /\ j > i /\ \A l \in fits : l > i => j <= l
                                 /\ found[m][place[i]] = rdata[j]
        BY <3>1, <4>2
      <4> QED
        BY <2>2, <4>1, <4>2
    <3> QED
      BY <2>3, <2>6, <3>2 DEF k
  <2> QED
    BY <2>5, <2>6
<1>3. First(0, found[n][place[0]])
  <2>1. 0..n \subseteq S
    <3> HIDE DEF S
    <3> QED
      BY <1>1, <1>2, BoundedInduction
  <2>2. n \in S /\ n <= n /\ n - n = 0
    <3> HIDE DEF S
    <3> QED
      BY <2>1
  <2> HIDE DEF First
  <2> QED
    BY <2>2
<1>4. fits \in SUBSET Nat /\ \A j \in fits : j > 0
  OBVIOUS
<1>5. CASE fits = {}
  BY <1>3, <1>5
<1>6. CASE fits # {}
  <2>1. Min(fits) \in fits /\ \A y \in fits : Min(fits) <= y
    BY <1>4, <1>6, MinOfSet
  <2>2. PICK i \in fits : (\A j \in fits : i <= j) /\ found[n][place[0]] = rdata[i]
    <3>1. ~(\A j \in fits : j <= 0)
      <4>1. PICK j \in fits : j \in Nat /\ j > 0
        BY <1>4, <1>6
      <4>2. ~(j <= 0)
        BY <4>1
      <4> QED
        BY <4>2
    <3>2. \A i, j \in fits : j > 0
      BY <1>4
    <3> QED
      BY <1>3, <3>1, <3>2
  <2>3. i <= Min(fits) /\ Min(fits) <= i /\ i \in Nat /\ Min(fits) \in Nat
    BY <1>4, <2>1, <2>2
  <2>4. i = Min(fits)
    BY <2>3
  <2> QED
    BY <1>6, <2>2, <2>4
<1> QED
  BY <1>5, <1>6

LEMMA RecordCellsType ==
    ASSUME NEW labels \in Names, NEW a, IsRecord(a)
    PROVE  RecordCells(a, labels) \in Cells
<1> DEFINE owner == Owner(a.owner, labels)
           fixed == <<a.type, a.class, Len(a.rdata)>>
<1>1. a.rdata \in Seq(Nat) /\ Len(a.rdata) \in Nat /\ a.type \in Nat /\ a.class \in Nat
  BY LenProperties DEF IsRecord, Cells
<1>2. owner \in Seq(Nat)
  BY EncodeNameSpells DEF Owner, Cells
<1>3. fixed \in Seq(Nat)
  BY <1>1
<1>4. RecordCells(a, labels) = (owner \o fixed) \o a.rdata
  BY DEF RecordCells
<1> HIDE DEF owner, fixed
<1>5. (owner \o fixed) \o a.rdata \in Seq(Nat)
  BY <1>1, <1>2, <1>3, ConcatProperties
<1> QED
  BY <1>4, <1>5 DEF Cells

\* A part of what is held is held.
LEMMA HoldsPart ==
    ASSUME NEW data, NEW p \in Nat, NEW parts \in Seq(Cells), NEW flat, Grows(parts, flat),
           Holds(data, p, flat[Len(parts)]), NEW i \in 1..Len(parts)
    PROVE  Holds(data, p + Len(flat[i - 1]), parts[i])
<1> DEFINE all == flat[Len(parts)]
           k == Len(flat[i - 1])
<1>1. k \in Nat
  <2>1. Len(parts) \in Nat
    BY LenProperties
  <2>2. i - 1 \in 0..Len(parts)
    BY <2>1
  <2> QED
    BY <2>2, GrowsType
<1> SUFFICES ASSUME NEW j \in 1..Len(parts[i])
             PROVE  (p + k) + j \in 1..Len(data) /\ data[(p + k) + j] = parts[i][j]
  BY DEF Holds
<1>2. k + j \in 1..Len(all) /\ all[k + j] = parts[i][j]
  BY GrowsKeeps
<1>3. j \in Nat
  <2>1. Len(parts[i]) \in Nat
    BY GrowsType
  <2> QED
    BY <2>1
<1> HIDE DEF k, all
<1>4. (p + k) + j = p + (k + j)
  BY <1>1, <1>3
<1>5. p + (k + j) \in 1..Len(data) /\ data[p + (k + j)] = all[k + j]
  BY <1>2 DEF Holds, all
<1> QED
  BY <1>2, <1>4, <1>5

\* A reply as RFC 1035 has it, except that a name is all labels or all pointer.
WellFormed(r) ==
    /\ r.name \in Names
    /\ Len(r.answers) \in Nat
    /\ \A i \in 1..Len(r.answers) : IsRecord(r.answers[i])

\* Such a reply is understood: _dns_query() returns the data of the first record
\* of the type it asked for, or raises if there is none.
THEOREM ReplyIsUnderstood ==
    ASSUME NEW r, WellFormed(r), NEW qtype
    PROVE  DnsQuery(r, qtype) = Answer(r, qtype)
<1> DEFINE answers == r.answers
           n == Len(answers)
           name == r.name
           parts == [i \in 1..n |-> RecordCells(answers[i], name)]
           fits == {i \in 1..n : answers[i].type = qtype /\ answers[i].class = In}
           data == EncodeReply(r)
<1>1. n \in Nat /\ name \in Names /\ \A i \in 1..n : IsRecord(answers[i])
  BY DEF WellFormed
<1>2. parts \in Seq(Cells) /\ Len(parts) = n /\ \A i \in 1..n : parts[i] \in Cells
  BY <1>1, RecordCellsType
<1>3. data = (EncodeName(name) \o <<0>>) \o FlattenSeq(parts)
  BY DEF EncodeReply, RecordCells
<1>4. PICK flat : Grows(parts, flat) /\ FlattenSeq(parts) = flat[n]
  BY <1>2, FlattenGrows
<1>5. /\ Len(flat[0]) = 0
      /\ \A k \in 0..n : flat[k] \in Cells /\ Len(flat[k]) \in Nat
      /\ \A i \in 1..n : Len(flat[i]) = Len(flat[i - 1]) + Len(parts[i])
  <2> HIDE DEF parts
  <2> QED
    BY <1>2, <1>4, GrowsType
<1> DEFINE host == EncodeName(name)
           head == host \o <<0>>
           q == Len(head)
<1>6. /\ host \in Cells /\ <<0>> \in Cells /\ flat[n] \in Cells /\ Len(<<0>>) = 1
      /\ head \in Cells
  <2>1. host \in Seq(Nat) /\ <<0>> \in Seq(Nat) /\ flat[n] \in Cells
    BY <1>1, <1>5, EncodeNameSpells DEF Cells
  <2> HIDE DEF host
  <2>2. head \in Seq(Nat)
    BY <2>1, ConcatProperties
  <2> QED
    BY <2>1, <2>2 DEF Cells
<1>7. data = head \o flat[n] /\ data \in Cells
  <2> HIDE DEF head
  <2>1. head \o flat[n] \in Seq(Nat)
    BY <1>6, ConcatProperties DEF Cells
  <2> QED
    BY <1>3, <1>4, <2>1 DEF Cells, head
<1> HIDE DEF parts, data, host
<1>8. /\ Holds(data, 0, head) /\ Holds(data, q, flat[n])
      /\ q = Len(host) + 1 /\ q \in Nat
  <2>1. Holds(data, 0, head \o flat[n])
    <3>1. Len(data) \in Nat
      BY <1>7, LenProperties DEF Cells
    <3>2. \A i \in 1..Len(data) : 0 + i \in 1..Len(data) /\ data[0 + i] = data[i]
      BY <3>1
    <3> QED
      BY <1>7, <3>2 DEF Holds
  <2>2. Len(host) \in Nat /\ q = Len(host) + 1
    BY <1>6, ConcatProperties, LenProperties DEF Cells
  <2> HIDE DEF head
  <2>3. Holds(data, 0, head) /\ Holds(data, 0 + Len(head), flat[n])
    BY <1>6, <2>1, ConcatHolds
  <2>4. 0 + Len(head) = q /\ q \in Nat
    BY <2>2
  <2> QED
    BY <2>2, <2>3, <2>4
<1>9. SkipName(data, 1) + 1 = q + 1
  <2>1. Holds(data, 0, host)
    BY <1>6, <1>8, ConcatHolds
  <2>2. SkipName(data, 0 + 1) = 0 + 1 + Len(host)
    BY <1>1, <1>7, <2>1, NameIsSkipped DEF host
  <2>3. Len(host) \in Nat
    BY <1>6, LenProperties DEF Cells
  <2> HIDE DEF q
  <2> QED
    BY <1>8, <2>2, <2>3
<1> HIDE DEF head, q
<1> DEFINE place == [k \in 0..n |-> q + Len(flat[k]) + 1]
<1>10. PICK found : /\ WalksAnswers(data, n, qtype, found)
                    /\ FirstAnswer(data, q + 1, n, qtype) = found[n][q + 1]
  <2>1. n \in Nat /\ data \in Seq(Nat)
    BY <1>1, <1>7 DEF Cells
  <2> HIDE DEF n, answers
  <2> QED
    BY <2>1, FirstAnswerWalks
<1>11. /\ place[0] = q + 1
       /\ \A k \in 0..n : place[k] = q + Len(flat[k]) + 1 /\ place[k] \in Nat \ {0}
  <2>1. ASSUME NEW k \in 0..n PROVE q + Len(flat[k]) + 1 \in Nat \ {0}
    <3> DEFINE l == Len(flat[k])
    <3>1. l \in Nat
      BY <1>5
    <3> HIDE DEF l
    <3>2. q + l + 1 \in Nat \ {0}
      BY <1>8, <3>1
    <3> QED
      BY <3>2 DEF l
  <2>2. 0 \in 0..n /\ q + 0 + 1 = q + 1
    BY <1>1, <1>8
  <2>3. \A k \in 0..n : place[k] = q + Len(flat[k]) + 1
    OBVIOUS
  <2> HIDE DEF place, n
  <2> QED
    BY <1>5, <2>1, <2>2, <2>3
<1> HIDE DEF place
<1>12. ASSUME NEW k \in 0..n PROVE found[0][place[k]] = Raised
  <2>1. 0 \in 0..n
    BY <1>1
  <2> QED
    BY <1>10, <1>11, <2>1 DEF WalksAnswers
<1>13. ASSUME NEW i \in 1..n, NEW left \in 1..n
       PROVE  found[left][place[i - 1]] = IF i \in fits THEN answers[i].rdata
                                           ELSE found[left - 1][place[i]]
  <2> DEFINE a == answers[i]
             k == Len(flat[i - 1])
             l == Len(RecordCells(a, name))
             p == q + k
             at == SkipName(data, p + 1)
  <2>1. i - 1 \in 0..n /\ i \in 0..n /\ left \in 0..n /\ left # 0
    BY <1>1
  <2>2. parts[i] = RecordCells(a, name)
    BY DEF parts
  <2>3. k \in Nat /\ p \in Nat /\ place[i - 1] = p + 1
    <3>1. k \in Nat /\ place[i - 1] = q + k + 1
      BY <1>5, <1>11, <2>1
    <3> HIDE DEF k
    <3> QED
      BY <1>8, <3>1
  <2>4. Holds(data, p, RecordCells(a, name))
    BY <1>2, <1>4, <1>8, <2>2, HoldsPart
  <2>5. IsRecord(a)
    BY <1>1
  <2> HIDE DEF a, p, name, n, answers
  <2>6. /\ at \in Nat \ {0} /\ at # Raised /\ ~(at + 2 > Len(data))
        /\ data[at] = a.type /\ data[at + 1] = a.class
        /\ SubSeq(data, at + 3, at + 2 + data[at + 2]) = a.rdata
        /\ at + 3 + data[at + 2] = p + l + 1
    <3>1. data \in Cells /\ name \in Names /\ p \in Nat
      BY <1>1, <1>7, <2>3
    <3> QED
      BY <2>4, <2>5, <3>1, RecordIsRead
  <2>7. place[i] = p + l + 1
    <3> HIDE DEF k, l
    <3>1. Len(flat[i]) = k + l /\ l \in Nat
      <4>1. parts[i] \in Cells
        BY <1>2
      <4> QED
        BY <1>5, <2>2, <4>1, LenProperties DEF Cells, k, l
    <3>2. place[i] = q + (k + l) + 1
      BY <1>11, <2>1, <3>1
    <3> QED
      BY <1>8, <2>3, <3>1, <3>2 DEF p
  <2>8. found[left][p + 1] = IF left = 0 \/ at = Raised THEN Raised
                             ELSE IF at + 2 > Len(data) THEN Raised
                             ELSE IF data[at] = qtype /\ data[at + 1] = In
                             THEN SubSeq(data, at + 3, at + 2 + data[at + 2])
                             ELSE found[left - 1][at + 3 + data[at + 2]]
    <3>1. p + 1 \in Nat \ {0}
      BY <2>3
    <3> QED
      BY <1>10, <2>1, <3>1 DEF WalksAnswers
  <2> HIDE DEF at, l
  <2>9. found[left][p + 1] = IF a.type = qtype /\ a.class = In THEN a.rdata
                             ELSE found[left - 1][place[i]]
    BY <2>1, <2>6, <2>7, <2>8
  <2>10. i \in fits <=> a.type = qtype /\ a.class = In
    BY DEF a
  <2> HIDE DEF fits
  <2> QED
    BY <2>3, <2>9, <2>10 DEF a
<1>14. found[n][place[0]] = IF fits = {} THEN Raised ELSE answers[Min(fits)].rdata
  <2> DEFINE rdata == [i \in 1..n |-> answers[i].rdata]
  <2>1. fits \in SUBSET (1..n)
    OBVIOUS
  <2>2. \A i \in 1..n : rdata[i] = answers[i].rdata
    OBVIOUS
  <2> HIDE DEF rdata, fits, answers, n
  <2>3. found[n][place[0]] = IF fits = {} THEN Raised ELSE rdata[Min(fits)]
    <3>1. n \in Nat /\ \A k \in 0..n : found[0][place[k]] = Raised
      BY <1>1, <1>12
    <3>2. \A i \in 1..n, left \in 1..n :
             found[left][place[i - 1]] = IF i \in fits THEN rdata[i]
                                         ELSE found[left - 1][place[i]]
      BY <1>13, <2>2
    <3> QED
      BY <2>1, <3>1, <3>2, FirstFits
  <2>4. fits # {} => Min(fits) \in 1..n
    <3>1. fits \in SUBSET Nat
      BY <1>1, <2>1
    <3> QED
      BY <2>1, <3>1, MinOfSet
  <2> QED
    BY <2>2, <2>3, <2>4
<1>15. DnsQuery(r, qtype) =
          IF ~r.id_ok \/ r.rcode # 0 THEN Raised ELSE found[n][place[0]]
  BY <1>9, <1>10, <1>11 DEF DnsQuery, data
<1>16. Answer(r, qtype) =
          IF r.id_ok /\ r.rcode = 0 /\ fits # {}
          THEN answers[Min(fits)].rdata ELSE Raised
  BY DEF Answer
<1> HIDE DEF fits, answers, n
<1> QED
  BY <1>14, <1>15, <1>16

-----------------------------------------------------------------------------
(***************************************************************************)
(* What a query makes of a reply.                                          *)
(***************************************************************************)
\* Every reply a resolver may send is one the walk understands, and what the
\* query makes of it is what the resolver said, or the query raises.
LEMMA ReplyIsTrue ==
    ASSUME NEW qtype \in {A, Txt}, NEW value \in Nat, NEW r \in Replies(qtype, value)
    PROVE  /\ WellFormed(r)
           /\ qtype = A => ARecord(r) \in {Raised, value}
           /\ qtype = Txt => TxtRecord(r) \in {Raised, value}
<1> DEFINE answers == r.answers
           n == Len(answers)
           fits == {i \in 1..n : answers[i].type = qtype /\ answers[i].class = In}
           rdata == DnsQuery(r, qtype)
<1>1. <<value>> \in Cells /\ <<>> \in Cells /\ <<192, 12>> \in Cells
  BY DEF Cells
<1>2. ASSUME NEW a \in Records(qtype, value)
      PROVE  /\ IsRecord(a)
             /\ a.type = qtype /\ a.class = In => a.rdata \in {<<value>>, <<>>}
  BY <1>1, <1>2 DEF Records, IsRecord, A, Txt, Cname, In
<1>3. r.name = Host /\ answers \in Seq(Records(qtype, value))
  <2>1. CASE \E k \in 0..MaxAnswers : \E s \in [1..k -> Records(qtype, value)] :
                r = [name |-> Host, id_ok |-> TRUE, rcode |-> 0, answers |-> s]
    <3>1. PICK k \in 0..MaxAnswers : \E s \in [1..k -> Records(qtype, value)] :
              r = [name |-> Host, id_ok |-> TRUE, rcode |-> 0, answers |-> s]
      BY <2>1
    <3>2. PICK s \in [1..k -> Records(qtype, value)] : r.name = Host /\ answers = s
      BY <3>1
    <3>3. k \in Nat
      BY AsnDetectorAssumption
    <3>4. s \in Seq(Records(qtype, value))
      BY <3>2, <3>3, IsASeq
    <3> QED
      BY <3>2, <3>4
  <2>2. CASE r.name = Host /\ answers = <<>>
    BY <2>2, EmptySeq
  <2>3. \/ \E k \in 0..MaxAnswers : \E s \in [1..k -> Records(qtype, value)] :
               r = [name |-> Host, id_ok |-> TRUE, rcode |-> 0, answers |-> s]
        \/ r.name = Host /\ answers = <<>>
    BY DEF Replies
  <2> QED
    BY <2>1, <2>2, <2>3
<1>4. Host \in Names
  <2>1. <<97, 98>> \in Cells /\ <<99>> \in Cells /\ Len(<<97, 98>>) = 2 /\ Len(<<99>>) = 1
    BY DEF Cells
  <2>2. Host \in Seq(Cells) /\ Len(Host) = 2 /\ Host[1] = <<97, 98>> /\ Host[2] = <<99>>
    BY <2>1 DEF Host
  <2>3. \A i \in 1..2 : i = 1 \/ i = 2
    OBVIOUS
  <2>4. \A i \in 1..Len(Host) : Len(Host[i]) \in 1..191
    BY <2>1, <2>2, <2>3
  <2> QED
    BY <2>2, <2>4 DEF Names
<1>5. n \in Nat /\ \A i \in 1..n : answers[i] \in Records(qtype, value)
  BY <1>3, LenProperties, ElementOfSeq
<1>6. WellFormed(r)
  BY <1>2, <1>3, <1>4, <1>5 DEF WellFormed
<1>7. rdata \in {Raised, <<value>>, <<>>}
  <2>1. rdata = Answer(r, qtype)
    BY <1>6, ReplyIsUnderstood
  <2>2. Answer(r, qtype) = IF r.id_ok /\ r.rcode = 0 /\ fits # {}
                           THEN answers[Min(fits)].rdata ELSE Raised
    BY DEF Answer
  <2>3. fits # {} => Min(fits) \in fits
    <3>1. fits \in SUBSET Nat
      BY <1>5
    <3> HIDE DEF fits
    <3> QED
      BY <3>1, MinOfSet
  <2>4. fits # {} => answers[Min(fits)].rdata \in {<<value>>, <<>>}
    BY <1>2, <1>5, <2>3
  <2> QED
    BY <2>1, <2>2, <2>4
<1>8. /\ <<value>> # Raised /\ <<>> # Raised /\ <<value>> # <<>>
      /\ Len(<<value>>) = 1 /\ Len(<<>>) # 1 /\ <<value>>[1] = value
  <2>1. <<value>> # Raised /\ <<>> # Raised
    BY <1>1, DnsAssumption DEF Cells
  <2>2. Len(<<value>>) = 1 /\ Len(<<>>) # 1 /\ <<value>>[1] = value
    OBVIOUS
  <2>3. <<value>> # <<>>
    BY <2>2
  <2> QED
    BY <2>1, <2>2, <2>3
<1> HIDE DEF rdata
<1>9. qtype = A => ARecord(r) \in {Raised, value}
  BY <1>7, <1>8 DEF ARecord, rdata
<1>10. qtype = Txt => TxtRecord(r) \in {Raised, value}
  BY <1>7, <1>8 DEF TxtRecord, rdata
<1> QED
  BY <1>6, <1>9, <1>10

-----------------------------------------------------------------------------
(***************************************************************************)
(* The check.                                                              *)
(***************************************************************************)
\* What the check has read is what it reads on with.
ReadOn ==
    /\ pc # "idle" => reading = Nothing
    /\ pc \in {"origin", "name"} => ip \in Ips
    /\ pc = "name" => asn = AsnOf[ip]

\* Each query adds to the time taken what is left of the timeout, or the floor.
TimeSpent ==
    /\ pc = "ip" => elapsed = 0
    /\ pc = "origin" => elapsed <= Timeout
    /\ pc = "name" => elapsed <= Timeout + Floor
    /\ CheckIsBounded

DetectorInv ==
    /\ TypeOK
    /\ CacheIsConsistent
    /\ reply = Nothing \/ WellFormed(reply)
    /\ ReadOn
    /\ TimeSpent

LEMMA InitDetector == Init => DetectorInv
<1> SUFFICES ASSUME Init PROVE DetectorInv
  OBVIOUS
<1>1. TypeOK
  BY DEF Init, TypeOK
<1>2. CacheIsConsistent /\ ReadOn
  BY DEF Init, CacheIsConsistent, ReadOn
<1>3. TimeSpent
  BY AsnDetectorAssumption DEF Init, TimeSpent, CheckIsBounded
<1> QED
  BY <1>1, <1>2, <1>3 DEF Init, DetectorInv

\* The organisations of addresses are naturals, which no outcome is.
LEMMA NetworkTypes ==
    /\ \A i \in Ips : i \in Nat /\ AsnOf[i] \in DOMAIN OrgOf /\ AsnOf[i] \in Nat
                      /\ i # Nothing /\ i # Raised
    /\ \A m \in DOMAIN OrgOf : m \in Nat /\ OrgOf[m] \in Nat /\ OrgOf[m] \in Orgs
                               /\ m # Nothing /\ OrgOf[m] # Nothing
                               /\ m # Raised /\ OrgOf[m] # Raised
    /\ NotANumber \in Nat
  BY AsnDetectorAssumption, DnsAssumption DEF Ips, Orgs, NotANumber

\* What is left for a query is at least the floor, and no more than the timeout.
LEMMA RemainingBounds ==
    ASSUME elapsed \in Nat, NEW took \in 0..Remaining
    PROVE  /\ Remaining \in Nat
           /\ elapsed + took \in Nat
           /\ elapsed = 0 => elapsed + took <= Timeout
           /\ elapsed <= Timeout => elapsed + took <= Timeout + Floor
           /\ elapsed <= Timeout + Floor => elapsed + took <= Timeout + 2 * Floor
  BY AsnDetectorAssumption DEF Remaining

\* A query spends what is left at most.
LEMMA QuerySpends ==
    ASSUME DetectorInv, pc \in {"ip", "origin", "name"},
           \E took \in 0..Remaining : elapsed' = elapsed + took,
           pc = "ip" => pc' \in {"idle", "origin"},
           pc = "origin" => pc' \in {"idle", "name"},
           pc = "name" => pc' = "idle"
    PROVE  TimeSpent' /\ elapsed' \in Nat
<1>1. elapsed \in Nat
  BY DEF DetectorInv, TypeOK
<1>2. PICK took \in 0..Remaining : elapsed' = elapsed + took
  OBVIOUS
<1>3. /\ elapsed' \in Nat
      /\ elapsed = 0 => elapsed' <= Timeout
      /\ elapsed <= Timeout => elapsed' <= Timeout + Floor
      /\ elapsed <= Timeout + Floor => elapsed' <= Timeout + 2 * Floor
  BY <1>1, <1>2, RemainingBounds
<1>4. /\ Timeout \in Nat /\ Floor \in Nat
      /\ elapsed' <= Timeout => elapsed' <= Timeout + 2 * Floor
      /\ elapsed' <= Timeout + Floor => elapsed' <= Timeout + 2 * Floor
  BY <1>3, AsnDetectorAssumption
<1> QED
  BY <1>3, <1>4 DEF DetectorInv, TimeSpent, CheckIsBounded

LEMMA ClassifyType ==
    ASSUME NEW org
    PROVE  Classify(org) \in {Primary, Backup, CheckFailed, Nothing}
  BY DEF Classify

LEMMA RaiseKeeps ==
    ASSUME DetectorInv, Raise, wan_ip' \in Ips
    PROVE  CacheIsConsistent' /\ ReadOn' /\ (elapsed' \in Nat => TypeOK')
  BY DEF DetectorInv, TypeOK, Raise, Conclude, CacheIsConsistent, ReadOn

LEMMA QueryIpKeeps == DetectorInv /\ QueryIp => DetectorInv'
<1> SUFFICES ASSUME DetectorInv, QueryIp PROVE DetectorInv'
  OBVIOUS
<1> DEFINE got == ARecord(reply')
<1>1. pc = "ip" /\ wan_ip' = wan_ip /\ wan_ip \in Ips /\ wan_ip' \in Ips
  BY DEF QueryIp, Answered, DetectorInv, TypeOK
<1>2. reply' \in Replies(A, wan_ip) /\ \E took \in 0..Remaining : elapsed' = elapsed + took
  BY DEF QueryIp, Answered
<1>3. WellFormed(reply') /\ got \in {Raised, wan_ip}
  BY <1>1, <1>2, NetworkTypes, ReplyIsTrue
<1> HIDE DEF got
<1>4. CASE got = Raised /\ Raise
  <2>1. pc' = "idle"
    BY <1>4 DEF Raise, Conclude
  <2>2. TimeSpent' /\ elapsed' \in Nat
    BY <1>1, <1>2, <2>1, QuerySpends
  <2> QED
    BY <1>1, <1>3, <1>4, <2>2, RaiseKeeps DEF DetectorInv
<1>5. CASE /\ got # Raised /\ Known(got)
           /\ Conclude(Classify(cached_org))
           /\ UNCHANGED <<cached_ip, cached_org>>
  <2>1. pc' = "idle"
    BY <1>5 DEF Conclude
  <2>2. TimeSpent' /\ elapsed' \in Nat
    BY <1>1, <1>2, <2>1, QuerySpends
  <2>3. Classify(cached_org) \in {Primary, Backup, CheckFailed, Nothing}
    BY ClassifyType
  <2>4. TypeOK' /\ CacheIsConsistent' /\ ReadOn'
    BY <1>1, <1>5, <2>2, <2>3 DEF DetectorInv, TypeOK, Conclude, CacheIsConsistent, ReadOn
  <2> QED
    BY <1>3, <2>2, <2>4 DEF DetectorInv
<1>6. CASE /\ got # Raised /\ ~Known(got)
           /\ pc' = "origin" /\ ip' = got
           /\ cached_ip' = KnownSoFar(got)
           /\ UNCHANGED <<asn, reading, cached_org>>
  <2>1. TimeSpent' /\ elapsed' \in Nat
    BY <1>1, <1>2, <1>6, QuerySpends
  <2>2. got \in Ips /\ cached_ip' = cached_ip
    BY <1>1, <1>3, <1>6 DEF KnownSoFar
  <2>3. TypeOK' /\ CacheIsConsistent' /\ ReadOn'
    BY <1>1, <1>6, <2>1, <2>2 DEF DetectorInv, TypeOK, CacheIsConsistent, ReadOn
  <2> QED
    BY <1>3, <2>1, <2>3 DEF DetectorInv
<1> QED
  BY <1>4, <1>5, <1>6 DEF QueryIp, got

LEMMA QueryOriginKeeps == DetectorInv /\ QueryOrigin => DetectorInv'
<1> SUFFICES ASSUME DetectorInv, QueryOrigin PROVE DetectorInv'
  OBVIOUS
<1> DEFINE got == TxtRecord(reply')
<1>1. pc = "origin" /\ ip \in Ips /\ wan_ip' = wan_ip /\ wan_ip' \in Ips
  BY DEF QueryOrigin, Answered, DetectorInv, ReadOn, TypeOK
<1>2. PICK number \in {AsnOf[ip], NotANumber} : Answered(Txt, number)
  BY DEF QueryOrigin
<1>3. number \in Nat
  BY <1>1, NetworkTypes
<1>4. WellFormed(reply') /\ got \in {Raised, number}
  BY <1>2, <1>3, ReplyIsTrue DEF Answered
<1>5. \E took \in 0..Remaining : elapsed' = elapsed + took
  BY <1>2 DEF Answered
<1> HIDE DEF got
<1>6. CASE Raise
  <2>1. pc' = "idle"
    BY <1>6 DEF Raise, Conclude
  <2>2. TimeSpent' /\ elapsed' \in Nat
    BY <1>1, <1>5, <2>1, QuerySpends
  <2> QED
    BY <1>1, <1>4, <1>6, <2>2, RaiseKeeps DEF DetectorInv
<1>7. CASE /\ got \notin {Raised, NotANumber}
           /\ pc' = "name" /\ asn' = got
           /\ UNCHANGED <<ip, reading, cached_ip, cached_org>>
  <2>1. TimeSpent' /\ elapsed' \in Nat
    BY <1>1, <1>5, <1>7, QuerySpends
  <2>2. got = AsnOf[ip] /\ got \in DOMAIN OrgOf
    BY <1>1, <1>4, <1>7, NetworkTypes
  <2>3. TypeOK' /\ CacheIsConsistent' /\ ReadOn'
    BY <1>1, <1>7, <2>1, <2>2 DEF DetectorInv, TypeOK, CacheIsConsistent, ReadOn
  <2> QED
    BY <1>4, <2>1, <2>3 DEF DetectorInv
<1> QED
  BY <1>6, <1>7 DEF QueryOrigin, got

LEMMA QueryNameKeeps == DetectorInv /\ QueryName => DetectorInv'
<1> SUFFICES ASSUME DetectorInv, QueryName PROVE DetectorInv'
  OBVIOUS
<1> DEFINE got == TxtRecord(reply')
<1>1. /\ pc = "name" /\ ip \in Ips /\ asn = AsnOf[ip]
      /\ wan_ip' = wan_ip /\ wan_ip' \in Ips
  BY DEF QueryName, Answered, DetectorInv, ReadOn, TypeOK
<1>2. OrgOf[asn] \in Nat /\ OrgOf[asn] \in Orgs
  BY <1>1, NetworkTypes
<1>3. WellFormed(reply') /\ got \in {Raised, OrgOf[asn]}
  BY <1>2, ReplyIsTrue DEF QueryName, Answered
<1>4. \E took \in 0..Remaining : elapsed' = elapsed + took
  BY DEF QueryName, Answered
<1>5. pc' = "idle"
  BY DEF QueryName, Raise, Conclude
<1>6. TimeSpent' /\ elapsed' \in Nat
  BY <1>1, <1>4, <1>5, QuerySpends
<1> HIDE DEF got
<1>7. CASE Raise
  BY <1>1, <1>3, <1>6, <1>7, RaiseKeeps DEF DetectorInv
<1>8. CASE got # Raised /\ cached_ip' = ip /\ cached_org' = got /\ Conclude(Classify(got))
  <2>1. Classify(got) \in {Primary, Backup, CheckFailed, Nothing}
    BY ClassifyType
  <2>2. got = OrgOf[AsnOf[ip]] /\ got \in Orgs /\ got # Nothing /\ ip # Nothing
    BY <1>1, <1>3, <1>8, NetworkTypes
  <2>3. TypeOK' /\ CacheIsConsistent' /\ ReadOn'
    BY <1>1, <1>6, <1>8, <2>1, <2>2
       DEF DetectorInv, TypeOK, Conclude, CacheIsConsistent, ReadOn
  <2> QED
    BY <1>3, <1>6, <2>3 DEF DetectorInv
<1> QED
  BY <1>7, <1>8 DEF QueryName, got

LEMMA BeginKeeps == DetectorInv /\ Begin => DetectorInv'
<1> SUFFICES ASSUME DetectorInv, Begin PROVE DetectorInv'
  OBVIOUS
<1>1. TypeOK' /\ CacheIsConsistent' /\ ReadOn'
  BY DEF DetectorInv, TypeOK, CacheIsConsistent, ReadOn, Begin
<1>2. TimeSpent'
  BY AsnDetectorAssumption DEF Begin, TimeSpent, CheckIsBounded
<1> QED
  BY <1>1, <1>2 DEF Begin, DetectorInv

LEMMA QueryFailsKeeps == DetectorInv /\ QueryFails => DetectorInv'
<1> SUFFICES ASSUME DetectorInv, QueryFails PROVE DetectorInv'
  OBVIOUS
<1>1. pc \in {"ip", "origin", "name"} /\ Raise /\ reply' = Nothing /\ wan_ip' \in Ips
  BY DEF QueryFails, DetectorInv, TypeOK
<1>2. \E took \in 0..Remaining : elapsed' = elapsed + took
  <2>1. Remaining \in Nat
    BY AsnDetectorAssumption DEF DetectorInv, TypeOK, Remaining
  <2>2. {0, Remaining} \subseteq 0..Remaining
    BY <2>1
  <2> QED
    BY <2>2 DEF QueryFails
<1>3. pc' = "idle"
  BY <1>1 DEF Raise, Conclude
<1>4. TimeSpent' /\ elapsed' \in Nat
  BY <1>1, <1>2, <1>3, QuerySpends
<1> QED
  BY <1>1, <1>4, RaiseKeeps DEF DetectorInv

LEMMA SwitchWanKeeps == DetectorInv /\ SwitchWan => DetectorInv'
  BY DEF DetectorInv, TypeOK, CacheIsConsistent, ReadOn, TimeSpent, CheckIsBounded, SwitchWan

\* Whatever the resolvers answer and however the WAN switches, all of it holds.
THEOREM DetectorIsSound == Spec => []DetectorInv
<1>1. DetectorInv /\ Next => DetectorInv'
  BY BeginKeeps, QueryIpKeeps, QueryOriginKeeps, QueryNameKeeps, QueryFailsKeeps, SwitchWanKeeps
     DEF Next
<1>2. DetectorInv /\ UNCHANGED vars => DetectorInv'
  BY DEF DetectorInv, TypeOK, CacheIsConsistent, ReadOn, TimeSpent, CheckIsBounded, vars
<1> QED
  BY InitDetector, <1>1, <1>2, PTL DEF Spec

\* What check() reads and caches is an address, a number and an organisation, or
\* nothing; _cached_ip and _cached_org_name are set together or not at all.
THEOREM DetectorTypes == Spec => []TypeOK
<1>1. DetectorInv => TypeOK
  BY DEF DetectorInv
<1> QED
  BY <1>1, DetectorIsSound, PTL

\* The organisation kept is that of the address kept, for any addresses,
\* networks and organisations.
THEOREM CacheStaysConsistent == Spec => []CacheIsConsistent
<1>1. DetectorInv => CacheIsConsistent
  BY DEF DetectorInv
<1> QED
  BY <1>1, DetectorIsSound, PTL

\* _dns_query() returns the first record that answers in every reply received,
\* however many records it has.
THEOREM EveryReplyIsUnderstood == Spec => []RepliesAreUnderstood
<1>1. DetectorInv => RepliesAreUnderstood
  <2> SUFFICES ASSUME WellFormed(reply), NEW qtype \in {A, Txt}
               PROVE  DnsQuery(reply, qtype) = Answer(reply, qtype)
    BY DEF DetectorInv, RepliesAreUnderstood
  <2> QED
    BY ReplyIsUnderstood
<1> QED
  BY <1>1, DetectorIsSound, PTL

\* A check takes no longer than its timeout and two floors, for every timeout
\* and floor and however late each answer is.
THEOREM CheckStaysBounded == Spec => []CheckIsBounded
<1>1. DetectorInv => CheckIsBounded
  BY DEF DetectorInv, TimeSpent
<1> QED
  BY <1>1, DetectorIsSound, PTL

\* A check that concludes reads the link of the address it was told.
LEMMA StepReadsTheAddress ==
    ASSUME DetectorInv, Next, pc # "idle", reading' \in {Primary, Backup}
    PROVE  IF pc = "ip" THEN reading' = LinkOf(wan_ip) ELSE reading' = LinkOf(ip)
<1>1. reading = Nothing /\ CheckFailed \notin {Primary, Backup} /\ Nothing \notin {Primary, Backup}
  BY AsnDetectorAssumption DEF DetectorInv, ReadOn
<1>2. ~Raise
  BY <1>1 DEF Raise, Conclude
<1>3. ~Begin /\ ~QueryFails /\ ~SwitchWan /\ ~QueryOrigin
  BY <1>1, <1>2 DEF Begin, QueryFails, SwitchWan, QueryOrigin
<1>4. CASE QueryIp
  <2> DEFINE got == ARecord(reply')
  <2>1. wan_ip \in Ips /\ wan_ip \in Nat /\ wan_ip # Nothing
    BY NetworkTypes DEF DetectorInv, TypeOK
  <2>2. pc = "ip" /\ got \in {Raised, wan_ip}
    BY <1>4, <2>1, ReplyIsTrue DEF QueryIp, Answered
  <2> HIDE DEF got
  <2>3. got # Raised /\ got = cached_ip /\ reading' = Classify(cached_org)
    BY <1>1, <1>2, <1>4 DEF QueryIp, Known, Conclude, got
  <2>4. cached_org = OrgOf[AsnOf[wan_ip]]
    BY <2>1, <2>2, <2>3 DEF DetectorInv, CacheIsConsistent
  <2> QED
    BY <2>2, <2>3, <2>4 DEF LinkOf
<1>5. CASE QueryName
  <2> DEFINE got == TxtRecord(reply')
  <2>1. pc = "name" /\ ip \in Ips /\ asn = AsnOf[ip] /\ OrgOf[asn] \in Nat
    BY <1>5, NetworkTypes DEF QueryName, DetectorInv, ReadOn
  <2>2. got \in {Raised, OrgOf[asn]}
    BY <1>5, <2>1, ReplyIsTrue DEF QueryName, Answered
  <2> HIDE DEF got
  <2>3. got # Raised /\ reading' = Classify(got)
    BY <1>2, <1>5 DEF QueryName, Conclude, got
  <2> QED
    BY <2>1, <2>2, <2>3 DEF LinkOf
<1> QED
  BY <1>3, <1>4, <1>5 DEF Next

\* The link a check concludes is that of an address traffic has left by since the
\* check began, whatever is cached and however the WAN switches under way.
THEOREM EveryReadingIsOfItsAddress == Spec => ReadingIsOfTheAddressRead
<1>1. DetectorInv /\ [Next]_vars =>
        (pc # "idle" /\ reading' \in {Primary, Backup} =>
            IF pc = "ip" THEN reading' = LinkOf(wan_ip) ELSE reading' = LinkOf(ip))
      \/ UNCHANGED vars
  BY StepReadsTheAddress
<1> QED
  BY <1>1, DetectorIsSound, PTL DEF Spec, ReadingIsOfTheAddressRead
=============================================================================
