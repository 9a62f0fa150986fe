-------------------------- MODULE LinkWatch_proofs --------------------------
(***************************************************************************)
(* The link tracker, for any set of links, confirm count, check intervals  *)
(* and clock steps: it is the debouncing window of Debounce, and it is     *)
(* prompt.                                                                 *)
(*                                                                         *)
(* PendingIsTail is what the tracker's two fields stand for: the run of    *)
(* equal readings the window ends in, unless those name the confirmed      *)
(* link.  OnSchedule is the time the confirmation of a wrong link's        *)
(* successor has left: what the checks still needed take.                  *)
(***************************************************************************)
EXTENDS LinkWatch, TLAPS

\* The reading i places before the latest one.
Back(i) == recent[Len(recent) - i]

PendingIsTail ==
    /\ pending = NoLink <=> pending_count = 0
    /\ pending # confirmed
    /\ pending_count <= Len(recent)
    /\ \A i \in 0 .. pending_count - 1 : Back(i) = pending
    /\ pending_count < Len(recent) => Back(pending_count) # pending
    /\ pending = NoLink /\ Len(recent) > 0 => Back(0) = confirmed

\* Consecutive readings of the link traffic takes.
Agreeing == IF pending = wan THEN pending_count ELSE 0

\* The polls to the next check; there is one at least between two cycles.
NextCheck == IF in_cycle \/ due_in > 0 THEN due_in ELSE 1

OnSchedule ==
    confirmed # wan /\ prompt_for > 0 /\ (in_cycle => prompt_for > 1) =>
        /\ due_in <= ActiveInterval
        /\ prompt_for + NextCheck + (Needed - 1 - Agreeing) * Cadence <= PromptEnough

IInv == TypeOK /\ PendingIsTail /\ OnSchedule /\ DetectionIsTimely

-----------------------------------------------------------------------------
\* At least one reading confirms, and a tick is the fastest cadence.
LEMMA NeededFacts == /\ Needed \in Nat /\ Needed >= 1
                     /\ ActiveInterval \in Nat /\ IdleInterval \in Nat
                     /\ Cadence \in Nat /\ Cadence >= 1 /\ Cadence >= ActiveInterval
                     /\ Primary \in Links /\ Backup \in Links /\ Primary # Backup
                     /\ NoLink \notin Links /\ CheckFailed \notin Links
BY LinkAssumption DEF LinkAssumption, Needed, Cadence

\* The bounds of the history counter are numbers.
LEMMA PromptFacts == /\ PromptEnough \in Nat /\ PromptCap = PromptEnough + 1
                     /\ PromptEnough = Needed * Cadence + 1
BY NeededFacts DEF PromptEnough, PromptCap

\* A reading enters the window last and pushes the oldest one out of a full one.
LEMMA SlidFacts ==
    ASSUME recent \in Seq(Links), Len(recent) <= Needed,
           NEW reading \in Links, recent' = Slid(reading)
    PROVE  /\ recent' \in Seq(Links) /\ Len(recent') <= Needed
           /\ Len(recent') = IF Len(recent) < Needed THEN Len(recent) + 1 ELSE Needed
           /\ Back(0)' = reading
           /\ \A i \in 1 .. Len(recent') - 1 : Back(i)' = Back(i - 1)
<1>1. CASE Len(recent) < Needed
  BY <1>1, NeededFacts DEF Slid, Back
<1>2. CASE Len(recent) = Needed
  <2>1. recent # <<>>
    BY <1>2, NeededFacts
  <2> DEFINE tail == Tail(recent)
  <2>2. /\ tail \in Seq(Links) /\ Len(tail) = Needed - 1
        /\ \A i \in 1 .. Needed - 1 : tail[i] = recent[i + 1]
    BY <1>2, <2>1, NeededFacts
  <2>3. recent' = Append(tail, reading)
    BY <1>2, NeededFacts DEF Slid
  <2> HIDE DEF tail
  <2> QED
    BY <1>2, <2>2, <2>3, NeededFacts DEF Back
<1> QED
  BY <1>1, <1>2, NeededFacts

\* What observe() does to the fields and the history together.
LEMMA ObserveKeepsTail ==
    ASSUME LinkTypeOK, recent \in Seq(Links), Len(recent) <= Needed, PendingIsTail,
           NEW reading \in Links, Observe(reading), recent' = Slid(reading)
    PROVE  /\ PendingIsTail'
           /\ confirmed' \in Links
           /\ pending' \in Links \cup {NoLink}
           /\ pending_count' \in 0 .. Needed - 1
           /\ confirmed' =
                 IF Len(recent') = Needed /\ \A i \in 0 .. Needed - 1 : Back(i)' = reading
                 THEN reading ELSE confirmed
           /\ confirmed' # confirmed =>
                 Len(recent') = Needed /\ \A i \in 0 .. Needed - 1 : Back(i)' = confirmed'
<1> DEFINE n == Len(recent)
           m == Len(recent')
           k == pending_count
<1>1. /\ n \in Nat /\ n <= Needed /\ k \in 0 .. Needed - 1 /\ k <= n
      /\ Needed \in Nat /\ Needed >= 1
      /\ confirmed \in Links /\ pending \in Links \cup {NoLink}
      /\ NoLink \notin Links
  BY NeededFacts DEF LinkTypeOK, PendingIsTail
<1>2. /\ m = IF n < Needed THEN n + 1 ELSE Needed
      /\ Back(0)' = reading
      /\ \A i \in 1 .. m - 1 : Back(i)' = Back(i - 1)
  BY SlidFacts
<1>0. /\ pending = NoLink <=> k = 0
      /\ pending # confirmed
      /\ \A i \in 0 .. k - 1 : Back(i) = pending
      /\ k < n => Back(k) # pending
      /\ pending = NoLink /\ n > 0 => Back(0) = confirmed
  BY DEF PendingIsTail
<1>6. Supporting(reading) \in Nat
  BY <1>1 DEF Supporting
<1> HIDE DEF n, m
<1>3. CASE reading = confirmed
  <2>1. confirmed' = confirmed /\ pending' = NoLink /\ pending_count' = 0
    BY <1>3 DEF Observe
  <2>2. PendingIsTail'
    BY <1>1, <1>2, <1>3, <2>1 DEF PendingIsTail, m
  <2> QED
    BY <1>1, <1>3, <2>1, <2>2 DEF m
<1>4. CASE reading # confirmed /\ Supporting(reading) >= Needed
  <2>1. confirmed' = reading /\ pending' = NoLink /\ pending_count' = 0
    BY <1>1, <1>4, <1>6 DEF Observe
  <2>2. PendingIsTail'
    BY <1>1, <1>2, <1>4, <2>1 DEF PendingIsTail, m
  <2>3. \/ k = Needed - 1 /\ reading = pending
        \/ k = 0 /\ Needed = 1
    BY <1>1, <1>4 DEF Supporting
  <2>4. m = Needed
    BY <1>1, <1>2, <2>3
  <2>5. \A i \in 0 .. Needed - 1 : Back(i)' = reading
    <3>1. \A i \in 0 .. k - 1 : Back(i) = pending
      BY <1>0
    <3>2. CASE Needed = 1
      BY <1>2, <3>2
    <3>3. CASE k = Needed - 1 /\ reading = pending
      <4>1. ASSUME NEW i \in 1 .. Needed - 1 PROVE Back(i)' = reading
        <5>1. Back(i)' = Back(i - 1)
          BY <1>1, <1>2, <2>4
        <5>2. i - 1 \in 0 .. k - 1
          BY <1>1, <3>3
        <5> QED
          BY <3>1, <3>3, <5>1, <5>2
      <4> QED
        BY <1>1, <1>2, <4>1
    <3> QED
      BY <2>3, <3>2, <3>3
  <2> QED
    BY <1>1, <2>1, <2>2, <2>4, <2>5 DEF m
<1>5. CASE reading # confirmed /\ Supporting(reading) < Needed
  <2>1. confirmed' = confirmed /\ pending' = reading /\ pending_count' = Supporting(reading)
    BY <1>1, <1>5, <1>6 DEF Observe
  <2>2. pending_count' \in 1 .. Needed - 1 /\ pending_count' <= m
    BY <1>1, <1>2, <1>5, <2>1 DEF Supporting
  <2>3. \A i \in 0 .. pending_count' - 1 : Back(i)' = reading
    <3>1. PICK c \in 1 .. Needed - 1 : pending_count' = c
      BY <2>2
    <3>2. \A i \in 0 .. k - 1 : Back(i) = pending
      BY <1>0
    <3>3. ASSUME NEW i \in 0 .. c - 1 PROVE Back(i)' = reading
      <4>1. CASE i = 0
        BY <1>2, <4>1 DEF Back
      <4>2. CASE i # 0
        <5>1. i \in 1 .. c - 1
          BY <1>1, <4>2
        <5>2. reading = pending /\ c = k + 1
          BY <1>1, <2>1, <3>1, <5>1 DEF Supporting
        <5>3. i - 1 \in 0 .. k - 1 /\ i \in 1 .. m - 1
          BY <1>1, <1>2, <2>2, <3>1, <5>1, <5>2
        <5> QED
          BY <1>2, <3>2, <5>2, <5>3
      <4> QED
        BY <4>1, <4>2
    <3> QED
      BY <3>1, <3>3
  <2>4. ASSUME pending_count' < m PROVE Back(pending_count)' # reading
    <3>1. Back(pending_count)' = Back(pending_count' - 1)
      BY <1>1, <1>2, <2>2, <2>4
    <3>2. CASE reading = pending
      <4>1. pending_count' = k + 1 /\ k < n
        BY <1>1, <1>2, <2>1, <2>4, <3>2 DEF Supporting
      <4> QED
        BY <1>0, <1>1, <3>1, <3>2, <4>1
    <3>3. CASE reading # pending
      <4>1. pending_count' = 1 /\ n > 0
        BY <1>1, <1>2, <2>1, <2>4, <3>3 DEF Supporting
      <4>2. Back(0) # reading
        BY <1>0, <1>1, <1>5, <3>3, <4>1
      <4> QED
        BY <3>1, <4>1, <4>2
    <3> QED
      BY <3>2, <3>3
  <2>5. PendingIsTail'
    BY <1>1, <1>2, <1>5, <2>1, <2>2, <2>3, <2>4 DEF PendingIsTail, m
  <2>6. ~(m = Needed /\ \A i \in 0 .. Needed - 1 : Back(i)' = reading)
    BY <1>1, <2>2, <2>4
  <2> QED
    BY <1>1, <2>1, <2>2, <2>5, <2>6 DEF m
<1> QED
  BY <1>3, <1>4, <1>5 DEF Observe

-----------------------------------------------------------------------------
\* The time n checks take: one more takes a cadence more, fewer never longer.
LEMMA CadenceFacts ==
    ASSUME NEW n \in Int
    PROVE  /\ n * Cadence \in Int
           /\ (n - 1) * Cadence = n * Cadence - Cadence
           /\ n <= Needed => n * Cadence <= Needed * Cadence
<1>1. \A c \in Nat, x, y \in Int : x <= y => x * c <= y * c
  OBVIOUS
<1>2. \A c \in Nat, x \in Int : (x - 1) * c = x * c - c
  OBVIOUS
<1> QED
  BY <1>1, <1>2, NeededFacts

\* Nothing is confirmed wrong before the first tick.
LEMMA InitIInv == Init => IInv
<1> SUFFICES ASSUME Init PROVE IInv
  OBVIOUS
<1>1. TypeOK
  BY NeededFacts, PromptFacts DEF Init, LinkInit, TypeOK, LinkTypeOK
<1>2. PendingIsTail
  BY NeededFacts DEF Init, LinkInit, PendingIsTail
<1>3. OnSchedule /\ DetectionIsTimely
  BY PromptFacts DEF Init, OnSchedule, DetectionIsTimely
<1> QED
  BY <1>1, <1>2, <1>3 DEF IInv

\* The facts about the clock that the steps below share.
LEMMA ScheduleFacts ==
    ASSUME TypeOK, PendingIsTail
    PROVE  /\ Agreeing \in 0 .. Needed - 1
           /\ due_in \in Nat /\ prompt_for \in 0..PromptCap
           /\ wan \in Links /\ confirmed \in Links
           /\ (Needed - 1 - Agreeing) * Cadence \in Int
           /\ (Needed - 1 - Agreeing) * Cadence <= Needed * Cadence - Cadence
           /\ (Needed - 1 - Agreeing - 1) * Cadence
                 = (Needed - 1 - Agreeing) * Cadence - Cadence
<1>1. /\ Agreeing \in 0 .. Needed - 1
      /\ due_in \in Nat /\ prompt_for \in 0..PromptCap
      /\ wan \in Links /\ confirmed \in Links
  BY NeededFacts DEF TypeOK, LinkTypeOK, Agreeing
<1> DEFINE n == Needed - 1 - Agreeing
<1>2. n \in Int /\ n + 1 \in Int /\ n + 1 <= Needed
  BY <1>1, NeededFacts
<1> HIDE DEF n
<1>3. /\ n * Cadence \in Int
      /\ (n - 1) * Cadence = n * Cadence - Cadence
  BY <1>2, CadenceFacts
<1>4. (n + 1) * Cadence <= Needed * Cadence
  BY <1>2, CadenceFacts
<1>5. n * Cadence = (n + 1) * Cadence - Cadence
  <2>1. (n + 1) - 1 = n
    BY <1>2
  <2>2. ((n + 1) - 1) * Cadence = (n + 1) * Cadence - Cadence
    BY <1>2, CadenceFacts
  <2> QED
    BY <2>1, <2>2
<1>6. Needed * Cadence \in Int /\ (n + 1) * Cadence \in Int /\ Cadence \in Nat
  BY <1>2, NeededFacts, CadenceFacts
<1>7. n * Cadence <= Needed * Cadence - Cadence
  BY <1>3, <1>4, <1>5, <1>6
<1> QED
  BY <1>1, <1>3, <1>7 DEF n

\* A check that is answered: the confirmation of the real link gets one reading
\* nearer, and the next one is a cadence away.
LEMMA AnsweredInv ==
    ASSUME IInv, NEW busy \in BOOLEAN, NEW outcome \in Links,
           in_cycle, in_cycle' = FALSE, UNCHANGED wan,
           CheckLink(IsActive(busy), outcome), recent' = Slid(outcome),
           prompt_for' = IF outcome = wan /\ Prompt(busy) THEN prompt_for ELSE 0
    PROVE  IInv'
<1>1. /\ TypeOK /\ LinkTypeOK /\ PendingIsTail
      /\ recent \in Seq(Links) /\ Len(recent) <= Needed
  BY DEF IInv, TypeOK
<1>2. /\ CheckDue(IsActive(busy)) /\ due_in' = NextCheckIn(IsActive(busy))
      /\ link_ok' = TRUE /\ Observe(outcome)
  BY NeededFacts DEF CheckLink
<1>3. /\ PendingIsTail'
      /\ confirmed' \in Links /\ pending' \in Links \cup {NoLink}
      /\ pending_count' \in 0 .. Needed - 1
  BY <1>1, <1>2, ObserveKeepsTail
<1>4. recent' \in Seq(Links) /\ Len(recent') <= Needed
  BY <1>1, SlidFacts
<1>5. due_in' \in Nat /\ prompt_for' \in 0..PromptCap
  BY <1>1, <1>2, NeededFacts, PromptFacts DEF NextCheckIn, TypeOK
<1>6. TypeOK'
  BY <1>1, <1>2, <1>3, <1>4, <1>5 DEF TypeOK, LinkTypeOK
<1>7. CASE outcome = wan /\ Prompt(busy)
  <2>1. prompt_for' = prompt_for /\ IsActive(busy)
    BY <1>7 DEF Prompt, IsActive
  <2>2. confirmed' # wan =>
           /\ confirmed # wan
           /\ Agreeing' = Agreeing + 1
    BY <1>1, <1>2, <1>7, NeededFacts DEF Observe, Supporting, Agreeing, LinkTypeOK,
                                         PendingIsTail
  <2>3. DetectionIsTimely'
    BY <2>1, <2>2 DEF IInv, DetectionIsTimely
  <2>4. OnSchedule'
    <3> SUFFICES ASSUME confirmed' # wan, prompt_for > 0
                 PROVE  /\ due_in' <= ActiveInterval
                        /\ prompt_for + NextCheck'
                             + (Needed - 1 - Agreeing') * Cadence <= PromptEnough
      BY <2>1 DEF OnSchedule
    <3> DEFINE left == (Needed - 1 - Agreeing) * Cadence
    <3>1. due_in' = ActiveInterval /\ NextCheck' = Cadence
      BY <1>2, <2>1, NeededFacts DEF NextCheckIn, NextCheck, Cadence
    <3>2. (Needed - 1 - Agreeing') * Cadence = left - Cadence
      <4>1. Needed - 1 - Agreeing' = Needed - 1 - Agreeing - 1
        BY <2>2, <1>1, ScheduleFacts, NeededFacts
      <4> QED
        BY <1>1, <4>1, ScheduleFacts
    <3>3. left \in Int /\ left <= Needed * Cadence - Cadence /\ prompt_for \in Nat
          /\ Needed * Cadence \in Int
      BY <1>1, ScheduleFacts, NeededFacts, PromptFacts
    <3> HIDE DEF left
    <3>4. CASE prompt_for = 1
      BY <3>1, <3>2, <3>3, <3>4, NeededFacts, PromptFacts
    <3>5. CASE prompt_for # 1
      <4>1. due_in <= ActiveInterval /\ prompt_for + NextCheck + left <= PromptEnough
        BY <2>2, <3>3, <3>5 DEF IInv, OnSchedule, left
      <4>2. due_in = 0 /\ NextCheck = 0
        BY <1>1, <1>2, <4>1, NeededFacts DEF CheckDue, NextCheck, LinkTypeOK
      <4> QED
        BY <3>1, <3>2, <3>3, <4>1, <4>2, NeededFacts, PromptFacts
    <3> QED
      BY <3>4, <3>5
  <2> QED
    BY <1>3, <1>6, <2>3, <2>4 DEF IInv
<1>8. CASE ~(outcome = wan /\ Prompt(busy))
  <2>1. prompt_for' = 0
    BY <1>8
  <2> QED
    BY <1>3, <1>6, <2>1, PromptFacts DEF IInv, OnSchedule, DetectionIsTimely
<1> QED
  BY <1>7, <1>8

\* A check that fails decides nothing, and excuses what stays wrong.
LEMMA FailedInv ==
    ASSUME IInv, NEW busy \in BOOLEAN,
           in_cycle' = FALSE, UNCHANGED <<wan, recent>>,
           CheckLink(IsActive(busy), CheckFailed), prompt_for' = 0
    PROVE  IInv'
<1>1. /\ UNCHANGED <<confirmed, pending, pending_count>> /\ link_ok' = FALSE
      /\ due_in' = NextCheckIn(IsActive(busy))
  BY NeededFacts DEF CheckLink
<1>2. TypeOK'
  <2>1. due_in' \in Nat /\ prompt_for' \in 0..PromptCap
    BY <1>1, NeededFacts, PromptFacts DEF NextCheckIn
  <2>2. recent' \in Seq(Links) /\ Len(recent') <= Needed
    BY DEF IInv, TypeOK
  <2> QED
    BY <1>1, <2>1, <2>2 DEF IInv, TypeOK, LinkTypeOK
<1>3. PendingIsTail'
  BY <1>1 DEF IInv, PendingIsTail, Back
<1> QED
  BY <1>2, <1>3, PromptFacts DEF IInv, OnSchedule, DetectionIsTimely

\* A cycle that waits for its check waits for one on the active cadence.
LEMMA SkippedInv ==
    ASSUME IInv, NEW busy \in BOOLEAN,
           in_cycle, in_cycle' = FALSE, UNCHANGED <<wan, recent>>,
           SkipCheck(IsActive(busy)),
           prompt_for' = IF Prompt(busy) THEN prompt_for ELSE 0
    PROVE  IInv'
<1>1. UNCHANGED <<confirmed, pending, pending_count, link_ok, due_in>>
      /\ ~CheckDue(IsActive(busy))
  BY DEF SkipCheck, linkVars
<1>2. TypeOK /\ PendingIsTail
  BY DEF IInv
<1>3. TypeOK'
  <2>1. prompt_for' \in 0..PromptCap
    BY <1>2, PromptFacts DEF TypeOK
  <2>2. recent' \in Seq(Links) /\ Len(recent') <= Needed
    BY <1>2 DEF TypeOK
  <2> QED
    BY <1>1, <1>2, <2>1, <2>2 DEF TypeOK, LinkTypeOK
<1>4. PendingIsTail'
  BY <1>1, <1>2 DEF PendingIsTail, Back
<1>5. CASE Prompt(busy)
  <2>1. prompt_for' = prompt_for /\ 0 < due_in /\ due_in <= ActiveInterval
    BY <1>1, <1>2, <1>5, ScheduleFacts, NeededFacts DEF Prompt, IsActive, CheckDue
  <2>2. DetectionIsTimely'
    BY <1>1, <2>1 DEF IInv, DetectionIsTimely
  <2>3. OnSchedule'
    <3> SUFFICES ASSUME confirmed # wan, prompt_for > 0
                 PROVE  /\ due_in <= ActiveInterval
                        /\ prompt_for + due_in
                             + (Needed - 1 - Agreeing) * Cadence <= PromptEnough
      BY <1>1, <2>1 DEF OnSchedule, NextCheck, Agreeing
    <3> DEFINE left == (Needed - 1 - Agreeing) * Cadence
    <3>1. left \in Int /\ left <= Needed * Cadence - Cadence /\ prompt_for \in Nat
          /\ Needed * Cadence \in Int
      BY <1>2, ScheduleFacts, NeededFacts, PromptFacts
    <3> HIDE DEF left
    <3>2. CASE prompt_for = 1
      <4>1. prompt_for + due_in + left <= PromptEnough
        BY <1>2, <2>1, <3>1, <3>2, ScheduleFacts, NeededFacts, PromptFacts
      <4> QED
        BY <2>1, <4>1 DEF left
    <3>3. CASE prompt_for # 1
      BY <3>1, <3>3 DEF IInv, OnSchedule, NextCheck, left
    <3> QED
      BY <3>2, <3>3
  <2> QED
    BY <1>3, <1>4, <2>2, <2>3 DEF IInv
<1>6. CASE ~Prompt(busy)
  BY <1>3, <1>4, <1>6, PromptFacts DEF IInv, OnSchedule, DetectionIsTimely
<1> QED
  BY <1>5, <1>6

\* One cycle of the loop.
LEMMA CycleInv == ASSUME IInv, NEW busy \in BOOLEAN, Cycle(busy) PROVE IInv'
<1>1. in_cycle /\ in_cycle' = FALSE /\ UNCHANGED wan
  BY DEF Cycle
<1>2. CASE /\ SkipCheck(IsActive(busy)) /\ UNCHANGED recent
           /\ prompt_for' = IF Prompt(busy) THEN prompt_for ELSE 0
  BY <1>1, <1>2, SkippedInv
<1>3. ASSUME NEW outcome \in Links \cup {CheckFailed},
             CheckLink(IsActive(busy), outcome),
             recent' = IF outcome \in Links THEN Slid(outcome) ELSE recent,
             prompt_for' = IF outcome = wan /\ Prompt(busy) THEN prompt_for ELSE 0
      PROVE  IInv'
  <2>1. CASE outcome \in Links
    BY <1>1, <1>3, <2>1, AnsweredInv
  <2>2. CASE outcome = CheckFailed
    <3>1. outcome \notin Links /\ wan \in Links
      BY <2>2, NeededFacts DEF IInv, TypeOK
    <3>2. UNCHANGED recent /\ prompt_for' = 0
      BY <1>3, <3>1
    <3> QED
      BY <1>1, <1>3, <2>2, <3>2, FailedInv
  <2> QED
    BY <1>3, <2>1, <2>2
<1> QED
  BY <1>2, <1>3 DEF Cycle

\* A tick brings the next check nearer by what it adds to the time gone.
LEMMA SleepInv == ASSUME IInv, Sleep PROVE IInv'
<1>1. /\ ~in_cycle /\ in_cycle' = TRUE
      /\ due_in' = (IF due_in = 0 THEN 0 ELSE due_in - 1)
      /\ prompt_for' = IF prompt_for < PromptCap THEN prompt_for + 1 ELSE prompt_for
      /\ UNCHANGED <<confirmed, pending, pending_count, link_ok, wan, recent>>
  BY DEF Sleep, LinkTick
<1>2. TypeOK /\ PendingIsTail
  BY DEF IInv
<1>3. TypeOK'
  BY <1>1, <1>2, PromptFacts DEF TypeOK, LinkTypeOK
<1>4. PendingIsTail'
  BY <1>1, <1>2 DEF PendingIsTail, Back
<1> DEFINE left == (Needed - 1 - Agreeing) * Cadence
<1>5. /\ left \in Int /\ left <= Needed * Cadence - Cadence
      /\ Needed * Cadence \in Int /\ due_in \in Nat /\ prompt_for \in Nat
      /\ Agreeing' = Agreeing
  BY <1>1, <1>2, ScheduleFacts, NeededFacts, PromptFacts DEF Agreeing
<1>6. left >= 0
  <2>1. Needed - 1 - Agreeing \in Nat
    BY <1>2, ScheduleFacts, NeededFacts
  <2>2. \A c, n \in Nat : n * c >= 0
    OBVIOUS
  <2> QED
    BY <2>1, <2>2, NeededFacts
<1> HIDE DEF left
<1>7. CASE confirmed # wan /\ prompt_for > 0
  <2>1. /\ due_in <= ActiveInterval /\ prompt_for + NextCheck + left <= PromptEnough
    BY <1>1, <1>7 DEF IInv, OnSchedule, left
  <2>2. /\ NextCheck = due_in' + 1 /\ NextCheck' = due_in'
        /\ due_in' \in Nat /\ due_in' <= ActiveInterval
    BY <1>1, <1>5, <2>1, NeededFacts DEF NextCheck
  <2>3. prompt_for' = prompt_for + 1
    BY <1>1, <1>5, <1>6, <2>1, <2>2, PromptFacts
  <2>4. prompt_for' + NextCheck' + left <= PromptEnough /\ prompt_for' <= PromptEnough
    BY <1>5, <1>6, <2>1, <2>2, <2>3, PromptFacts
  <2> QED
    BY <1>3, <1>4, <1>5, <2>2, <2>4 DEF IInv, OnSchedule, DetectionIsTimely, left
<1>8. CASE prompt_for = 0
  <2>1. prompt_for' = 1
    BY <1>1, <1>8, PromptFacts
  <2>2. 1 <= PromptEnough
    BY <1>5, <1>6, NeededFacts, PromptFacts
  <2> QED
    BY <1>1, <1>3, <1>4, <2>1, <2>2 DEF IInv, OnSchedule, DetectionIsTimely
<1>9. CASE confirmed = wan
  BY <1>1, <1>3, <1>4, <1>9 DEF IInv, OnSchedule, DetectionIsTimely
<1> QED
  BY <1>5, <1>7, <1>8, <1>9

\* A switch or a clock step is an excuse: the count of prompt ticks starts over.
LEMMA DisturbanceInv == ASSUME IInv, SwitchWan \/ StepClock PROVE IInv'
<1>1. /\ UNCHANGED <<confirmed, pending, pending_count, link_ok, in_cycle, recent>>
      /\ prompt_for' = 0 /\ wan' \in Links /\ due_in' \in Nat
  BY MaxStepAssumption DEF IInv, TypeOK, LinkTypeOK, SwitchWan, StepClock, linkVars,
                           MaxStepAssumption
<1>2. TypeOK'
  BY <1>1, PromptFacts DEF IInv, TypeOK, LinkTypeOK
<1>3. PendingIsTail'
  BY <1>1 DEF IInv, PendingIsTail, Back
<1> QED
  BY <1>1, <1>2, <1>3, PromptFacts DEF IInv, OnSchedule, DetectionIsTimely

\* The window and the schedule hold together throughout.
THEOREM Inductive == Spec => []IInv
<1>1. IInv /\ [Next]_vars => IInv'
  <2> SUFFICES ASSUME IInv, [Next]_vars PROVE IInv'
    OBVIOUS
  <2>1. ASSUME NEW busy \in BOOLEAN, Cycle(busy) PROVE IInv'
    BY <2>1, CycleInv
  <2>2. CASE Sleep
    BY <2>2, SleepInv
  <2>3. CASE SwitchWan \/ StepClock
    BY <2>3, DisturbanceInv
  <2>4. CASE UNCHANGED vars
    BY <2>4 DEF vars, linkVars, IInv, TypeOK, LinkTypeOK, PendingIsTail, Back,
                OnSchedule, NextCheck, Agreeing, DetectionIsTimely
  <2> QED
    BY <2>1, <2>2, <2>3, <2>4 DEF Next
<1> QED
  BY InitIInv, <1>1, PTL DEF Spec

\* The tracker's fields and the window keep their types.
THEOREM TypeCorrect == Spec => []TypeOK
<1>1. IInv => TypeOK
  BY DEF IInv
<1> QED
  BY Inductive, <1>1, PTL

\* A failover is confirmed within the needed checks on the active cadence, for
\* every confirm count and pair of intervals.
THEOREM DetectionIsPrompt == Spec => []DetectionIsTimely
<1>1. IInv => DetectionIsTimely
  BY DEF IInv
<1> QED
  BY Inductive, <1>1, PTL

-----------------------------------------------------------------------------
\* Only an answered check moves the window or the confirmed link.
LEMMA ReadOrStutter ==
    ASSUME IInv, [Next]_vars
    PROVE  \/ UNCHANGED <<confirmed, recent>>
           \/ \E reading \in Links : Observe(reading) /\ recent' = Slid(reading)
<1>1. ASSUME NEW busy \in BOOLEAN, Cycle(busy)
      PROVE  \/ UNCHANGED <<confirmed, recent>>
             \/ \E reading \in Links : Observe(reading) /\ recent' = Slid(reading)
  <2>1. CASE SkipCheck(IsActive(busy)) /\ UNCHANGED recent
    BY <2>1 DEF SkipCheck, linkVars
  <2>2. ASSUME NEW outcome \in Links \cup {CheckFailed},
               CheckLink(IsActive(busy), outcome),
               recent' = IF outcome \in Links THEN Slid(outcome) ELSE recent
        PROVE  \/ UNCHANGED <<confirmed, recent>>
               \/ \E reading \in Links : Observe(reading) /\ recent' = Slid(reading)
    BY <2>2, NeededFacts DEF CheckLink
  <2> QED
    BY <1>1, <2>1, <2>2 DEF Cycle
<1>2. CASE Sleep \/ SwitchWan \/ StepClock \/ UNCHANGED vars
  BY <1>2 DEF Sleep, SwitchWan, StepClock, vars, linkVars
<1> QED
  BY <1>1, <1>2 DEF Next

\* The last Needed readings as positions, first to last.
LEMMA WindowPositions ==
    ASSUME recent' \in Seq(Links), Len(recent') = Needed, NEW reading
    PROVE  (\A i \in 0 .. Needed - 1 : Back(i)' = reading)
              <=> (\A i \in 1 .. Needed : recent'[i] = reading)
<1>1. ASSUME \A i \in 0 .. Needed - 1 : recent'[Len(recent') - i] = reading,
             NEW j \in 1 .. Needed
      PROVE  recent'[j] = reading
  <2>1. Needed - j \in 0 .. Needed - 1 /\ Needed - (Needed - j) = j
    BY NeededFacts
  <2> QED
    BY <1>1, <2>1
<1>2. ASSUME \A i \in 1 .. Needed : recent'[i] = reading, NEW j \in 0 .. Needed - 1
      PROVE  recent'[Len(recent') - j] = reading
  <2>1. Needed - j \in 1 .. Needed
    BY NeededFacts
  <2> QED
    BY <1>2, <2>1
<1> QED
  BY <1>1, <1>2 DEF Back

\* LinkStateTracker, with its two fields, is the debouncing window.
THEOREM Refinement == Spec => ImplementsDebounce
<1>1. Init => Window!Init
  BY DEF Init, LinkInit, Window!Init
<1>2. IInv /\ [Next]_vars => [Window!Next]_<<confirmed, recent>>
  <2> SUFFICES ASSUME IInv, [Next]_vars, ~UNCHANGED <<confirmed, recent>>
               PROVE  Window!Next
    OBVIOUS
  <2>1. PICK reading \in Links : Observe(reading) /\ recent' = Slid(reading)
    BY ReadOrStutter
  <2>2. /\ LinkTypeOK /\ PendingIsTail
        /\ recent \in Seq(Links) /\ Len(recent) <= Needed
    BY DEF IInv, TypeOK
  <2>3. confirmed' =
           IF Len(recent') = Needed /\ \A i \in 0 .. Needed - 1 : Back(i)' = reading
           THEN reading ELSE confirmed
    BY <2>1, <2>2, ObserveKeepsTail
  <2>4. recent' \in Seq(Links)
    BY <2>1, <2>2, SlidFacts
  <2>5. confirmed' = IF Window!Unanimous(recent', reading) THEN reading ELSE confirmed
    BY <2>3, <2>4, WindowPositions DEF Window!Unanimous
  <2>6. recent' = Window!Slide(reading)
    BY <2>1 DEF Slid, Window!Slide
  <2> QED
    BY <2>5, <2>6 DEF Window!Next, Window!Read
<1> QED
  BY Inductive, <1>1, <1>2, PTL DEF Spec, ImplementsDebounce, Window!Spec
=============================================================================
