-------------------------- MODULE Published_proofs --------------------------
(***************************************************************************)
(* SharedState and its log alone, and the poll loop, the log and the Slack *)
(* threads together, for every log length, number of flips and choice of   *)
(* messages to watch: neither the file nor a snapshot is ever inconsistent, *)
(* every flip a process lives to report is in its log, the file implements *)
(* the journal, and every flip an entry of any copy of the log tells of    *)
(* has been handed to Slack before.                                        *)
(***************************************************************************)
EXTENDS Published, SequenceTheorems, TLAPS

\* Every entry of a log is a flip that has happened.
Past(entries) == \A i \in 1..Len(entries) : entries[i].at <= flips

Numbered ==
    /\ Past(log)
    /\ Past(link_event)
    /\ tmp.data # Torn => Past(tmp.data)
    /\ path.data # Torn => Past(path.data)
    /\ durable # Torn => Past(durable)

\* What each step of a save may rely on.
SaveInv ==
    /\ pc \in {"fsync", "replace"} => tmp.data # Torn
    /\ pc = "replace" => tmp.synced
    /\ path.synced

\* The lock is held from update() to its end.
LockInv == lock = Free <=> pc \in {"cycle", "update"}

\* The published link is the last logged one of this process, but while the
\* lock is held between the two assignments.
Agree(entries, link, since) ==
    entries # <<>> /\ entries[Len(entries)].at > since => link = entries[Len(entries)].to

PublishInv ==
    /\ pc # "append" => Agree(log, active, started_at)
    /\ pc \in {"update", "append"} /\ link_event # <<>> => link_event[1].to = confirmed
    /\ ~(pc = "update" /\ link_event # <<>>) => active = confirmed
    /\ pc = "append" => link_event # <<>>

\* The latest flip of this process is the event update() is about to append,
\* or the last one in the log.
Reporting == pc \in {"update", "append"} /\ link_event # <<>>

LoggedInv ==
    /\ Reporting => link_event[1].at = flips
    /\ flips > started_at /\ ~Reporting => log # <<>> /\ log[Len(log)].at = flips

IInv ==
    /\ TypeOK
    /\ Numbered
    /\ SaveInv
    /\ FileIsNeverTorn
    /\ LockInv
    /\ PublishInv
    /\ LoggedInv
    /\ SnapshotIsConsistent

-----------------------------------------------------------------------------
\* A log is a sequence of events no longer than the log may be.
LEMMA LogIsSeq ==
    ASSUME NEW s
    PROVE  s \in Logs <=> s \in Seq(Events) /\ Len(s) <= LogLength
<1>1. LogLength \in Nat
  BY FailoverLogAssumption DEF FailoverLogAssumption
<1>2. ASSUME s \in Logs PROVE s \in Seq(Events) /\ Len(s) <= LogLength
  <2>1. PICK n \in 0..LogLength : s \in [1..n -> Events]
    BY <1>2 DEF Logs
  <2> QED
    BY <2>1, <1>1
<1>3. ASSUME s \in Seq(Events), Len(s) <= LogLength PROVE s \in Logs
  <2>1. Len(s) \in 0..LogLength /\ s \in [1..Len(s) -> Events]
    BY <1>1, <1>3
  <2> QED
    BY <2>1 DEF Logs
<1> QED
  BY <1>2, <1>3

\* The empty log is a log.
LEMMA EmptyLog == <<>> \in Logs /\ Len(<<>>) = 0
<1>1. <<>> \in Seq(Events) /\ Len(<<>>) = 0
  OBVIOUS
<1>2. LogLength \in Nat
  BY FailoverLogAssumption DEF FailoverLogAssumption
<1>3. <<>> \in [1..0 -> Events]
  OBVIOUS
<1> QED
  BY <1>1, <1>2, <1>3 DEF Logs

\* The torn contents are no log.
LEMMA TornIsNoLog == Torn \notin Logs
BY TornAssumption DEF TornAssumption, Logs, Events, Links

\* deque(maxlen): the latest entries of a log are a log, of the same entries
\* and with the same last one.
LEMMA LatestIsLog ==
    ASSUME NEW s \in Seq(Events)
    PROVE  /\ Latest(s) \in Logs
           /\ \A i \in 1..Len(Latest(s)) : \E j \in 1..Len(s) : Latest(s)[i] = s[j]
           /\ s # <<>> => /\ Latest(s) # <<>>
                          /\ Latest(s)[Len(Latest(s))] = s[Len(s)]
           /\ s = <<>> => Latest(s) = <<>>
<1> DEFINE first == IF Len(s) <= LogLength THEN 1 ELSE Len(s) - LogLength + 1
<1>1. LogLength \in Nat /\ LogLength > 0
  BY FailoverLogAssumption DEF FailoverLogAssumption
<1>2. first \in 1..(Len(s) + 1) /\ Len(s) - first + 1 <= LogLength
  BY <1>1
<1>3. Latest(s) = SubSeq(s, first, Len(s))
  BY DEF Latest
<1>4. Latest(s) \in Seq(Events) /\ Len(Latest(s)) = Len(s) - first + 1
  BY <1>2, <1>3
<1>5. \A i \in 1..Len(Latest(s)) : Latest(s)[i] = s[i + first - 1]
  BY <1>2, <1>3, <1>4
<1>6. Latest(s) \in Logs
  BY <1>2, <1>4, LogIsSeq
<1>7. \A i \in 1..Len(Latest(s)) : i + first - 1 \in 1..Len(s)
  BY <1>2, <1>4
<1>8. s # <<>> => Len(Latest(s)) \in 1..LogLength /\ Len(Latest(s)) + first - 1 = Len(s)
  BY <1>1, <1>2, <1>4
<1>9. s # <<>> => Latest(s) # <<>> /\ Latest(s)[Len(Latest(s))] = s[Len(s)]
  BY <1>4, <1>5, <1>8
<1>10. s = <<>> => Latest(s) = <<>>
  BY <1>2, <1>4
<1> HIDE DEF first
<1> QED
  BY <1>5, <1>6, <1>7, <1>9, <1>10

\* Trimming a log of past flips leaves a log of past flips.
LEMMA LatestIsPast ==
    ASSUME NEW s \in Seq(Events), Past(s)
    PROVE  Past(Latest(s))
BY LatestIsLog DEF Past

\* What a starting process loads is a log, of past flips if the file was one.
LEMMA LoadedIsLog ==
    ASSUME NEW data \in Logs \cup {Torn}
    PROVE  /\ Loaded(data) \in Logs
           /\ (data # Torn => Past(data)) => Past(Loaded(data))
<1>1. CASE data = Torn
  <2>1. Loaded(data) = <<>>
    BY <1>1 DEF Loaded
  <2> QED
    BY <2>1, EmptyLog DEF Past
<1>2. CASE data # Torn
  <2>1. data \in Seq(Events) /\ Loaded(data) = Latest(data)
    BY <1>2, LogIsSeq DEF Loaded
  <2> QED
    BY <1>2, <2>1, LatestIsLog, LatestIsPast
<1> QED
  BY <1>1, <1>2

\* A new process finds everything consistent, on whatever log it loads.
LEMMA StartIInv ==
    ASSUME IInv, NEW data \in Logs \cup {Torn}, data # Torn => Past(data),
           StartWith(data),
           tmp' \in Files, path' \in Files, durable' \in Logs \cup {Torn},
           path'.synced, path'.data # Torn, durable' # Torn,
           tmp'.data # Torn => Past(tmp'.data), Past(path'.data), Past(durable')
    PROVE  IInv'
<1>1. flips' = flips /\ seen' = seen /\ started_at' = flips
  BY DEF StartWith
<1>2. log' \in Logs /\ Past(log') /\ blind' \in BOOLEAN
  <2>1. Loaded(data) \in Logs /\ Past(Loaded(data))
    BY LoadedIsLog
  <2>2. <<>> \in Logs /\ Past(<<>>)
    BY EmptyLog DEF Past
  <2>3. (log' = Loaded(data) \/ log' = <<>>) /\ blind' \in BOOLEAN
    BY DEF StartWith, Load
  <2>4. Past(Loaded(data))' /\ Past(<<>>)'
    BY <1>1, <2>1, <2>2 DEF Past
  <2> QED
    BY <2>1, <2>2, <2>3, <2>4 DEF Past
<1>3. TypeOK'
  <2> QED
    BY <1>1, <1>2, EmptyLog DEF IInv, TypeOK, StartWith, Links
<1>4. Numbered'
  BY <1>1, <1>2 DEF Numbered, Past, StartWith
<1>5. SaveInv' /\ LockInv' /\ FileIsNeverTorn'
  BY DEF SaveInv, LockInv, FileIsNeverTorn, StartWith
<1>6. Agree(log', active', started_at')
  <2>1. log' \in Seq(Events) /\ flips \in Nat
    BY <1>2, LogIsSeq, FailoverLogAssumption DEF IInv, TypeOK, FailoverLogAssumption
  <2>2. ASSUME log' # <<>> PROVE ~(log'[Len(log')].at > started_at')
    <3>1. Len(log') \in 1..Len(log')
      BY <2>1, <2>2
    <3>2. \A i \in 1..Len(log') : log'[i].at <= started_at'
      BY <1>1, <1>2 DEF Past
    <3>3. log'[Len(log')] \in Events
      BY <2>1, <3>1
    <3>4. log'[Len(log')].at \in Nat /\ started_at' \in Nat
      BY <1>1, <2>1, <3>3, FailoverLogAssumption DEF Events, FailoverLogAssumption
    <3> QED
      BY <3>1, <3>2, <3>4
  <2> QED
    BY <2>2 DEF Agree
<1>7. PublishInv'
  BY <1>6 DEF PublishInv, StartWith
<1>8. SnapshotIsConsistent'
  BY <1>1 DEF IInv, SnapshotIsConsistent
<1>9. LoggedInv'
  <2>1. ~(flips' > started_at') /\ pc' = "cycle"
    BY <1>1, FailoverLogAssumption DEF IInv, TypeOK, StartWith, FailoverLogAssumption
  <2> QED
    BY <2>1 DEF LoggedInv, Reporting
<1> QED
  BY <1>3, <1>4, <1>5, <1>7, <1>8, <1>9 DEF IInv

\* The first process starts consistent.
LEMMA InitIInv == Init => IInv
<1> SUFFICES ASSUME Init PROVE IInv
  OBVIOUS
<1>1. <<>> \in Logs /\ Len(<<>>) = 0
  BY EmptyLog
<1>2. TypeOK
  <2>1. 0 \in 0..MaxFlips
    BY FailoverLogAssumption DEF FailoverLogAssumption
  <2>2. seen \in [active : Links, events : Logs, since : 0..MaxFlips]
    BY <1>1, <2>1 DEF Init, Links
  <2>3. tmp \in Files /\ path \in Files
    BY <1>1 DEF Init, Files
  <2>4. blind \in BOOLEAN /\ {flips, started_at} \subseteq 0..MaxFlips
    BY <2>1 DEF Init
  <2>5. link_event \in Logs /\ Len(link_event) <= 1 /\ log \in Logs /\ durable \in Logs
    BY <1>1 DEF Init
  <2>6. {confirmed, active} \subseteq Links /\ lock \in {Free, Poll} /\ pc = "cycle"
    BY DEF Init, Links
  <2> QED
    BY <2>2, <2>3, <2>4, <2>5, <2>6 DEF TypeOK
<1>3. <<>> # Torn
  BY <1>1, TornIsNoLog
<1>4. Numbered /\ SaveInv /\ FileIsNeverTorn /\ LockInv
  BY <1>3, FailoverLogAssumption
     DEF Init, Numbered, Past, SaveInv, FileIsNeverTorn, LockInv, FailoverLogAssumption
<1>5. PublishInv /\ LoggedInv /\ SnapshotIsConsistent
  BY DEF Init, PublishInv, Agree, LoggedInv, Reporting, SnapshotIsConsistent
<1> QED
  BY <1>2, <1>4, <1>5 DEF IInv

-----------------------------------------------------------------------------
\* A flip is noted, or not, before update() is called.
LEMMA RunCycleIInv == IInv /\ RunCycle => IInv'
<1> SUFFICES ASSUME IInv, RunCycle PROVE IInv'
  OBVIOUS
<1> USE FailoverLogAssumption DEF FailoverLogAssumption, IInv, RunCycle, memory, disk
<1>1. /\ UNCHANGED <<active, log, lock, seen, tmp, path, durable, started_at, blind>>
      /\ pc = "cycle" /\ pc' = "update"
  OBVIOUS
<1>2. CASE /\ flips < MaxFlips /\ flips' = flips + 1
           /\ confirmed' = CHOOSE l \in Links : l # confirmed
           /\ link_event' = <<[at |-> flips', to |-> confirmed']>>
  <2>1. flips' \in 1..MaxFlips /\ flips \in Nat
    BY <1>2 DEF TypeOK
  <2>2. confirmed' \in Links
    BY <1>2 DEF Links, TypeOK
  <2>3. /\ link_event' \in Seq(Events) /\ Len(link_event') = 1
        /\ link_event'[1] = [at |-> flips', to |-> confirmed']
    BY <1>2, <2>1, <2>2 DEF Events
  <2>4. link_event' \in Logs
    <3>1. Len(link_event') <= LogLength
      BY <2>3
    <3> QED
      BY <2>3, <3>1, LogIsSeq
  <2>5. TypeOK'
    BY <1>1, <2>1, <2>2, <2>3, <2>4 DEF TypeOK
  <2>6. \A s \in Logs : Past(s) => Past(s)'
    <3> SUFFICES ASSUME NEW s \in Logs, Past(s) PROVE Past(s)'
      OBVIOUS
    <3>1. s \in Seq(Events)
      BY LogIsSeq
    <3>2. \A i \in 1..Len(s) : s[i].at \in Nat
      <4> SUFFICES ASSUME NEW i \in 1..Len(s) PROVE s[i].at \in Nat
        OBVIOUS
      <4>1. s[i] \in Events
        BY <3>1
      <4> QED
        BY <4>1 DEF Events
    <3> QED
      BY <1>2, <2>1, <3>2 DEF Past
  <2>7. log \in Logs /\ {tmp.data, path.data, durable} \subseteq Logs \cup {Torn}
    BY DEF TypeOK, Files
  <2>8. Past(link_event)'
    BY <2>1, <2>3 DEF Past
  <2>9. Numbered'
    <3>1. Past(log)'
      BY <1>1, <2>6, <2>7 DEF Numbered
    <3>2. (tmp.data # Torn => Past(tmp.data))'
      BY <1>1, <2>6, <2>7 DEF Numbered
    <3>3. (path.data # Torn => Past(path.data))'
      BY <1>1, <2>6, <2>7 DEF Numbered
    <3>4. (durable # Torn => Past(durable))'
      BY <1>1, <2>6, <2>7 DEF Numbered
    <3> QED
      BY <2>8, <3>1, <3>2, <3>3, <3>4 DEF Numbered
  <2>10. SaveInv' /\ FileIsNeverTorn' /\ LockInv' /\ SnapshotIsConsistent'
    BY <1>1 DEF SaveInv, FileIsNeverTorn, LockInv, SnapshotIsConsistent
  <2>11. PublishInv'
    BY <1>1, <1>2, <2>3 DEF PublishInv, Agree
  <2>12. LoggedInv'
    <3>1. link_event' # <<>> /\ link_event'[1].at = flips'
      BY <1>2
    <3>2. Reporting'
      BY <1>1, <3>1 DEF Reporting
    <3> QED
      BY <3>1, <3>2 DEF LoggedInv
  <2> QED
    BY <2>5, <2>9, <2>10, <2>11, <2>12
<1>3. CASE link_event' = <<>> /\ UNCHANGED <<confirmed, flips>>
  <2>1. TypeOK'
    BY <1>1, <1>3, EmptyLog DEF TypeOK
  <2>2. Numbered'
    BY <1>1, <1>3 DEF Numbered, Past
  <2> QED
    BY <1>1, <1>3, <2>1, <2>2
       DEF SaveInv, FileIsNeverTorn, LockInv, PublishInv, LoggedInv, Reporting,
           SnapshotIsConsistent, Agree
<1> QED
  BY <1>2, <1>3

\* update() publishes the cycle's fields once it has the lock.
LEMMA UpdateIInv == IInv /\ Update => IInv'
<1> SUFFICES ASSUME IInv, Update PROVE IInv'
  OBVIOUS
<1>1. TypeOK' /\ Numbered'
  BY DEF IInv, TypeOK, Update, disk, Numbered, Past
<1>2. SaveInv' /\ FileIsNeverTorn' /\ SnapshotIsConsistent'
  BY DEF IInv, Update, disk, SaveInv, FileIsNeverTorn, SnapshotIsConsistent
<1>3. LockInv'
  BY FailoverLogAssumption DEF FailoverLogAssumption, Update, LockInv
<1>4. PublishInv'
  BY DEF IInv, Update, PublishInv, Agree
<1>5. LoggedInv'
  BY DEF IInv, Update, LoggedInv, Reporting
<1> QED
  BY <1>1, <1>2, <1>3, <1>4, <1>5 DEF IInv

\* A log with one more event has it last and is otherwise the same.
LEMMA OneMoreEvent ==
    ASSUME NEW s \in Seq(Events), NEW e \in Seq(Events), Len(e) = 1
    PROVE  /\ s \o e \in Seq(Events)
           /\ s \o e # <<>>
           /\ (s \o e)[Len(s \o e)] = e[1]
           /\ \A i \in 1..Len(s \o e) : \/ i \in 1..Len(s) /\ (s \o e)[i] = s[i]
                                        \/ (s \o e)[i] = e[1]
<1> DEFINE whole == s \o e
           n == Len(s)
<1>1. /\ s \o e \in Seq(Events)
      /\ Len(s \o e) = Len(s) + Len(e)
      /\ \A i \in 1..Len(s) + Len(e) :
             (s \o e)[i] = IF i <= Len(s) THEN s[i] ELSE e[i - Len(s)]
  BY ConcatProperties
<1>2. n \in Nat
  BY LenProperties
<1>3. Len(whole) = n + 1
  BY <1>1
<1>4. \A i \in 1..n + 1 : whole[i] = IF i <= n THEN s[i] ELSE e[i - n]
  BY <1>1
<1>5. Len(whole) = 0 => FALSE
  BY <1>2, <1>3
<1>6. whole # <<>>
  BY <1>5, EmptySeq
<1> HIDE DEF whole, n
<1>7. whole[n + 1] = e[1]
  <2>1. n + 1 \in 1..n + 1 /\ ~(n + 1 <= n) /\ n + 1 - n = 1
    BY <1>2
  <2>2. whole[n + 1] = IF n + 1 <= n THEN s[n + 1] ELSE e[n + 1 - n]
    BY <1>2, <1>4
  <2> QED
    BY <2>1, <2>2
<1>8. \A i \in 1..n + 1 : (i \in 1..n /\ whole[i] = s[i]) \/ whole[i] = e[1]
  <2> SUFFICES ASSUME NEW i \in 1..n + 1, i # n + 1 PROVE i \in 1..n /\ whole[i] = s[i]
    BY <1>7
  <2>1. i \in 1..n /\ i <= n
    BY <1>2
  <2> QED
    BY <2>1, <1>4
<1>9. /\ whole[Len(whole)] = e[1]
      /\ \A i \in 1..Len(whole) : (i \in 1..n /\ whole[i] = s[i]) \/ whole[i] = e[1]
  BY <1>3, <1>7, <1>8
<1> QED
  BY <1>1, <1>6, <1>9 DEF whole, n

\* update() appends the event, which names the link it has published.
LEMMA AppendEventIInv == IInv /\ AppendEvent => IInv'
<1> SUFFICES ASSUME IInv, AppendEvent PROVE IInv'
  OBVIOUS
<1> DEFINE whole == log \o link_event
<1>1. /\ link_event # <<>> /\ Len(link_event) <= 1
      /\ link_event \in Logs /\ log \in Logs
      /\ link_event[1].to = active
      /\ link_event[1].at = flips
  BY DEF IInv, AppendEvent, PublishInv, LoggedInv, Reporting, TypeOK
<1>2. log \in Seq(Events) /\ link_event \in Seq(Events)
  BY <1>1, LogIsSeq
<1>3. Len(link_event) = 1
  <2>1. Len(link_event) \in Nat \ {0}
    BY <1>1, <1>2, EmptySeq
  <2>2. \A n \in Nat \ {0} : n <= 1 => n = 1
    OBVIOUS
  <2> QED
    BY <1>1, <2>1, <2>2, Zenon
<1>4. /\ whole \in Seq(Events) /\ whole # <<>>
      /\ whole[Len(whole)] = link_event[1]
      /\ \A i \in 1..Len(whole) : \/ i \in 1..Len(log) /\ whole[i] = log[i]
                                  \/ whole[i] = link_event[1]
  BY <1>2, <1>3, OneMoreEvent
<1>5. Past(whole)
  <2>1. Past(log) /\ link_event[1].at <= flips
    BY <1>3 DEF IInv, Numbered, Past
  <2> HIDE DEF whole
  <2> QED
    BY <2>1, <1>4 DEF Past
<1>6. log' = Latest(whole) /\ flips' = flips /\ active' = active /\ pc' = "open"
  BY DEF AppendEvent
<1> HIDE DEF whole
<1>7. log' \in Logs /\ Past(log')
  BY <1>4, <1>5, <1>6, LatestIsLog, LatestIsPast
<1>8. log' # <<>> /\ log'[Len(log')].to = active' /\ log'[Len(log')].at = flips'
  <2>1. log' # <<>> /\ log'[Len(log')] = whole[Len(whole)]
    BY <1>4, <1>6, LatestIsLog
  <2> QED
    BY <2>1, <1>1, <1>4, <1>6
<1>9. TypeOK' /\ Numbered'
  BY <1>6, <1>7 DEF IInv, TypeOK, AppendEvent, disk, Numbered, Past
<1>10. SaveInv' /\ FileIsNeverTorn' /\ SnapshotIsConsistent' /\ LockInv'
  BY DEF IInv, AppendEvent, disk, SaveInv, FileIsNeverTorn, SnapshotIsConsistent, LockInv
<1>11. PublishInv'
  BY <1>6, <1>8 DEF IInv, AppendEvent, PublishInv, Agree
<1>12. LoggedInv'
  BY <1>6, <1>8 DEF LoggedInv, Reporting
<1> QED
  BY <1>9, <1>10, <1>11, <1>12 DEF IInv

\* No step of a save, nor its failure, puts a torn or unforced file in place.
LEMMA SaveIInv == IInv /\ Save => IInv'
<1> SUFFICES ASSUME IInv, Save PROVE IInv'
  OBVIOUS
<1>1. /\ UNCHANGED <<confirmed, link_event, active, log, lock, seen, flips, started_at>>
      /\ durable' = durable
      /\ blind' \in {blind, FALSE}
      /\ pc \in {"open", "write", "fsync", "replace"}
      /\ pc' \in {"write", "fsync", "replace", "release"}
  BY DEF Save, OpenTmp, WriteTmp, FsyncTmp, ReplaceFile, SaveFails, disk
<1>2. log \in Logs /\ log # Torn /\ Past(log)
  BY TornIsNoLog DEF IInv, TypeOK, Numbered
<1>3. /\ tmp' \in Files /\ path' \in Files
      /\ tmp'.data # Torn => Past(tmp'.data)
      /\ path'.data # Torn => Past(path'.data)
      /\ path'.data # Torn /\ path'.synced
      /\ pc' \in {"fsync", "replace"} => tmp'.data # Torn
      /\ pc' = "replace" => tmp'.synced
  <2>1. CASE OpenTmp
    BY <2>1 DEF OpenTmp, IInv, TypeOK, Files, Numbered, SaveInv, FileIsNeverTorn
  <2>2. CASE WriteTmp
    BY <2>2, <1>2 DEF WriteTmp, IInv, TypeOK, Files, Numbered, SaveInv, FileIsNeverTorn
  <2>3. CASE FsyncTmp
    BY <2>3 DEF FsyncTmp, Forced, IInv, TypeOK, Files, Numbered, SaveInv, FileIsNeverTorn
  <2>4. CASE ReplaceFile
    BY <2>4 DEF ReplaceFile, IInv, TypeOK, Files, Numbered, SaveInv, FileIsNeverTorn
  <2>5. CASE SaveFails
    BY <2>5 DEF SaveFails, disk, IInv, TypeOK, Numbered, SaveInv, FileIsNeverTorn
  <2> QED
    BY <2>1, <2>2, <2>3, <2>4, <2>5 DEF Save
<1>4. TypeOK'
  BY <1>1, <1>3 DEF IInv, TypeOK
<1>5. Numbered'
  BY <1>1, <1>3 DEF IInv, Numbered, Past
<1>6. SaveInv' /\ FileIsNeverTorn' /\ LockInv' /\ SnapshotIsConsistent'
  BY <1>1, <1>3 DEF IInv, SaveInv, FileIsNeverTorn, LockInv, SnapshotIsConsistent
<1>7. PublishInv' /\ LoggedInv'
  BY <1>1 DEF IInv, PublishInv, Agree, LoggedInv, Reporting
<1> QED
  BY <1>4, <1>5, <1>6, <1>7 DEF IInv

\* What update() has published agrees when it gives the lock back.
LEMMA ReleaseIInv == IInv /\ Release => IInv'
<1> SUFFICES ASSUME IInv, Release PROVE IInv'
  OBVIOUS
<1>1. TypeOK' /\ Numbered'
  BY DEF IInv, TypeOK, Release, disk, Numbered, Past
<1>2. SaveInv' /\ FileIsNeverTorn' /\ SnapshotIsConsistent' /\ LockInv'
  BY DEF IInv, Release, disk, SaveInv, FileIsNeverTorn, SnapshotIsConsistent, LockInv
<1>3. PublishInv' /\ LoggedInv'
  BY DEF IInv, Release, PublishInv, Agree, LoggedInv, Reporting
<1> QED
  BY <1>1, <1>2, <1>3 DEF IInv

\* The lock keeps a snapshot away from a half-published cycle.
LEMMA SnapshotIInv == IInv /\ Snapshot => IInv'
<1> SUFFICES ASSUME IInv, Snapshot PROVE IInv'
  OBVIOUS
<1>1. UNCHANGED <<pc, confirmed, link_event, active, log, lock, tmp, path, durable, flips,
                started_at, blind>>
  BY DEF Snapshot, memory, disk
<1>2. seen' = [active |-> active, events |-> log, since |-> started_at]
  BY DEF Snapshot
<1>3. TypeOK'
  BY <1>1, <1>2 DEF IInv, TypeOK
<1>4. Numbered' /\ SaveInv' /\ FileIsNeverTorn' /\ LockInv' /\ PublishInv' /\ LoggedInv'
  BY <1>1 DEF IInv, Numbered, Past, SaveInv, FileIsNeverTorn, LockInv, PublishInv, Agree,
              LoggedInv, Reporting
<1>5. pc # "append"
  BY DEF IInv, LockInv, Snapshot, MaySnapshot
<1>6. Agree(log, active, started_at)
  BY <1>5 DEF IInv, PublishInv
<1>7. SnapshotIsConsistent'
  BY <1>2, <1>6 DEF SnapshotIsConsistent, Agree
<1> QED
  BY <1>3, <1>4, <1>7 DEF IInv

\* What settles on the disk is the forced file.
LEMMA RenameSettlesIInv == IInv /\ RenameSettles => IInv'
<1> SUFFICES ASSUME IInv, RenameSettles PROVE IInv'
  OBVIOUS
<1>1. /\ UNCHANGED <<memory, seen, tmp, path, flips, started_at, blind>>
      /\ durable' = path.data /\ path.data # Torn
  BY DEF IInv, SaveInv, FileIsNeverTorn, RenameSettles
<1>2. TypeOK' /\ Numbered'
  BY <1>1 DEF IInv, TypeOK, Files, memory, Numbered, Past
<1> QED
  BY <1>1, <1>2 DEF IInv, memory, SaveInv, FileIsNeverTorn, LockInv, PublishInv, Agree,
                    LoggedInv, Reporting, SnapshotIsConsistent

\* A process that starts again after a crash reads what was in place.
LEMMA ProcessCrashIInv == IInv /\ ProcessCrash => IInv'
<1> SUFFICES ASSUME IInv, ProcessCrash PROVE IInv'
  OBVIOUS
<1>1. StartWith(path.data) /\ tmp' = tmp /\ path' = path /\ durable' = durable /\ flips' = flips
  BY DEF ProcessCrash, StartWith, disk
<1>2. /\ path.data \in Logs \cup {Torn} /\ path.data # Torn /\ Past(path.data)
      /\ tmp \in Files /\ path \in Files /\ durable \in Logs \cup {Torn}
      /\ path.synced /\ durable # Torn /\ Past(durable)
      /\ tmp.data # Torn => Past(tmp.data)
  BY DEF IInv, TypeOK, Files, Numbered, SaveInv, FileIsNeverTorn
<1>3. /\ tmp' \in Files /\ path' \in Files /\ durable' \in Logs \cup {Torn}
      /\ path'.synced /\ path'.data # Torn /\ durable' # Torn
      /\ tmp'.data # Torn => Past(tmp'.data)
      /\ Past(path'.data) /\ Past(durable')
  BY <1>1, <1>2
<1> QED
  BY <1>1, <1>2, <1>3, StartIInv

\* After a power loss it reads what had settled.
LEMMA PowerLossIInv == IInv /\ PowerLoss => IInv'
<1> SUFFICES ASSUME IInv, PowerLoss PROVE IInv'
  OBVIOUS
<1>1. /\ StartWith(durable) /\ durable' = durable /\ flips' = flips
      /\ path' = [data |-> durable, synced |-> TRUE]
      /\ tmp' = [data |-> Torn, synced |-> FALSE]
  BY DEF PowerLoss, StartWith
<1>2. durable \in Logs \cup {Torn} /\ durable # Torn /\ Past(durable)
  BY DEF IInv, TypeOK, Numbered, FileIsNeverTorn
<1>3. /\ tmp' \in Files /\ path' \in Files /\ durable' \in Logs \cup {Torn}
      /\ path'.synced /\ path'.data # Torn /\ durable' # Torn
      /\ tmp'.data # Torn => Past(tmp'.data)
      /\ Past(path'.data) /\ Past(durable')
  BY <1>1, <1>2 DEF Files
<1> QED
  BY <1>1, <1>2, <1>3, StartIInv

-----------------------------------------------------------------------------
\* The strengthened invariant is inductive.
LEMMA NextIInv == IInv /\ [Next]_vars => IInv'
<1> SUFFICES ASSUME IInv, [Next]_vars PROVE IInv'
  OBVIOUS
<1>1. CASE Next
  BY <1>1, RunCycleIInv, UpdateIInv, AppendEventIInv, SaveIInv, ReleaseIInv, SnapshotIInv,
     RenameSettlesIInv, ProcessCrashIInv, PowerLossIInv DEF Next
<1>2. CASE UNCHANGED vars
  BY <1>2 DEF vars, memory, disk, IInv, TypeOK, Numbered, Past, SaveInv, FileIsNeverTorn,
              LockInv, PublishInv, Agree, LoggedInv, Reporting, SnapshotIsConsistent
<1> QED
  BY <1>1, <1>2

\* It holds throughout.
LEMMA Inductive == Spec => []IInv
BY InitIInv, NextIInv, PTL DEF Spec

\* SharedState and the files have their types throughout, however many saves
\* fail and whenever the process or the host goes down: the log in memory never
\* outgrows link_events_len.
THEOREM TypesHold == Spec => []TypeOK
<1>1. IInv => TypeOK
  BY DEF IInv
<1> QED
  BY Inductive, <1>1, PTL

\* _save_link_events() never leaves a truncated log file behind, neither after a
\* process crash nor after a power loss at any of its steps.
THEOREM NoTornFile == Spec => []FileIsNeverTorn
<1>1. IInv => FileIsNeverTorn
  BY DEF IInv
<1> QED
  BY Inductive, <1>1, PTL

\* snapshot() never returns a flip in the failover log together with the link
\* that was active before it: the link and the log change under one lock.
THEOREM ConsistentSnapshots == Spec => []SnapshotIsConsistent
<1>1. IInv => SnapshotIsConsistent
  BY DEF IInv
<1> QED
  BY Inductive, <1>1, PTL

\* A flip whose cycle the process finishes is the latest entry of its log, even
\* when it could not load the file, has no room left or cannot save.
THEOREM FlipsAreLogged == Spec => []EveryFlipIsLogged
<1>1. IInv => EveryFlipIsLogged
  BY DEF IInv, LoggedInv, Reporting, EveryFlipIsLogged
<1> QED
  BY Inductive, <1>1, PTL

-----------------------------------------------------------------------------
(***************************************************************************)
(* The log beside its messages.                                            *)
(***************************************************************************)
\* The flip of an entry has had its message started.
Spoken(e) == e.at \in Messages => message[e.at].thread # "none"

Announced(entries) == \A i \in 1..Len(entries) : Spoken(entries[i])

\* In memory, in the cycle's event, in both files and on the disk.
AnnouncedInv ==
    /\ Announced(log)
    /\ Announced(link_event)
    /\ tmp.data # Torn => Announced(tmp.data)
    /\ path.data # Torn => Announced(path.data)
    /\ durable # Torn => Announced(durable)

\* A thread that is still posting has an attempt left.
AttemptsLeft == \A m \in Messages : Sending(m) => message[m].attempts < MaxAttempts

PubIInv == /\ IInv
           /\ SlackIsHonest
           /\ AttemptsLeft
           /\ DOMAIN message = Messages
           /\ AnnouncedInv

\* No step takes back that a message was started.
MessagesStay ==
    \A m \in Messages : message[m].thread # "none" => message'[m].thread # "none"

-----------------------------------------------------------------------------
\* Each step of the composition is one of the log's own, or leaves it alone.
LEMMA PubNextIsNext == PubNext \/ UNCHANGED pubVars => [Next]_vars
<1>1. CycleFlips => Next
  BY DEF CycleFlips, Next
<1>2. Publish => Next
  BY DEF Publish, Next
<1>3. \A m \in Messages : PostMessage(m) => UNCHANGED vars
  BY DEF PostMessage
<1>4. (Snapshot \/ RenameSettles) \/ GoesDown => Next
  BY DEF GoesDown, Next
<1> QED
  BY <1>1, <1>2, <1>3, <1>4 DEF PubNext, PollThread, pubVars

\* So its invariant survives in the composition.
LEMMA LogInvStays == PubIInv /\ [PubNext]_pubVars => IInv'
BY PubNextIsNext, NextIInv DEF PubIInv

\* Entries once announced stay so.
LEMMA AnnouncedStays ==
    ASSUME MessagesStay, NEW s, Announced(s)
    PROVE  Announced(s)'
BY DEF MessagesStay, Announced, Spoken

\* Trimming adds no entry.
LEMMA LatestIsAnnounced ==
    ASSUME NEW s \in Seq(Events), Announced(s)
    PROVE  Announced(Latest(s))
BY LatestIsLog DEF Announced

\* Nor does loading.
LEMMA LoadedIsAnnounced ==
    ASSUME NEW data \in Logs \cup {Torn}, data # Torn => Announced(data)
    PROVE  Announced(Loaded(data))
<1>1. CASE data = Torn
  BY <1>1, EmptyLog DEF Loaded, Announced
<1>2. CASE data # Torn
  <2>1. data \in Seq(Events)
    BY <1>2, LogIsSeq
  <2> QED
    BY <1>2, <2>1, LatestIsAnnounced DEF Loaded
<1> QED
  BY <1>1, <1>2

-----------------------------------------------------------------------------
\* The threads: each keeps to its attempts, and none is forgotten.
SlackInv == SlackIsHonest /\ AttemptsLeft /\ DOMAIN message = Messages

\* A message is started once.
LEMMA NotifyInv ==
    ASSUME SlackInv, NEW m \in Messages, Notify(m)
    PROVE  SlackInv' /\ MessagesStay /\ message'[m].thread = "sending"
BY SlackAssumption DEF SlackInv, SlackIsHonest, AttemptsLeft, Notify, NoMessage, Sending,
                       MessagesStay, SlackAssumption

\* A post is counted, and the last one ends the thread.
LEMMA AttemptInv ==
    ASSUME SlackInv, NEW m \in Messages, Attempt(m)
    PROVE  SlackInv' /\ MessagesStay
<1>1. PICK arrives \in BOOLEAN, answered \in BOOLEAN :
          /\ answered => arrives
          /\ message' = [message EXCEPT ![m] =
                [thread |-> IF answered THEN "sent"
                            ELSE IF IsLast(Counted(m)) THEN "given_up" ELSE "sending",
                 attempts |-> Counted(m),
                 delivered |-> IF arrives /\ @.delivered < MaxAttempts
                               THEN @.delivered + 1 ELSE @.delivered]]
  BY DEF Attempt
<1>2. /\ message[m].attempts \in 0..MaxAttempts /\ message[m].delivered \in 0..MaxAttempts
      /\ message[m].attempts < MaxAttempts
      /\ MaxAttempts \in Nat /\ MaxAttempts > 0
  BY SlackAssumption DEF SlackInv, SlackIsHonest, AttemptsLeft, Attempt, SlackAssumption
<1> DEFINE new == message'[m]
<1>3. /\ new = [thread |-> IF answered THEN "sent"
                           ELSE IF IsLast(Counted(m)) THEN "given_up" ELSE "sending",
                attempts |-> Counted(m),
                delivered |-> IF arrives /\ message[m].delivered < MaxAttempts
                              THEN message[m].delivered + 1 ELSE message[m].delivered]
      /\ \A n \in Messages \ {m} : message'[n] = message[n]
      /\ DOMAIN message' = Messages
  BY <1>1 DEF SlackInv
<1>4. /\ new \in [thread : {"none", "sending", "sent", "given_up", "killed"},
                  attempts : 0..MaxAttempts, delivered : 0..MaxAttempts]
      /\ new.thread = "sent" => new.delivered > 0
      /\ new.thread = "given_up" => new.attempts = MaxAttempts
      /\ new.thread = "sending" => new.attempts < MaxAttempts
      /\ new.thread # "none"
  BY <1>1, <1>2, <1>3 DEF Counted, IsLast
<1> HIDE DEF new
<1>5. new = message'[m]
  BY DEF new
<1> QED
  BY <1>3, <1>4, <1>5 DEF SlackInv, SlackIsHonest, AttemptsLeft, Sending, MessagesStay

\* A thread the process takes down had been started.
LEMMA ThreadsDieInv ==
    ASSUME SlackInv, ThreadsDie
    PROVE  SlackInv' /\ MessagesStay
<1>1. ASSUME NEW m \in Messages
      PROVE  \/ Sending(m) /\ message'[m] = [message[m] EXCEPT !.thread = "killed"]
             \/ ~Sending(m) /\ message'[m] = message[m]
  BY DEF ThreadsDie
<1>2. DOMAIN message' = Messages
  BY DEF ThreadsDie
<1> QED
  BY <1>1, <1>2 DEF SlackInv, SlackIsHonest, AttemptsLeft, Sending, MessagesStay

-----------------------------------------------------------------------------
\* Before the first flip there is nothing to announce.
LEMMA PubInitIInv == PubInit => PubIInv
<1> SUFFICES ASSUME PubInit PROVE PubIInv
  OBVIOUS
<1>1. IInv
  BY InitIInv DEF PubInit
<1>2. SlackIsHonest /\ AttemptsLeft /\ DOMAIN message = Messages
  BY SlackAssumption DEF PubInit, SlackInit, NoMessage, SlackIsHonest, AttemptsLeft, Sending,
                         SlackAssumption
<1>3. AnnouncedInv
  BY EmptyLog DEF PubInit, Init, AnnouncedInv, Announced
<1> QED
  BY <1>1, <1>2, <1>3 DEF PubIInv

-----------------------------------------------------------------------------
\* A flip is announced in the step that makes it the cycle's event.
LEMMA CycleFlipsInv == ASSUME PubIInv, CycleFlips PROVE SlackInv' /\ AnnouncedInv'
<1>1. /\ UNCHANGED <<log, disk>>
      /\ link_event' = <<[at |-> flips', to |-> confirmed']>>
  BY DEF CycleFlips, RunCycle
<1>2. /\ SlackInv' /\ MessagesStay
      /\ flips' \in Messages => message'[flips'].thread # "none"
  <2>1. SlackInv
    BY DEF PubIInv, SlackInv
  <2>2. CASE flips' \in Messages /\ Notify(flips')
    BY <2>1, <2>2, NotifyInv
  <2>3. CASE flips' \notin Messages /\ UNCHANGED message
    BY <2>1, <2>3 DEF SlackInv, SlackIsHonest, AttemptsLeft, Sending, MessagesStay
  <2> QED
    BY <2>2, <2>3 DEF CycleFlips, IsAnnounced
<1>3. Announced(link_event)'
  <2>1. Len(link_event') = 1 /\ link_event'[1].at = flips'
    BY <1>1
  <2> QED
    BY <1>2, <2>1 DEF Announced, Spoken
<1>4. /\ Announced(log)'
      /\ (tmp.data # Torn => Announced(tmp.data))'
      /\ (path.data # Torn => Announced(path.data))'
      /\ (durable # Torn => Announced(durable))'
  BY <1>1, <1>2 DEF PubIInv, AnnouncedInv, MessagesStay, Announced, Spoken, disk
<1> QED
  BY <1>2, <1>3, <1>4 DEF AnnouncedInv

\* update() moves the event into the log, and the log by way of the .tmp file
\* into the log file.
LEMMA UpdateAnnounced == ASSUME PubIInv, Publish PROVE SlackInv' /\ AnnouncedInv'
<1>1. UNCHANGED message
  BY DEF Publish
<1>2. SlackInv'
  BY <1>1 DEF PubIInv, SlackInv, SlackIsHonest, AttemptsLeft, Sending
<1>3. CASE RunCycle /\ flips' = flips
  <2>1. UNCHANGED <<log, disk>> /\ link_event' = <<>>
    BY <1>3 DEF RunCycle, PubIInv, IInv, TypeOK
  <2> QED
    BY <1>1, <1>2, <2>1, EmptyLog DEF PubIInv, AnnouncedInv, Announced, Spoken, disk
<1>4. CASE Update \/ Release
  BY <1>1, <1>2, <1>4 DEF Update, Release, PubIInv, AnnouncedInv, Announced, Spoken, disk
<1>5. CASE AppendEvent
  <2> DEFINE whole == log \o link_event
  <2>1. /\ log' = Latest(whole) /\ UNCHANGED <<link_event, disk>>
        /\ log \in Seq(Events) /\ link_event \in Seq(Events)
    BY <1>5, LogIsSeq DEF AppendEvent, PubIInv, IInv, TypeOK
  <2>2. /\ whole \in Seq(Events)
        /\ Len(whole) = Len(log) + Len(link_event)
        /\ \A i \in 1..Len(log) + Len(link_event) :
               whole[i] = IF i <= Len(log) THEN log[i] ELSE link_event[i - Len(log)]
    BY <2>1, ConcatProperties
  <2>3. Announced(whole)
    <3> SUFFICES ASSUME NEW i \in 1..Len(whole) PROVE Spoken(whole[i])
      BY DEF Announced
    <3>1. Len(log) \in Nat /\ Len(link_event) \in Nat
      BY <2>1, LenProperties
    <3>2. \/ i \in 1..Len(log)
          \/ i - Len(log) \in 1..Len(link_event) /\ ~(i <= Len(log))
      BY <2>2, <3>1
    <3> HIDE DEF whole
    <3> QED
      BY <2>2, <3>1, <3>2 DEF PubIInv, AnnouncedInv, Announced
  <2> HIDE DEF whole
  <2>4. Announced(Latest(whole))
    BY <2>2, <2>3, LatestIsAnnounced
  <2>5. Announced(log)'
    BY <1>1, <2>1, <2>4 DEF Announced, Spoken
  <2> QED
    BY <1>1, <1>2, <2>1, <2>5 DEF PubIInv, AnnouncedInv, Announced, Spoken, disk
<1>6. CASE Save
  <2>1. UNCHANGED <<log, link_event>>
    BY <1>6 DEF Save
  <2>2. /\ tmp'.data \in {tmp.data, Torn, log}
        /\ path'.data \in {path.data, tmp.data}
        /\ durable' = durable
        /\ tmp'.data = tmp.data \/ tmp'.data = Torn \/ tmp'.data = log
    <3>1. tmp \in Files
      BY DEF PubIInv, IInv, TypeOK
    <3> QED
      BY <1>6, <3>1 DEF Save, OpenTmp, WriteTmp, FsyncTmp, ReplaceFile, SaveFails, Forced,
                        Files, disk
  <2> QED
    BY <1>1, <1>2, <2>1, <2>2 DEF PubIInv, AnnouncedInv, Announced, Spoken
<1> QED
  BY <1>3, <1>4, <1>5, <1>6 DEF Publish

\* A post, a snapshot and the disk catching up move no entry anywhere new.
LEMMA OtherStepsInv ==
    ASSUME PubIInv,
           \/ \E m \in Messages : PostMessage(m)
           \/ (Snapshot \/ RenameSettles) /\ UNCHANGED message
    PROVE  SlackInv' /\ AnnouncedInv'
<1>1. /\ UNCHANGED <<log, link_event, tmp, path>>
      /\ durable' \in {durable, path.data, Torn}
  BY DEF PostMessage, vars, memory, disk, Snapshot, RenameSettles
<1>2. SlackInv' /\ MessagesStay
  <2>1. SlackInv
    BY DEF PubIInv, SlackInv
  <2>2. ASSUME NEW m \in Messages, PostMessage(m) PROVE SlackInv' /\ MessagesStay
    BY <2>1, <2>2, AttemptInv DEF PostMessage
  <2>3. CASE UNCHANGED message
    BY <2>1, <2>3 DEF SlackInv, SlackIsHonest, AttemptsLeft, Sending, MessagesStay
  <2> QED
    BY <2>2, <2>3
<1> QED
  BY <1>1, <1>2 DEF PubIInv, AnnouncedInv, MessagesStay, Announced, Spoken

\* A new process loads entries that were announced by the one that wrote them.
LEMMA GoesDownInv == ASSUME PubIInv, GoesDown PROVE SlackInv' /\ AnnouncedInv'
<1>1. SlackInv' /\ MessagesStay
  BY ThreadsDieInv DEF PubIInv, SlackInv, GoesDown
<1>2. PICK data \in {path.data, durable} : StartWith(data)
  BY DEF GoesDown, ProcessCrash, PowerLoss
<1>3. data \in Logs \cup {Torn} /\ (data # Torn => Announced(data))
  BY <1>2 DEF PubIInv, IInv, TypeOK, Files, AnnouncedInv
<1>4. Announced(Loaded(data)) /\ Announced(<<>>)
  BY <1>3, LoadedIsAnnounced, EmptyLog DEF Announced
<1>5. log' \in {Loaded(data), <<>>} /\ link_event' = <<>>
  BY <1>2 DEF StartWith, Load
<1>6. Announced(log)'
  BY <1>1, <1>4, <1>5 DEF MessagesStay, Announced, Spoken
<1>7. Announced(link_event)'
  BY <1>5, EmptyLog DEF Announced
<1>8. /\ tmp'.data \in {tmp.data, Torn}
      /\ path'.data \in {path.data, durable}
      /\ durable' = durable
  BY DEF GoesDown, ProcessCrash, PowerLoss, disk
<1>9. /\ (tmp.data # Torn => Announced(tmp.data))'
      /\ (path.data # Torn => Announced(path.data))'
      /\ (durable # Torn => Announced(durable))'
  BY <1>1, <1>8 DEF PubIInv, AnnouncedInv, MessagesStay, Announced, Spoken
<1> QED
  BY <1>1, <1>6, <1>7, <1>9 DEF AnnouncedInv

\* Log and messages stay together.
THEOREM PubInductive == PubSpec => []PubIInv
<1>1. PubIInv /\ [PubNext]_pubVars => PubIInv'
  <2> SUFFICES ASSUME PubIInv, [PubNext]_pubVars PROVE PubIInv'
    OBVIOUS
  <2>1. IInv'
    BY LogInvStays
  <2>2. SlackInv' /\ AnnouncedInv'
    <3>1. CASE PubNext
      BY <3>1, CycleFlipsInv, UpdateAnnounced, OtherStepsInv, GoesDownInv DEF PubNext, PollThread
    <3>2. CASE UNCHANGED pubVars
      BY <3>2 DEF pubVars, vars, memory, disk, PubIInv, SlackInv, SlackIsHonest, AttemptsLeft,
                  Sending, AnnouncedInv, Announced, Spoken
    <3> QED
      BY <3>1, <3>2
  <2> QED
    BY <2>1, <2>2 DEF PubIInv, SlackInv
<1> QED
  BY PubInitIInv, <1>1, PTL DEF PubSpec

\* Whatever flip the log tells of, before or after crashes, failed saves and
\* power losses, a message about it was started first.
THEOREM LoggedFlipsAreAnnounced == PubSpec => []LoggedIsAnnounced
<1>1. PubIInv => LoggedIsAnnounced
  BY DEF PubIInv, AnnouncedInv, Announced, Spoken, LoggedIsAnnounced
<1> QED
  BY PubInductive, <1>1, PTL

\* Slack follows the flips: each one that has happened has had its message
\* started, and nothing has been posted of one that has not.
SlackFollowsFlips ==
    \A m \in Messages :
        IF m <= flips THEN message[m].thread # "none" ELSE message[m] = NoMessage

\* The message of a flip is started with it, and only a started one is posted or
\* cut off.
LEMMA SlackFollows ==
    ASSUME PubIInv, SlackFollowsFlips, [PubNext]_pubVars
    PROVE  SlackFollowsFlips'
<1>1. flips \in Nat /\ (\A m \in Messages : m \in Nat)
  BY PublishedAssumption, FailoverLogAssumption DEF PubIInv, IInv, TypeOK, PublishedAssumption
<1>2. CASE CycleFlips
  <2>1. flips' = flips + 1
    BY <1>2 DEF CycleFlips, RunCycle
  <2>2. CASE flips' \in Messages /\ Notify(flips')
    <3>1. DOMAIN message = Messages
      BY DEF PubIInv
    <3>2. /\ message'[flips'].thread = "sending"
          /\ \A m \in Messages \ {flips'} : message'[m] = message[m]
      BY <2>2, <3>1 DEF Notify, NoMessage
    <3>3. \A m \in Messages \ {flips'} : m <= flips' <=> m <= flips
      BY <1>1, <2>1
    <3>4. flips' <= flips'
      BY <1>1, <2>1
    <3> QED
      BY <3>2, <3>3, <3>4 DEF SlackFollowsFlips
  <2>3. CASE flips' \notin Messages /\ UNCHANGED message
    <3>1. \A m \in Messages : m <= flips' <=> m <= flips
      BY <1>1, <2>1, <2>3
    <3> QED
      BY <2>3, <3>1 DEF SlackFollowsFlips
  <2> QED
    BY <1>2, <2>2, <2>3 DEF CycleFlips, IsAnnounced
<1>3. CASE \/ Publish
           \/ (Snapshot \/ RenameSettles) /\ UNCHANGED message
           \/ UNCHANGED pubVars
  <2>1. UNCHANGED <<message, flips>>
    BY <1>3 DEF Publish, Update, AppendEvent, Save, Release, Snapshot, RenameSettles, pubVars, vars
  <2> QED
    BY <2>1 DEF SlackFollowsFlips
<1>4. ASSUME NEW m \in Messages, PostMessage(m) PROVE SlackFollowsFlips'
  <2>1. MessagesStay /\ UNCHANGED flips
    BY <1>4, AttemptInv DEF PostMessage, PubIInv, SlackInv, vars
  <2>2. /\ message[m].thread = "sending"
        /\ \A n \in Messages \ {m} : message'[n] = message[n]
    BY <1>4 DEF PostMessage, Attempt, Sending, PubIInv
  <2>3. m <= flips
    BY <2>2 DEF SlackFollowsFlips, NoMessage
  <2> QED
    BY <2>1, <2>2, <2>3 DEF SlackFollowsFlips, MessagesStay
<1>5. CASE GoesDown
  <2>1. MessagesStay /\ UNCHANGED flips
    BY <1>5, ThreadsDieInv DEF GoesDown, PubIInv, SlackInv, ProcessCrash, PowerLoss, StartWith
  <2>2. \A m \in Messages : message[m] = NoMessage => message'[m] = message[m]
    BY <1>5 DEF GoesDown, ThreadsDie, Sending, NoMessage
  <2> QED
    BY <2>1, <2>2 DEF SlackFollowsFlips, MessagesStay
<1>6. CASE PubNext
  <2>1. CASE \E m \in Messages : PostMessage(m)
    BY <1>4, <2>1
  <2> QED
    BY <1>2, <1>3, <1>5, <1>6, <2>1 DEF PubNext, PollThread
<1> QED
  BY <1>3, <1>6

\* What Slack hears is true: messages are of flips that have happened, each of
\* them has had its own, a thread reports success only for one that arrived, and
\* gives it up after all of its attempts.
THEOREM SlackKeepsItsWord == PubSpec => [](SlackIsHonest /\ SlackFollowsFlips)
<1>1. PubInit => SlackFollowsFlips
  <2> SUFFICES ASSUME PubInit, NEW m \in Messages PROVE ~(m <= flips) /\ message[m] = NoMessage
    BY DEF SlackFollowsFlips
  <2>1. m \in 1..MaxFlips /\ MaxFlips \in Nat
    BY PublishedAssumption, FailoverLogAssumption DEF PublishedAssumption, FailoverLogAssumption
  <2> QED
    BY <2>1 DEF PubInit, Init, SlackInit
<1>2. PubIInv => SlackIsHonest
  BY DEF PubIInv
<1> QED
  BY PubInductive, <1>1, <1>2, SlackFollows, PTL DEF PubSpec

-----------------------------------------------------------------------------
(***************************************************************************)
(* The log file implements the journal.                                    *)
(***************************************************************************)
\* The log is the old one and what has been appended since, at least so many
\* entries of it.
Extends(old, entries, least) ==
    \E s \in Logs : /\ Len(s) >= least
                    /\ Disk!Newer(old \o s)
                    /\ entries = Latest(old \o s)

Saving == pc \in {"open", "write", "fsync", "replace"}

\* Every entry is of a flip before the latest.
Before(entries) == \A i \in 1..Len(entries) : entries[i].at < flips

\* The log in memory has what the file has and the flips since, or just these if
\* the file could not be read; a save is always of at least one.
JournalInv ==
    /\ Disk!Newer(path.data) /\ Disk!Newer(durable)
    /\ Reporting => Before(log) /\ Before(path.data)
    /\ pc \in {"fsync", "replace"} => tmp.data = log
    /\ \E old \in {path.data, <<>>} :
          /\ old = path.data \/ blind
          /\ Extends(old, log, IF Saving THEN 1 ELSE 0)

\* A log is its own latest entries.
LEMMA LatestOfLog ==
    ASSUME NEW s \in Seq(Events), Len(s) <= LogLength
    PROVE  Latest(s) = s
<1>1. Latest(s) = SubSeq(s, 1, Len(s))
  BY DEF Latest
<1>2. \A i \in 1..Len(s) : s[i] \in Events
  BY ElementOfSeq
<1>3. Len(s) \in Nat
  BY LenProperties
<1> QED
  BY <1>1, <1>2, <1>3

\* Of a longer one they are the last LogLength.
LEMMA LatestOfMore ==
    ASSUME NEW s \in Seq(Events), Len(s) > LogLength
    PROVE  /\ Latest(s) \in Seq(Events) /\ Len(Latest(s)) = LogLength
           /\ \A i \in 1..LogLength : /\ Len(s) - LogLength + i \in 1..Len(s)
                                      /\ Latest(s)[i] = s[Len(s) - LogLength + i]
<1> DEFINE k == Len(s)
           first == k - LogLength + 1
<1>1. k \in Nat /\ LogLength \in Nat
  BY LenProperties, FailoverLogAssumption
<1>2. k > LogLength /\ ~(k <= LogLength)
  BY <1>1
<1>3. Latest(s) = SubSeq(s, first, k)
  BY <1>2 DEF Latest
<1>4. \A i \in 1..k : s[i] \in Events
  BY ElementOfSeq
<1> HIDE DEF k
<1>5. /\ first \in Int /\ k \in Int /\ first <= k /\ k - first + 1 = LogLength
      /\ \A i \in first..k : s[i] \in Events
  <2>1. first \in 1..k /\ k - first + 1 = LogLength
    BY <1>1, FailoverLogAssumption, <1>2
  <2> HIDE DEF first
  <2>2. \A i \in first..k : i \in 1..k
    BY <1>1, <2>1
  <2> QED
    BY <1>1, <1>4, <2>1, <2>2
<1>6. ASSUME NEW i \in 1..LogLength
      PROVE  k - LogLength + i \in 1..k /\ first + i - 1 = k - LogLength + i
  BY <1>1, <1>2
<1> HIDE DEF first
<1>7. /\ Latest(s) \in Seq(Events) /\ Len(Latest(s)) = LogLength
      /\ \A i \in 1..LogLength : Latest(s)[i] = s[first + i - 1]
  BY <1>3, <1>5, SubSeqProperties
<1> QED
  BY <1>6, <1>7 DEF k

\* Trimming the newer part of a log first makes no difference.
LEMMA LatestTrims ==
    ASSUME NEW p \in Seq(Events), NEW w \in Seq(Events)
    PROVE  /\ Latest(p \o Latest(w)) = Latest(p \o w)
           /\ Disk!Newer(p \o w) => Disk!Newer(p \o Latest(w))
<1> DEFINE a == Len(p)
           b == Len(w)
           L == LogLength
           x == p \o Latest(w)
           y == p \o w
<1>1. a \in Nat /\ b \in Nat /\ L \in Nat \ {0}
  BY LenProperties, FailoverLogAssumption
<1>2. CASE b <= L
  BY <1>2, LatestOfLog
<1>3. CASE b > L
  <2>1. /\ Latest(w) \in Seq(Events) /\ Len(Latest(w)) = L
        /\ \A i \in 1..L : b - L + i \in 1..b /\ Latest(w)[i] = w[b - L + i]
    BY <1>3, LatestOfMore
  <2>2. /\ x \in Seq(Events) /\ Len(x) = a + L
        /\ \A i \in 1..(a + L) : x[i] = IF i <= a THEN p[i] ELSE Latest(w)[i - a]
    BY <2>1, ConcatProperties
  <2>3. /\ y \in Seq(Events) /\ Len(y) = a + b
        /\ \A i \in 1..(a + b) : y[i] = IF i <= a THEN p[i] ELSE w[i - a]
    BY ConcatProperties
  <2> HIDE DEF a, b, x, y, L
  <2>4. ASSUME NEW i \in 1..L PROVE x[a + i] = y[(a + b) - L + i]
    <3> DEFINE u == a + i
               v == (a + b) - L + i
    <3>1. u \in 1..(a + L) /\ ~(u <= a) /\ u - a = i
      BY <1>1
    <3>2. v \in 1..(a + b) /\ ~(v <= a) /\ v - a = b - L + i
      BY <1>1, <1>3
    <3> HIDE DEF u, v
    <3>3. x[u] = Latest(w)[i] /\ y[v] = w[b - L + i]
      BY <2>2, <2>3, <3>1, <3>2
    <3> QED
      BY <2>1, <3>3 DEF u, v
  <2>5. Latest(x) = Latest(y)
    <3>1. /\ Latest(y) \in Seq(Events) /\ Len(Latest(y)) = L
          /\ \A i \in 1..L : Latest(y)[i] = y[(a + b) - L + i]
      <4>1. Len(y) > LogLength
        BY <1>1, <1>3, <2>3 DEF L
      <4> QED
        BY <2>3, <4>1, LatestOfMore DEF L
    <3>2. /\ Latest(x) \in Seq(Events) /\ Len(Latest(x)) = L
          /\ \A i \in 1..L : Latest(x)[i] = x[a + i]
      <4>1. CASE a = 0
        <5>1. Len(x) <= LogLength /\ Len(x) = L
          BY <1>1, <2>2, <4>1 DEF L
        <5>2. Latest(x) = x
          BY <2>2, <5>1, LatestOfLog
        <5>3. \A i \in 1..L : a + i = i
          BY <1>1, <4>1
        <5> QED
          BY <2>2, <5>1, <5>2, <5>3
      <4>2. CASE a # 0
        <5>1. Len(x) > LogLength
          BY <1>1, <2>2, <4>2 DEF L
        <5>2. /\ Latest(x) \in Seq(Events) /\ Len(Latest(x)) = L
              /\ \A i \in 1..L : Latest(x)[i] = x[(a + L) - L + i]
          BY <2>2, <5>1, LatestOfMore DEF L
        <5>3. \A i \in 1..L : (a + L) - L + i = a + i
          BY <1>1
        <5> QED
          BY <5>2, <5>3
      <4> QED
        BY <4>1, <4>2
    <3>3. \A i \in 1..L : Latest(x)[i] = Latest(y)[i]
      BY <2>4, <3>1, <3>2
    <3> QED
      BY <3>1, <3>2, <3>3, SeqEqual
  <2>6. ASSUME Disk!Newer(y) PROVE Disk!Newer(x)
    <3>1. \A i \in 1..(a + b), j \in 1..(a + b) : i < j => y[i].at < y[j].at
      BY <2>3, <2>6 DEF Disk!Newer
    <3> DEFINE f(i) == IF i <= a THEN i ELSE i + (b - L)
    <3>2. ASSUME NEW i \in 1..(a + L) PROVE f(i) \in 1..(a + b) /\ x[i] = y[f(i)]
      <4>1. CASE i <= a
        <5>1. i \in 1..(a + b)
          BY <1>1, <4>1
        <5> QED
          BY <2>2, <2>3, <4>1, <5>1
      <4>2. CASE ~(i <= a)
        <5> DEFINE k == i - a
        <5>1. k \in 1..L /\ i = a + k /\ f(i) = (a + b) - L + k
          BY <1>1, <4>2
        <5>2. f(i) \in 1..(a + b)
          BY <1>1, <1>3, <4>2
        <5> HIDE DEF k, f
        <5> QED
          BY <2>4, <5>1, <5>2
      <4> QED
        BY <4>1, <4>2
    <3>3. ASSUME NEW i \in 1..(a + L), NEW j \in 1..(a + L), i < j PROVE f(i) < f(j)
      BY <1>1, <1>3, <3>3
    <3> HIDE DEF f
    <3>4. \A i \in 1..(a + L), j \in 1..(a + L) : i < j => x[i].at < x[j].at
      BY <3>1, <3>2, <3>3
    <3> QED
      BY <2>2, <3>4 DEF Disk!Newer
  <2> QED
    BY <2>5, <2>6 DEF x, y
<1> QED
  BY <1>1, <1>2, <1>3

\* Nor does trimming the older part, if it is done again after an entry is added.
LEMMA LatestAppends ==
    ASSUME NEW t \in Seq(Events), NEW e \in Events
    PROVE  Latest(Latest(t) \o <<e>>) = Latest(t \o <<e>>)
<1> DEFINE k == Len(t)
           L == LogLength
           x == Latest(t) \o <<e>>
           y == t \o <<e>>
<1>1. k \in Nat /\ L \in Nat \ {0}
  BY LenProperties, FailoverLogAssumption
<1>2. CASE k <= L
  BY <1>2, LatestOfLog
<1>3. CASE k > L
  <2>1. /\ Latest(t) \in Seq(Events) /\ Len(Latest(t)) = L
        /\ \A i \in 1..L : k - L + i \in 1..k /\ Latest(t)[i] = t[k - L + i]
    BY <1>3, LatestOfMore
  <2>2. <<e>> \in Seq(Events) /\ Len(<<e>>) = 1 /\ <<e>>[1] = e
    OBVIOUS
  <2>3. /\ x \in Seq(Events) /\ Len(x) = L + 1
        /\ \A i \in 1..(L + 1) : x[i] = IF i <= L THEN Latest(t)[i] ELSE <<e>>[i - L]
    BY <2>1, <2>2, ConcatProperties
  <2>4. /\ y \in Seq(Events) /\ Len(y) = k + 1
        /\ \A i \in 1..(k + 1) : y[i] = IF i <= k THEN t[i] ELSE <<e>>[i - k]
    BY <2>2, ConcatProperties
  <2> HIDE DEF k, x, y, L
  <2>5. ASSUME NEW i \in 1..L PROVE x[1 + i] = y[(k + 1) - L + i]
    <3> DEFINE u == 1 + i
               v == (k + 1) - L + i
    <3>1. u \in 1..(L + 1) /\ v \in 1..(k + 1)
      BY <1>1, <1>3
    <3>2. CASE i < L
      <4>1. u <= L /\ v <= k /\ u \in 1..L /\ v = k - L + u
        BY <1>1, <1>3, <3>2
      <4> HIDE DEF u, v
      <4>2. x[u] = Latest(t)[u] /\ y[v] = t[v]
        BY <2>3, <2>4, <3>1, <4>1
      <4>3. x[u] = y[v]
        BY <2>1, <4>1, <4>2
      <4> QED
        BY <4>3 DEF u, v
    <3>3. CASE ~(i < L)
      <4>1. ~(u <= L) /\ ~(v <= k) /\ u - L = 1 /\ v - k = 1
        BY <1>1, <1>3, <3>3
      <4> HIDE DEF u, v
      <4>2. x[u] = <<e>>[1] /\ y[v] = <<e>>[1]
        BY <2>3, <2>4, <3>1, <4>1
      <4> QED
        BY <4>2 DEF u, v
    <3> QED
      BY <3>2, <3>3
  <2>6. /\ Latest(x) \in Seq(Events) /\ Len(Latest(x)) = L
        /\ \A i \in 1..L : Latest(x)[i] = x[(L + 1) - L + i]
    <3>1. Len(x) > LogLength
      BY <1>1, <2>3 DEF L
    <3> QED
      BY <2>3, <3>1, LatestOfMore DEF L
  <2>7. /\ Latest(y) \in Seq(Events) /\ Len(Latest(y)) = L
        /\ \A i \in 1..L : Latest(y)[i] = y[(k + 1) - L + i]
    <3>1. Len(y) > LogLength
      BY <1>1, <1>3, <2>4 DEF L
    <3> QED
      BY <2>4, <3>1, LatestOfMore DEF L
  <2>8. \A i \in 1..L : (L + 1) - L + i = 1 + i
    BY <1>1
  <2>9. \A i \in 1..L : Latest(x)[i] = Latest(y)[i]
    BY <2>5, <2>6, <2>7, <2>8
  <2>10. Latest(x) = Latest(y)
    BY <2>6, <2>7, <2>9, SeqEqual
  <2> QED
    BY <2>10 DEF x, y
<1> QED
  BY <1>1, <1>2, <1>3

\* An entry newer than all of a log may be appended to it.
LEMMA NewerAppends ==
    ASSUME NEW t \in Seq(Events), Disk!Newer(t), NEW e \in Events,
           \A i \in 1..Len(t) : t[i].at < e.at
    PROVE  Disk!Newer(t \o <<e>>)
<1> DEFINE k == Len(t)
           y == t \o <<e>>
<1>1. k \in Nat
  BY LenProperties
<1>2. <<e>> \in Seq(Events) /\ Len(<<e>>) = 1 /\ <<e>>[1] = e
  OBVIOUS
<1>3. /\ Len(y) = k + 1
      /\ \A i \in 1..(k + 1) : y[i] = IF i <= k THEN t[i] ELSE <<e>>[i - k]
  BY <1>2, ConcatProperties
<1>4. \A i \in 1..k, j \in 1..k : i < j => t[i].at < t[j].at
  BY DEF Disk!Newer
<1>5. \A i \in 1..k : t[i].at < e.at
  OBVIOUS
<1> HIDE DEF k, y
<1>6. ASSUME NEW i \in 1..(k + 1), NEW j \in 1..(k + 1), i < j PROVE y[i].at < y[j].at
  <2>1. i <= k /\ i \in 1..k /\ y[i] = t[i]
    <3>1. i <= k /\ i \in 1..k
      BY <1>1, <1>6
    <3> QED
      BY <1>3, <3>1
  <2>2. CASE j <= k
    <3>1. j \in 1..k /\ y[j] = t[j]
      BY <1>1, <1>3, <2>2
    <3> QED
      BY <1>4, <1>6, <2>1, <3>1
  <2>3. CASE ~(j <= k)
    <3>1. j - k = 1
      BY <1>1, <2>3
    <3>2. y[j] = e
      BY <1>2, <1>3, <2>3, <3>1
    <3> QED
      BY <1>5, <2>1, <3>2
  <2> QED
    BY <2>2, <2>3
<1> QED
  BY <1>3, <1>6 DEF Disk!Newer, y

\* What was appended is no more than the log keeps, so that all of it is there.
LEMMA AppendedIsKept ==
    ASSUME NEW old \in Seq(Events), NEW s \in Seq(Events), Len(s) <= LogLength,
           NEW i \in 1..Len(s)
    PROVE  \E j \in 1..Len(Latest(old \o s)) : Latest(old \o s)[j] = s[i]
<1> DEFINE a == Len(old)
           b == Len(s)
           L == LogLength
           t == old \o s
<1>1. a \in Nat /\ b \in Nat /\ L \in Nat /\ b <= L /\ i \in 1..b
  BY LenProperties, FailoverLogAssumption
<1>2. /\ t \in Seq(Events) /\ Len(t) = a + b
      /\ \A j \in 1..(a + b) : t[j] = IF j <= a THEN old[j] ELSE s[j - a]
  BY ConcatProperties
<1> HIDE DEF a, b, t, L
<1>3. a + i \in 1..(a + b) /\ t[a + i] = s[i]
  <2> DEFINE u == a + i
  <2>1. u \in 1..(a + b) /\ ~(u <= a) /\ u - a = i
    BY <1>1
  <2> HIDE DEF u
  <2>2. t[u] = s[i]
    BY <1>2, <2>1
  <2> QED
    BY <2>1, <2>2 DEF u
<1>4. CASE a + b <= L
  <2>1. Latest(t) = t
    BY <1>2, <1>4, LatestOfLog DEF L
  <2> QED
    BY <1>2, <1>3, <2>1 DEF t
<1>5. CASE ~(a + b <= L)
  <2> DEFINE j == i - b + L
  <2>1. j \in 1..L /\ (a + b) - L + j = a + i
    BY <1>1, <1>5
  <2>2. Len(t) > LogLength
    BY <1>1, <1>2, <1>5 DEF L
  <2> HIDE DEF j
  <2>3. Len(Latest(t)) = L /\ Latest(t)[j] = t[(a + b) - L + j]
    BY <1>2, <2>1, <2>2, LatestOfMore DEF L
  <2> QED
    BY <1>3, <2>1, <2>3 DEF t
<1> QED
  BY <1>4, <1>5

\* However many saves have failed, the log extends the file by its own entries.
LEMMA ExtendsAppends ==
    ASSUME NEW old \in Logs, NEW entries, NEW least, Extends(old, entries, least),
           NEW e \in Events,
           \A i \in 1..Len(old) : old[i].at < e.at,
           \A i \in 1..Len(entries) : entries[i].at < e.at
    PROVE  Extends(old, Latest(entries \o <<e>>), 1)
<1>1. PICK s \in Logs : Disk!Newer(old \o s) /\ entries = Latest(old \o s)
  BY DEF Extends
<1> DEFINE t == old \o s
           w == s \o <<e>>
           kept == Latest(w)
<1>2. /\ old \in Seq(Events) /\ s \in Seq(Events) /\ Len(s) <= LogLength
      /\ <<e>> \in Seq(Events) /\ Len(<<e>>) = 1
  BY LogIsSeq
<1>3. t \in Seq(Events) /\ w \in Seq(Events) /\ Len(w) = Len(s) + 1
  BY <1>2, ConcatProperties
<1>4. \A i \in 1..Len(t) : t[i].at < e.at
  <2>1. \A i \in 1..Len(s) : s[i].at < e.at
    <3> SUFFICES ASSUME NEW i \in 1..Len(s) PROVE s[i].at < e.at
      OBVIOUS
    <3>1. PICK j \in 1..Len(entries) : entries[j] = s[i]
      BY <1>1, <1>2, AppendedIsKept
    <3>2. entries[j].at < e.at
      OBVIOUS
    <3> QED
      BY <3>1, <3>2
  <2> DEFINE a == Len(old)
             b == Len(s)
  <2>2. a \in Nat /\ b \in Nat
    BY <1>2, LenProperties
  <2>3. /\ Len(t) = a + b
        /\ \A i \in 1..(a + b) : t[i] = IF i <= a THEN old[i] ELSE s[i - a]
    BY <1>2, ConcatProperties
  <2>4. /\ \A i \in 1..a : old[i].at < e.at
        /\ \A i \in 1..b : s[i].at < e.at
    BY <2>1
  <2> HIDE DEF a, b, t
  <2>5. ASSUME NEW i \in 1..(a + b) PROVE t[i].at < e.at
    <3>1. \/ i <= a /\ i \in 1..a
          \/ ~(i <= a) /\ i - a \in 1..b
      BY <2>2
    <3> QED
      BY <2>3, <2>4, <3>1
  <2> QED
    BY <2>3, <2>5
<1>5. old \o w = t \o <<e>>
  BY <1>2, ConcatAssociative
<1> HIDE DEF t, w, kept
<1>6. Disk!Newer(old \o w)
  <2>1. Disk!Newer(t)
    BY <1>1 DEF t
  <2> QED
    BY <1>3, <1>4, <1>5, <2>1, NewerAppends
<1>7. Disk!Newer(old \o kept) /\ Latest(old \o kept) = Latest(old \o w)
  BY <1>2, <1>3, <1>6, LatestTrims DEF kept
<1>8. Latest(entries \o <<e>>) = Latest(old \o kept)
  <2>1. Latest(Latest(t) \o <<e>>) = Latest(t \o <<e>>)
    BY <1>3, LatestAppends
  <2> QED
    BY <1>1, <1>5, <1>7, <2>1 DEF t
<1>9. kept \in Logs /\ Len(kept) >= 1
  <2>1. Len(s) \in Nat
    BY <1>2, LenProperties
  <2>2. w # <<>>
    BY <1>3, <2>1, EmptySeq
  <2>3. kept \in Logs /\ kept # <<>>
    BY <1>3, <2>2, LatestIsLog DEF kept
  <2>4. kept \in Seq(Events)
    BY <2>3, LogIsSeq
  <2>5. Len(kept) \in Nat \ {0}
    BY <2>3, <2>4, EmptySeq
  <2> QED
    BY <2>3, <2>5
<1> QED
  BY <1>7, <1>8, <1>9 DEF Extends

\* A log extends itself, and what it extends in order is in order.
LEMMA ExtendsSelf ==
    ASSUME NEW s \in Logs, Disk!Newer(s)
    PROVE  Extends(s, s, 0)
<1>1. s \in Seq(Events) /\ Len(s) <= LogLength /\ s \o <<>> = s
  BY LogIsSeq, ConcatEmptySeq
<1>2. Latest(s) = s /\ <<>> \in Logs /\ Len(<<>>) >= 0
  BY <1>1, LatestOfLog, EmptyLog
<1> QED
  BY <1>1, <1>2 DEF Extends

LEMMA ExtendsIsNewer ==
    ASSUME NEW old \in Logs, NEW entries, NEW least, Extends(old, entries, least)
    PROVE  Disk!Newer(entries)
<1>1. PICK s \in Logs : Disk!Newer(old \o s) /\ entries = Latest(old \o s)
  BY DEF Extends
<1> DEFINE t == old \o s
<1>2. t \in Seq(Events)
  BY LogIsSeq, ConcatProperties
<1> HIDE DEF t
<1>3. <<>> \in Seq(Events) /\ <<>> \o t = t /\ <<>> \o Latest(t) = Latest(t)
  <2>1. Latest(t) \in Seq(Events)
    BY <1>2, LatestIsLog, LogIsSeq
  <2> QED
    BY <1>2, <2>1, ConcatEmptySeq, EmptySeq
<1>4. Disk!Newer(<<>> \o t)
  BY <1>1, <1>3 DEF t
<1>5. Disk!Newer(<<>> \o Latest(t))
  BY <1>2, <1>3, <1>4, LatestTrims
<1> QED
  BY <1>1, <1>3, <1>5 DEF t

-----------------------------------------------------------------------------
\* What the invariant says of the files.
LEMMA FilesAreLogs ==
    ASSUME IInv
    PROVE  /\ path.data \in Logs /\ Loaded(path.data) = path.data
           /\ durable \in Logs /\ Loaded(durable) = durable
           /\ log \in Logs /\ <<>> \in Logs
           /\ blind \in BOOLEAN /\ path.synced
<1>1. path.data \in Logs /\ durable \in Logs /\ path.data # Torn /\ durable # Torn
  BY DEF IInv, TypeOK, Files, FileIsNeverTorn
<1>2. \A s \in Logs : Latest(s) = s
  BY LogIsSeq, LatestOfLog
<1> QED
  BY <1>1, <1>2, EmptyLog DEF IInv, TypeOK, Loaded, SaveInv

\* A step that leaves log and files alone, and begins neither a report nor a save.
LEMMA LogRests ==
    ASSUME JournalInv, UNCHANGED <<log, path, durable, blind, flips>>,
           Reporting' => Reporting, Saving' => Saving,
           (pc' \in {"fsync", "replace"}) => (tmp'.data = log)
    PROVE  JournalInv'
<1>1. /\ Disk!Newer(path.data)' /\ Disk!Newer(durable)'
      /\ (Reporting => Before(log) /\ Before(path.data))'
  BY DEF JournalInv, Before, Disk!Newer
<1>2. PICK old \in {path.data, <<>>} :
          /\ old = path.data \/ blind
          /\ Extends(old, log, IF Saving THEN 1 ELSE 0)
  BY DEF JournalInv
<1>3. Extends(old, log', IF Saving' THEN 1 ELSE 0)
  BY <1>2 DEF Extends
<1> QED
  BY <1>1, <1>2, <1>3 DEF JournalInv

\* A flip is newer than whatever has been logged.
LEMMA RunCycleJournal == IInv /\ JournalInv /\ RunCycle => JournalInv'
<1> SUFFICES ASSUME IInv, JournalInv, RunCycle PROVE JournalInv'
  OBVIOUS
<1>1. /\ UNCHANGED <<log, tmp, path, durable, blind>> /\ pc = "cycle" /\ pc' = "update"
      /\ ~Saving /\ ~Saving'
  BY DEF RunCycle, disk, Saving
<1>2. CASE flips' = flips + 1
  <2>1. ASSUME NEW s \in Logs, Past(s) PROVE Before(s)'
    <3> SUFFICES ASSUME NEW i \in 1..Len(s) PROVE s[i].at < flips'
      BY DEF Before
    <3>1. s \in Seq(Events)
      BY LogIsSeq
    <3>2. s[i] \in Events
      BY <3>1, ElementOfSeq
    <3>3. s[i].at \in Nat /\ s[i].at <= flips /\ flips \in Nat
      BY <2>1, <3>2, FailoverLogAssumption DEF Past, Events, IInv, TypeOK
    <3> QED
      BY <1>2, <3>3
  <2>2. Past(log) /\ Past(path.data)
    BY DEF IInv, Numbered, FileIsNeverTorn
  <2>3. Before(log)' /\ Before(path.data)'
    BY <1>1, <2>1, <2>2, FilesAreLogs DEF Before
  <2>4. PICK old \in {path.data, <<>>} :
            /\ old = path.data \/ blind
            /\ Extends(old, log, 0)
    BY <1>1 DEF JournalInv
  <2>5. Disk!Newer(path.data)' /\ Disk!Newer(durable)'
    BY <1>1 DEF JournalInv, Disk!Newer
  <2> QED
    BY <1>1, <2>3, <2>4, <2>5 DEF JournalInv, Saving, Extends
<1>3. CASE link_event' = <<>> /\ flips' = flips
  BY <1>1, <1>3, LogRests DEF Reporting
<1> QED
  BY <1>2, <1>3 DEF RunCycle

\* It is appended to the log it is newer than.
LEMMA AppendEventJournal == IInv /\ JournalInv /\ AppendEvent => JournalInv'
<1> SUFFICES ASSUME IInv, JournalInv, AppendEvent PROVE JournalInv'
  OBVIOUS
<1>1. /\ UNCHANGED <<link_event, tmp, path, durable, blind, flips>>
      /\ pc = "append" /\ pc' = "open" /\ log' = Latest(log \o link_event)
      /\ ~Saving /\ Saving'
  BY DEF AppendEvent, disk, Saving
<1> DEFINE e == link_event[1]
<1>2. link_event \in Seq(Events) /\ Len(link_event) = 1 /\ e \in Events /\ link_event = <<e>>
  <2>1. link_event \in Seq(Events)
    BY LogIsSeq DEF IInv, TypeOK
  <2>2. link_event # <<>> /\ Len(link_event) <= 1
    <3>1. link_event # <<>>
      BY <1>1 DEF IInv, PublishInv
    <3>2. Len(link_event) <= 1
      BY DEF IInv, TypeOK
    <3> QED
      BY <3>1, <3>2
  <2>3. Len(link_event) = 1
    <3> DEFINE n == Len(link_event)
    <3>1. n \in Nat
      BY <2>1, LenProperties
    <3>2. n # 0 /\ n <= 1
      BY <2>1, <2>2, EmptySeq
    <3>3. n = 1
      <4> HIDE DEF n
      <4> QED
        BY <3>1, <3>2
    <3> QED
      BY <3>3
  <2>4. link_event[1] \in Events
    BY <2>1, <2>3, ElementOfSeq
  <2>5. link_event = <<link_event[1]>>
    BY <2>1, <2>3
  <2> QED
    BY <2>1, <2>3, <2>4, <2>5
<1>3. Reporting /\ e.at = flips
  BY <1>1 DEF IInv, PublishInv, LoggedInv, Reporting
<1>4. Before(log) /\ Before(path.data) /\ Before(<<>>)
  BY <1>3 DEF JournalInv, Before
<1>5. PICK old \in {path.data, <<>>} :
          /\ old = path.data \/ blind
          /\ Extends(old, log, 0)
  BY <1>1 DEF JournalInv
<1>6. Extends(old, Latest(log \o <<e>>), 1)
  <2>1. old \in Logs
    BY FilesAreLogs
  <2>2. /\ \A i \in 1..Len(old) : old[i].at < e.at
        /\ \A i \in 1..Len(log) : log[i].at < e.at
    BY <1>3, <1>4 DEF Before
  <2> HIDE DEF e
  <2> QED
    BY <1>2, <1>5, <2>1, <2>2, ExtendsAppends
<1>7. Extends(old, log', 1)
  BY <1>1, <1>2, <1>6
<1>8. Disk!Newer(path.data)' /\ Disk!Newer(durable)'
  BY <1>1 DEF JournalInv, Disk!Newer
<1> QED
  BY <1>1, <1>5, <1>7, <1>8 DEF JournalInv, Reporting

\* A save writes the log as it is, and replaces the file by it.
LEMMA SaveJournal == IInv /\ JournalInv /\ Save => JournalInv'
<1> SUFFICES ASSUME IInv, JournalInv, Save PROVE JournalInv'
  OBVIOUS
<1>1. UNCHANGED <<link_event, log, flips>> /\ durable' = durable
  BY DEF Save, OpenTmp, WriteTmp, FsyncTmp, ReplaceFile, SaveFails, disk
<1>2. CASE OpenTmp \/ WriteTmp \/ FsyncTmp
  <2>1. UNCHANGED <<path, blind>> /\ Saving /\ Saving' /\ ~Reporting'
    BY <1>2 DEF OpenTmp, WriteTmp, FsyncTmp, Saving, Reporting
  <2>2. (pc' \in {"fsync", "replace"}) => (tmp'.data = log)
    <3>1. tmp \in Files
      BY DEF IInv, TypeOK
    <3> QED
      BY <1>2, <3>1 DEF OpenTmp, WriteTmp, FsyncTmp, Forced, JournalInv, Files
  <2> QED
    BY <1>1, <2>1, <2>2, LogRests
<1>3. CASE SaveFails
  <2>1. UNCHANGED <<path, blind>> /\ Saving /\ pc' = "release"
    BY <1>3 DEF SaveFails, disk, Saving
  <2>2. ~Reporting' /\ ~Saving'
    BY <2>1 DEF Reporting, Saving
  <2>3. PICK old \in {path.data, <<>>} :
            /\ old = path.data \/ blind
            /\ Extends(old, log, 1)
    BY <2>1 DEF JournalInv
  <2>4. Extends(old, log', 0)
    BY <1>1, <2>3, LogIsSeq DEF Extends
  <2>5. Disk!Newer(path.data)' /\ Disk!Newer(durable)'
    BY <1>1, <2>1 DEF JournalInv, Disk!Newer
  <2> QED
    BY <1>1, <2>1, <2>2, <2>3, <2>4, <2>5 DEF JournalInv
<1>4. CASE ReplaceFile
  <2>1. path'.data = log /\ pc' = "release"
    BY <1>4 DEF ReplaceFile, JournalInv
  <2>2. ~Reporting' /\ ~Saving'
    BY <2>1 DEF Reporting, Saving
  <2>3. PICK old \in {path.data, <<>>} : Extends(old, log, IF Saving THEN 1 ELSE 0)
    BY DEF JournalInv
  <2>4. old \in Logs
    BY FilesAreLogs
  <2>5. Disk!Newer(log)
    BY <2>3, <2>4, ExtendsIsNewer
  <2>6. Extends(log, log, 0)
    BY <2>5, FilesAreLogs, ExtendsSelf
  <2>7. Disk!Newer(path.data)' /\ Disk!Newer(durable)'
    BY <1>1, <2>1, <2>5 DEF JournalInv, Disk!Newer
  <2> QED
    BY <1>1, <2>1, <2>2, <2>6, <2>7 DEF JournalInv
<1> QED
  BY <1>2, <1>3, <1>4 DEF Save

\* A process starts with the log it loads, or with none that it could read.
LEMMA StartJournal ==
    ASSUME IInv, JournalInv, NEW data \in {path.data, durable}, StartWith(data),
           path'.data = data, durable' = durable
    PROVE  JournalInv'
<1>1. /\ data \in Logs /\ Loaded(data) = data /\ <<>> \in Logs
      /\ Disk!Newer(data) /\ Disk!Newer(durable)
  BY FilesAreLogs DEF JournalInv
<1>2. ~Reporting' /\ ~Saving' /\ ~(pc' \in {"fsync", "replace"})
  BY DEF StartWith, Reporting, Saving
<1>3. Extends(data, data, 0) /\ Extends(<<>>, <<>>, 0)
  <2>1. Disk!Newer(<<>>)
    BY EmptyLog DEF Disk!Newer
  <2> QED
    BY <1>1, <2>1, ExtendsSelf
<1>4. \/ log' = data /\ ~blind'
      \/ log' = <<>> /\ blind'
  BY <1>1 DEF StartWith, Load
<1>5. Disk!Newer(path.data)' /\ Disk!Newer(durable)'
  BY <1>1 DEF Disk!Newer
<1> QED
  BY <1>2, <1>3, <1>4, <1>5 DEF JournalInv

LEMMA NextJournal == IInv /\ JournalInv /\ [Next]_vars => JournalInv'
<1> SUFFICES ASSUME IInv, JournalInv, [Next]_vars PROVE JournalInv'
  OBVIOUS
<1>1. CASE Update \/ Release
  <2>1. UNCHANGED <<log, tmp, path, durable, blind, flips, link_event>>
    BY <1>1 DEF Update, Release, disk
  <2>2. (Reporting' => Reporting) /\ ~Saving' /\ ~(pc' \in {"fsync", "replace"})
    BY <1>1, <2>1 DEF Update, Release, Reporting, Saving
  <2>3. Saving' => Saving
    BY <2>2
  <2> QED
    BY <2>1, <2>2, <2>3, LogRests
<1>2. CASE Snapshot \/ UNCHANGED vars
  <2>1. UNCHANGED <<pc, log, tmp, path, durable, blind, flips, link_event>>
    BY <1>2 DEF Snapshot, vars, memory, disk
  <2>2. (Reporting' => Reporting) /\ (Saving' => Saving)
    BY <2>1 DEF Reporting, Saving
  <2>3. (pc' \in {"fsync", "replace"}) => (tmp'.data = log)
    BY <2>1 DEF JournalInv
  <2> QED
    BY <2>1, <2>2, <2>3, LogRests
<1>3. CASE RenameSettles
  <2>1. UNCHANGED <<pc, log, tmp, path, blind, flips, link_event>> /\ durable' = path.data
    BY <1>3, FilesAreLogs DEF RenameSettles, memory
  <2>2. Disk!Newer(path.data)' /\ Disk!Newer(durable)'
    BY <2>1 DEF JournalInv, Disk!Newer
  <2>3. PICK old \in {path.data, <<>>} :
            /\ old = path.data \/ blind
            /\ Extends(old, log, IF Saving THEN 1 ELSE 0)
    BY DEF JournalInv
  <2>4. Extends(old, log', IF Saving' THEN 1 ELSE 0)
    BY <2>1, <2>3 DEF Saving
  <2> QED
    BY <2>1, <2>2, <2>3, <2>4 DEF JournalInv, Reporting, Before
<1>4. CASE ProcessCrash \/ PowerLoss
  BY <1>4, StartJournal DEF ProcessCrash, PowerLoss, disk
<1> QED
  BY <1>1, <1>2, <1>3, <1>4, RunCycleJournal, AppendEventJournal, SaveJournal DEF Next

LEMMA InitJournal == Init => JournalInv
<1> SUFFICES ASSUME Init PROVE JournalInv
  OBVIOUS
<1>1. <<>> \in Logs /\ Disk!Newer(<<>>)
  BY EmptyLog DEF Disk!Newer
<1>2. Extends(<<>>, <<>>, 0)
  BY <1>1, ExtendsSelf
<1> QED
  BY <1>1, <1>2 DEF Init, JournalInv, Reporting, Saving

-----------------------------------------------------------------------------
\* Step by step: a rename records the entries since the last one, the disk
\* catching up settles them, and each process reads the file or does not.
LEMMA StepImplementsJournal ==
    ASSUME IInv, JournalInv, IInv', [Next]_vars
    PROVE  [Disk!Next]_<<Loaded(path.data), Loaded(durable), blind>>
<1>1. /\ path.data \in Logs /\ Loaded(path.data) = path.data
      /\ durable \in Logs /\ Loaded(durable) = durable
      /\ log \in Logs /\ Loaded(log) = log /\ blind \in BOOLEAN /\ path.synced
  <2>1. log # Torn /\ Latest(log) = log
    BY FilesAreLogs, TornIsNoLog, LogIsSeq, LatestOfLog
  <2> QED
    BY <2>1, FilesAreLogs DEF Loaded
<1>2. blind' \in BOOLEAN
  BY DEF IInv, TypeOK
<1>3. CASE \/ RunCycle \/ Update \/ AppendEvent \/ Release \/ Snapshot \/ UNCHANGED vars
           \/ Save /\ ~ReplaceFile
  BY <1>3 DEF RunCycle, Update, AppendEvent, Release, Snapshot, vars, memory, disk,
              Save, OpenTmp, WriteTmp, FsyncTmp, SaveFails
<1>4. CASE Save /\ ReplaceFile
  <2>1. Saving /\ path'.data = log /\ durable' = durable /\ blind' = FALSE
    BY <1>4 DEF ReplaceFile, Saving, JournalInv
  <2>2. PICK old \in {path.data, <<>>} :
            /\ old = path.data \/ blind
            /\ Extends(old, log, 1)
    BY <2>1 DEF JournalInv
  <2>3. PICK s \in Logs : Len(s) >= 1 /\ Disk!Newer(old \o s) /\ log = Latest(old \o s)
    BY <2>2 DEF Extends
  <2>4. Len(s) \in 1..LogLength /\ s \in [1..Len(s) -> Events]
    <3>1. s \in Seq(Events) /\ Len(s) <= LogLength
      BY LogIsSeq
    <3>2. Len(s) \in Nat /\ s \in [1..Len(s) -> Events]
      BY <3>1, LenProperties
    <3> QED
      BY <2>3, <3>1, <3>2, FailoverLogAssumption
  <2>5. log = Disk!LatestOf(old \o s)
    BY <2>3 DEF Latest, Disk!LatestOf
  <2>6. Disk!Record
    BY <1>1, <2>1, <2>2, <2>3, <2>4, <2>5 DEF Disk!Record
  <2> QED
    BY <2>6 DEF Disk!Next
<1>5. CASE RenameSettles
  <2>1. durable' = path.data /\ UNCHANGED <<path, blind>>
    BY <1>1, <1>5 DEF RenameSettles
  <2>2. Disk!Settle
    BY <1>1, <2>1 DEF Disk!Settle
  <2> QED
    BY <2>2 DEF Disk!Next
<1>6. CASE ProcessCrash
  <2>1. UNCHANGED <<path, durable>>
    BY <1>6 DEF ProcessCrash, disk
  <2>2. Disk!Restart
    BY <1>2, <2>1 DEF Disk!Restart
  <2> QED
    BY <2>2 DEF Disk!Next
<1>7. CASE PowerLoss
  <2>1. path'.data = durable /\ UNCHANGED durable
    BY <1>7 DEF PowerLoss
  <2>2. Disk!PowerLoss
    BY <1>2, <2>1 DEF Disk!PowerLoss
  <2> QED
    BY <2>2 DEF Disk!Next
<1> QED
  BY <1>3, <1>4, <1>5, <1>6, <1>7 DEF Next

\* Whatever fails, crashes or loses power, and however often, the log file keeps
\* the journal's promise.
THEOREM LogIsAJournal == Spec => ImplementsJournal
<1>1. Init => Disk!Init
  BY EmptyLog, TornIsNoLog, LogIsSeq, LatestOfLog DEF Init, Disk!Init, Loaded
<1>2. IInv /\ JournalInv /\ [Next]_vars => JournalInv'
  BY NextJournal
<1>3. IInv /\ JournalInv /\ IInv' /\ [Next]_vars
        => [Disk!Next]_<<Loaded(path.data), Loaded(durable), blind>>
  BY StepImplementsJournal
<1> QED
  BY <1>1, <1>2, <1>3, InitJournal, Inductive, PTL DEF Spec, ImplementsJournal, Disk!Spec

\* What holds of the log alone holds of it beside its messages: the composition
\* takes no other step.
THEOREM LogKeepsItsWord ==
    PubSpec => [](TypeOK /\ FileIsNeverTorn /\ SnapshotIsConsistent /\ EveryFlipIsLogged)
<1>1. PubInit => Init
  BY DEF PubInit
<1>2. [PubNext]_pubVars => [Next]_vars
  BY PubNextIsNext
<1> QED
  BY <1>1, <1>2, TypesHold, NoTornFile, ConsistentSnapshots, FlipsAreLogged, PTL DEF PubSpec, Spec

\* The same of the journal: no message in between takes an entry from the file.
THEOREM PublishedLogIsAJournal == PubSpec => ImplementsJournal
<1>1. PubInit => Init
  BY DEF PubInit
<1>2. [PubNext]_pubVars => [Next]_vars
  BY PubNextIsNext
<1> QED
  BY <1>1, <1>2, LogIsAJournal, PTL DEF PubSpec, Spec
=============================================================================
