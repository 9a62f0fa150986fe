---------------------------- MODULE FailoverLog ----------------------------
(***************************************************************************)
(* state.py's SharedState: the snapshot the web threads read and the       *)
(* failover log that is kept on disk, written by the poll loop at the end  *)
(* of each cycle (main.py's cycle() calls update() last, several API calls *)
(* after the flip it reports).                                             *)
(*                                                                         *)
(* The file system is external.  A file has the contents the running       *)
(* system sees; a rename reaches the disk some time later, and if the      *)
(* file's data was not forced out first it may get there without it.       *)
(***************************************************************************)
EXTENDS Naturals, Sequences

CONSTANTS
    Primary, Backup,
    LogLength,  \* link_events_len
    Torn,       \* contents that are no JSON
    Free, Poll, \* who holds the lock: nobody, the poll thread
    MaxFlips    \* bound: confirmed link flips

ASSUME FailoverLogAssumption ==
    /\ Primary # Backup
    /\ LogLength \in Nat \ {0}
    /\ Free # Poll
    /\ MaxFlips \in Nat
ASSUME TornAssumption ==
    \A n \in 0..LogLength : Torn \notin [1..n -> [at : 1..MaxFlips, to : {Primary, Backup}]]

VARIABLES
    pc,         \* the next step of the poll thread
    confirmed,  \* the tracker's confirmed link
    link_event, \* the cycle's event: a sequence of none or one
    active,     \* _latest["active_link"]
    log,        \* _link_events
    lock,       \* _lock
    seen,       \* the snapshot a web thread took last
    tmp,        \* the .tmp file, and whether its data is on the disk
    path,       \* link_events_file, likewise
    durable,    \* what link_events_file is after a power loss
    flips,      \* history: flips so far, numbering the events
    started_at, \* history: flips at the start of this process
    blind       \* history: it could not read the log at its start

memory == <<pc, confirmed, link_event, active, log, lock>>
disk == <<tmp, path, durable>>
vars == <<memory, seen, disk, flips, started_at, blind>>

Links == {Primary, Backup}
Events == [at : 1..MaxFlips, to : Links]
Logs == UNION {[1..n -> Events] : n \in 0..LogLength}
Files == [data : Logs \cup {Torn}, synced : BOOLEAN]

TypeOK ==
    /\ pc \in {"cycle", "update", "append", "open", "write", "fsync", "replace", "release"}
    /\ {confirmed, active} \subseteq Links
    /\ link_event \in Logs /\ Len(link_event) <= 1
    /\ log \in Logs
    /\ lock \in {Free, Poll}
    /\ seen \in [active : Links, events : Logs, since : 0..MaxFlips]
    /\ tmp \in Files /\ path \in Files
    /\ durable \in Logs \cup {Torn}
    /\ {flips, started_at} \subseteq 0..MaxFlips
    /\ blind \in BOOLEAN

\* Mutant: the newest are dropped.
Oldest(events) == SubSeq(events, 1, IF Len(events) <= LogLength THEN Len(events) ELSE LogLength)

\* deque(maxlen): the oldest entries are dropped.
Latest(events) ==
    SubSeq(events, IF Len(events) <= LogLength THEN 1 ELSE Len(events) - LogLength + 1, Len(events))

\* What a file that can be read is taken for: torn, for an empty log.
Loaded(data) == IF data = Torn THEN <<>> ELSE Latest(data)

Init ==
    /\ pc = "cycle"
    /\ confirmed = Primary
    /\ link_event = <<>>
    /\ active = Primary
    /\ log = <<>>
    /\ lock = Free
    /\ seen = [active |-> Primary, events |-> <<>>, since |-> 0]
    /\ tmp = [data |-> <<>>, synced |-> TRUE]
    /\ path = [data |-> <<>>, synced |-> TRUE]
    /\ durable = <<>>
    /\ flips = 0
    /\ started_at = 0
    /\ blind = FALSE

-----------------------------------------------------------------------------
(***************************************************************************)
(* The poll thread.                                                        *)
(***************************************************************************)
\* The cycle up to its last call: the link flips or it does not.
RunCycle ==
    /\ pc = "cycle"
    /\ pc' = "update"
    /\ \/ /\ flips < MaxFlips
          /\ flips' = flips + 1
          /\ confirmed' = CHOOSE l \in Links : l # confirmed
          /\ link_event' = <<[at |-> flips', to |-> confirmed']>>
       \/ /\ link_event' = <<>>
          /\ UNCHANGED <<confirmed, flips>>
    /\ UNCHANGED <<active, log, lock, seen, disk, started_at, blind>>

\* update(): the fields, under the lock.
Update ==
    /\ pc = "update" /\ lock = Free
    /\ lock' = Poll
    /\ active' = confirmed
    /\ pc' = IF link_event = <<>> THEN "release" ELSE "append"
    /\ UNCHANGED <<confirmed, link_event, log, seen, disk, flips, started_at, blind>>

AppendEvent ==
    /\ pc = "append"
    /\ pc' = "open"
    /\ log' = Latest(log \o link_event)
    /\ UNCHANGED <<confirmed, link_event, active, lock, seen, disk, flips, started_at, blind>>

\* Mutant: the log file itself is opened for writing.
OpenInPlace ==
    /\ pc = "open"
    /\ pc' = "write"
    /\ path' = [data |-> Torn, synced |-> FALSE]
    /\ UNCHANGED <<tmp, durable, blind>>

\* _save_link_events(): open() truncates the file a crash may have left.
OpenTmp ==
    /\ pc = "open"
    /\ pc' = "write"
    /\ tmp' = [data |-> Torn, synced |-> FALSE]
    /\ UNCHANGED <<path, durable, blind>>

WriteTmp ==
    /\ pc = "write"
    /\ pc' = "fsync"
    /\ tmp' = [data |-> log, synced |-> FALSE]
    /\ UNCHANGED <<path, durable, blind>>

\* Mutant: the data is left to the page cache.
NeverForced(file) == file

Forced(file) == [file EXCEPT !.synced = TRUE]

FsyncTmp ==
    /\ pc = "fsync"
    /\ pc' = "replace"
    /\ tmp' = Forced(tmp)
    /\ UNCHANGED <<path, durable, blind>>

\* os.replace(): from here on the file has what the process knows.
ReplaceFile ==
    /\ pc = "replace"
    /\ pc' = "release"
    /\ path' = tmp
    /\ tmp' = [data |-> Torn, synced |-> FALSE]
    /\ blind' = FALSE
    /\ UNCHANGED durable

\* An OSError of any of them: the file and the log in memory stay as they are.
SaveFails ==
    /\ pc \in {"open", "write", "fsync", "replace"}
    /\ pc' = "release"
    /\ UNCHANGED <<disk, blind>>

Save ==
    /\ OpenTmp \/ WriteTmp \/ FsyncTmp \/ ReplaceFile \/ SaveFails
    /\ UNCHANGED <<confirmed, link_event, active, log, lock, seen, flips, started_at>>

Release ==
    /\ pc = "release"
    /\ pc' = "cycle"
    /\ lock' = Free
    /\ UNCHANGED <<confirmed, link_event, active, log, seen, disk, flips, started_at, blind>>

-----------------------------------------------------------------------------
(***************************************************************************)
(* The web threads, and the system underneath.                             *)
(***************************************************************************)
\* Mutant: the snapshot does not take the lock.
AnyTime == TRUE

MaySnapshot == lock = Free

\* snapshot(): both parts are copied while the lock is held.
Snapshot ==
    /\ MaySnapshot
    /\ seen' = [active |-> active, events |-> log, since |-> started_at]
    /\ UNCHANGED <<memory, disk, flips, started_at, blind>>

\* A rename reaches the disk, with the file's data only if that was forced.
RenameSettles ==
    /\ durable' = IF path.synced THEN path.data ELSE Torn
    /\ UNCHANGED <<memory, seen, tmp, path, flips, started_at, blind>>

\* _load_link_events(): a file that is there but cannot be read (no permission,
\* no descriptor) counts as empty too.
Load(data) ==
    \/ log' = Loaded(data) /\ blind' = FALSE
    \/ log' = <<>> /\ blind' = TRUE

\* A new SharedState, and a new tracker.
StartWith(data) ==
    /\ pc' = "cycle"
    /\ confirmed' = Primary
    /\ link_event' = <<>>
    /\ active' = Primary
    /\ Load(data)
    /\ lock' = Free
    /\ started_at' = flips
    /\ UNCHANGED <<seen, flips>>

\* The process dies between any two steps; what it wrote is still there.
ProcessCrash == StartWith(path.data) /\ UNCHANGED disk

\* The host goes down: only what has reached the disk is still there.
PowerLoss ==
    /\ StartWith(durable)
    /\ path' = [data |-> durable, synced |-> TRUE]
    /\ tmp' = [data |-> Torn, synced |-> FALSE]
    /\ UNCHANGED durable

Next ==
    \/ RunCycle \/ Update \/ AppendEvent \/ Save \/ Release
    \/ Snapshot
    \/ RenameSettles \/ ProcessCrash \/ PowerLoss

Spec == Init /\ [][Next]_vars

-----------------------------------------------------------------------------
\* Neither a process crash nor a power loss, at whatever step of a save, leaves
\* a truncated log file behind (the comment in _save_link_events()).
FileIsNeverTorn == path.data # Torn /\ durable # Torn

\* A snapshot never shows a flip in the failover log together with the link
\* that was active before it, or the other way round.
SnapshotIsConsistent ==
    LET e == seen.events
    IN  e # <<>> /\ e[Len(e)].at > seen.since => seen.active = e[Len(e)].to

\* A flip that the process lives to finish the cycle of is the latest in its
\* failover log, whatever it loaded and whichever saves have failed.
EveryFlipIsLogged ==
    pc = "cycle" /\ flips > started_at => log # <<>> /\ log[Len(log)].at = flips

\* The file implements the journal: saves that fail, crashes and power losses
\* at any point lose no entry that was in it, but for the unsettled ones, and
\* but for all the older ones when a process that could not read them saves.
Disk == INSTANCE Journal WITH Entries <- Events, Kept <- LogLength,
                              log <- Loaded(path.data), stable <- Loaded(durable),
                              forgetful <- blind
ImplementsJournal == Disk!Spec
=============================================================================
