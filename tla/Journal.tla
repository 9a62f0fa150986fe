------------------------------ MODULE Journal ------------------------------
(***************************************************************************)
(* What the persisted failover log promises: a log of which a restart      *)
(* reads the latest Kept entries, that only ever gains newer ones, and of  *)
(* which a power loss takes back no more than was not yet on the disk.  A  *)
(* writer that could not read it begins it anew with its next entries.     *)
(***************************************************************************)
EXTENDS Naturals, Sequences

CONSTANTS
    Entries,  \* the entries, records numbered by their field at
    Kept      \* how many entries the log keeps, at least one

VARIABLES
    log,       \* what a restarted process would load
    stable,    \* what it would load after a power loss
    forgetful  \* the writer could not read the log when it started

LatestOf(s) == SubSeq(s, IF Len(s) <= Kept THEN 1 ELSE Len(s) - Kept + 1, Len(s))

Newer(s) == \A i \in 1..Len(s), j \in 1..Len(s) : i < j => s[i].at < s[j].at

Init == log = <<>> /\ stable = <<>> /\ forgetful = FALSE

\* Entries missed by an earlier failed save are recorded with the next one.
Record ==
    /\ \E n \in 1..Kept : \E s \in [1..n -> Entries], old \in {log, <<>>} :
          /\ old = log \/ forgetful
          /\ Newer(old \o s)
          /\ log' = LatestOf(old \o s)
    /\ forgetful' = FALSE
    /\ UNCHANGED stable

Settle == stable' = log /\ UNCHANGED <<log, forgetful>>

Restart == forgetful' \in BOOLEAN /\ UNCHANGED <<log, stable>>

PowerLoss == log' = stable /\ forgetful' \in BOOLEAN /\ UNCHANGED stable

Next == Record \/ Settle \/ Restart \/ PowerLoss

Spec == Init /\ [][Next]_<<log, stable, forgetful>>
=============================================================================
