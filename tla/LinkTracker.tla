---------------------------- MODULE LinkTracker ----------------------------
(***************************************************************************)
(* Which WAN link is in use, as main.py's controller knows it:             *)
(* link_detector.py's LinkStateTracker and next_link_check_decision, and   *)
(* Controller._maybe_check_link, which runs the checks.                    *)
(*                                                                         *)
(* The schedule is kept as the time left to next_link_check, in clock      *)
(* ticks; zero is any time that has come.                                  *)
(***************************************************************************)
EXTENDS Integers

CONSTANTS
    Links,           \* what a check can read
    Primary, Backup, \* the two links the controller tells apart
    CheckFailed,     \* the outcome of a check that raises
    NoLink,          \* _pending when it is None
    ConfirmCount,    \* link_confirm_count, any integer of the environment
    ActiveInterval,  \* link_check_interval
    IdleInterval     \* link_check_idle_interval

ASSUME LinkAssumption ==
    /\ {Primary, Backup} \subseteq Links
    /\ Primary # Backup
    /\ CheckFailed \notin Links /\ NoLink \notin Links
    /\ ConfirmCount \in Int
    /\ ActiveInterval \in Nat /\ IdleInterval \in Nat

VARIABLES
    confirmed,      \* LinkStateTracker.confirmed
    pending,        \* _pending
    pending_count,  \* _pending_count
    link_ok,        \* whether the last check was answered
    due_in          \* next_link_check - now

linkVars == <<confirmed, pending, pending_count, link_ok, due_in>>

\* LinkStateTracker._confirm_count: at least one reading confirms.
Needed == IF ConfirmCount < 1 THEN 1 ELSE ConfirmCount

LinkTypeOK ==
    /\ confirmed \in Links
    /\ pending \in Links \cup {NoLink}
    /\ pending_count \in 0 .. Needed - 1
    /\ link_ok \in BOOLEAN
    /\ due_in \in Nat

LinkInit ==
    /\ confirmed = Primary
    /\ pending = NoLink
    /\ pending_count = 0
    /\ link_ok = TRUE
    /\ due_in = 0

\* A restarted process: nothing of the tracker is persisted.
LinkRestart ==
    /\ confirmed' = Primary
    /\ pending' = NoLink
    /\ pending_count' = 0
    /\ link_ok' = TRUE
    /\ due_in' = 0

\* Mutant: readings that differ from one another are counted together.
SupportingAny(reading) == pending_count + 1

\* Mutant: the count never goes beyond the first reading.
SupportingOnce(reading) == 1

Supporting(reading) == IF reading = pending THEN pending_count + 1 ELSE 1

\* Mutants: a reading of the confirmed link does not forget the pending one;
\* a flip does not reset the count.
ObserveSticky(reading) ==
    IF reading = confirmed
    THEN UNCHANGED <<confirmed, pending, pending_count>>
    ELSE \/ /\ Supporting(reading) >= Needed
            /\ confirmed' = reading /\ pending' = NoLink /\ pending_count' = 0
         \/ /\ Supporting(reading) < Needed
            /\ pending' = reading /\ pending_count' = Supporting(reading)
            /\ UNCHANGED confirmed
ObserveKeepsCount(reading) ==
    /\ pending_count' = IF reading = confirmed THEN 0 ELSE Supporting(reading)
    /\ IF reading = confirmed \/ Supporting(reading) >= Needed
       THEN confirmed' = reading /\ pending' = NoLink
       ELSE UNCHANGED confirmed /\ pending' = reading

\* LinkStateTracker.observe()
Observe(reading) ==
    \/ /\ reading = confirmed \/ Supporting(reading) >= Needed
       /\ confirmed' = reading
       /\ pending' = NoLink
       /\ pending_count' = 0
    \/ /\ reading # confirmed /\ Supporting(reading) < Needed
       /\ pending' = reading
       /\ pending_count' = Supporting(reading)
       /\ UNCHANGED confirmed

\* Mutant: a check scheduled while idle is waited for whatever happens.
ScheduledOnly(is_active) == due_in = 0

\* next_link_check_decision(): a schedule further out than an active one
\* would be is not waited for once downloads are active.
CheckDue(is_active) == \/ due_in = 0
                       \/ is_active /\ due_in > ActiveInterval

NextCheckIn(is_active) == IF is_active THEN ActiveInterval ELSE IdleInterval

\* Controller._maybe_check_link(): a check that raises leaves the tracker as
\* it was and is not retried before the next interval.
CheckLink(is_active, outcome) ==
    /\ CheckDue(is_active)
    /\ due_in' = NextCheckIn(is_active)
    /\ \/ /\ outcome = CheckFailed
          /\ link_ok' = FALSE
          /\ UNCHANGED <<confirmed, pending, pending_count>>
       \/ /\ outcome \in Links
          /\ link_ok' = TRUE
          /\ Observe(outcome)

SkipCheck(is_active) == ~CheckDue(is_active) /\ UNCHANGED linkVars

\* The time to the next check runs down by one tick.
LinkTick == due_in' = (IF due_in = 0 THEN 0 ELSE due_in - 1)
=============================================================================
