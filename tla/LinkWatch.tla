----------------------------- MODULE LinkWatch -----------------------------
(***************************************************************************)
(* The link tracker polled by the controller's loop against a WAN that     *)
(* fails over, checks that fail or misread it, and a wall clock that is    *)
(* stepped.  Each cycle is followed by one tick of the poll interval; the  *)
(* downloads of a cycle are active or not as they please, except that      *)
(* cycle() counts a confirmed backup link as activity.                     *)
(***************************************************************************)
EXTENDS LinkTracker, Sequences

CONSTANT MaxStep  \* bound: how far a clock step can put off the next check

ASSUME MaxStepAssumption == MaxStep \in Nat

VARIABLES
    wan,       \* the link traffic really takes
    in_cycle,  \* the loop is about to run a cycle, not to sleep
    recent,    \* history: the last Needed readings
    prompt_for \* history: ticks for which nothing excused a wrong link

vars == <<linkVars, wan, in_cycle, recent, prompt_for>>

\* The needed checks on the active cadence, at most one to a poll, and the poll
\* that starts them.
Cadence == IF ActiveInterval = 0 THEN 1 ELSE ActiveInterval
PromptEnough == Needed * Cadence + 1
PromptCap == PromptEnough + 1

TypeOK ==
    /\ LinkTypeOK
    /\ wan \in Links
    /\ in_cycle \in BOOLEAN
    /\ recent \in Seq(Links) /\ Len(recent) <= Needed
    /\ prompt_for \in 0..PromptCap

Init ==
    /\ LinkInit
    /\ wan \in Links
    /\ in_cycle = TRUE
    /\ recent = <<>>
    /\ prompt_for = 0

\* Mutant: only the speeds decide the cadence.
IsActiveBySpeed(busy) == busy

\* is_active in cycle(): the speeds reach link_check_min_speed (busy), or the
\* backup link is confirmed.
IsActive(busy) == busy \/ confirmed = Backup

\* When the fast cadence is promised: "downloads are active", or "whenever
\* currently on the backup link".
Prompt(busy) == busy \/ confirmed = Backup

Slid(reading) == Append(IF Len(recent) < Needed THEN recent ELSE Tail(recent), reading)

Cycle(busy) ==
    /\ in_cycle
    /\ in_cycle' = FALSE
    /\ \/ \E outcome \in Links \cup {CheckFailed} :
             /\ CheckLink(IsActive(busy), outcome)
             /\ recent' = IF outcome \in Links THEN Slid(outcome) ELSE recent
             /\ prompt_for' = IF outcome = wan /\ Prompt(busy) THEN prompt_for ELSE 0
       \/ /\ SkipCheck(IsActive(busy))
          /\ prompt_for' = IF Prompt(busy) THEN prompt_for ELSE 0
          /\ UNCHANGED recent
    /\ UNCHANGED wan

Sleep ==
    /\ ~in_cycle
    /\ in_cycle' = TRUE
    /\ LinkTick
    /\ prompt_for' = IF prompt_for < PromptCap THEN prompt_for + 1 ELSE prompt_for
    /\ UNCHANGED <<confirmed, pending, pending_count, link_ok, wan, recent>>

\* The router moves traffic to another link.
SwitchWan ==
    /\ wan' \in Links \ {wan}
    /\ prompt_for' = 0
    /\ UNCHANGED <<linkVars, in_cycle, recent>>

\* time.time() is stepped (NTP): the schedule is any distance away.
StepClock ==
    /\ due_in' \in 0..MaxStep
    /\ prompt_for' = 0
    /\ UNCHANGED <<confirmed, pending, pending_count, link_ok, wan, in_cycle, recent>>

Next ==
    \/ \E busy \in BOOLEAN : Cycle(busy)
    \/ Sleep
    \/ SwitchWan
    \/ StepClock

Spec == Init /\ [][Next]_vars

-----------------------------------------------------------------------------
\* A wrong link never stays confirmed longer than the needed readings take on
\* the active cadence, once downloads are active (or the backup is confirmed),
\* the WAN is stable and checks are answered: no schedule made while idle, on
\* the old link or before a clock step may hold it up.
DetectionIsTimely == confirmed # wan => prompt_for <= PromptEnough

\* LinkStateTracker implements the debouncing window: the confirmed link flips
\* exactly when the last Needed readings all name another one.  Failed checks
\* count for neither side, and readings of different links are never added up.
Window == INSTANCE Debounce WITH Initial <- Primary, Window <- Needed
ImplementsDebounce == Window!Spec
=============================================================================
