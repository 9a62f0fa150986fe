----------------------------- MODULE Controller -----------------------------
(***************************************************************************)
(* main.py's Controller: one poll cycle reads both apps, checks the WAN    *)
(* link, applies the upload cap, arbitrates the download limits, one       *)
(* blocking API call after another, and publishes what came of it to the   *)
(* web server.  Between any two calls an app may go away or come back, the *)
(* WAN may fail over, or the process may be restarted.  The Arbitrator and *)
(* the link tracker are the modules that model them, driven through the    *)
(* actions they offer.                                                     *)
(*                                                                         *)
(* A cycle takes its two clock readings near its start and everything it   *)
(* times is timed from those, so the clock ticks between cycles only; one  *)
(* tick is one poll interval.                                              *)
(*                                                                         *)
(* The apps are external: each has the limit it was last sent, and is      *)
(* reachable or not.  Every disturbance is taken from one stock of         *)
(* MaxFaults (the bound), after which the environment is quiet: what is    *)
(* then still wrong stays wrong.                                           *)
(***************************************************************************)
EXTENDS Arbitrator, LinkTracker

CONSTANTS
    PrimaryTotal,       \* config.total
    BackupTotal,        \* config.backup_total
    LinkCheckMinSpeed,  \* link_check_min_speed
    UploadLimits,       \* UploadLimits[link]: the upload cap on that link
    NoUpload,           \* last_applied_upload_limit when it is None
    OutageConfirm,      \* PEER_OUTAGE_CONFIRM_SECONDS, in clock ticks
    SabLeast,           \* the least limit SABnzbd's client sends
    Unset,              \* an app's limit before anything was sent to it
    Faults,             \* the disturbances a run explores
    MaxFaults           \* bound: how many of them a behaviour has

ASSUME ControllerAssumption ==
    /\ Totals = {PrimaryTotal, BackupTotal}
    /\ Links = {Primary, Backup}
    /\ 0 \in Speeds
    /\ OutageConfirm \in Nat /\ MaxFaults \in Nat
    /\ UploadLimits \in [Links -> Nat]
    /\ NoUpload \notin Nat

VARIABLES
    pc,                         \* the next call of cycle()
    ok,                         \* qbit_ok, sab_ok: no call to a has failed
    reading,                    \* reading[a]: the speed read, 0.0 on failure
    unreachable_for,            \* mono_now - unreachable_since, or Reachable
    pending_rebaseline,
    last_applied_upload_limit,
    published,                  \* ok as the web threads see it
    up,                         \* up[a]: the app's API answers
    real_limit,                 \* the limit really set in each app
    real_upload,
    wan,                        \* the link traffic really takes
    faults,                     \* disturbances left
    given_up,                   \* history: the app was arbitrated as idle
    lost                        \* history: whose latest set got no answer

ctlVars == <<pc, ok, reading, unreachable_for, pending_rebaseline,
             last_applied_upload_limit, published>>
envVars == <<up, real_limit, real_upload, wan, faults>>
history == <<given_up, lost>>
vars == <<arbVars, linkVars, ctlVars, envVars, history>>

Reachable == -1

\* effective_total
EffectiveTotal == IF confirmed = Backup THEN BackupTotal ELSE PrimaryTotal

\* int(), and each client's own treatment of the value.
Sent(a, value) ==
    LET whole == value - (value % Byte)
    IN  IF a = "sab" THEN Greatest(SabLeast, whole) ELSE whole

TypeOK ==
    /\ ArbTypeOK
    /\ LinkTypeOK
    /\ pc \in {"read_qbit", "read_sab", "link", "upload", "arbitrate",
               "apply_qbit", "apply_sab", "publish", "sleep"}
    /\ {ok, published} \subseteq [App -> BOOLEAN]
    /\ reading \in [App -> Speeds]
    /\ unreachable_for \in [App -> Reachable..OutageConfirm]
    /\ pending_rebaseline \in BOOLEAN
    /\ last_applied_upload_limit \in {UploadLimits[l] : l \in Links} \cup {NoUpload}
    /\ up \in [App -> BOOLEAN] /\ DOMAIN real_limit = App
    /\ wan \in Links
    /\ faults \in 0..MaxFaults
    /\ given_up \in [App -> BOOLEAN]
    /\ lost \subseteq App \cup {"upload"}

\* Controller.__init__, and an environment the process comes up in.
Init ==
    /\ ArbInitAt(PrimaryTotal)
    /\ LinkInit
    /\ pc = "read_qbit"
    /\ ok = [a \in App |-> FALSE]
    /\ reading = [a \in App |-> 0]
    /\ unreachable_for = [a \in App |-> Reachable]
    /\ pending_rebaseline = FALSE
    /\ last_applied_upload_limit = NoUpload
    /\ published = [a \in App |-> FALSE]
    /\ given_up = [a \in App |-> FALSE]
    /\ lost = {}
    /\ up \in [App -> BOOLEAN]
    /\ wan \in Links
    /\ real_limit = [a \in App |-> Unset]
    /\ real_upload = Unset
    /\ faults = MaxFaults

Happens(fault) ==
    /\ fault \in Faults /\ faults > 0
    /\ faults' = faults - 1

-----------------------------------------------------------------------------
(***************************************************************************)
(* AppHealth, and _read_speed().                                           *)
(***************************************************************************)
OutageConfirmed(a) == unreachable_for[a] >= OutageConfirm

\* Mutant: the request does not outlive the cycle that raised it.
RequestedNow(returning) == returning

\* A pending rebaseline is kept until a step consumes it.
Requested(returning) == pending_rebaseline \/ returning

\* succeeded()
ReadSucceeds(a) ==
    /\ up[a]
    /\ \E speed \in Speeds : reading' = [reading EXCEPT ![a] = speed]
    /\ ok' = [ok EXCEPT ![a] = TRUE]
    /\ unreachable_for' = [unreachable_for EXCEPT ![a] = Reachable]
    /\ pending_rebaseline' = Requested(OutageConfirmed(a))

\* failed(): only the first failure in a row starts the outage.
ReadFails(a) ==
    /\ ~up[a]
    /\ reading' = [reading EXCEPT ![a] = 0]
    /\ ok' = [ok EXCEPT ![a] = FALSE]
    /\ unreachable_for' = [unreachable_for EXCEPT ![a] = Greatest(@, 0)]
    /\ UNCHANGED pending_rebaseline

ReadSpeed(a, here, next) ==
    /\ pc = here
    /\ pc' = next
    /\ ReadSucceeds(a) \/ ReadFails(a)
    /\ UNCHANGED <<arbVars, linkVars, last_applied_upload_limit, published,
                   envVars, history>>

ReadQbit == ReadSpeed("qbit", "read_qbit", "read_sab")
ReadSab == ReadSpeed("sab", "read_sab", "link")

-----------------------------------------------------------------------------
(***************************************************************************)
(* _maybe_check_link(), _on_link_flip() and _apply_upload_limit().         *)
(***************************************************************************)
IsActive == \/ reading["qbit"] + reading["sab"] >= LinkCheckMinSpeed
            \/ confirmed = Backup

\* Mutant: a flip does not ask for a rebaseline.
FlipForgotten(before, after) == FALSE

FlipRebaselines(before, after) == before # after

\* The outcomes a check may have and what they cost: a failed or misread
\* check is a fault.
CheckReads(outcome) ==
    \/ outcome = wan /\ UNCHANGED faults
    \/ outcome # wan /\ Happens("check")

MaybeCheckLink ==
    /\ pc = "link"
    /\ pc' = "upload"
    /\ \/ SkipCheck(IsActive) /\ UNCHANGED <<pending_rebaseline, faults>>
       \/ \E outcome \in Links \cup {CheckFailed} :
             /\ CheckReads(outcome)
             /\ CheckLink(IsActive, outcome)
             /\ pending_rebaseline' =
                    (pending_rebaseline \/ FlipRebaselines(confirmed, confirmed'))
    /\ UNCHANGED <<arbVars, ok, reading, unreachable_for, last_applied_upload_limit,
                   published, up, real_limit, real_upload, wan, history>>

\* Mutant: the cap is applied once only.
UploadUnset == last_applied_upload_limit = NoUpload

UploadDue == UploadLimits[confirmed] # last_applied_upload_limit

\* Called only when this cycle read qBittorrent.  As with the download limits,
\* the value may reach the app and its answer be lost.
ApplyUploadLimit ==
    /\ pc = "upload"
    /\ pc' = "arbitrate"
    /\ \/ /\ ok["qbit"] /\ UploadDue /\ up["qbit"]
          /\ real_upload' = UploadLimits[confirmed]
          /\ \/ /\ last_applied_upload_limit' = UploadLimits[confirmed]
                /\ lost' = lost \ {"upload"}
                /\ UNCHANGED faults
             \/ /\ Happens("lost")
                /\ lost' = lost \cup {"upload"}
                /\ UNCHANGED last_applied_upload_limit
       \/ /\ ~(ok["qbit"] /\ UploadDue /\ up["qbit"])
          /\ UNCHANGED <<real_upload, last_applied_upload_limit, faults, lost>>
    /\ UNCHANGED <<arbVars, linkVars, ok, reading, unreachable_for, pending_rebaseline,
                   published, up, real_limit, wan, given_up>>

-----------------------------------------------------------------------------
(***************************************************************************)
(* _arbitrate(): the step, then qBittorrent's limit, then SABnzbd's.       *)
(***************************************************************************)

\* Mutant: a single unreachable app pauses arbitration for good.
AllAnswer == \A a \in App : ok[a]

\* Every app was read, or is given up and arbitrated as idle.
MayArbitrate == \A a \in App : ok[a] \/ OutageConfirmed(a)

Arbitrate ==
    /\ pc = "arbitrate"
    /\ IF MayArbitrate
       THEN /\ pc' = "apply_qbit"
            /\ Step(reading["qbit"], reading["sab"], EffectiveTotal, pending_rebaseline)
            /\ pending_rebaseline' = FALSE
            /\ given_up' = [a \in App |-> ~ok[a]]
       ELSE /\ pc' = "publish"
            /\ UNCHANGED <<arbVars, pending_rebaseline, given_up>>
    /\ reading' = [a \in App |-> 0]
    /\ UNCHANGED <<linkVars, ok, unreachable_for, last_applied_upload_limit, published,
                   envVars, lost>>

\* Mutant: an error of the set is not reported.
ErrorDropped(a) == ok

SetError(a) == [ok EXCEPT ![a] = FALSE]

\* The value reaches the app and the answer comes back.
SetSucceeds(a) ==
    /\ ok[a] /\ up[a]
    /\ LimitApplied(a)
    /\ real_limit' = [real_limit EXCEPT ![a] = Sent(a, to_apply[a])]
    /\ lost' = lost \ {a}
    /\ UNCHANGED <<ok, faults>>

\* The value reaches the app but the answer is lost (a timeout, a reset).
SetUnanswered(a) ==
    /\ ok[a] /\ up[a]
    /\ Happens("lost")
    /\ LimitNotApplied(a)
    /\ real_limit' = [real_limit EXCEPT ![a] = Sent(a, to_apply[a])]
    /\ ok' = SetError(a)
    /\ lost' = lost \cup {a}

\* Mutant: the limit is recorded though the call failed.
SetRecorded(a) ==
    /\ ~(ok[a] /\ up[a])
    /\ LimitApplied(a)
    /\ UNCHANGED <<ok, real_limit, faults, lost>>

\* The app is unreachable: it is not called, or the call does not reach it.
SetFails(a) ==
    /\ ~(ok[a] /\ up[a])
    /\ LimitNotApplied(a)
    /\ ok' = SetError(a)
    /\ UNCHANGED <<real_limit, faults, lost>>

ApplyLimit(a, here, next) ==
    /\ pc = here
    /\ pc' = next
    /\ \/ SetSucceeds(a) \/ SetUnanswered(a) \/ SetFails(a)
       \/ to_apply[a] = NoApply /\ UNCHANGED <<arbVars, ok, real_limit, faults, lost>>
    /\ UNCHANGED <<linkVars, reading, unreachable_for, pending_rebaseline,
                   last_applied_upload_limit, published, up, real_upload, wan, given_up>>

ApplyQbit == ApplyLimit("qbit", "apply_qbit", "apply_sab")
ApplySab == ApplyLimit("sab", "apply_sab", "publish")

\* Mutant: an app once reported down stays so.
ErrorSticks == [a \in App |-> ok[a] /\ published[a]]

Reported == ok

\* What the web server answers /api/state with: 200, and not 503.
Healthy == \A a \in App : published[a]

\* state.update(), the last call of cycle(), as far as the health check goes.
Publish ==
    /\ pc = "publish"
    /\ pc' = "sleep"
    /\ published' = Reported
    /\ ok' = [a \in App |-> FALSE]
    /\ UNCHANGED <<arbVars, linkVars, reading, unreachable_for, pending_rebaseline,
                   last_applied_upload_limit, envVars, history>>

\* time.sleep(poll_interval)
Sleep ==
    /\ pc = "sleep"
    /\ pc' = "read_qbit"
    /\ unreachable_for' =
          [a \in App |-> IF unreachable_for[a] = Reachable THEN Reachable
                         ELSE Least(unreachable_for[a] + 1, OutageConfirm)]
    /\ Tick
    /\ LinkTick
    /\ UNCHANGED <<confirmed, pending, pending_count, link_ok, ok, reading, published,
                   pending_rebaseline, last_applied_upload_limit, envVars, history>>

Cycle ==
    \/ ReadQbit \/ ReadSab
    \/ MaybeCheckLink \/ ApplyUploadLimit
    \/ Arbitrate \/ ApplyQbit \/ ApplySab
    \/ Publish \/ Sleep

-----------------------------------------------------------------------------
(***************************************************************************)
(* The environment.                                                        *)
(***************************************************************************)
AppToggles(a) ==
    /\ Happens("outage")
    /\ up' = [up EXCEPT ![a] = ~@]
    /\ UNCHANGED <<arbVars, linkVars, ctlVars, real_limit, real_upload, wan, history>>

SwitchWan ==
    /\ Happens("wan")
    /\ wan' \in Links \ {wan}
    /\ UNCHANGED <<arbVars, linkVars, ctlVars, up, real_limit, real_upload, history>>

\* The process dies at any point and is started again: nothing of its own
\* state survives, the apps keep theirs.
Restart ==
    /\ Happens("restart")
    /\ ArbRestart(PrimaryTotal)
    /\ LinkRestart
    /\ pc' = "read_qbit"
    /\ ok' = [a \in App |-> FALSE]
    /\ reading' = [a \in App |-> 0]
    /\ unreachable_for' = [a \in App |-> Reachable]
    /\ pending_rebaseline' = FALSE
    /\ last_applied_upload_limit' = NoUpload
    /\ published' = [a \in App |-> FALSE]
    /\ lost' = {}
    /\ given_up' = [a \in App |-> FALSE]
    /\ UNCHANGED <<up, real_limit, real_upload, wan>>

Next == Cycle \/ (\E a \in App : AppToggles(a)) \/ SwitchWan \/ Restart

\* "while True: controller.cycle(); time.sleep(...)", every call with a timeout.
Fairness == WF_vars(Cycle)

Spec == Init /\ [][Next]_vars /\ Fairness

-----------------------------------------------------------------------------
(***************************************************************************)
(* Properties.                                                             *)
(***************************************************************************)

\* The controller is a caller the Arbitrator's properties hold for: it only
\* takes steps ArbSpec allows, a restart beginning a new Arbitrator.  So every
\* budget swap reaches step() together with a rebaseline, through skipped
\* cycles, flips back and forth, and applies that fail.
DrivesArbitrator ==
    ArbInit /\ [][ArbNext \/ ArbRestart(PrimaryTotal)]_arbVars

\* An app that was given up and arbitrated as idle is never arbitrated again
\* on the shares of that time: whatever blips of either app come between its
\* return and the next step, that step is a rebaseline.
ReturnRebaselines ==
    \A a \in App : pc = "arbitrate" /\ MayArbitrate /\ ok[a] /\ given_up[a]
                      => pending_rebaseline

\* What the controller takes for an app's limit is what the app has, but for
\* a set whose answer was lost: that stays wrong until a later set is answered.
TrackedIsReal ==
    \A a \in App : limit_known[a] /\ a \notin lost => real_limit[a] = Sent(a, limit[a])

\* The health check passes only while both apps have a limit this process set:
\* errors of this cycle's sets count, and a restart starts over.
HealthyIsLimited == Healthy => \A a \in App : limit_known[a]

\* Once the environment is quiet, the health check tells whether both apps can
\* be reached: it neither stays red after an outage nor green in a new one.
HealthFollowsApps ==
    \A a \in App : /\ <>[](up[a]) => <>[](published[a])
                   /\ <>[](~up[a]) => <>[](~published[a])

\* What the budget leaves the last app standing: all of it, less the overshoot
\* penalty qBittorrent has earned.
SurvivorsPart(a) ==
    IF a = "qbit"
    THEN Corrected(Round(EffectiveTotal), compensator.penalty, EffectiveTotal)
    ELSE Round(EffectiveTotal)

\* Only app a can be reached, and the answer to its latest set was not lost.
Survives(a) == up[a] /\ a \notin lost /\ \A b \in App \ {a} : ~up[b]


\* Once both apps stay reachable, each ends up with a limit this process set and
\* tracks, whatever it was left with before a restart or an outage.
StaleLimitsAreOverwritten ==
    \A a \in App : <>[](\A b \in App : up[b]) => <>[](limit_known[a])

\* The budget settles on that of the link traffic really takes.
BudgetFollowsWan ==
    \A l \in Links : <>[](wan = l) => <>[](confirmed = l)

\* qBittorrent's upload cap settles on that of the confirmed link, unless the
\* answer to its latest set was lost.
AnsweredUploadFollowsLink ==
    <>[](up["qbit"] /\ "upload" \notin lost) => <>[](real_upload = UploadLimits[confirmed])

\* The README's "its own lower value to use while on the backup link": the same
\* with lost answers.
UploadFollowsLink ==
    <>[](up["qbit"]) => <>[](real_upload = UploadLimits[confirmed])
=============================================================================
