------------------------- MODULE Controller_proofs -------------------------
(***************************************************************************)
(* The controller takes only the steps ArbSpec allows the Arbitrator's     *)
(* caller, so what Arbitrator_proofs establishes holds of the whole        *)
(* program: for every pair of budgets, outage window, check interval and   *)
(* stock of disturbances.                                                  *)
(***************************************************************************)
EXTENDS Controller, Arbitrator_proofs

\* A budget the Arbitrator has not seen yet waits for it with a rebaseline.
SwapIsPending == EffectiveTotal # last_total => pending_rebaseline

\* A call that was answered has ended the app's outage.
ReadMeansReachable == \A a \in App : ok[a] => unreachable_for[a] = Reachable

\* An app arbitrated as idle is still in that outage, or its end has asked for
\* a rebaseline no step has consumed.
OutageIsRemembered ==
    \A a \in App : given_up[a] => OutageConfirmed(a) \/ pending_rebaseline

\* A decision is carried out before the cycle goes on, qBittorrent's part first.
CallsInOrder ==
    /\ pc \notin {"apply_qbit", "apply_sab"} => Settled
    /\ pc = "apply_sab" => to_apply["qbit"] = NoApply

\* Up to the call that sets it, an unknown limit is one step() asked for.
LimitsToCome ==
    /\ pc = "apply_qbit" => \A a \in App : limit_known[a] \/ to_apply[a] # NoApply
    /\ pc = "apply_sab" => /\ ok["qbit"] => limit_known["qbit"]
                           /\ limit_known["sab"] \/ to_apply["sab"] # NoApply
    /\ pc = "publish" =>
          ((\A a \in App : ok[a]) => \A a \in App : limit_known[a])

CtlInv == /\ IInv
          /\ TypeOK
          /\ SwapIsPending
          /\ ReadMeansReachable
          /\ OutageIsRemembered
          /\ CallsInOrder
          /\ LimitsToCome
          /\ TrackedIsReal
          /\ HealthyIsLimited

-----------------------------------------------------------------------------
\* Each link has one of the two budgets.
LEMMA EffectiveTotalFacts == EffectiveTotal \in Totals /\ PrimaryTotal \in Totals
BY ControllerAssumption DEF ControllerAssumption, EffectiveTotal

\* A new process holds the Arbitrator that __init__ makes.
LEMMA RestartIsInit == ArbRestart(PrimaryTotal) => ArbInit'
BY EffectiveTotalFacts DEF ArbRestart, ArbInit, ArbInitAt

\* The decision a cycle takes is a poll ArbSpec allows: its speeds, its budget,
\* and a rebaseline whenever that budget is another one.
LEMMA ArbitrateDrives ==
    ASSUME CtlInv, Arbitrate
    PROVE  [ArbNext]_arbVars
<1>1. CASE MayArbitrate
  <2> DEFINE q == reading["qbit"]
             s == reading["sab"]
  <2>1. Step(q, s, EffectiveTotal, pending_rebaseline) /\ pc = "arbitrate"
    BY <1>1 DEF Arbitrate
  <2>2. q \in Speeds /\ s \in Speeds
    BY DEF CtlInv, TypeOK, App
  <2>3. Settled
    BY <2>1 DEF CtlInv, CallsInOrder
  <2>4. pending_rebaseline \in BOOLEAN
    BY DEF CtlInv, TypeOK
  <2>5. EffectiveTotal # last_total => pending_rebaseline
    BY DEF CtlInv, SwapIsPending
  <2> HIDE DEF q, s
  <2> QED
    BY <2>1, <2>2, <2>3, <2>4, <2>5, EffectiveTotalFacts DEF ArbNext, Poll
<1>2. CASE ~MayArbitrate
  BY <1>2 DEF Arbitrate
<1> QED
  BY <1>1, <1>2

\* Carrying the decision out is reporting what became of one limit.
LEMMA ApplyDrives ==
    ASSUME NEW a \in App, NEW here, NEW next, ApplyLimit(a, here, next)
    PROVE  [ArbNext]_arbVars
<1>1. CASE SetSucceeds(a)
  BY <1>1 DEF SetSucceeds, ArbNext
<1>2. CASE SetUnanswered(a)
  BY <1>2 DEF SetUnanswered, ArbNext
<1>3. CASE SetFails(a)
  BY <1>3 DEF SetFails, ArbNext
<1>4. CASE UNCHANGED arbVars
  BY <1>4
<1> QED
  BY <1>1, <1>2, <1>3, <1>4 DEF ApplyLimit

\* Every step of the controller and of its environment is one the Arbitrator
\* may be driven through, or leaves it alone.
LEMMA NextDrives ==
    CtlInv /\ [Next]_vars => [ArbNext \/ ArbRestart(PrimaryTotal)]_arbVars
<1> SUFFICES ASSUME CtlInv, [Next]_vars
             PROVE  [ArbNext \/ ArbRestart(PrimaryTotal)]_arbVars
  OBVIOUS
<1>1. CASE ReadQbit \/ ReadSab \/ MaybeCheckLink \/ ApplyUploadLimit \/ Publish
  BY <1>1 DEF ReadQbit, ReadSab, ReadSpeed, MaybeCheckLink, ApplyUploadLimit, Publish
<1>2. CASE Arbitrate
  BY <1>2, ArbitrateDrives
<1>3. CASE ApplyQbit \/ ApplySab
  BY <1>3, ApplyDrives DEF ApplyQbit, ApplySab, App
<1>4. CASE Sleep
  BY <1>4 DEF Sleep, ArbNext
<1>5. CASE Restart
  BY <1>5 DEF Restart
<1>6. CASE SwitchWan \/ \E a \in App : AppToggles(a)
  BY <1>6 DEF SwitchWan, AppToggles
<1>7. CASE UNCHANGED vars
  BY <1>7 DEF vars
<1> QED
  BY <1>1, <1>2, <1>3, <1>4, <1>5, <1>6, <1>7 DEF Next, Cycle

\* So the Arbitrator's own invariant survives every step.
LEMMA NextIInvToo == CtlInv /\ [Next]_vars => IInv'
<1>1. ArbInit' => IInv'
  BY InitIInv, PTL
<1>2. ArbRestart(PrimaryTotal) => IInv'
  BY <1>1, RestartIsInit
<1> QED
  BY <1>2, NextDrives, NextIInv DEF CtlInv

\* A disturbance is taken from the stock.
LEMMA HappensFacts ==
    ASSUME faults \in 0..MaxFaults, NEW f, Happens(f)
    PROVE  faults' \in 0..MaxFaults
BY ControllerAssumption DEF Happens, ControllerAssumption

-----------------------------------------------------------------------------
\* What a Controller is made with satisfies its invariant.
LEMMA CtlInit == Init => CtlInv
<1> SUFFICES ASSUME Init PROVE CtlInv
  OBVIOUS
<1>1. ArbInit
  BY EffectiveTotalFacts DEF Init, ArbInit
<1>2. IInv
  BY <1>1, InitIInv
<1>3. LinkTypeOK
  BY LinkAssumption DEF Init, LinkInit, LinkTypeOK, LinkAssumption, Needed
<1>4. TypeOK
  <2>1. unreachable_for \in [App -> Reachable..OutageConfirm]
    BY ControllerAssumption DEF Init, ControllerAssumption, Reachable
  <2>2. reading \in [App -> Speeds] /\ faults \in 0..MaxFaults
    BY ControllerAssumption DEF Init, ControllerAssumption
  <2>3. {ok, published, given_up} \subseteq [App -> BOOLEAN] /\ lost = {}
    BY DEF Init
  <2> QED
    BY <1>2, <1>3, <2>1, <2>2, <2>3 DEF Init, TypeOK, IInv
<1>5. SwapIsPending
  BY LinkAssumption DEF Init, LinkInit, ArbInitAt, SwapIsPending, EffectiveTotal,
                        LinkAssumption
<1>6. Settled /\ \A a \in App : ~limit_known[a] /\ ~ok[a] /\ ~published[a] /\ ~given_up[a]
  BY DEF Init, ArbInitAt, Settled
<1> QED
  BY <1>2, <1>4, <1>5, <1>6 DEF CtlInv, CallsInOrder, LimitsToCome, TrackedIsReal,
     HealthyIsLimited, Healthy, ReadMeansReachable, OutageIsRemembered, App, Init

\* An answered read ends the outage and, if that was a confirmed one, asks for
\* a rebaseline; a failed read begins one.
LEMMA ReadSpeedInv ==
    ASSUME CtlInv, IInv', NEW a \in App,
           NEW here, here \in {"read_qbit", "read_sab"},
           NEW next, next \in {"read_sab", "link"},
           ReadSpeed(a, here, next)
    PROVE  CtlInv'
<1>1. UNCHANGED <<arbVars, linkVars, last_applied_upload_limit, published, envVars, history>>
  BY DEF ReadSpeed
<1>2. pc \in {"read_qbit", "read_sab"} /\ pc' \in {"read_sab", "link"}
  BY DEF ReadSpeed
<1>3. /\ reading' \in [App -> Speeds] /\ ok' \in [App -> BOOLEAN]
      /\ unreachable_for' \in [App -> Reachable..OutageConfirm]
      /\ pending_rebaseline' \in BOOLEAN
      /\ pending_rebaseline => pending_rebaseline'
      /\ ReadMeansReachable'
      /\ \A b \in App : OutageConfirmed(b) => OutageConfirmed(b)' \/ pending_rebaseline'
  <2>1. /\ reading \in [App -> Speeds] /\ ok \in [App -> BOOLEAN]
        /\ unreachable_for \in [App -> Reachable..OutageConfirm]
        /\ pending_rebaseline \in BOOLEAN /\ ReadMeansReachable
    BY DEF CtlInv, TypeOK
  <2>2. OutageConfirm \in Nat /\ 0 \in Speeds
    BY ControllerAssumption DEF ControllerAssumption
  <2>3. CASE ReadSucceeds(a)
    <3>1. pending_rebaseline' = (pending_rebaseline \/ OutageConfirmed(a))
      BY <2>3 DEF ReadSucceeds, Requested
    <3>2. /\ pending_rebaseline' \in BOOLEAN
          /\ pending_rebaseline => pending_rebaseline'
          /\ OutageConfirmed(a) => pending_rebaseline'
      BY <3>1, Zenon
    <3>3. /\ reading' \in [App -> Speeds] /\ ok' \in [App -> BOOLEAN]
          /\ unreachable_for' \in [App -> Reachable..OutageConfirm]
      BY <2>1, <2>2, <2>3 DEF ReadSucceeds, Reachable
    <3>4. ReadMeansReachable'
      BY <2>1, <2>3 DEF ReadSucceeds, ReadMeansReachable
    <3>5. \A b \in App : OutageConfirmed(b) => b = a \/ OutageConfirmed(b)'
      BY <2>1, <2>3 DEF ReadSucceeds, OutageConfirmed
    <3> QED
      BY <3>2, <3>3, <3>4, <3>5
  <2>4. CASE ReadFails(a)
    BY <2>1, <2>2, <2>4 DEF ReadFails, Greatest, OutageConfirmed, Reachable,
                            ReadMeansReachable
  <2> QED
    BY <2>3, <2>4 DEF ReadSpeed
<1>4. TypeOK'
  BY <1>1, <1>2, <1>3 DEF CtlInv, TypeOK, IInv, linkVars, LinkTypeOK, envVars, history
<1>5. SwapIsPending'
  BY <1>1, <1>3 DEF CtlInv, SwapIsPending, EffectiveTotal, arbVars, linkVars
<1>6. OutageIsRemembered'
  BY <1>1, <1>3 DEF CtlInv, OutageIsRemembered, history
<1>7. Settled'
  BY <1>1, <1>2 DEF CtlInv, CallsInOrder, Settled, arbVars
<1>8. CallsInOrder' /\ LimitsToCome'
  BY <1>2, <1>7 DEF CallsInOrder, LimitsToCome
<1>9. TrackedIsReal' /\ HealthyIsLimited'
  BY <1>1 DEF CtlInv, TrackedIsReal, HealthyIsLimited, Healthy, arbVars, envVars, history
<1> QED
  BY <1>3, <1>4, <1>5, <1>6, <1>8, <1>9 DEF CtlInv

\* A check flips the link only with a rebaseline to go with it.
LEMMA MaybeCheckLinkInv == ASSUME CtlInv, IInv', MaybeCheckLink PROVE CtlInv'
<1>1. /\ UNCHANGED <<arbVars, ok, reading, unreachable_for, last_applied_upload_limit,
                     published, up, real_limit, real_upload, wan, history>>
      /\ pc = "link" /\ pc' = "upload"
  BY DEF MaybeCheckLink
<1>2. LinkTypeOK /\ faults \in 0..MaxFaults /\ pending_rebaseline \in BOOLEAN /\ wan \in Links
  BY DEF CtlInv, TypeOK
<1> DEFINE Checked == /\ LinkTypeOK' /\ faults' \in 0..MaxFaults
                      /\ pending_rebaseline' \in BOOLEAN
                      /\ pending_rebaseline => pending_rebaseline'
                      /\ confirmed' # confirmed => pending_rebaseline'
<1>3. Checked
  <2>1. CASE SkipCheck(IsActive) /\ UNCHANGED <<pending_rebaseline, faults>>
    BY <1>2, <2>1 DEF SkipCheck, linkVars, LinkTypeOK
  <2>2. ASSUME NEW outcome \in Links \cup {CheckFailed},
               CheckReads(outcome), CheckLink(IsActive, outcome),
               pending_rebaseline' =
                   (pending_rebaseline \/ FlipRebaselines(confirmed, confirmed'))
        PROVE  Checked
    <3>1. faults' \in 0..MaxFaults
      BY <1>2, <2>2, HappensFacts DEF CheckReads
    <3>2. due_in' \in Nat /\ link_ok' \in BOOLEAN
      BY <2>2, LinkAssumption DEF CheckLink, NextCheckIn, LinkAssumption
    <3>3. /\ confirmed' \in Links /\ pending' \in Links \cup {NoLink}
          /\ pending_count' \in 0 .. Needed - 1
      <4>1. Needed \in Nat /\ Needed >= 1
        BY LinkAssumption DEF LinkAssumption, Needed
      <4>2. CASE UNCHANGED <<confirmed, pending, pending_count>>
        BY <1>2, <4>2 DEF LinkTypeOK
      <4>3. CASE outcome \in Links /\ Observe(outcome)
        BY <1>2, <4>1, <4>3 DEF LinkTypeOK, Observe, Supporting
      <4> QED
        BY <2>2, <4>2, <4>3 DEF CheckLink
    <3>4. /\ pending_rebaseline' \in BOOLEAN
          /\ pending_rebaseline => pending_rebaseline'
          /\ confirmed' # confirmed => pending_rebaseline'
      BY <2>2, Zenon DEF FlipRebaselines
    <3> QED
      BY <3>1, <3>2, <3>3, <3>4 DEF LinkTypeOK
  <2> QED
    BY <2>1, <2>2 DEF MaybeCheckLink
<1>4. TypeOK'
  BY <1>1, <1>3 DEF CtlInv, TypeOK, IInv, history
<1>5. SwapIsPending'
  BY <1>1, <1>3 DEF CtlInv, SwapIsPending, EffectiveTotal, arbVars
<1>6. OutageIsRemembered' /\ ReadMeansReachable'
  BY <1>1, <1>3 DEF CtlInv, OutageIsRemembered, OutageConfirmed, ReadMeansReachable, history
<1>7. CallsInOrder' /\ LimitsToCome'
  BY <1>1 DEF CtlInv, CallsInOrder, LimitsToCome, Settled, arbVars
<1>8. TrackedIsReal' /\ HealthyIsLimited'
  BY <1>1 DEF CtlInv, TrackedIsReal, HealthyIsLimited, Healthy, arbVars, history
<1> QED
  BY <1>4, <1>5, <1>6, <1>7, <1>8 DEF CtlInv

\* The upload cap is nothing the download limits depend on.
LEMMA ApplyUploadLimitInv == ASSUME CtlInv, IInv', ApplyUploadLimit PROVE CtlInv'
<1>1. /\ UNCHANGED <<arbVars, linkVars, ok, reading, unreachable_for, pending_rebaseline,
                     published, up, real_limit, wan, given_up>>
      /\ pc = "upload" /\ pc' = "arbitrate"
  BY DEF ApplyUploadLimit
<1>2. lost' \in {lost, lost \ {"upload"}, lost \cup {"upload"}}
  BY DEF ApplyUploadLimit
<1>3. TypeOK'
  <2>1. faults' \in 0..MaxFaults
    <3>1. faults \in 0..MaxFaults
      BY DEF CtlInv, TypeOK
    <3>2. UNCHANGED faults \/ Happens("lost")
      BY DEF ApplyUploadLimit
    <3> QED
      BY <3>1, <3>2, HappensFacts
  <2>2. lost' \subseteq App \cup {"upload"}
    BY <1>2 DEF CtlInv, TypeOK
  <2>3. confirmed \in Links
    BY DEF CtlInv, TypeOK, LinkTypeOK
  <2>4. last_applied_upload_limit' \in {UploadLimits[l] : l \in Links} \cup {NoUpload}
    BY <2>3 DEF CtlInv, TypeOK, ApplyUploadLimit
  <2> QED
    BY <1>1, <2>1, <2>2, <2>4 DEF CtlInv, TypeOK, IInv, linkVars, LinkTypeOK
<1>4. SwapIsPending' /\ OutageIsRemembered' /\ ReadMeansReachable'
  BY <1>1 DEF CtlInv, SwapIsPending, EffectiveTotal, arbVars, linkVars,
              OutageIsRemembered, OutageConfirmed, ReadMeansReachable
<1>5. CallsInOrder' /\ LimitsToCome'
  BY <1>1 DEF CtlInv, CallsInOrder, LimitsToCome, Settled, arbVars
<1>6. TrackedIsReal' /\ HealthyIsLimited'
  BY <1>1, <1>2 DEF CtlInv, TrackedIsReal, HealthyIsLimited, Healthy, arbVars, App
<1> QED
  BY <1>3, <1>4, <1>5, <1>6 DEF CtlInv

\* A decision takes the pending rebaseline and the new budget with it, notes
\* who was arbitrated as idle, and asks for every limit not yet known.
LEMMA ArbitrateInv == ASSUME CtlInv, IInv', Arbitrate PROVE CtlInv'
<1>1. /\ UNCHANGED <<linkVars, ok, unreachable_for, last_applied_upload_limit, published,
                     envVars, lost>>
      /\ pc = "arbitrate" /\ reading' = [a \in App |-> 0]
  BY DEF Arbitrate
<1>2. 0 \in Speeds
  BY ControllerAssumption DEF ControllerAssumption
<1>3. CASE MayArbitrate
  <2>1. /\ pc' = "apply_qbit" /\ pending_rebaseline' = FALSE
        /\ given_up' = [a \in App |-> ~ok[a]]
        /\ Step(reading["qbit"], reading["sab"], EffectiveTotal, pending_rebaseline)
    BY <1>3 DEF Arbitrate
  <2>2. TypeOK'
    BY <1>1, <1>2, <2>1 DEF CtlInv, TypeOK, IInv, linkVars, LinkTypeOK, envVars
  <2>3. SwapIsPending'
    BY <1>1, <2>1 DEF Step, SwapIsPending, EffectiveTotal, linkVars
  <2>4. OutageIsRemembered' /\ ReadMeansReachable'
    BY <1>1, <1>3, <2>1 DEF CtlInv, MayArbitrate, OutageIsRemembered, OutageConfirmed,
                            ReadMeansReachable
  <2>5. UNCHANGED <<limit, limit_known>>
    BY <2>1 DEF Step
  <2>6. \A a \in App : limit_known'[a] \/ to_apply'[a] # NoApply
    <3> DEFINE q == reading["qbit"]
               s == reading["sab"]
    <3>1. q \in Nat /\ s \in Nat
      BY SpeedsAssumption DEF CtlInv, TypeOK, App, SpeedsAssumption
    <3>2. Step(q, s, EffectiveTotal, pending_rebaseline) /\ pending_rebaseline \in BOOLEAN
      BY <2>1 DEF CtlInv, TypeOK
    <3> HIDE DEF q, s
    <3>3. ArbTypeOK
      BY DEF CtlInv, IInv
    <3>4. PICK share \in [qbit : Nat, sab : Nat], new_qbit \in Nat :
             to_apply' =
                [qbit |-> IF QbitShouldApply(new_qbit, compensator'.penalty, pending_rebaseline)
                          THEN new_qbit ELSE NoApply,
                 sab |-> IF SabShouldApply(share.sab, pending_rebaseline)
                         THEN share.sab ELSE NoApply]
      BY <3>1, <3>2, <3>3, EffectiveTotalFacts, StepOutcome
    <3> QED
      BY <2>5, <3>4 DEF QbitShouldApply, SabShouldApply, NoApply, App
  <2>7. CallsInOrder' /\ LimitsToCome'
    BY <2>1, <2>6 DEF CallsInOrder, LimitsToCome
  <2>8. TrackedIsReal' /\ HealthyIsLimited'
    BY <1>1, <2>5 DEF CtlInv, TrackedIsReal, HealthyIsLimited, Healthy, envVars
  <2> QED
    BY <2>2, <2>3, <2>4, <2>7, <2>8 DEF CtlInv
<1>4. CASE ~MayArbitrate
  <2>1. pc' = "publish" /\ UNCHANGED <<arbVars, pending_rebaseline, given_up>>
    BY <1>4 DEF Arbitrate
  <2>2. TypeOK'
    BY <1>1, <1>2, <2>1 DEF CtlInv, TypeOK, IInv, linkVars, LinkTypeOK, envVars
  <2>3. SwapIsPending' /\ OutageIsRemembered' /\ ReadMeansReachable'
    BY <1>1, <2>1 DEF CtlInv, SwapIsPending, EffectiveTotal, arbVars, linkVars,
                      OutageIsRemembered, OutageConfirmed, ReadMeansReachable
  <2>4. CallsInOrder' /\ LimitsToCome'
    BY <1>1, <1>4, <2>1 DEF CtlInv, CallsInOrder, LimitsToCome, Settled, arbVars, MayArbitrate
  <2>5. TrackedIsReal' /\ HealthyIsLimited'
    BY <1>1, <2>1 DEF CtlInv, TrackedIsReal, HealthyIsLimited, Healthy, arbVars, envVars
  <2> QED
    BY <2>2, <2>3, <2>4, <2>5 DEF CtlInv
<1> QED
  BY <1>3, <1>4

\* The three outcomes of a call that sets a limit, told apart by what the app
\* has then and what is known of it.
LEMMA ApplyLimitInv ==
    ASSUME CtlInv, IInv', NEW a \in App, NEW here, NEW next,
           \/ a = "qbit" /\ here = "apply_qbit" /\ next = "apply_sab"
           \/ a = "sab" /\ here = "apply_sab" /\ next = "publish",
           ApplyLimit(a, here, next)
    PROVE  CtlInv'
<1>1. /\ pc = here /\ pc' = next
      /\ UNCHANGED <<linkVars, reading, unreachable_for, pending_rebaseline,
                     last_applied_upload_limit, published, up, real_upload, wan, given_up>>
  BY DEF ApplyLimit
<1>2. /\ limit \in [App -> Nat] /\ limit_known \in [App -> BOOLEAN]
      /\ to_apply \in [App -> Nat \cup {NoApply}]
      /\ ok \in [App -> BOOLEAN] /\ lost \subseteq App \cup {"upload"}
      /\ faults \in 0..MaxFaults /\ TrackedIsReal /\ DOMAIN real_limit = App
  BY DEF CtlInv, TypeOK, IInv, ArbTypeOK
<1> DEFINE Others == \A b \in App \ {a} :
               to_apply'[b] = to_apply[b] /\ limit'[b] = limit[b]
               /\ limit_known'[b] = limit_known[b] /\ ok'[b] = ok[b]
               /\ (b \in lost <=> b \in lost')
    Done == /\ to_apply'[a] = NoApply
            /\ limit_known[a] => limit_known'[a]
            /\ \/ limit_known'[a] \/ ~ok'[a]
               \/ to_apply[a] = NoApply /\ limit_known'[a] = limit_known[a]
            /\ ok'[a] => ok[a]
    Typed == /\ ok' \in [App -> BOOLEAN] /\ lost' \subseteq App \cup {"upload"}
             /\ faults' \in 0..MaxFaults
             /\ last_total' = last_total /\ DOMAIN real_limit' = App
<1>3. Others /\ Done /\ Typed
  <2>1. CASE SetSucceeds(a)
    BY <1>2, <2>1 DEF SetSucceeds, LimitApplied, App
  <2>2. CASE SetUnanswered(a)
    <3>1. faults' \in 0..MaxFaults
      BY <1>2, <2>2, HappensFacts DEF SetUnanswered
    <3> QED
      BY <1>2, <2>2, <3>1 DEF SetUnanswered, LimitNotApplied, SetError, App
  <2>3. CASE SetFails(a)
    BY <1>2, <2>3 DEF SetFails, LimitNotApplied, SetError, App
  <2>4. CASE to_apply[a] = NoApply /\ UNCHANGED <<arbVars, ok, real_limit, faults, lost>>
    BY <1>2, <2>4 DEF arbVars, App
  <2> QED
    BY <2>1, <2>2, <2>3, <2>4 DEF ApplyLimit
<1>4. TrackedIsReal'
  <2>1. CASE SetSucceeds(a)
    <3>1. /\ limit' = [limit EXCEPT ![a] = to_apply[a]]
          /\ limit_known' = [limit_known EXCEPT ![a] = TRUE]
          /\ real_limit' = [real_limit EXCEPT ![a] = Sent(a, to_apply[a])]
          /\ lost' = lost \ {a}
      BY <2>1 DEF SetSucceeds, LimitApplied
    <3> QED
      BY <1>2, <3>1 DEF TrackedIsReal
  <2>2. CASE SetUnanswered(a)
    BY <1>2, <2>2 DEF SetUnanswered, LimitNotApplied, TrackedIsReal
  <2>3. CASE SetFails(a)
    BY <1>2, <2>3 DEF SetFails, LimitNotApplied, TrackedIsReal
  <2>4. CASE to_apply[a] = NoApply /\ UNCHANGED <<arbVars, ok, real_limit, faults, lost>>
    BY <1>2, <2>4 DEF arbVars, TrackedIsReal
  <2> QED
    BY <2>1, <2>2, <2>3, <2>4 DEF ApplyLimit
<1> HIDE DEF Others, Done, Typed
<1>5. pc' \in {"apply_sab", "publish"}
  BY <1>1
<1>6. TypeOK'
  BY <1>1, <1>3, <1>5 DEF CtlInv, TypeOK, IInv, linkVars, LinkTypeOK, Typed
<1>7. SwapIsPending' /\ OutageIsRemembered'
  BY <1>1, <1>3 DEF CtlInv, SwapIsPending, EffectiveTotal, linkVars, Typed,
                    OutageIsRemembered, OutageConfirmed
<1>8. ReadMeansReachable'
  BY <1>1, <1>3 DEF CtlInv, ReadMeansReachable, Others, Done
<1>9. CallsInOrder' /\ LimitsToCome'
  BY <1>1, <1>3 DEF CtlInv, CallsInOrder, LimitsToCome, Settled, Others, Done, App
<1>10. HealthyIsLimited'
  BY <1>1, <1>3 DEF CtlInv, HealthyIsLimited, Healthy, Others, Done
<1> QED
  BY <1>4, <1>6, <1>7, <1>8, <1>9, <1>10 DEF CtlInv

\* The cycle publishes its outcomes; the limits they promise are there.
LEMMA PublishInv == ASSUME CtlInv, IInv', Publish PROVE CtlInv'
<1>1. /\ UNCHANGED <<arbVars, linkVars, reading, unreachable_for, pending_rebaseline,
                     last_applied_upload_limit, envVars, history>>
      /\ pc = "publish" /\ pc' = "sleep"
      /\ published' = ok /\ ok' = [a \in App |-> FALSE]
  BY DEF Publish, Reported
<1>2. TypeOK'
  BY <1>1 DEF CtlInv, TypeOK, IInv, linkVars, LinkTypeOK, envVars, history
<1>3. SwapIsPending' /\ OutageIsRemembered' /\ ReadMeansReachable'
  BY <1>1 DEF CtlInv, SwapIsPending, EffectiveTotal, arbVars, linkVars, history,
              OutageIsRemembered, OutageConfirmed, ReadMeansReachable
<1>4. CallsInOrder' /\ LimitsToCome' /\ HealthyIsLimited'
  BY <1>1 DEF CtlInv, CallsInOrder, LimitsToCome, Settled, arbVars, HealthyIsLimited, Healthy
<1>5. TrackedIsReal'
  BY <1>1 DEF CtlInv, TrackedIsReal, arbVars, envVars, history
<1> QED
  BY <1>2, <1>3, <1>4, <1>5 DEF CtlInv

\* Time passes: ages grow, and an outage once confirmed stays so.
LEMMA SleepInv == ASSUME CtlInv, IInv', Sleep PROVE CtlInv'
<1>1. /\ UNCHANGED <<confirmed, pending, pending_count, link_ok, ok, reading, published,
                     pending_rebaseline, last_applied_upload_limit, envVars, history>>
      /\ pc = "sleep" /\ pc' = "read_qbit"
      /\ UNCHANGED <<limit, limit_known, last_total, to_apply>>
  BY DEF Sleep, Tick
<1>2. /\ unreachable_for' \in [App -> Reachable..OutageConfirm]
      /\ \A a \in App : /\ unreachable_for[a] = Reachable => unreachable_for'[a] = Reachable
                        /\ OutageConfirmed(a) => OutageConfirmed(a)'
  BY ControllerAssumption DEF CtlInv, TypeOK, Sleep, Least, Reachable, OutageConfirmed,
                              ControllerAssumption
<1>3. due_in' \in Nat
  BY DEF CtlInv, TypeOK, LinkTypeOK, Sleep, LinkTick
<1>4. TypeOK'
  BY <1>1, <1>2, <1>3 DEF CtlInv, TypeOK, IInv, LinkTypeOK, envVars, history
<1>5. SwapIsPending' /\ OutageIsRemembered' /\ ReadMeansReachable'
  BY <1>1, <1>2 DEF CtlInv, SwapIsPending, EffectiveTotal, history,
                    OutageIsRemembered, ReadMeansReachable
<1>6. CallsInOrder' /\ LimitsToCome' /\ HealthyIsLimited'
  BY <1>1 DEF CtlInv, CallsInOrder, LimitsToCome, Settled, HealthyIsLimited, Healthy
<1>7. TrackedIsReal'
  BY <1>1 DEF CtlInv, TrackedIsReal, envVars, history
<1> QED
  BY <1>4, <1>5, <1>6, <1>7 DEF CtlInv

\* A new process knows nothing, and claims nothing.
LEMMA RestartInv == ASSUME CtlInv, IInv', Restart PROVE CtlInv'
<1>1. /\ confirmed' = Primary /\ last_total' = PrimaryTotal /\ Settled'
      /\ \A a \in App : ~limit_known'[a] /\ ~ok'[a] /\ ~published'[a] /\ ~given_up'[a]
  BY DEF Restart, LinkRestart, ArbRestart, Settled
<1>2. TypeOK'
  <2>1. faults' \in 0..MaxFaults
    BY HappensFacts DEF CtlInv, TypeOK, Restart
  <2>2. LinkTypeOK'
    BY LinkAssumption DEF Restart, LinkRestart, LinkTypeOK, LinkAssumption, Needed
  <2>3. unreachable_for' \in [App -> Reachable..OutageConfirm] /\ reading' \in [App -> Speeds]
    BY ControllerAssumption DEF Restart, ControllerAssumption, Reachable
  <2> QED
    BY <2>1, <2>2, <2>3 DEF CtlInv, TypeOK, IInv, Restart
<1>3. SwapIsPending'
  BY <1>1, LinkAssumption DEF SwapIsPending, EffectiveTotal, LinkAssumption
<1>4. pc' = "read_qbit"
  BY DEF Restart
<1> QED
  BY <1>1, <1>2, <1>3, <1>4 DEF CtlInv, CallsInOrder, LimitsToCome, TrackedIsReal, App,
     HealthyIsLimited, Healthy, ReadMeansReachable, OutageIsRemembered

\* What happens outside leaves the program's state alone.
LEMMA EnvironmentInv ==
    ASSUME CtlInv, IInv', SwitchWan \/ \E a \in App : AppToggles(a)
    PROVE  CtlInv'
<1>1. /\ UNCHANGED <<arbVars, linkVars, ctlVars, real_limit, real_upload, history>>
      /\ up' \in [App -> BOOLEAN] /\ wan' \in Links
  BY DEF CtlInv, TypeOK, SwitchWan, AppToggles
<1>2. faults' \in 0..MaxFaults
  BY HappensFacts DEF CtlInv, TypeOK, SwitchWan, AppToggles
<1>3. TypeOK'
  BY <1>1, <1>2 DEF CtlInv, TypeOK, IInv, linkVars, LinkTypeOK, ctlVars, history
<1>4. SwapIsPending' /\ OutageIsRemembered' /\ ReadMeansReachable'
  BY <1>1 DEF CtlInv, SwapIsPending, EffectiveTotal, arbVars, linkVars, ctlVars, history,
              OutageIsRemembered, OutageConfirmed, ReadMeansReachable
<1>5. CallsInOrder' /\ LimitsToCome' /\ HealthyIsLimited' /\ TrackedIsReal'
  BY <1>1 DEF CtlInv, CallsInOrder, LimitsToCome, Settled, HealthyIsLimited, Healthy,
              TrackedIsReal, arbVars, ctlVars, history
<1> QED
  BY <1>1, <1>3, <1>4, <1>5 DEF CtlInv

-----------------------------------------------------------------------------
\* No step breaks the invariant.
LEMMA CtlNext == CtlInv /\ [Next]_vars => CtlInv'
<1> SUFFICES ASSUME CtlInv, [Next]_vars PROVE CtlInv'
  OBVIOUS
<1>1. IInv'
  BY NextIInvToo
<1>2. CASE ReadQbit
  BY <1>1, <1>2, ReadSpeedInv DEF ReadQbit, App
<1>3. CASE ReadSab
  BY <1>1, <1>3, ReadSpeedInv DEF ReadSab, App
<1>4. CASE MaybeCheckLink
  BY <1>1, <1>4, MaybeCheckLinkInv
<1>5. CASE ApplyUploadLimit
  BY <1>1, <1>5, ApplyUploadLimitInv
<1>6. CASE Arbitrate
  BY <1>1, <1>6, ArbitrateInv
<1>7. CASE ApplyQbit
  BY <1>1, <1>7, ApplyLimitInv DEF ApplyQbit, App
<1>8. CASE ApplySab
  BY <1>1, <1>8, ApplyLimitInv DEF ApplySab, App
<1>9. CASE Publish
  BY <1>1, <1>9, PublishInv
<1>10. CASE Sleep
  BY <1>1, <1>10, SleepInv
<1>11. CASE Restart
  BY <1>1, <1>11, RestartInv
<1>12. CASE SwitchWan \/ \E a \in App : AppToggles(a)
  BY <1>1, <1>12, EnvironmentInv
<1>13. CASE UNCHANGED vars
  <2>1. UNCHANGED <<arbVars, linkVars, ctlVars, envVars, history>>
    BY <1>13 DEF vars
  <2>2. TypeOK'
    BY <1>1, <2>1 DEF CtlInv, TypeOK, IInv, linkVars, LinkTypeOK, ctlVars, envVars, history
  <2>3. SwapIsPending' /\ OutageIsRemembered' /\ ReadMeansReachable'
    BY <2>1 DEF CtlInv, SwapIsPending, EffectiveTotal, arbVars, linkVars, ctlVars, history,
                OutageIsRemembered, OutageConfirmed, ReadMeansReachable
  <2>4. CallsInOrder' /\ LimitsToCome' /\ HealthyIsLimited' /\ TrackedIsReal'
    BY <2>1 DEF CtlInv, CallsInOrder, LimitsToCome, Settled, HealthyIsLimited, Healthy,
                TrackedIsReal, arbVars, ctlVars, envVars, history
  <2> QED
    BY <1>1, <2>2, <2>3, <2>4 DEF CtlInv
<1> QED
  BY <1>2, <1>3, <1>4, <1>5, <1>6, <1>7, <1>8, <1>9, <1>10, <1>11, <1>12, <1>13
     DEF Next, Cycle

\* It holds throughout, whatever the environment does and however often.
THEOREM CtlInductive == Spec => []CtlInv
BY CtlInit, CtlNext, PTL DEF Spec

\* The program's fields keep their types through failures and restarts.
THEOREM CtlTypeCorrect == Spec => []TypeOK
<1>1. CtlInv => TypeOK
  BY DEF CtlInv
<1> QED
  BY <1>1, CtlInductive, PTL

\* main.py's Controller is a caller ArbSpec describes: in particular a changed
\* budget never reaches step() without a rebaseline.
THEOREM ControllerDrivesArbitrator == Spec => DrivesArbitrator
<1>1. Init => ArbInit
  BY EffectiveTotalFacts DEF Init, ArbInit
<1> QED
  BY <1>1, NextDrives, CtlInductive, PTL DEF Spec, DrivesArbitrator

\* An app that comes back after it was arbitrated as idle is rebaselined by the
\* next decision, whatever happened in between.
THEOREM ReturnsAreRebaselined == Spec => []ReturnRebaselines
<1>1. CtlInv => ReturnRebaselines
  <2> SUFFICES ASSUME CtlInv, NEW a \in App, ok[a], given_up[a]
               PROVE  pending_rebaseline
    BY DEF ReturnRebaselines
  <2>1. unreachable_for[a] = Reachable
    BY DEF CtlInv, ReadMeansReachable
  <2>2. ~OutageConfirmed(a)
    BY <2>1, ControllerAssumption DEF OutageConfirmed, Reachable, ControllerAssumption
  <2> QED
    BY <2>2 DEF CtlInv, OutageIsRemembered
<1> QED
  BY <1>1, CtlInductive, PTL

\* What the program takes for an app's limit is what the app has, lost answers
\* aside.
THEOREM TrackedLimitsAreReal == Spec => []TrackedIsReal
<1>1. CtlInv => TrackedIsReal
  BY DEF CtlInv
<1> QED
  BY <1>1, CtlInductive, PTL

\* /api/state answers 200 only while this process has set both apps' limits.
THEOREM HealthyMeansLimited == Spec => []HealthyIsLimited
<1>1. CtlInv => HealthyIsLimited
  BY DEF CtlInv
<1> QED
  BY <1>1, CtlInductive, PTL

\* The Arbitrator's state invariants in the whole program: every limit it asks
\* for, its fair share and its penalty fit the budget of the confirmed link's
\* latest decision, also when a restart or a flip has just changed that.
THEOREM DecisionsFitTheBudget ==
    Spec => [](RecommendedWithinScale /\ FairShareOnScale /\ PenaltyFitsBudget)
<1>1. CtlInv => RecommendedWithinScale /\ FairShareOnScale /\ PenaltyFitsBudget
  BY DEF CtlInv, IInv
<1> QED
  BY <1>1, CtlInductive, PTL

\* And its action properties: two downloading apps are never given more than the
\* budget by an allowed decision, which leaves none of it unused; penalties are
\* earned, SABnzbd is paced, rebaselines even.
THEOREM DecisionsAreSound ==
    Spec => /\ AllowedSplitFitsBudget /\ EveryPenaltyIsEarned
            /\ SabPushesArePaced /\ RebaselineIsEven /\ NoBudgetIsStranded
<1>1. CtlInv => IInv
  BY DEF CtlInv
<1> QED
  BY <1>1, CtlInductive, AllowedSplitStep, PenaltyStep, SabPacedStep,
     RebaselineStep, StrandedStep, PTL
     DEF AllowedSplitFitsBudget, EveryPenaltyIsEarned, SabPushesArePaced,
         RebaselineIsEven, NoBudgetIsStranded


-----------------------------------------------------------------------------
\* The upload cap the program takes for set is the one qBittorrent has, unless
\* the answer to the latest set was lost.
UploadIsReal ==
    last_applied_upload_limit # NoUpload /\ "upload" \notin lost
        => real_upload = last_applied_upload_limit

LEMMA UploadInductive == Spec => []UploadIsReal
<1>1. Init => UploadIsReal
  BY DEF Init, UploadIsReal
<1>2. CtlInv /\ UploadIsReal /\ [Next]_vars => UploadIsReal'
  <2> SUFFICES ASSUME CtlInv, UploadIsReal, [Next]_vars PROVE UploadIsReal'
    OBVIOUS
  <2>1. CASE ApplyUploadLimit
    BY <2>1 DEF ApplyUploadLimit, UploadIsReal
  <2>2. CASE Restart
    BY <2>2 DEF Restart, UploadIsReal
  <2>3. ASSUME NEW a \in App, NEW here, NEW next, ApplyLimit(a, here, next)
        PROVE  UploadIsReal'
    <3>1. lost' \in {lost, lost \ {a}, lost \cup {a}} /\ a # "upload"
      BY <2>3 DEF ApplyLimit, SetSucceeds, SetUnanswered, SetFails, App
    <3>2. UNCHANGED <<last_applied_upload_limit, real_upload>>
      BY <2>3 DEF ApplyLimit
    <3> QED
      BY <3>1, <3>2 DEF UploadIsReal
  <2>4. CASE ApplyQbit \/ ApplySab
    BY <2>3, <2>4 DEF ApplyQbit, ApplySab, App
  <2>5. CASE UNCHANGED <<last_applied_upload_limit, real_upload, lost>>
    BY <2>5 DEF UploadIsReal
  <2>6. CASE ReadQbit \/ ReadSab \/ MaybeCheckLink \/ Arbitrate \/ Publish \/ Sleep
    BY <2>5, <2>6 DEF ReadQbit, ReadSab, ReadSpeed, MaybeCheckLink, Arbitrate, Publish,
                      Sleep, envVars, history
  <2>7. CASE SwitchWan \/ (\E a \in App : AppToggles(a)) \/ UNCHANGED vars
    BY <2>5, <2>7 DEF SwitchWan, AppToggles, vars, ctlVars, envVars, history
  <2> QED
    BY <2>1, <2>2, <2>4, <2>6, <2>7 DEF Next, Cycle
<1> QED
  BY <1>1, <1>2, CtlInductive, PTL DEF Spec

\* When the upload step has been carried out on a reachable qBittorrent, its cap
\* is that of the confirmed link, whatever flips, restarts and failures came
\* before, unless an answer was lost and none has come since.
UploadStepSetsCap ==
    [][ /\ pc = "upload" /\ pc' = "arbitrate"
        /\ ok["qbit"] /\ up["qbit"] /\ "upload" \notin lost'
        => real_upload' = UploadLimits[confirmed'] ]_vars

\* _apply_upload_limit() (main.py:331-361) leaves no other link's cap in place,
\* though it compares with what it set last and not with what the app has.
THEOREM UploadFollowsConfirmed == Spec => []UploadIsReal /\ UploadStepSetsCap
<1>1. CtlInv /\ UploadIsReal /\ [Next]_vars =>
        [ /\ pc = "upload" /\ pc' = "arbitrate"
          /\ ok["qbit"] /\ up["qbit"] /\ "upload" \notin lost'
          => real_upload' = UploadLimits[confirmed'] ]_vars
  <2> SUFFICES ASSUME CtlInv, UploadIsReal, Next, pc = "upload", pc' = "arbitrate",
                      ok["qbit"], up["qbit"], "upload" \notin lost'
               PROVE  real_upload' = UploadLimits[confirmed']
    BY DEF vars, ctlVars
  <2>1. ApplyUploadLimit
    BY DEF Next, Cycle, ReadQbit, ReadSab, ReadSpeed, MaybeCheckLink, Arbitrate,
           ApplyQbit, ApplySab, ApplyLimit, Publish, Sleep, AppToggles, SwitchWan,
           Restart, ctlVars
  <2>2. confirmed' = confirmed
    BY <2>1 DEF ApplyUploadLimit, linkVars
  <2>3. UploadLimits[confirmed] \in Nat /\ NoUpload \notin Nat
    BY ControllerAssumption DEF ControllerAssumption, CtlInv, TypeOK, LinkTypeOK
  <2>4. CASE UploadDue
    BY <2>1, <2>2, <2>4 DEF ApplyUploadLimit
  <2>5. CASE ~UploadDue
    BY <2>1, <2>2, <2>3, <2>5 DEF ApplyUploadLimit, UploadDue, UploadIsReal
  <2> QED
    BY <2>4, <2>5
<1> QED
  BY <1>1, UploadInductive, CtlInductive, PTL DEF Spec, UploadStepSetsCap
=============================================================================
