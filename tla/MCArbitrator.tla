---------------------------- MODULE MCArbitrator ----------------------------
EXTENDS Arbitrator

CONSTANTS
    MaxPenaltyPercent,  \* bound: overshoot is explored up to this correction
    FailingApps         \* the apps whose set_download_limit() may fail

MCNext ==
    /\ ArbNext
    /\ compensator'.penalty > compensator.penalty =>
          100 * compensator'.penalty <= MaxPenaltyPercent * last_total'
    /\ \A a \in App \ FailingApps : ~LimitNotApplied(a)

MCSpec == ArbInit /\ [][MCNext]_arbVars
=============================================================================
