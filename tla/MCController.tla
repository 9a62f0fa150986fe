---------------------------- MODULE MCController ----------------------------
EXTENDS Controller, TLC

CONSTANT MaxPenaltyPercent  \* bound: overshoot is explored up to this correction

MCUploadLimits == (Primary :> 8) @@ (Backup :> 2)

\* A speed over the budget is read of qBittorrent only, while it is alone and
\* the penalty is below the bound; a lower one always can be.
OvershootIsBounded ==
    \A a \in App :
        reading'[a] # reading[a] /\ OverMargin(reading'[a], EffectiveTotal) =>
            /\ a = "qbit" /\ ~up["sab"]
            /\ 100 * compensator.penalty < MaxPenaltyPercent * EffectiveTotal

MCNext == Next /\ OvershootIsBounded

MCSpec == Init /\ [][MCNext]_vars /\ Fairness
=============================================================================
