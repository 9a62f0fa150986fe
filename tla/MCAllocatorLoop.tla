-------------------------- MODULE MCAllocatorLoop --------------------------
EXTENDS AllocatorLoop

\* Speeds in steps of a twentieth of a 400-unit budget, idle and over-budget
\* ones included: every pair hits each of hungry, slack and the band between.
MCSpeeds == {20 * i : i \in 0..21}

\* The same for the budget of 12.5 bytes of the rounding run.
MCCoarseSpeeds == {20 * i : i \in 0..5}

\* Demands: idle, small, both sides of half the budget, half of it plus less
\* than the room to grow, and more than there is.
MCDemands == {0, 40, 160, 190, 210, 240, 320, 420}
=============================================================================
