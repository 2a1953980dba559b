-------------------------- MODULE MCDcicController --------------------------
\* Values for TLC: HardDrop 2 on a 0..6 scale, so that the average lags a spike
\* for several epochs; quota 1..4 in uneven steps, so that both clamps bite.
EXTENDS DcicController
MCNoise == {0, 1, 2, 6}
=============================================================================
