---------------------------- MODULE MCFederation ----------------------------
EXTENDS Federation

CONSTANTS r1, r2, gone

MCRunners == {r1, r2}
MCIdle == [fault |-> FALSE, cause |-> "none", overload |-> 0, shed |-> 0, rho |-> 0, conn |-> 0]
MCHot == [fault |-> TRUE, cause |-> "none", overload |-> 66, shed |-> 43, rho |-> 90, conn |-> 9]
MCForecasts == {MCIdle, MCHot}
MCNodeURLs == <<r1, r2>>
MCNodePushURLs == <<gone, r2, r1>>
=============================================================================
