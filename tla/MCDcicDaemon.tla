---------------------------- MODULE MCDcicDaemon ----------------------------
\* Real percentages, in steps that make both clamps bite; a forecaster fault may
\* project a score below the trip.
EXTENDS DcicDaemon
MCNoise == {0, 3}
MCPressure == {0, 1}
MCProjected == {1}
=============================================================================
