SPECIFICATION UpdFairSpec
CONSTANTS
    Last = 4
    Good = {0, 1, 2, 4}
    CrossDevice = TRUE
    FaultPlans = {{"kill"}, {"io"}, {"net"}, {"systemctl"}}
CHECK_DEADLOCK FALSE
INVARIANTS
  LastBinarySurvives
PROPERTIES
  ReleaseInstalled
  RollsBack
