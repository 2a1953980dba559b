SPECIFICATION XdpFairSpec
CONSTANTS
    Cpus = {c1}
    Packets <- PathPackets
    Policies <- PathPolicies
    PortTier <- PathPorts
    VipTier <- PathVips
    Blocked <- PathBlocked
    DevMap = FALSE
    PPM_SCALE = 100
    Sec = 1
    Burst = 2
    NoMuRate = 2
    Elems = {e1}
    NoElem = NoElem
    MaxLag = 1
    MaxAge = 4
CHECK_DEADLOCK TRUE
PROPERTIES
  TokensConserved
  TokensComeBack
