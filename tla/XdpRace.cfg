SPECIFICATION XdpSpec
CONSTANTS
    Cpus = {c1, c2}
    Packets <- RacePackets
    Policies <- RacePolicies
    PortTier <- PathPorts
    VipTier <- NoTable
    Blocked = {}
    DevMap = FALSE
    PPM_SCALE = 100
    Sec = 1
    Burst = 1
    NoMuRate = 2
    Elems = {e1}
    NoElem = NoElem
    MaxLag = 1
    MaxAge = 3
SYMMETRY RaceSymmetry
CHECK_DEADLOCK TRUE
INVARIANTS
  BucketCapped
