SPECIFICATION FSpec
CONSTANTS
    r1 = r1
    r2 = r2
    gone = gone
    One = 100
    PPM = 100
    RhoTarget = 70
    Gamma = 2
    DefaultMu = 10
    U32 = 64
    Saturates = FALSE
    Runners <- MCRunners
    Forecasts <- MCForecasts
    Idle <- MCIdle
    NodeURLs <- MCNodeURLs
    NodePushURLs <- MCNodePushURLs
    RhoCap = 85
    MaxLap = 1
INVARIANTS
  SnapshotIntact
PROPERTIES
  FederationReleases
  FederationReaches
