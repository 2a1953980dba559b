SPECIFICATION DaemonFairSpec
CONSTANTS
    HardDrop = 2
    Noise <- MCNoise
    AlphaNum = 1
    AlphaDen = 2
    MinDwell = 2
    MaxGap = 1
    SlackEpochs = 2
    BEQuotaPct = 100
    BEQuotaFloor = 10
    BEQuotaCeil = 100
    StepPct = 50
    HasL3 = TRUE
    CbmBits = 8
    Pressure <- MCPressure
    Projected <- MCProjected
    MaxFailures = 1
INVARIANTS
  QuotaApplied
  StopRestores
PROPERTIES
  MaskFollowsCpu
  OnlyEnforceTouchesHost
  QuietRestoresHost
