SPECIFICATION FairSpec
CONSTANTS
    HardDrop = 2
    Noise <- MCNoise
    AlphaNum = 3
    AlphaDen = 10
    MinDwell = 2
    MaxGap = 2
    SlackEpochs = 3
    BEQuotaPct = 4
    BEQuotaFloor = 1
    BEQuotaCeil = 6
    StepPct = 2
INVARIANTS
  SlackSinceChange
PROPERTIES
  ObeysGovernor
