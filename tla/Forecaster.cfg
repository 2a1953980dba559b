SPECIFICATION Spec
CONSTANTS
    AlphaNum = 1
    AlphaDen = 2
    Horizon = 1
    AccThreshold = 0
    One = 100
    PPM = 100
    RhoTarget = 70
    Gamma = 2
    DefaultMu = 10
    U32 = 64
    Saturates = FALSE
    Samples <- MCSamples
    HardDrop = 3
    Nano = 1000
    Conns <- MCConns
    Mus <- MCMus
    ConnCap = 3
    MaxGap = 2
    DropRates <- MCDropRates
    EventLen = 24
    MinLen = 32
    KernelRate = 16
INVARIANTS
  ShedsHalfAtLeast
  FallingNotProjected
PROPERTIES
  QuietReopensMap
