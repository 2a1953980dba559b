SPECIFICATION AgentFairSpec
CONSTANTS
    p = p
    q = q
    a = a
    b = b
    Names <- MCNames
    Args <- MCArgs
    Startup <- MCStartup
    Edits <- MCEdits
    Faulty = {"create", "stop", "start"}
    Reloaders = {r1, r2}
    MetricsFail = TRUE
INVARIANTS
  NothingStray
  LossExplained
PROPERTIES
  ConvergesToFile
  EventsReturn
