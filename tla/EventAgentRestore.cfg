SPECIFICATION AgentSpec
CONSTANTS
    p = p
    q = q
    a = a
    b = b
    Names <- MCNames
    Args <- MCArgs
    Startup <- MCStartup
    Edits <- MCEdits
    Faulty = {}
    Reloaders = {r1}
    MetricsFail = FALSE
INVARIANTS ShedThenRestores
