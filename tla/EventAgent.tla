----------------------------- MODULE EventAgent -----------------------------
(***************************************************************************)
(* The event probes of elite-agent and the two loops that reconfigure      *)
(* them: the watcher of the configuration file (inspServer.WatchConfig and *)
(* reload, pkg/exporter/cmd/server.go) and, in semi mode, the forecaster   *)
(* that sheds them on a predicted fault and restores them after a cooldown *)
(* (Runner.applySample, maybeShed, maybeRestore, pkg/forecaster/runner.go, *)
(* through eventProbeShedder).                                             *)
(*                                                                         *)
(* A reload runs on the goroutine of a one-second timer.  `delaying' is    *)
(* cleared before the file is read, so a later event starts another timer, *)
(* and two reloads overlap when the first takes longer than that second.   *)
(* MetricsFail: the metrics server's Reload, which comes first, may fail.  *)
(***************************************************************************)
EXTENDS ProbeServer

CONSTANTS
    Edits,          \* configurations the file may be given
    Startup,        \* the configuration the agent started with
    Reloaders,      \* bound: reload goroutines alive at a time
    MetricsFail

ASSUME AgentAssumption ==
    /\ MetricsFail \in BOOLEAN
    /\ Startup \in Configs /\ Edits \subseteq Configs

VARIABLES
    file,           \* contents of config.yaml, as a set: empty when it does not parse
    event,          \* an fsnotify event is waiting
    delaying,       \* the flag, set while the timer runs
    job,            \* per reload goroutine: "idle", "load", "apply"
    loaded,         \* what it read from the file
    applied,        \* history: the configuration of the last reload that succeeded
    trouble,        \* history: a reload failed or overlapped another, or probes were shed
    prevFault, shedding,
    cooled,         \* the clock has passed restoreAfter
    served          \* parity of ticks

watchVars == <<file, event, delaying, job, loaded, applied>>

semiVars == <<prevFault, shedding, cooled, served>>
agentVars == <<serverVars, watchVars, semiVars, trouble>>

AgentInit ==
    /\ ServerInit(Startup)
    /\ file = {Startup} /\ event = FALSE /\ delaying = FALSE
    /\ job = [r \in Reloaders |-> "idle"] /\ loaded = [r \in Reloaders |-> NoProbes]
    /\ applied = Startup /\ trouble = FALSE
    /\ prevFault = FALSE /\ shedding = FALSE /\ cooled = FALSE /\ served = FALSE

-----------------------------------------------------------------------------
(* The configuration file *)

\* Somebody writes the file; f is empty when the result does not parse.
EditFile(f) ==
    /\ f # file
    /\ file' = f /\ event' = TRUE
    /\ UNCHANGED <<serverVars, semiVars, delaying, job, loaded, applied, trouble>>

\* Mutant: the flag is cleared at the end of the reload, so an event that
\* arrives during one starts no timer.
WatchEventMissed ==
    /\ event
    /\ event' = FALSE
    /\ delaying' = (delaying \/ \A r \in Reloaders : job[r] = "idle")
    /\ UNCHANGED <<serverVars, semiVars, file, job, loaded, applied, trouble>>

\* An event starts the timer unless it is already running.
WatchEvent ==
    /\ event
    /\ event' = FALSE /\ delaying' = TRUE
    /\ UNCHANGED <<serverVars, semiVars, file, job, loaded, applied, trouble>>

\* The timer's goroutine clears the flag, then reloads.
TimerFires(r) ==
    /\ delaying /\ job[r] = "idle"
    /\ delaying' = FALSE
    /\ job' = [job EXCEPT ![r] = "load"]
    /\ trouble' = (trouble \/ \E o \in Reloaders : job[o] # "idle")
    /\ UNCHANGED <<serverVars, semiVars, file, event, loaded, applied>>

\* loadConfig
LoadConfig(r) ==
    /\ job[r] = "load"
    /\ \/ \E cfg \in file :
            /\ loaded' = [loaded EXCEPT ![r] = cfg]
            /\ job' = [job EXCEPT ![r] = "apply"]
       \/ /\ file = {}
          /\ job' = [job EXCEPT ![r] = "idle"]
          /\ UNCHANGED loaded
    /\ UNCHANGED <<serverVars, semiVars, file, event, delaying, applied, trouble>>

EndJob(r) ==
    /\ job' = [job EXCEPT ![r] = "idle"]
    /\ loaded' = [loaded EXCEPT ![r] = NoProbes]

\* The metrics server first; the event server only if that went well.
ApplyConfig(r) ==
    /\ job[r] = "apply"
    /\ \/ MetricsFail /\ trouble' = TRUE /\ UNCHANGED <<serverVars, applied>>
       \/ ReloadError(loaded[r]) /\ trouble' = TRUE /\ UNCHANGED applied
       \/ Reloaded(loaded[r]) /\ applied' = loaded[r] /\ UNCHANGED trouble
    /\ EndJob(r)
    /\ UNCHANGED <<semiVars, file, event, delaying>>

-----------------------------------------------------------------------------
(* Semi mode *)

\* A snapshot that makes the runner shed.
Shed(fault, network) == fault /\ ~prevFault /\ network /\ ~shedding

\* Mutant: a failed restore is not retried.
TickGivesUp(fault, network) ==
    /\ prevFault' = fault /\ served' = ~served
    /\ \/ /\ Shed(fault, network)
          /\ \/ Reloaded(NoProbes) /\ shedding' = TRUE
             \/ ReloadError(NoProbes) /\ shedding' = FALSE
          /\ cooled' = FALSE
       \/ /\ ~Shed(fault, network) /\ shedding /\ cooled
          /\ Reload(Startup) /\ shedding' = FALSE /\ cooled' = FALSE
       \/ /\ ~Shed(fault, network) /\ ~(shedding /\ cooled)
          /\ UNCHANGED <<serverVars, shedding, cooled>>
    /\ trouble' = (trouble \/ Shed(fault, network))
    /\ UNCHANGED watchVars

\* What applySample does with a snapshot: fault, and whether ShouldShedEvents
\* says yes to its cause.  A rising edge may shed; otherwise a due restore is
\* made, and tried again at the next tick if it fails.
applySample(fault, network) ==
    /\ prevFault' = fault /\ served' = ~served
    /\ \/ /\ Shed(fault, network)
          /\ \/ Reloaded(NoProbes) /\ shedding' = TRUE
             \/ ReloadError(NoProbes) /\ shedding' = FALSE
          /\ cooled' = FALSE
       \/ /\ ~Shed(fault, network)
          /\ shedding /\ cooled
          /\ \/ Reloaded(Startup) /\ shedding' = FALSE /\ cooled' = FALSE
             \/ ReloadError(Startup) /\ UNCHANGED <<shedding, cooled>>
       \/ /\ ~Shed(fault, network) /\ ~(shedding /\ cooled)
          /\ UNCHANGED <<serverVars, shedding, cooled>>
    /\ trouble' = (trouble \/ Shed(fault, network))
    /\ UNCHANGED watchVars

CooldownPasses ==
    /\ shedding /\ ~cooled
    /\ cooled' = TRUE
    /\ UNCHANGED <<serverVars, watchVars, prevFault, shedding, served, trouble>>

WatchStep == WatchEvent \/ (\E r \in Reloaders : TimerFires(r) \/ LoadConfig(r) \/ ApplyConfig(r))
SemiStep == CooldownPasses \/ (\E fault, network \in BOOLEAN : applySample(fault, network))

AgentNext ==
    \/ \E f \in {{}} \cup {{cfg} : cfg \in Edits} : EditFile(f)
    \/ WatchStep
    \/ SemiStep

AgentSpec == AgentInit /\ [][AgentNext]_agentVars

Ticks == \E fault, network \in BOOLEAN : applySample(fault, network)
\* A restore that is retried at every tick succeeds in the end.
Restores == Ticks /\ shedding /\ ~shedding'

\* Timers fire, goroutines run, the forecaster's ticker ticks.
AgentFairSpec ==
    /\ AgentSpec
    /\ WF_agentVars(WatchEvent)
    /\ WF_agentVars(\E r \in Reloaders : TimerFires(r))
    /\ \A r \in Reloaders : WF_agentVars(LoadConfig(r)) /\ WF_agentVars(ApplyConfig(r))
    /\ WF_agentVars(CooldownPasses) /\ WF_agentVars(Ticks) /\ SF_agentVars(Restores)

-----------------------------------------------------------------------------
(* Properties *)

\* Types of the agent's state, the probe server's included.
AgentTypeOK ==
    /\ ServerTypeOK
    /\ file \in {{}} \cup {{cfg} : cfg \in Configs}
    /\ event \in BOOLEAN /\ delaying \in BOOLEAN
    /\ job \in [Reloaders -> {"idle", "load", "apply"}] /\ loaded \in [Reloaders -> Configs]
    /\ applied \in Configs /\ trouble \in BOOLEAN
    /\ prevFault \in BOOLEAN /\ shedding \in BOOLEAN /\ cooled \in BOOLEAN /\ served \in BOOLEAN
    /\ cooled => shedding

\* As long as no reload has failed or overlapped another and nothing was shed,
\* the probe server ends up with the last contents of the file: an edit made
\* while a reload is reading is not missed, because the flag is cleared before
\* the file is read.
ConvergesToFile ==
    \A cfg \in Edits : <>[](file = {cfg} /\ ~trouble) => <>[](lastConfig = cfg)

\* Shedding is temporary: event probes shed on a fault are configured again,
\* even when restoring them fails at first.
EventsReturn == shedding /\ lastConfig = NoProbes ~> lastConfig # NoProbes

\* No reload is under way or due, and the forecaster is not shedding.
Settled == ~event /\ ~delaying /\ ~shedding /\ \A r \in Reloaders : job[r] = "idle"

\* docs/predictive-forecaster.md:60 says that semi mode sheds the event probes
\* "for semiCooldown, then restores": once it is over they are configured as
\* the last reload left them.
ShedThenRestores == Settled => lastConfig = applied
=============================================================================
