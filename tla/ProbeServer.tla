----------------------------- MODULE ProbeServer -----------------------------
(***************************************************************************)
(* DynamicProbeServer of pkg/exporter/cmd/server.go, with the probe        *)
(* manager's StopProbe (eventserver.go) and the life cycle of simpleProbe  *)
(* (probe/proto.go).  The agent has it twice.  This is the event server's; *)
(* the metrics server's manager also enters a probe it started in the      *)
(* Prometheus registry and takes out one it stopped (metricserver.go),     *)
(* which is not modelled: no guard here reads the registry, but entering a *)
(* collector a second time panics.                                         *)
(*                                                                         *)
(* A configuration is what toMap makes of the list: a function from probe  *)
(* names to arguments.  Reload holds the server's lock from end to end, so *)
(* it is one step; the loops over Go maps inside it run in any order, so a *)
(* failure may strike after any part of the work.  "starting" is never     *)
(* seen from outside the lock.  Faulty says which calls may fail.          *)
(***************************************************************************)
CONSTANTS Names, Args, Faulty

ASSUME ServerAssumption == Faulty \subseteq {"create", "stop", "start"}

VARIABLES
    lastConfig,
    state,      \* of the probe object in s.probes; "absent" if there is none
    built,      \* the arguments it was created with
    halted      \* history: configured probes stopped by a Reload that then failed, or by Stop

serverVars == <<lastConfig, state, built, halted>>

Configs == UNION {[S -> Args] : S \in SUBSET Names}
NoProbes == [n \in {} |-> n]

\* probeChanges
Changed(cfg, n) == n \in DOMAIN lastConfig /\ n \in DOMAIN cfg /\ lastConfig[n] # cfg[n]
\* Mutant: a probe whose arguments changed is closed and not added again.
ToAddNew(cfg) == {n \in DOMAIN cfg : n \notin DOMAIN lastConfig}
ToAdd(cfg) == {n \in DOMAIN cfg : n \notin DOMAIN lastConfig \/ Changed(cfg, n)}
ToClose(cfg) == {n \in DOMAIN lastConfig : n \notin DOMAIN cfg \/ Changed(cfg, n)}

\* StopProbe passes over a probe that is stopped or has failed.
Running(n) == state[n] = "running"
StopAll(S) == [n \in Names |-> IF n \in S /\ Running(n) THEN "stopped" ELSE state[n]]

ServerInit(cfg) ==
    /\ lastConfig = cfg
    /\ built \in [Names -> Args] /\ \A n \in DOMAIN cfg : built[n] = cfg[n]
    /\ \E bad \in SUBSET DOMAIN cfg :
          /\ "start" \in Faulty \/ bad = {}
          /\ state = [n \in Names |-> IF n \notin DOMAIN cfg THEN "absent"
                                      ELSE IF n \in bad THEN "failed" ELSE "running"]
    /\ halted = {}

\* A new probe cannot be created: nothing has been touched yet.
CreateFails(cfg) ==
    /\ "create" \in Faulty /\ ToAdd(cfg) # {}
    /\ UNCHANGED serverVars

\* Mutant: the configuration is remembered before the old probes are stopped.
StopFailsRemembers(cfg) ==
    /\ "stop" \in Faulty
    /\ \E bad \in ToClose(cfg), done \in SUBSET ToClose(cfg) :
          /\ Running(bad) /\ bad \notin done
          /\ state' = [StopAll(done) EXCEPT ![bad] = "failed"]
          /\ halted' = halted \cup {n \in done : Running(n)}
          /\ lastConfig' = cfg
    /\ UNCHANGED built

\* Stopping one probe fails after some others have been stopped.
StopFails(cfg) ==
    /\ "stop" \in Faulty
    /\ \E bad \in ToClose(cfg), done \in SUBSET ToClose(cfg) :
          /\ Running(bad) /\ bad \notin done
          /\ state' = [StopAll(done) EXCEPT ![bad] = "failed"]
          /\ halted' = halted \cup {n \in done : Running(n)}
    /\ UNCHANGED <<lastConfig, built>>

\* The old probes are stopped, the new ones started; a failed start is logged.
Reloaded(cfg) ==
    \E bad \in SUBSET ToAdd(cfg) :
        /\ "start" \in Faulty \/ bad = {}
        /\ lastConfig' = cfg
        /\ state' = [n \in Names |->
                        IF n \in bad THEN "failed"
                        ELSE IF n \in ToAdd(cfg) THEN "running"
                        ELSE StopAll(ToClose(cfg))[n]]
        /\ built' = [n \in Names |-> IF n \in ToAdd(cfg) THEN cfg[n] ELSE built[n]]
        /\ halted' = (halted \cap DOMAIN cfg) \ ToAdd(cfg)

ReloadError(cfg) == CreateFails(cfg) \/ StopFails(cfg)
Reload(cfg) == ReloadError(cfg) \/ Reloaded(cfg)

\* DynamicProbeServer.Stop gives up at the first probe that does not stop.
ServerStop ==
    /\ \E done \in SUBSET Names :
        \/ /\ done = Names /\ state' = StopAll(done)
        \/ /\ "stop" \in Faulty
           /\ \E bad \in Names \ done : Running(bad) /\ state' = [StopAll(done) EXCEPT ![bad] = "failed"]
    /\ halted' = halted \cup {n \in Names : Running(n) /\ state'[n] = "stopped"}
    /\ UNCHANGED <<lastConfig, built>>

ServerNext == (\E cfg \in Configs : Reload(cfg)) \/ ServerStop
ServerSpec == (\E cfg \in Configs : ServerInit(cfg)) /\ [][ServerNext]_serverVars

-----------------------------------------------------------------------------
(* Properties *)

\* Types; a configured probe has an object in s.probes.
ServerTypeOK ==
    /\ lastConfig \in Configs
    /\ state \in [Names -> {"absent", "running", "stopped", "failed"}]
    /\ built \in [Names -> Args] /\ halted \subseteq Names
    /\ \A n \in DOMAIN lastConfig : state[n] # "absent"

\* Nothing runs that the configuration last accepted by Reload does not ask
\* for, with the arguments it asks for, whatever failed on the way.
NothingStray == \A n \in Names :
    Running(n) => n \in DOMAIN lastConfig /\ built[n] = lastConfig[n]

\* A configured probe that is not running either failed itself or was stopped
\* by a Reload that gave up half-way (or by Stop): a Reload that returns nil
\* never loses a probe it was not asked to close.
LossExplained == \A n \in DOMAIN lastConfig :
    built[n] = lastConfig[n] /\ (state[n] \in {"running", "failed"} \/ n \in halted)

=============================================================================
