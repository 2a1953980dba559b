----------------------------- MODULE DcicDaemon -----------------------------
(***************************************************************************)
(* The elite-dcic process, cmd/elite-dcic/main.go, around the controller:  *)
(* it reads the latency probe and the forecaster's two bus files, runs one *)
(* Observe per tick and, in enforce mode, writes the decided quota to the  *)
(* best-effort cgroup (pkg/dcic/actuator.go) and, on the hard track, to    *)
(* the L3 cache mask of a resctrl group (pkg/dcic/resctrl.go).             *)
(*                                                                         *)
(* Writes may fail, the process may be killed between a decision and its   *)
(* actuation (the metrics server also exits the process, main.go:124-130), *)
(* and the cgroup outlives it.  The forecaster is the environment: it      *)
(* writes each snapshot to two files one after the other and ignores the   *)
(* failure of either (runner.go:278-279), so the files may disagree; each  *)
(* write is atomic (temporary file and rename).                            *)
(***************************************************************************)
EXTENDS DcicController

CONSTANTS
    HasL3,          \* resctrl L3 info exists (ResctrlActuator.Available)
    CbmBits,        \* width of the full cache mask
    Pressure,       \* bound: scores the CPU pressure (PSI) may amount to
    Projected,      \* bound: scores the forecaster publishes with a fault
    MaxFailures     \* bound: actuation writes that fail

ASSUME DaemonAssumption ==
    /\ HasL3 \in BOOLEAN /\ CbmBits \in Nat \ {0}
    /\ Pressure \subseteq Nat /\ Projected \subseteq Nat /\ MaxFailures \in Nat
    /\ BEQuotaCeil <= 100

VARIABLES
    phase,          \* "idle" (in select), "actuate" (decided, not yet written),
                    \* or how the process ended: "stopped", "crashed"
    hard,           \* useHard
    lcLatency,      \* lcLatencyNs, stored by runLCProbe
    decisionBus, policyBin,     \* the two bus files
    cpuMax,         \* percent in be/cpu.max
    cbm,            \* low-order bits kept in elite_be/schemata
    failures        \* actuation writes that failed, ever

hostVars == <<cpuMax, cbm, failures>>
busVars == <<decisionBus, policyBin>>
daemonVars == <<ctrlVars, phase, hard, lcLatency, busVars, hostVars>>

Record == [there : BOOLEAN, fault : BOOLEAN, projected : Nat]
NoFile == [there |-> FALSE, fault |-> FALSE, projected |-> 0]
Clear == [there |-> TRUE, fault |-> FALSE, projected |-> 0]
Snapshots == {Clear} \cup {[there |-> TRUE, fault |-> TRUE, projected |-> p] : p \in Projected}

Up == phase \in {"idle", "actuate"}

DaemonInit ==
    /\ CtrlIs(NewController("observe"))
    /\ phase = "stopped"
    /\ hard = FALSE
    /\ lcLatency = 0
    /\ decisionBus = NoFile /\ policyBin = NoFile
    /\ cpuMax = 100 /\ cbm = CbmBits
    /\ failures = 0

-----------------------------------------------------------------------------
(* Actuators *)

\* CgroupActuator.SetBEQuotaPercent: what cpu.max then holds, in percent
ClampPct(pct) == AtMost(AtLeast(pct, 1), 100)

\* shrinkCBM: low-order bits kept for a quota
ShrinkCBM(pct) ==
    IF pct >= 100 THEN CbmBits ELSE AtLeast((CbmBits * AtLeast(pct, 1)) \div 100, 1)

MaskFor(pct, h) == IF h /\ HasL3 THEN ShrinkCBM(pct) ELSE cbm

Fail == failures < MaxFailures /\ failures' = failures + 1

\* Mutant: the cache mask is written although the cgroup write failed.
SetMaskAnyway(pct, h) ==
    \/ cpuMax' = ClampPct(pct) /\ cbm' = MaskFor(pct, h) /\ UNCHANGED failures
    \/ Fail /\ cbm' = MaskFor(pct, h) /\ UNCHANGED cpuMax
    \/ Fail /\ h /\ HasL3 /\ cpuMax' = ClampPct(pct) /\ UNCHANGED cbm

\* SetBEQuotaPercent of the soft (~h) or hard (h) actuator: the cgroup first; the
\* cache mask only on the hard track and after the cgroup write succeeded.
SetBEQuotaPercent(pct, h) ==
    \/ cpuMax' = ClampPct(pct) /\ cbm' = MaskFor(pct, h) /\ UNCHANGED failures
    \/ Fail /\ UNCHANGED <<cpuMax, cbm>>
    \/ Fail /\ h /\ HasL3 /\ cpuMax' = ClampPct(pct) /\ UNCHANGED cbm

\* Reset: every error is dropped; removing the resctrl group may fail too.
Reset ==
    \/ cpuMax' = ClampPct(100) /\ cbm' = MaskFor(100, hard) /\ UNCHANGED failures
    \/ Fail /\ cbm' = MaskFor(100, hard) /\ UNCHANGED cpuMax
    \/ Fail /\ hard /\ HasL3 /\ cpuMax' = ClampPct(100) /\ UNCHANGED cbm

-----------------------------------------------------------------------------
(* Process *)

\* Mutant: the cgroup is not brought in line with a new controller.
StartWithoutQuota(m, h) ==
    /\ ~Up
    /\ CtrlBecomes(NewController(m))
    /\ phase' = "idle"
    /\ hard' = h
    /\ UNCHANGED <<lcLatency, busVars, hostVars>>

\* Mutant: the initial quota is written in every mode.
StartAlwaysSets(m, h) ==
    /\ ~Up
    /\ CtrlBecomes(NewController(m))
    /\ phase' = "idle"
    /\ hard' = h
    /\ SetBEQuotaPercent(BEQuotaPct, h)
    /\ UNCHANGED <<lcLatency, busVars>>

\* main: a new controller; in enforce mode its initial quota is written (and a
\* failure ignored).  h stands for what the capability file and -actuate-track
\* select.
Start(m, h) ==
    /\ ~Up
    /\ CtrlBecomes(NewController(m))
    /\ phase' = "idle"
    /\ hard' = h
    /\ IF m = "enforce" THEN SetBEQuotaPercent(BEQuotaPct, h) ELSE UNCHANGED hostVars
    /\ UNCHANGED <<lcLatency, busVars>>

\* runLCProbe
LCProbe(l) ==
    /\ Up
    /\ lcLatency' = l
    /\ UNCHANGED <<ctrlVars, phase, hard, busVars, hostVars>>

\* The score of this host: the probe's latency or the CPU pressure, if higher.
Local(psi) == AtLeast(lcLatency, psi)

\* A faulting bus record overrides the local score, or raises it to the trip.
FromBus(rec, psi) ==
    IF rec.projected > Local(psi) THEN rec.projected ELSE AtLeast(Local(psi), HardDrop)

NoiseScore(psi) ==
    IF policyBin.there /\ policyBin.fault THEN FromBus(policyBin, psi)
    ELSE IF decisionBus.there /\ decisionBus.fault THEN FromBus(decisionBus, psi)
    ELSE Local(psi)

\* Mutant: only a shrink is written to the host.
TickForgetsReclaim(gap, psi) ==
    /\ phase = "idle"
    /\ Observe(NoiseScore(psi), gap)
    /\ phase' = IF mode = "enforce" /\ dec'.action = "shrink_be" THEN "actuate" ELSE "idle"
    /\ UNCHANGED <<hard, lcLatency, busVars, hostVars>>

\* One tick of the loop up to the decision.
Tick(gap, psi) ==
    /\ phase = "idle"
    /\ Observe(NoiseScore(psi), gap)
    /\ phase' = IF mode = "enforce" /\ dec'.action # "none" THEN "actuate" ELSE "idle"
    /\ UNCHANGED <<hard, lcLatency, busVars, hostVars>>

\* The rest of the tick: the write, whose error is only logged.
Actuate ==
    /\ phase = "actuate"
    /\ SetBEQuotaPercent(dec.quota, hard)
    /\ phase' = "idle"
    /\ UNCHANGED <<ctrlVars, hard, lcLatency, busVars>>

\* The end of the process: only the host and the files remain.
LoseMemory ==
    /\ CtrlBecomes(NewController("observe"))
    /\ hard' = FALSE
    /\ lcLatency' = 0

\* Mutant: only an enforcing process resets the host.
StopEnforceOnly ==
    /\ phase = "idle"
    /\ IF mode = "enforce" THEN Reset ELSE UNCHANGED hostVars
    /\ phase' = "stopped"
    /\ LoseMemory
    /\ UNCHANGED busVars

\* SIGINT/SIGTERM: taken by select between ticks, in every mode.
Stop ==
    /\ phase = "idle"
    /\ Reset
    /\ phase' = "stopped"
    /\ LoseMemory
    /\ UNCHANGED busVars

Crash ==
    /\ Up
    /\ phase' = "crashed"
    /\ LoseMemory
    /\ UNCHANGED <<busVars, hostVars>>

\* The forecaster's WriteDecision and WritePolicyState.
WriteDecision(snap) ==
    /\ decisionBus' = snap
    /\ UNCHANGED <<ctrlVars, phase, hard, lcLatency, policyBin, hostVars>>

WritePolicyState(snap) ==
    /\ policyBin' = snap
    /\ UNCHANGED <<ctrlVars, phase, hard, lcLatency, decisionBus, hostVars>>

DaemonNext ==
    \/ \E m \in Modes, h \in BOOLEAN : Start(m, h)
    \/ \E l \in Noise : LCProbe(l)
    \/ \E gap \in 1..MaxGap, psi \in Pressure : Tick(gap, psi)
    \/ Actuate
    \/ Stop
    \/ Crash
    \/ \E snap \in Snapshots : WriteDecision(snap) \/ WritePolicyState(snap)

DaemonSpec == DaemonInit /\ [][DaemonNext]_daemonVars

\* A running process keeps ticking and finishes the tick it is in.
DaemonFair ==
    /\ WF_daemonVars(\E gap \in 1..MaxGap, psi \in Pressure : Tick(gap, psi))
    /\ WF_daemonVars(Actuate)

DaemonFairSpec == DaemonSpec /\ DaemonFair

-----------------------------------------------------------------------------
(* Properties *)

\* Types of the daemon's state: what the actuator writes is always a quota in
\* percent and a cache mask of at least one way, and the bus files hold records.
DaemonTypeOK ==
    /\ TypeOK
    /\ phase \in {"idle", "actuate", "stopped", "crashed"}
    /\ hard \in BOOLEAN
    /\ lcLatency \in Nat
    /\ decisionBus \in Record /\ policyBin \in Record
    /\ cpuMax \in 1..100
    /\ cbm \in 1..CbmBits
    /\ failures \in 0..MaxFailures

\* Between ticks of an enforcing process the cgroup holds the controller's quota,
\* through crashes between decision and write and restarts in any mode, as long
\* as no write has failed.
QuotaApplied ==
    phase = "idle" /\ mode = "enforce" /\ failures = 0 => cpuMax = beQuota

\* On the hard track the cache mask never runs ahead of the CPU quota: when it is
\* tighter than the quota it is because the quota was raised and its own write
\* failed, never because the CPU write failed (ResctrlActuator.SetBEQuotaPercent
\* returns before the mask on a cgroup error).
MaskFollowsCpu ==
    [][phase = "actuate" /\ cbm' # cbm => cpuMax' = ClampPct(dec.quota)]_daemonVars

\* A process that is not in enforce mode leaves the host alone until it is stopped.
OnlyEnforceTouchesHost ==
    [][Up' /\ mode' # "enforce" => UNCHANGED hostVars]_daemonVars

\* As long as no write has failed, a stop in any mode gives BE its whole CPU back,
\* also after a crash of an enforcing process and a restart that only observes.
StopRestores == phase = "stopped" /\ failures = 0 => cpuMax = 100

\* Whatever was decided, crashed or restarted before: once the process stays up
\* in enforce mode, no write fails and the score stays below the trip, the best-
\* effort class gets its whole CPU back on the host, not only in the controller.
QuietRestoresHost ==
    <>[](Up /\ mode = "enforce" /\ failures = 0 /\ noise < HardDrop)
        => <>[](cpuMax = ClampPct(BEQuotaCeil))

=============================================================================
