---------------------------- MODULE DaemonProofs ----------------------------
(***************************************************************************)
(* The daemons of a node: elite-dcic, elite-agent and elite-updater.       *)
(*                                                                         *)
(* The DCIC controller, for every configuration that ConfigAssumption      *)
(* admits: the type invariant together with SlackSinceChange is inductive  *)
(* as it stands.                                                           *)
(*                                                                         *)
(* The elite-dcic process keeps the host in line with its controller.      *)
(* QuotaApplied alone is not inductive: the write that restores it comes   *)
(* one step after the decision that disturbs it.  PendingDecision says     *)
(* what is known in between.                                               *)
(*                                                                         *)
(* Reload keeps running probes and configuration together for any number   *)
(* of probes and arguments, whichever of its calls fail, and the agent,    *)
(* with its file watcher, overlapping reloads and semi mode, does nothing  *)
(* to its probes that the server alone could not.                          *)
(*                                                                         *)
(* A single failure leaves elite-updater a complete binary, for any number *)
(* of releases.  LastBinarySurvives says nothing of where a run stands, so *)
(* it is not inductive: a kill may strike between any two steps.  UpdInv   *)
(* says which of the two places holds the binary at each of them, as long  *)
(* as no run has been cut short, and that a run which follows a cut one    *)
(* ends with a complete binary at dst.                                     *)
(***************************************************************************)
EXTENDS DcicDaemon, EventAgent, Updater, TLAPS

-----------------------------------------------------------------------------
(* elite-updater *)

\* Every release so far has worked.
AllGood == 0..release \subseteq Good

\* Where the complete binary is while no run has been cut short.
Spare == /\ pc \in {"idle", "swap", "keep", "keepCopy"} => dst \in Versions
         /\ pc \in {"removeOld", "copy", "copying"} => prev \in Versions

\* What is known when every release works: the agent never fails its health check, so
\* there is no rollback.
Sound == /\ dst \in Versions => dst <= release
         /\ agent \in 0..release
         /\ pc \notin {"rollback", "restartOld"}
         /\ pc \in {"restart", "health"} => dst \in Versions
         /\ pc = "idle" => dst \in Versions \/ prev \in Versions
         /\ Uncut => Spare

UpdInv == /\ release \in Versions
          /\ pc \in {"idle", "swap", "keep", "keepCopy", "removeOld", "copy", "copying",
                     "restart", "health", "rollback", "restartOld"}
          /\ tmp \in 0..release \cup {Absent} /\ (tmp = Absent <=> pc = "idle")
          /\ AllGood => Sound

\* The invariant is enough: a run that is under way has the downloaded binary.
LEMMA InvSurvives == UpdInv => LastBinarySurvives
  BY UpdaterAssumption, Zenon DEF UpdInv, Sound, AllGood, LastBinarySurvives, Versions, Absent

\* At most one failure strikes.
OneFault == \A plan \in FaultPlans : \A k, l \in plan : k = l

\* Then a failure finds nothing cut short before it.
LEMMA FirstFault ==
  ASSUME OneFault, NEW kind, Fault(kind)
  PROVE  Uncut
  BY DEF OneFault, Fault, Uncut

\* Every step keeps the invariant when at most one failure can strike.
LEMMA UpdStep ==
  ASSUME OneFault, UpdInv, [UpdNext]_updVars
  PROVE  UpdInv'
<1> USE UpdaterAssumption DEF Versions, Absent, Partial
<1>1. CASE Publish
  <2>1. release' = release + 1 /\ release' \in Versions
    BY <1>1 DEF Publish, UpdInv
  <2>2. AllGood' => AllGood
    BY <2>1 DEF AllGood, UpdInv
  <2> QED  BY <1>1, <2>1, <2>2 DEF Publish, UpdInv, Sound, Spare, Uncut
<1>2. ASSUME release' = release, tmp' = tmp, struck' = struck, pc # "idle",
             pc' \in {"swap", "keep", "keepCopy", "removeOld", "copy", "copying", "restart"},
             AllGood => Sound'
      PROVE  UpdInv'
  BY <1>2, Zenon DEF UpdInv, AllGood
<1>0. ASSUME NEW kind \in {"net", "systemctl"}, Fault(kind)
      PROVE  Uncut' => Uncut
  BY <1>0, Zenon DEF Fault, Uncut, UpdInv
<1>3. CASE Download
  <2>1. /\ pc = "idle" /\ UNCHANGED <<release, dst, prev, agent>>
        /\ \/ tmp' = release /\ pc' = "swap" /\ UNCHANGED struck
           \/ Fault("net") /\ UNCHANGED <<tmp, pc>>
    BY <1>3, Zenon DEF Download, DownloadFails, Goto
  <2>2. Uncut' => Uncut
    BY <1>0, <2>1, Zenon DEF UpdInv, Uncut
  <2>3. AllGood => Sound'
    BY <2>1, <2>2, Zenon DEF UpdInv, Sound, Spare
  <2> QED  BY <2>1, <2>2, <2>3 DEF UpdInv, AllGood
<1>4. CASE RemovePrevious
  BY <1>2, <1>4 DEF RemovePrevious, Goto, UpdInv, Sound, Spare, Uncut
<1>5. CASE KeepPrevious
  BY <1>2, <1>5 DEF KeepPrevious, Goto, UpdInv, Sound, Spare, Uncut
<1>6. CASE KeepCopied
  BY <1>2, <1>6, Zenon DEF KeepCopied, Goto, UpdInv, Sound, Spare, Uncut
<1>7. CASE RemoveOld
  BY <1>2, <1>7 DEF RemoveOld, Goto, UpdInv, Sound, Spare, Uncut
<1>8. CASE OpenNew
  BY <1>2, <1>8 DEF OpenNew, Goto, UpdInv, Sound, Spare, Uncut
<1>9. CASE CopyNew
  BY <1>2, <1>9 DEF CopyNew, Goto, UpdInv, Sound, Spare, Uncut
<1>10. CASE Restart
  <2>1. /\ pc = "restart" /\ pc' = "health" /\ UNCHANGED <<release, dst, prev, tmp>>
        /\ \/ agent' = Started /\ UNCHANGED struck
           \/ Fault("systemctl") /\ UNCHANGED agent
    BY <1>10, Zenon DEF Restart, Goto
  <2>2. Uncut' => Uncut
    BY <1>0, <2>1, Zenon DEF UpdInv, Uncut
  <2>3. AllGood => agent' \in 0..release
    BY <2>1 DEF UpdInv, Sound, Started
  <2>4. AllGood => Sound'
    BY <2>1, <2>2, <2>3, Zenon DEF UpdInv, Sound, Spare
  <2> QED  BY <2>1, <2>2, <2>4, Zenon DEF UpdInv, AllGood
<1>11. CASE HealthOK
  BY <1>11, Zenon DEF HealthOK, Return, UpdInv, AllGood, Sound, Spare, Uncut
<1>12. CASE HealthFailed
  <2>1. ~AllGood
    BY <1>12, Zenon DEF HealthFailed, Healthy, UpdInv, AllGood, Sound
  <2> QED  BY <1>12, <2>1, Zenon DEF HealthFailed, Return, Goto, UpdInv, AllGood
<1>13. CASE CopyBack \/ RestartOld
  <2>1. ~AllGood
    BY <1>13, Zenon DEF CopyBack, RestartOld, UpdInv, Sound
  <2> QED  BY <1>13, <2>1, Zenon DEF CopyBack, RestartOld, Return, Fault, Goto, UpdInv, AllGood
<1>14. CASE CopyFails \/ Kill
  <2>1. PICK kind \in {"io", "kill"} : Fault(kind)
    BY <1>14, Zenon DEF CopyFails, Kill
  <2>2. Uncut
    BY <2>1, FirstFault, Zenon DEF UpdInv
  <2>3. pc # "idle" /\ Return /\ UNCHANGED <<release, dst, prev, agent>>
    BY <1>14, Zenon DEF CopyFails, Kill
  <2>4. ~Uncut'
    BY <2>1, Zenon DEF Fault, Uncut, UpdInv
  <2>5. AllGood => dst \in Versions \/ prev \in Versions
    BY <2>2, <2>3, Zenon DEF UpdInv, Sound, Spare
  <2> QED  BY <2>3, <2>4, <2>5, Zenon DEF Return, UpdInv, AllGood, Sound
<1>15. CASE UNCHANGED updVars
  BY <1>15, Zenon DEF updVars, UpdInv, AllGood, Sound, Spare, Uncut
<1> QED  BY <1>1, <1>3, <1>4, <1>5, <1>6, <1>7, <1>8, <1>9, <1>10, <1>11, <1>12, <1>13, <1>14, <1>15, Zenon
         DEF UpdNext, Run

\* While all releases have worked, one kill, full disk, failed systemctl or failed
\* download, wherever it strikes, leaves a complete binary at dst, in previous/ or in
\* the run's hands (atomicSwap, copyFile and rollback of elite-updater), however many
\* releases there are.
THEOREM OneFailureKeepsBinary == OneFault => (UpdSpec => []LastBinarySurvives)
<1> SUFFICES ASSUME OneFault PROVE UpdSpec => []LastBinarySurvives
  BY Zenon
<1>1. UpdInit => UpdInv
  BY UpdaterAssumption DEF UpdInit, UpdInv, AllGood, Sound, Spare, Uncut, Versions, Absent
<1>2. UpdInv /\ [UpdNext]_updVars => UpdInv'
  BY UpdStep, Zenon
<1> QED  BY <1>1, <1>2, InvSurvives, PTL DEF UpdSpec

-----------------------------------------------------------------------------
\* The rounded average of a sample and an earlier average is a natural number.
LEMMA UpdateNat ==
    ASSUME TypeOK, NEW x \in Nat
    PROVE  Update(x) \in Nat
<1> ewma \in Nat
    BY Zenon DEF TypeOK
<1> DEFINE w == AlphaDen - AlphaNum
<1>1. w \in Nat /\ AlphaDen \in Nat \ {0} /\ AlphaNum \in Nat
    BY ConfigAssumption
<1>2. AlphaNum * x \in Nat /\ w * ewma \in Nat
    BY <1>1
<1> HIDE DEF w
<1>3. AlphaNum * x + w * ewma \in Nat
    BY <1>2
<1>4. (AlphaNum * x + w * ewma) \div AlphaDen \in Nat
    BY <1>1, <1>3
<1> QED BY <1>4, Zenon DEF Update, w

\* Every initial state is well typed and has no slack to account for.
LEMMA InitInv == Init => TypeOK /\ SlackSinceChange
BY ConfigAssumption
   DEF Init, CtrlIs, NewController, TypeOK, SlackSinceChange, Modes, Actions

\* One epoch preserves the type invariant and the slack accounting.
LEMMA ObserveInv ==
    ASSUME TypeOK, SlackSinceChange, NEW x \in Nat, NEW gap \in 1..MaxGap, Observe(x, gap)
    PROVE  TypeOK' /\ SlackSinceChange'
<1> USE ConfigAssumption
<1>1. Update(x) \in Nat
    BY UpdateNat, Zenon
<1>2. x \in Nat /\ gap \in Nat \ {0}
    OBVIOUS
<1>3. Elapsed(gap) \in 0..MinDwell /\ (Elapsed(gap) = MinDwell \/ Elapsed(gap) = sinceAction + gap)
    BY <1>2 DEF Elapsed, AtMost, TypeOK
<1>4. Trips(x) \in BOOLEAN
    BY Zenon DEF Trips
<1>5. CASE ShrinkBE(x, gap)
    BY <1>1, <1>2, <1>3, <1>4, <1>5
       DEF ShrinkBE, Fold, Decide, Shrunk, AtLeast, TypeOK, SlackSinceChange, Modes, Actions, Actuates
<1>6. CASE HoldOnFault(x, gap)
    BY <1>1, <1>2, <1>3, <1>4, <1>6
       DEF HoldOnFault, Fold, NoDecision, TypeOK, SlackSinceChange, Modes, Actions
<1>7. CASE ReclaimBE(x, gap)
    BY <1>1, <1>2, <1>3, <1>4, <1>7
       DEF ReclaimBE, Fold, Decide, DwellOK, Reclaimed, AtMost, TypeOK, SlackSinceChange, Modes, Actions, Actuates
<1>8. CASE CountQuiet(x, gap)
    BY <1>1, <1>2, <1>3, <1>4, <1>8
       DEF CountQuiet, Fold, NoDecision, AtMost, TypeOK, SlackSinceChange, Modes, Actions
<1> QED BY <1>5, <1>6, <1>7, <1>8, Zenon DEF Observe

\* Every step preserves the type invariant and the slack accounting.
LEMMA NextInv == TypeOK /\ SlackSinceChange /\ [Next]_ctrlVars => (TypeOK /\ SlackSinceChange)'
<1> SUFFICES ASSUME TypeOK, SlackSinceChange, [Next]_ctrlVars
             PROVE  TypeOK' /\ SlackSinceChange'
    BY Zenon
<1>1. CASE \E x \in Noise, gap \in 1..MaxGap : Observe(x, gap)
    BY <1>1, ObserveInv, ConfigAssumption, Zenon
<1>2. CASE \E m \in Modes : SetMode(m)
    BY <1>2, Zenon DEF SetMode, TypeOK, SlackSinceChange
<1>3. CASE UNCHANGED ctrlVars
    BY <1>3, Zenon DEF ctrlVars, TypeOK, SlackSinceChange
<1> QED BY <1>1, <1>2, <1>3, Zenon DEF Next

\* The controller is type correct for every configuration: in particular the
\* quota it keeps and the quota every Decision carries stay between
\* BEQuotaFloor and BEQuotaCeil ("never below this %", "never above this %").
THEOREM TypeCorrect == Spec => []TypeOK
BY InitInv, NextInv, PTL DEF Spec

\* Slack earned before a quota change is never spent after it, for every
\* configuration (controller.go, the c.slack = 0 resets of Observe).
THEOREM SlackAccounting == Spec => []SlackSinceChange
BY InitInv, NextInv, PTL DEF Spec

-----------------------------------------------------------------------------
\* The initial states are initial states of the governor.
LEMMA InitRefines == Init => Governor!GovInit
BY ConfigAssumption, Zenon DEF Init, CtrlIs, NewController, Governor!GovInit

\* Every step is a governor step or leaves the governor's state alone.
LEMMA StepRefines ==
    TypeOK /\ [Next]_ctrlVars => [Governor!Keep \/ Governor!Move]_(Governor!govVars)
<1> SUFFICES ASSUME TypeOK, [Next]_ctrlVars
             PROVE  [Governor!Keep \/ Governor!Move]_(Governor!govVars)
    BY ZenonT(30)
<1> USE ConfigAssumption
<1>1. ASSUME NEW x \in Noise, NEW gap \in 1..MaxGap, Observe(x, gap)
      PROVE  Governor!Keep \/ Governor!Move
    <2>1. Governor!Rested(gap) = Elapsed(gap)
        BY DEF Governor!Rested, Elapsed, AtMost, TypeOK
    <2>2. interval' = gap
        BY <1>1, Zenon DEF Observe, ShrinkBE, HoldOnFault, ReclaimBE, CountQuiet, Fold
    <2>3. CASE beQuota' = beQuota /\ sinceAction' = Elapsed(gap)
        BY <2>1, <2>2, <2>3, Zenon DEF Governor!Keep
    <2>4. CASE Actuates /\ ShrinkBE(x, gap)
        <3>1. beQuota' \in (beQuota - StepPct)..(beQuota + StepPct) /\ beQuota' \in BEQuotaFloor..BEQuotaCeil
            BY <2>4 DEF ShrinkBE, Shrunk, AtLeast, TypeOK
        <3>2. Elapsed(gap) = MinDwell /\ sinceAction' = 0
            BY <2>4 DEF ShrinkBE, DwellOK, Elapsed, AtMost, TypeOK
        <3> QED BY <2>1, <2>2, <3>1, <3>2, Zenon DEF Governor!Move
    <2>5. CASE Actuates /\ ReclaimBE(x, gap)
        <3>1. beQuota' \in (beQuota - StepPct)..(beQuota + StepPct) /\ beQuota' \in BEQuotaFloor..BEQuotaCeil
            BY <2>5 DEF ReclaimBE, Reclaimed, AtMost, TypeOK
        <3>2. Elapsed(gap) = MinDwell /\ sinceAction' = 0
            BY <2>5 DEF ReclaimBE, DwellOK, Elapsed, AtMost, TypeOK
        <3> QED BY <2>1, <2>2, <3>1, <3>2, Zenon DEF Governor!Move
    <2> QED BY <1>1, <2>3, <2>4, <2>5, Zenon
            DEF Observe, ShrinkBE, HoldOnFault, ReclaimBE, CountQuiet
<1>2. CASE \E m \in Modes : SetMode(m)
    BY <1>2, Zenon DEF SetMode, Governor!govVars
<1>3. CASE UNCHANGED ctrlVars
    BY <1>3, Zenon DEF ctrlVars, Governor!govVars
<1> QED BY <1>1, <1>2, <1>3, Zenon DEF Next

\* The controller implements the governor for every configuration and every
\* sequence of noise scores, late ticks and mode changes.
THEOREM ControllerObeysGovernor == Spec => ObeysGovernor
<1>1. Init => Governor!GovInit
    BY InitRefines, Zenon
<1>2. TypeOK /\ [Next]_ctrlVars => [Governor!Keep \/ Governor!Move]_(Governor!govVars)
    BY StepRefines, Zenon
<1> QED BY <1>1, <1>2, TypeCorrect, PTL DEF Spec, ObeysGovernor, Governor!GovSpec
-----------------------------------------------------------------------------
(* The process *)

\* Between a decision and its write the process is enforcing and the decision
\* carries the quota the controller has already adopted.
PendingDecision == phase = "actuate" => mode = "enforce" /\ dec.quota = beQuota

DaemonInv ==
    /\ DaemonTypeOK /\ SlackSinceChange
    /\ PendingDecision
    /\ QuotaApplied
    /\ StopRestores

\* The clamp of the actuator does not change a quota the controller may hold, and
\* the mask it writes keeps at least one bit and at most the full mask.
LEMMA ActuatorRange ==
    /\ \A q \in BEQuotaFloor..BEQuotaCeil : ClampPct(q) = q /\ q \in 1..100
    /\ ClampPct(100) = 100
    /\ \A q \in 1..100 : ShrinkCBM(q) \in 1..CbmBits
<1>1. \A q \in BEQuotaFloor..BEQuotaCeil : ClampPct(q) = q /\ q \in 1..100
    BY ConfigAssumption, DaemonAssumption DEF ClampPct, AtMost, AtLeast
<1>2. ClampPct(100) = 100
    BY Zenon DEF ClampPct, AtMost, AtLeast
<1>3. ASSUME NEW q \in 1..100
      PROVE  ShrinkCBM(q) \in 1..CbmBits
    <2>1. CbmBits * q \in Nat /\ CbmBits * q <= CbmBits * 100
        BY DaemonAssumption
    <2>2. (CbmBits * q) \div 100 \in Nat /\ (CbmBits * q) \div 100 <= CbmBits
        BY <2>1, DaemonAssumption
    <2> QED BY <2>2, DaemonAssumption DEF ShrinkCBM, AtLeast
<1> QED BY <1>1, <1>2, <1>3, Zenon

\* An actuation write leaves the host in range; unless it fails, cpu.max is the
\* quota that was written.
LEMMA WriteEffect ==
    ASSUME DaemonTypeOK, NEW q \in 1..100, ClampPct(q) = q, NEW h \in BOOLEAN,
           SetBEQuotaPercent(q, h)
    PROVE  /\ cpuMax' \in 1..100 /\ cbm' \in 1..CbmBits /\ failures' \in 0..MaxFailures
           /\ failures' = 0 => failures = 0 /\ cpuMax' = q
<1>1. ShrinkCBM(q) \in 1..CbmBits
    BY ActuatorRange, Zenon
<1>2. MaskFor(q, h) \in 1..CbmBits
    BY <1>1, Zenon DEF MaskFor, DaemonTypeOK
<1> QED BY <1>2, DaemonAssumption DEF SetBEQuotaPercent, Fail, DaemonTypeOK

\* The same for Reset, which writes 100.
LEMMA ResetEffect ==
    ASSUME DaemonTypeOK, Reset
    PROVE  /\ cpuMax' \in 1..100 /\ cbm' \in 1..CbmBits /\ failures' \in 0..MaxFailures
           /\ failures' = 0 => failures = 0 /\ cpuMax' = 100
<1>1. ShrinkCBM(100) \in 1..CbmBits /\ ClampPct(100) = 100
    BY ActuatorRange
<1>2. MaskFor(100, hard) \in 1..CbmBits
    BY <1>1, ZenonT(30) DEF MaskFor, DaemonTypeOK
<1> QED BY <1>1, <1>2, DaemonAssumption DEF Reset, Fail, DaemonTypeOK

\* A new controller is well typed, has no slack, and holds the configured quota.
LEMMA FreshController ==
    ASSUME NEW m \in Modes, CtrlBecomes(NewController(m))
    PROVE  TypeOK' /\ SlackSinceChange' /\ mode' = m /\ beQuota' = BEQuotaPct
BY ConfigAssumption DEF CtrlBecomes, NewController, TypeOK, SlackSinceChange, Modes, Actions

\* The score of a tick is a natural number, whatever the files hold.
LEMMA NoiseScoreNat ==
    ASSUME DaemonTypeOK, NEW psi \in Pressure
    PROVE  NoiseScore(psi) \in Nat
<1>1. psi \in Nat /\ lcLatency \in Nat
    BY DaemonAssumption, Zenon DEF DaemonTypeOK
<1>2. FromBus(policyBin, psi) \in Nat /\ FromBus(decisionBus, psi) \in Nat /\ Local(psi) \in Nat
    BY <1>1, ConfigAssumption, ZenonT(30) DEF FromBus, Local, AtLeast, DaemonTypeOK, Record
<1> QED BY <1>2, Zenon DEF NoiseScore

\* An epoch changes the quota only together with a decision, and in enforce mode
\* the decision carries the new quota.
LEMMA DecisionCarriesQuota ==
    ASSUME TypeOK, NEW x \in Nat, NEW gap \in 1..MaxGap, Observe(x, gap), mode = "enforce"
    PROVE  /\ dec'.action = "none" => beQuota' = beQuota
           /\ dec'.action # "none" => dec'.quota = beQuota'
           /\ mode' = mode
BY DEF Observe, ShrinkBE, HoldOnFault, ReclaimBE, CountQuiet, Decide, NoDecision, Fold, Actuates

\* The initial states satisfy the invariant.
LEMMA DaemonInitInv == DaemonInit => DaemonInv
<1> SUFFICES ASSUME DaemonInit PROVE DaemonInv
    BY ZenonT(30)
<1>1. TypeOK /\ SlackSinceChange
    BY ConfigAssumption
       DEF DaemonInit, CtrlIs, NewController, TypeOK, SlackSinceChange, Modes, Actions
<1>2. decisionBus \in Record /\ policyBin \in Record
    BY Zenon DEF DaemonInit, NoFile, Record
<1>3. cpuMax \in 1..100 /\ cbm \in 1..CbmBits /\ failures \in 0..MaxFailures /\ lcLatency \in Nat
    BY DaemonAssumption DEF DaemonInit
<1>4. PendingDecision /\ QuotaApplied /\ StopRestores
    BY Zenon DEF DaemonInit, PendingDecision, QuotaApplied, StopRestores
<1> QED BY <1>1, <1>2, <1>3, <1>4, Zenon DEF DaemonInit, DaemonInv, DaemonTypeOK

\* Starting the process establishes the invariant in every mode.
LEMMA StartInv ==
    ASSUME DaemonInv, NEW m \in Modes, NEW h \in BOOLEAN, Start(m, h)
    PROVE  DaemonInv'
<1>1. TypeOK' /\ SlackSinceChange' /\ mode' = m /\ beQuota' = BEQuotaPct
    BY FreshController, Zenon DEF Start
<1>2. BEQuotaPct \in 1..100 /\ ClampPct(BEQuotaPct) = BEQuotaPct
    BY ActuatorRange, ConfigAssumption, Zenon
<1>3. CASE m = "enforce"
    <2>1. /\ cpuMax' \in 1..100 /\ cbm' \in 1..CbmBits /\ failures' \in 0..MaxFailures
          /\ failures' = 0 => failures = 0 /\ cpuMax' = BEQuotaPct
        BY <1>2, <1>3, WriteEffect, Zenon DEF Start, DaemonInv
    <2> QED BY <1>1, <2>1, ZenonT(30)
            DEF Start, busVars, DaemonInv, DaemonTypeOK, PendingDecision, QuotaApplied, StopRestores
<1>4. CASE m # "enforce"
    BY <1>1, <1>4, Zenon
       DEF Start, busVars, hostVars, DaemonInv, DaemonTypeOK, PendingDecision, QuotaApplied, StopRestores
<1> QED BY <1>3, <1>4, Zenon

\* A tick keeps the invariant: a quota change moves the process to the write.
LEMMA TickInv ==
    ASSUME DaemonInv, NEW gap \in 1..MaxGap, NEW psi \in Pressure, Tick(gap, psi)
    PROVE  DaemonInv'
<1>1. NoiseScore(psi) \in Nat
    BY NoiseScoreNat, Zenon DEF DaemonInv
<1>2. TypeOK' /\ SlackSinceChange'
    BY <1>1, ObserveInv, Zenon DEF Tick, DaemonInv, DaemonTypeOK
<1>3. mode = "enforce" => /\ dec'.action = "none" => beQuota' = beQuota
                          /\ dec'.action # "none" => dec'.quota = beQuota'
    BY <1>1, DecisionCarriesQuota, ZenonT(30) DEF Tick, DaemonInv, DaemonTypeOK
<1>4. mode' = mode
    BY Zenon DEF Tick, Observe, ShrinkBE, HoldOnFault, ReclaimBE, CountQuiet, Fold
<1> QED BY <1>2, <1>3, <1>4, Zenon
        DEF Tick, busVars, hostVars, DaemonInv, DaemonTypeOK, PendingDecision, QuotaApplied, StopRestores

\* The write after a decision brings the host in line or counts a failure.
LEMMA ActuateInv == DaemonInv /\ Actuate => DaemonInv'
<1> SUFFICES ASSUME DaemonInv, Actuate PROVE DaemonInv'
    BY Zenon
<1>1. dec.quota = beQuota /\ beQuota \in BEQuotaFloor..BEQuotaCeil
    BY Zenon DEF Actuate, DaemonInv, PendingDecision, DaemonTypeOK, TypeOK
<1>2. dec.quota \in 1..100 /\ ClampPct(dec.quota) = dec.quota
    BY <1>1, ActuatorRange, ZenonT(30)
<1>3. /\ cpuMax' \in 1..100 /\ cbm' \in 1..CbmBits /\ failures' \in 0..MaxFailures
      /\ failures' = 0 => failures = 0 /\ cpuMax' = dec.quota
    BY <1>2, WriteEffect, Zenon DEF Actuate, DaemonInv, DaemonTypeOK
<1>4. TypeOK' /\ SlackSinceChange'
    BY Zenon DEF Actuate, ctrlVars, DaemonInv, DaemonTypeOK, TypeOK, SlackSinceChange
<1> QED BY <1>1, <1>3, <1>4, Zenon
        DEF Actuate, ctrlVars, busVars, DaemonInv, DaemonTypeOK, PendingDecision, QuotaApplied, StopRestores

\* The end of the process, clean or not, keeps the invariant.
LEMMA EndInv == DaemonInv /\ (Stop \/ Crash) => DaemonInv'
<1> SUFFICES ASSUME DaemonInv, Stop \/ Crash PROVE DaemonInv'
    BY Zenon
<1>1. TypeOK' /\ SlackSinceChange' /\ hard' = FALSE /\ lcLatency' = 0
    BY FreshController, Zenon DEF Stop, Crash, LoseMemory, Modes
<1>2. CASE Stop
    <2>1. /\ cpuMax' \in 1..100 /\ cbm' \in 1..CbmBits /\ failures' \in 0..MaxFailures
          /\ failures' = 0 => failures = 0 /\ cpuMax' = 100
        BY <1>2, ResetEffect, Zenon DEF Stop, DaemonInv
    <2> QED BY <1>1, <1>2, <2>1, ZenonT(30)
            DEF Stop, busVars, DaemonInv, DaemonTypeOK, PendingDecision, QuotaApplied, StopRestores
<1>3. CASE Crash
    BY <1>1, <1>3, ZenonT(30)
       DEF Crash, busVars, hostVars, DaemonInv, DaemonTypeOK, PendingDecision, QuotaApplied, StopRestores
<1> QED BY <1>2, <1>3, Zenon

\* What the probe and the forecaster write does not disturb the invariant.
LEMMA InputInv ==
    ASSUME DaemonInv,
           \/ \E l \in Noise : LCProbe(l)
           \/ \E snap \in Snapshots : WriteDecision(snap) \/ WritePolicyState(snap)
           \/ UNCHANGED daemonVars
    PROVE  DaemonInv'
<1>1. TypeOK' /\ SlackSinceChange'
    BY Zenon DEF LCProbe, WriteDecision, WritePolicyState, daemonVars, ctrlVars,
           DaemonInv, DaemonTypeOK, TypeOK, SlackSinceChange
<1>2. \A snap \in Snapshots : snap \in Record
    <2>1. \A p \in Projected : [there |-> TRUE, fault |-> TRUE, projected |-> p] \in Record
        BY DaemonAssumption, Zenon DEF Record
    <2>2. Clear \in Record
        BY Zenon DEF Clear, Record
    <2> QED BY <2>1, <2>2, Zenon DEF Snapshots
<1>3. decisionBus' \in Record /\ policyBin' \in Record /\ lcLatency' \in Nat
    BY <1>2, ConfigAssumption, ZenonT(30) DEF LCProbe, WriteDecision, WritePolicyState, daemonVars, busVars, DaemonInv, DaemonTypeOK
<1>4. /\ phase' = phase /\ hard' = hard /\ mode' = mode /\ dec' = dec /\ beQuota' = beQuota
      /\ cpuMax' = cpuMax /\ cbm' = cbm /\ failures' = failures
    BY Zenon DEF LCProbe, WriteDecision, WritePolicyState, daemonVars, ctrlVars, hostVars
<1> QED BY <1>1, <1>3, <1>4, ZenonT(30)
        DEF DaemonInv, DaemonTypeOK, PendingDecision, QuotaApplied, StopRestores

\* The invariant holds of every behaviour.
THEOREM DaemonInvariant == DaemonSpec => []DaemonInv
<1>1. DaemonInv /\ [DaemonNext]_daemonVars => DaemonInv'
    BY StartInv, TickInv, ActuateInv, EndInv, InputInv, Zenon DEF DaemonNext
<1> QED BY <1>1, DaemonInitInv, PTL DEF DaemonSpec

\* elite-dcic in enforce mode never rests with a cpu.max other than the quota of
\* its controller unless a write has failed: for every configuration, noise,
\* bus content, crash point and restart mode (main.go:72-77 and 175-181).
THEOREM EnforcedQuotaApplied == DaemonSpec => []QuotaApplied
BY DaemonInvariant, PTL DEF DaemonInv

\* A stop gives the best-effort class its whole CPU back unless a write has
\* failed, also after crashes (main.go:142-147, actuator.go Reset).
THEOREM StopGivesBack == DaemonSpec => []StopRestores
BY DaemonInvariant, PTL DEF DaemonInv

\* The cache mask is only moved by a write that moved cpu.max first, whatever fails
\* (ResctrlActuator.SetBEQuotaPercent returns on a cgroup error).
THEOREM MaskNeverAhead == DaemonSpec => MaskFollowsCpu
<1>1. ASSUME [DaemonNext]_daemonVars, phase = "actuate", cbm' # cbm
      PROVE  cpuMax' = ClampPct(dec.quota)
    <2>1. ~UNCHANGED daemonVars
        BY <1>1, Zenon DEF daemonVars, hostVars
    <2>2. Actuate
        BY <1>1, <2>1, Zenon DEF DaemonNext, Start, LCProbe, Tick, Stop, Crash, WriteDecision, WritePolicyState, Up, hostVars
    <2> QED BY <1>1, <2>2, Zenon DEF Actuate, SetBEQuotaPercent
<1> QED BY <1>1, PTL DEF DaemonSpec, MaskFollowsCpu

\* A process that does not enforce writes nothing to the host while it is up: the only
\* writes are those of a start and of a decision in enforce mode (main.go:72-77, 175-181).
THEOREM ObserversLeaveHost == DaemonSpec => OnlyEnforceTouchesHost
<1>1. ASSUME DaemonInv, [DaemonNext]_daemonVars, Up', mode' # "enforce"
      PROVE  UNCHANGED hostVars
    <2>1. CASE \E m \in Modes, h \in BOOLEAN : Start(m, h)
        BY <1>1, <2>1, Zenon DEF Start, CtrlBecomes, NewController
    <2>2. CASE Actuate
        BY <1>1, <2>2, Zenon DEF Actuate, ctrlVars, DaemonInv, PendingDecision
    <2>3. CASE Stop \/ Crash
        BY <1>1, <2>3, Zenon DEF Stop, Crash, Up
    <2>4. CASE UNCHANGED daemonVars
        BY <2>4, Zenon DEF daemonVars
    <2> QED BY <1>1, <2>1, <2>2, <2>3, <2>4, Zenon
            DEF DaemonNext, LCProbe, Tick, WriteDecision, WritePolicyState
<1> QED BY <1>1, DaemonInvariant, PTL DEF DaemonSpec, OnlyEnforceTouchesHost

-----------------------------------------------------------------------------
(* DynamicProbeServer *)

ServerInv == ServerTypeOK /\ NothingStray /\ LossExplained

LEMMA ConfigShape ==
    ASSUME NEW cfg \in Configs
    PROVE  DOMAIN cfg \subseteq Names /\ \A n \in DOMAIN cfg : cfg[n] \in Args
  BY Zenon DEF Configs

LEMMA ServerInitInv ==
    ASSUME NEW cfg \in Configs, ServerInit(cfg)
    PROVE  ServerInv
<1>1. ServerTypeOK
  BY ConfigShape, Zenon DEF ServerInit, ServerTypeOK
<1>2. NothingStray /\ LossExplained
  BY ConfigShape, Zenon DEF ServerInit, NothingStray, LossExplained, Running
<1> QED
  BY <1>1, <1>2, Zenon DEF ServerInv

LEMMA StopFailsInv ==
    ASSUME ServerInv, NEW cfg \in Configs, StopFails(cfg)
    PROVE  ServerInv'
<1>1. PICK bad \in ToClose(cfg), done \in SUBSET ToClose(cfg) :
          /\ state' = [StopAll(done) EXCEPT ![bad] = "failed"]
          /\ halted' = halted \cup {n \in done : Running(n)}
  BY ZenonT(30) DEF StopFails
<1>2. /\ lastConfig' = lastConfig /\ built' = built
      /\ DOMAIN lastConfig \subseteq Names
      /\ ToClose(cfg) \subseteq DOMAIN lastConfig
  BY ConfigShape, Zenon DEF StopFails, ServerInv, ServerTypeOK, ToClose
<1>3. \A n \in Names : state'[n] = IF n = bad THEN "failed"
                                   ELSE IF n \in done /\ Running(n) THEN "stopped" ELSE state[n]
  BY <1>1, <1>2, Zenon DEF StopAll
<1>4. state' \in [Names -> {"absent", "running", "stopped", "failed"}]
  BY <1>1, <1>2, Zenon DEF StopAll, ServerInv, ServerTypeOK
<1>5. ServerTypeOK'
  BY <1>1, <1>2, <1>3, <1>4, ZenonT(30) DEF ServerInv, ServerTypeOK
<1>6. NothingStray'
  BY <1>2, <1>3, ZenonT(30) DEF ServerInv, NothingStray, Running
<1>7. LossExplained'
  BY <1>1, <1>2, <1>3, Zenon DEF ServerInv, LossExplained, Running
<1> QED
  BY <1>5, <1>6, <1>7, Zenon DEF ServerInv

LEMMA ReloadedInv ==
    ASSUME ServerInv, NEW cfg \in Configs, Reloaded(cfg)
    PROVE  ServerInv'
<1>1. PICK bad \in SUBSET ToAdd(cfg) :
        /\ lastConfig' = cfg
        /\ state' = [n \in Names |->
                        IF n \in bad THEN "failed"
                        ELSE IF n \in ToAdd(cfg) THEN "running"
                        ELSE StopAll(ToClose(cfg))[n]]
        /\ built' = [n \in Names |-> IF n \in ToAdd(cfg) THEN cfg[n] ELSE built[n]]
        /\ halted' = (halted \cap DOMAIN cfg) \ ToAdd(cfg)
  BY ZenonT(30) DEF Reloaded
<1>2. /\ DOMAIN lastConfig \subseteq Names /\ DOMAIN cfg \subseteq Names
      /\ ToAdd(cfg) \subseteq DOMAIN cfg
      /\ \A n \in DOMAIN cfg \ ToAdd(cfg) : n \in DOMAIN lastConfig /\ lastConfig[n] = cfg[n]
      /\ \A n \in DOMAIN lastConfig \ ToClose(cfg) : n \in DOMAIN cfg /\ lastConfig[n] = cfg[n]
      /\ \A n \in ToClose(cfg) : n \in ToAdd(cfg) \/ n \notin DOMAIN cfg
  BY ConfigShape, ZenonT(30) DEF ServerInv, ServerTypeOK, ToAdd, ToClose, Changed
<1>3. \A n \in Names : state'[n] = IF n \in bad THEN "failed"
                                   ELSE IF n \in ToAdd(cfg) THEN "running"
                                   ELSE IF n \in ToClose(cfg) /\ Running(n) THEN "stopped"
                                   ELSE state[n]
  BY <1>1, Zenon DEF StopAll
<1>4. state' \in [Names -> {"absent", "running", "stopped", "failed"}]
  BY <1>1, ZenonT(30) DEF StopAll, ServerInv, ServerTypeOK
<1>5. built' \in [Names -> Args]
  BY <1>1, <1>2, ConfigShape, Zenon DEF ServerInv, ServerTypeOK
<1>6. ServerTypeOK'
  BY <1>1, <1>2, <1>3, <1>4, <1>5, Zenon DEF ServerInv, ServerTypeOK, Running
<1>7. NothingStray'
  BY <1>1, <1>2, <1>3, Zenon DEF ServerInv, NothingStray, Running
<1>8. LossExplained'
  BY <1>1, <1>2, <1>3, Zenon DEF ServerInv, LossExplained, Running
<1> QED
  BY <1>6, <1>7, <1>8, ZenonT(30) DEF ServerInv

LEMMA ServerStopInv ==
    ASSUME ServerInv, ServerStop
    PROVE  ServerInv'
<1>1. PICK done \in SUBSET Names :
        \/ state' = StopAll(done)
        \/ \E bad \in Names : state' = [StopAll(done) EXCEPT ![bad] = "failed"]
  BY Zenon DEF ServerStop
<1>2. \A n \in Names : state'[n] = state[n] \/ (Running(n) /\ state'[n] = "stopped") \/ state'[n] = "failed"
  BY <1>1, ZenonT(30) DEF StopAll
<1>3. state' \in [Names -> {"absent", "running", "stopped", "failed"}]
  BY <1>1, ZenonT(30) DEF StopAll, ServerInv, ServerTypeOK
<1>4. /\ lastConfig' = lastConfig /\ built' = built /\ DOMAIN lastConfig \subseteq Names
      /\ halted' = halted \cup {n \in Names : Running(n) /\ state'[n] = "stopped"}
  BY ConfigShape, ZenonT(30) DEF ServerStop, ServerInv, ServerTypeOK
<1>5. ServerTypeOK'
  BY <1>2, <1>3, <1>4, ZenonT(30) DEF ServerInv, ServerTypeOK
<1>6. NothingStray' /\ LossExplained'
  BY <1>2, <1>4, Zenon DEF ServerInv, NothingStray, LossExplained, Running
<1> QED
  BY <1>5, <1>6, Zenon DEF ServerInv

LEMMA ServerNextInv == ServerInv /\ [ServerNext]_serverVars => ServerInv'
<1> SUFFICES ASSUME ServerInv, [ServerNext]_serverVars PROVE ServerInv'
  BY ZenonT(30)
<1>1. CASE UNCHANGED serverVars
  BY <1>1, Zenon DEF serverVars, ServerInv, ServerTypeOK, NothingStray, LossExplained, Running
<1>2. ASSUME NEW cfg \in Configs, Reload(cfg) PROVE ServerInv'
  BY <1>1, <1>2, StopFailsInv, ReloadedInv, Zenon DEF Reload, ReloadError, CreateFails
<1> QED
  BY <1>1, <1>2, ServerStopInv, Zenon DEF ServerNext

\* For every set of probes: what runs is what the configuration last accepted
\* by Reload asks for, whatever CreateProbe, StopProbe and StartProbe return.
THEOREM OnlyConfiguredProbesRun == ServerSpec => []NothingStray
<1>1. ServerInv => NothingStray
  BY Zenon DEF ServerInv
<1>2. (\E cfg \in Configs : ServerInit(cfg)) => ServerInv
  BY ServerInitInv, Zenon
<1> QED
  BY <1>1, <1>2, ServerNextInv, PTL DEF ServerSpec

\* For every set of probes: a configured probe is lost only by its own failure,
\* by a Reload that returned an error after stopping it, or by Stop.
THEOREM LossesAreExplained == ServerSpec => []LossExplained
<1>1. ServerInv => LossExplained
  BY Zenon DEF ServerInv
<1>2. (\E cfg \in Configs : ServerInit(cfg)) => ServerInv
  BY ServerInitInv, Zenon
<1> QED
  BY <1>1, <1>2, ServerNextInv, PTL DEF ServerSpec

-----------------------------------------------------------------------------
(* The agent *)

LEMMA NoProbesConfig == NoProbes \in Configs
<1>1. NoProbes \in [{} -> Args]  BY Zenon DEF NoProbes
<1> QED  BY <1>1, ZenonT(30) DEF Configs

\* What a goroutine has read, and will hand to Reload, is a configuration.
LEMMA AgentStep ==
    ASSUME AgentTypeOK, [AgentNext]_agentVars
    PROVE  [ServerNext]_serverVars /\ (ServerTypeOK' => AgentTypeOK')
<1> USE AgentAssumption, NoProbesConfig
<1>1. CASE UNCHANGED agentVars
  BY <1>1, Zenon DEF agentVars, serverVars, watchVars, semiVars, AgentTypeOK
<1>2. ASSUME NEW f \in {{}} \cup {{cfg} : cfg \in Edits}, EditFile(f)
      PROVE  [ServerNext]_serverVars /\ (ServerTypeOK' => AgentTypeOK')
  BY <1>2, Zenon DEF EditFile, semiVars, AgentTypeOK
<1>3. CASE WatchEvent
  BY <1>3, Zenon DEF WatchEvent, semiVars, AgentTypeOK
<1>4. ASSUME NEW r \in Reloaders, TimerFires(r)
      PROVE  [ServerNext]_serverVars /\ (ServerTypeOK' => AgentTypeOK')
  BY <1>4, ZenonT(30) DEF TimerFires, semiVars, AgentTypeOK
<1>5. ASSUME NEW r \in Reloaders, LoadConfig(r)
      PROVE  [ServerNext]_serverVars /\ (ServerTypeOK' => AgentTypeOK')
  <2>1. /\ UNCHANGED <<serverVars, semiVars, file, event, delaying, applied, trouble>>
        /\ job' \in [Reloaders -> {"idle", "load", "apply"}]
    BY <1>5, ZenonT(30) DEF LoadConfig, AgentTypeOK
  <2>2. \A cfg \in file : cfg \in Configs  BY ZenonT(30) DEF AgentTypeOK
  <2>3. loaded' \in [Reloaders -> Configs]
    BY <1>5, <2>2, ZenonT(30) DEF LoadConfig, AgentTypeOK
  <2> QED  BY <2>1, <2>3, ZenonT(30) DEF semiVars, AgentTypeOK
<1>6. ASSUME NEW r \in Reloaders, ApplyConfig(r)
      PROVE  [ServerNext]_serverVars /\ (ServerTypeOK' => AgentTypeOK')
  <2>1. /\ UNCHANGED <<semiVars, file, event, delaying>> /\ loaded[r] \in Configs
        /\ job' \in [Reloaders -> {"idle", "load", "apply"}] /\ loaded' \in [Reloaders -> Configs]
        /\ applied' \in Configs /\ trouble' \in BOOLEAN
    BY <1>6, ZenonT(30) DEF ApplyConfig, EndJob, AgentTypeOK
  <2>2. [ServerNext]_serverVars
    BY <1>6, <2>1, Zenon DEF ApplyConfig, ServerNext, Reload
  <2> QED  BY <2>1, <2>2, Zenon DEF semiVars, AgentTypeOK
<1>7. CASE CooldownPasses
  BY <1>7, ZenonT(30) DEF CooldownPasses, watchVars, AgentTypeOK
<1>8. ASSUME NEW failing \in BOOLEAN, NEW network \in BOOLEAN, applySample(failing, network)
      PROVE  [ServerNext]_serverVars /\ (ServerTypeOK' => AgentTypeOK')
  <2>1. /\ UNCHANGED watchVars
        /\ prevFault' = failing /\ served' = ~served /\ trouble' = (trouble \/ Shed(failing, network))
        /\ \/ shedding' = TRUE /\ cooled' = FALSE
           \/ shedding' = FALSE /\ cooled' = FALSE
           \/ shedding' = shedding /\ cooled' = cooled
    BY <1>8, Zenon DEF applySample
  <2>2. prevFault' \in BOOLEAN /\ served' \in BOOLEAN /\ trouble' \in BOOLEAN
    BY <2>1, Zenon DEF Shed, AgentTypeOK
  <2>3. shedding' \in BOOLEAN /\ cooled' \in BOOLEAN /\ (cooled' => shedding')
    <3>1. CASE shedding' = TRUE /\ cooled' = FALSE  BY <3>1, Zenon
    <3>2. CASE shedding' = FALSE /\ cooled' = FALSE  BY <3>2, Zenon
    <3>3. CASE shedding' = shedding /\ cooled' = cooled  BY <3>3, Zenon DEF AgentTypeOK
    <3> QED  BY <2>1, <3>1, <3>2, <3>3, Zenon
  <2>4. [ServerNext]_serverVars
    BY <1>8, Zenon DEF applySample, ServerNext, Reload
  <2> QED  BY <2>1, <2>2, <2>3, <2>4, Zenon DEF watchVars, AgentTypeOK
<1> QED
  BY <1>1, <1>2, <1>3, <1>4, <1>5, <1>6, <1>7, <1>8, ZenonT(30) DEF AgentNext, WatchStep, SemiStep

LEMMA AgentInvariant == AgentSpec => [](AgentTypeOK /\ ServerInv)
<1>1. AgentInit => AgentTypeOK /\ ServerInv
  <2> SUFFICES ASSUME AgentInit PROVE AgentTypeOK /\ ServerInv
    BY Zenon
  <2>1. ServerInv  BY AgentAssumption, ServerInitInv, Zenon DEF AgentInit
  <2> QED  BY <2>1, AgentAssumption, NoProbesConfig, Zenon DEF AgentInit, AgentTypeOK, ServerInv
<1>2. AgentTypeOK /\ ServerInv /\ [AgentNext]_agentVars => AgentTypeOK' /\ ServerInv'
  BY AgentStep, ServerNextInv, Zenon DEF ServerInv
<1> QED
  BY <1>1, <1>2, PTL DEF AgentSpec

\* To its probes the agent is a probe server: timers, reload goroutines that overlap and the
\* forecaster's shed and restore change them by whole Reloads only (inspServer.reload,
\* eventProbeShedder), so that what is proved of the server holds of the agent.
THEOREM AgentIsServer == AgentSpec => ServerSpec
<1>1. AgentInit => \E cfg \in Configs : ServerInit(cfg)
  BY AgentAssumption, Zenon DEF AgentInit
<1>2. AgentTypeOK /\ [AgentNext]_agentVars => [ServerNext]_serverVars
  BY AgentStep, Zenon
<1> QED
  BY <1>1, <1>2, AgentInvariant, PTL DEF AgentSpec, ServerSpec

\* However edits, reloads and the forecaster interleave, the agent runs what the
\* configuration last accepted asks for, and loses a configured probe only by its own
\* failure or by a Reload that returned an error after stopping it.
THEOREM AgentKeepsProbes == AgentSpec => [](NothingStray /\ LossExplained)
<1>1. ServerInv => NothingStray /\ LossExplained
  BY Zenon DEF ServerInv
<1> QED
  BY <1>1, AgentInvariant, PTL

=============================================================================
