--------------------------- MODULE SoftirqLatency ---------------------------
(***************************************************************************)
(* bpf/softirq.c: how long a raised softirq waits (PHASE_SCHED) and how    *)
(* long its handler runs (PHASE_EXCUTE), kept in one per-CPU hash map      *)
(* whose key names the vector and the phase but not the CPU.  Every CPU    *)
(* raises, enters and leaves the same vectors on its own.                  *)
(***************************************************************************)
EXTENDS BpfMaps

CONSTANTS Cpus, Vecs,
          IrqFilterBits,   \* the vectors whose bit is set in irq_filter_bits
          SiThresh         \* SOFTIRQ_THRESH

VARIABLES siPending,          \* [Cpus -> [Vecs -> time of the first raise not yet served, 0 if none]]
          siRunning,          \* [Cpus -> [vec, since]], since = 0 when idle
          insp_softirq_entry, \* <<vec, phase>> -> [Cpus -> time]
          siEvent,            \* the last event: [phase, vec, latency, own]
          siAlone             \* history, [Cpus -> [phase -> BOOLEAN]]: no other CPU
                              \* used the key while this CPU was measuring with it

siVars == <<siPending, siRunning, insp_softirq_entry, siEvent, siAlone>>

SiPhases == {"SCHED", "EXCUTE"}
SiMaxEntries == 64

SiInit == /\ siPending = [c \in Cpus |-> [v \in Vecs |-> 0]]
          /\ siRunning = [c \in Cpus |-> [vec |-> "none", since |-> 0]]
          /\ insp_softirq_entry = << >>
          /\ siEvent = [phase |-> "none", vec |-> "none", latency |-> 0, own |-> 0]
          /\ siAlone = [c \in Cpus |-> [p \in SiPhases |-> FALSE]]

filter_irqs(v) == v \in IrqFilterBits

\* What cpu c's hook on v does to the history: the other CPUs' measurements in these
\* phases are no longer alone, and c's own start or go on.
Touched(c, phases, alone) ==
  [d \in Cpus |-> [p \in SiPhases |->
     IF d = c THEN alone[p] ELSE siAlone[d][p] /\ p \notin phases]]

\* report_softirq_events, when c's value is set and the span exceeds the threshold.
SiReported(c, v, phase, own) ==
  LET m == insp_softirq_entry  k == <<v, phase>> IN
  IF k \in DOMAIN m /\ m[k][c] # 0 /\ now - m[k][c] > SiThresh
  THEN [phase |-> phase, vec |-> v, latency |-> now - m[k][c], own |-> own]
  ELSE siEvent

trace_softirq_raise(c, v) ==
  LET first == siPending[c][v] = 0
      key   == <<v, "SCHED">> IN
  /\ siPending' = IF first THEN [siPending EXCEPT ![c][v] = now] ELSE siPending
  /\ IF filter_irqs(v)
     THEN /\ insp_softirq_entry' = PercpuInsert(insp_softirq_entry, key, c, now, Cpus, SiMaxEntries)
          /\ siAlone' = Touched(c, {"SCHED"},
                          [siAlone[c] EXCEPT !["SCHED"] = IF first THEN key \notin DOMAIN insp_softirq_entry ELSE @])
     ELSE UNCHANGED <<insp_softirq_entry, siAlone>>
  /\ UNCHANGED <<siRunning, siEvent>>

\* Mutant: the raise is not deleted when it is served.
EntryKeepsRaise(c, v) ==
  /\ siRunning[c].since = 0 /\ siPending[c][v] # 0
  /\ siRunning' = [siRunning EXCEPT ![c] = [vec |-> v, since |-> now]]
  /\ siPending' = [siPending EXCEPT ![c][v] = 0]
  /\ IF filter_irqs(v)
     THEN /\ siEvent' = SiReported(c, v, "SCHED", now - siPending[c][v])
          /\ insp_softirq_entry' =
               PercpuUpdate(insp_softirq_entry, <<v, "EXCUTE">>, c, now, Cpus, SiMaxEntries)
          /\ siAlone' = Touched(c, SiPhases, [p \in SiPhases |-> p = "EXCUTE"])
     ELSE UNCHANGED <<siEvent, insp_softirq_entry, siAlone>>

trace_softirq_entry(c, v) ==
  /\ siRunning[c].since = 0 /\ siPending[c][v] # 0
  /\ siRunning' = [siRunning EXCEPT ![c] = [vec |-> v, since |-> now]]
  /\ siPending' = [siPending EXCEPT ![c][v] = 0]
  /\ IF filter_irqs(v)
     THEN /\ siEvent' = SiReported(c, v, "SCHED", now - siPending[c][v])
          /\ insp_softirq_entry' =
               PercpuUpdate(HashDelete(insp_softirq_entry, <<v, "SCHED">>),
                            <<v, "EXCUTE">>, c, now, Cpus, SiMaxEntries)
          /\ siAlone' = Touched(c, SiPhases, [p \in SiPhases |-> p = "EXCUTE"])
     ELSE UNCHANGED <<siEvent, insp_softirq_entry, siAlone>>

trace_softirq_exit(c, v) ==
  LET m == insp_softirq_entry  key == <<v, "EXCUTE">> IN
  /\ siRunning[c].since # 0 /\ siRunning[c].vec = v
  /\ siRunning' = [siRunning EXCEPT ![c] = [vec |-> "none", since |-> 0]]
  /\ IF filter_irqs(v) /\ key \in DOMAIN m /\ m[key][c] # 0
     THEN /\ siEvent' = SiReported(c, v, "EXCUTE", now - siRunning[c].since)
          /\ insp_softirq_entry' = HashDelete(m, key)
          /\ siAlone' = Touched(c, {"EXCUTE"}, [siAlone[c] EXCEPT !["EXCUTE"] = FALSE])
     ELSE UNCHANGED <<siEvent, insp_softirq_entry, siAlone>>
  /\ UNCHANGED siPending

SiNext == \/ \E c \in Cpus, v \in Vecs :
               /\ \/ trace_softirq_raise(c, v)
                  \/ trace_softirq_entry(c, v)
                  \/ trace_softirq_exit(c, v)
               /\ UNCHANGED now
          \/ KernelTick /\ UNCHANGED siVars

SiSpec == now = 1 /\ SiInit /\ [][SiNext]_<<now, siVars>>
-----------------------------------------------------------------------------
SiTypeOK ==
  /\ siPending \in [Cpus -> [Vecs -> 0..MaxTime]]
  /\ siRunning \in [Cpus -> [vec : Vecs \cup {"none"}, since : 0..MaxTime]]
  /\ siAlone \in [Cpus -> [SiPhases -> BOOLEAN]]
  /\ DOMAIN insp_softirq_entry \subseteq Vecs \X SiPhases
  /\ \A k \in DOMAIN insp_softirq_entry : insp_softirq_entry[k] \in [Cpus -> 0..MaxTime]

\* A reported softirq latency is never longer than the wait or the run it is about, whatever
\* the other CPUs insert and delete under the same key, and an execution time is exact.
SoftirqNeverOverstated ==
  /\ siEvent.latency <= siEvent.own
  /\ siEvent.phase = "EXCUTE" => siEvent.latency = siEvent.own

=============================================================================
