---------------------------- MODULE ConnectTrace ----------------------------
(***************************************************************************)
(* bpf/connect_trace.c: the latency of connect(2), counted per network     *)
(* namespace.  The two hash maps are modelled down to their elements,      *)
(* because the program keeps pointers into them: it reads *start_ts after  *)
(* it has deleted the entry, and adds to counters it looked up earlier.  A *)
(* deleted or replaced element may be given to the next insertion on any   *)
(* CPU, so each memory access of trace_sys_exit_connect is a step.         *)
(***************************************************************************)
EXTENDS BpfMaps, Functions

CONSTANTS Threads, Netns,
          StartElems, MetricElems,     \* preallocated elements of the two maps, spares included
          CtMaxStart, CtMaxMetrics,    \* max_entries, 8192 and 256 in the source
          Ct1ms, Ct10ms, Ct100ms,      \* the three bucket limits
          WordMod,                     \* u64 arithmetic is modulo this
          MaxConnects

\* The clock does not run over within a connect: 2^64 ns are 584 years.
ASSUME CtAssumption == MaxTime \in Nat \ {0} /\ WordMod \in Nat /\ MaxTime < WordMod

VARIABLES ctThread,             \* [Threads -> [at, since, elem, clock, latency, netns, mtr]]
          insp_connect_start,   \* thread -> element
          ctStart,              \* [StartElems -> time], the elements' values
          insp_connect_metrics, \* namespace -> element
          ctMetric,             \* [MetricElems -> counters]
          ctEvent,              \* the last ring buffer event, with the true latency
          ctConnects,           \* history: connects begun, and connects counted per namespace
          ctCounted,
          ctReused,             \* history: an element was reused before its value was read
          ctReplaced            \* history: the counters of a namespace were inserted twice

ctVars == <<ctThread, insp_connect_start, ctStart, insp_connect_metrics, ctMetric, ctEvent,
            ctConnects, ctCounted, ctReused, ctReplaced>>

ZeroMetric == [connect_total |-> 0, lat_1ms |-> 0, lat_10ms |-> 0, lat_100ms |-> 0]

Outside == [at |-> "user", since |-> 0, elem |-> "none", clock |-> 0, latency |-> 0,
            netns |-> "none", mtr |-> "none"]

CtInit == /\ ctThread = [t \in Threads |-> Outside]
          /\ insp_connect_start = << >> /\ ctStart = [e \in StartElems |-> 0]
          /\ insp_connect_metrics = << >> /\ ctMetric = [e \in MetricElems |-> ZeroMetric]
          /\ ctEvent = [latency |-> 0, own |-> 0]
          /\ ctConnects = 0 /\ ctCounted = [n \in Netns |-> 0]
          /\ ctReused = FALSE /\ ctReplaced = FALSE

At(t, pc) == ctThread[t].at = pc
Goes(t, pc) == ctThread' = [ctThread EXCEPT ![t].at = pc]
Leaves(t) == ctThread' = [ctThread EXCEPT ![t] = Outside]
FreeElems(elems, m) == elems \ Range(m)
Fits(m, k, maxEntries) == k \in DOMAIN m \/ Cardinality(DOMAIN m) < maxEntries

trace_sys_enter_connect(t) ==
  /\ At(t, "user") /\ ctConnects < MaxConnects
  /\ ctConnects' = ctConnects + 1
  /\ ctThread' = [ctThread EXCEPT ![t].at = "connect", ![t].since = now]
  /\ \/ \E e \in FreeElems(StartElems, insp_connect_start) :
          /\ Fits(insp_connect_start, t, CtMaxStart)
          /\ insp_connect_start' = HashUpdate(insp_connect_start, t, e, CtMaxStart)
          /\ ctStart' = [ctStart EXCEPT ![e] = now]
          /\ ctReused' = (ctReused \/ \E u \in Threads : ctThread[u].at \in {"clock", "read"}
                                                         /\ ctThread[u].elem = e)
     \/ /\ ~Fits(insp_connect_start, t, CtMaxStart)
        /\ UNCHANGED <<insp_connect_start, ctStart, ctReused>>
  /\ UNCHANGED <<insp_connect_metrics, ctMetric, ctEvent, ctCounted, ctReplaced>>

\* Mutant: the entry is looked up by process, so that any thread's may be found.
ExitByProcess(t, ret) ==
  /\ At(t, "connect")
  /\ \E u \in DOMAIN insp_connect_start :
       /\ IF ret = 0
          THEN ctThread' = [ctThread EXCEPT ![t].at = "clock", ![t].elem = insp_connect_start[u]]
          ELSE Leaves(t)
       /\ insp_connect_start' = HashDelete(insp_connect_start, u)
  /\ UNCHANGED <<ctStart, insp_connect_metrics, ctMetric, ctEvent, ctConnects, ctCounted, ctReused, ctReplaced>>

\* trace_sys_exit_connect up to the check of ctx->ret.
ExitDeletes(t, ret) ==
  /\ At(t, "connect")
  /\ IF t \in DOMAIN insp_connect_start
     THEN /\ IF ret = 0
             THEN ctThread' = [ctThread EXCEPT ![t].at = "clock", ![t].elem = insp_connect_start[t]]
             ELSE Leaves(t)
          /\ insp_connect_start' = HashDelete(insp_connect_start, t)
     ELSE Leaves(t) /\ UNCHANGED insp_connect_start
  /\ UNCHANGED <<ctStart, insp_connect_metrics, ctMetric, ctEvent, ctConnects, ctCounted, ctReused, ctReplaced>>

ExitReadsClock(t) ==
  /\ At(t, "clock")
  /\ ctThread' = [ctThread EXCEPT ![t].at = "read", ![t].clock = now]
  /\ UNCHANGED <<insp_connect_start, ctStart, insp_connect_metrics, ctMetric, ctEvent,
                 ctConnects, ctCounted, ctReused, ctReplaced>>

\* u64 latency_ns = bpf_ktime_get_ns() - *start_ts, from the deleted element; get_netns.
ExitReadsStart(t, netns) ==
  /\ At(t, "read")
  /\ ctThread' = [ctThread EXCEPT ![t].at = "lookup", ![t].netns = netns,
                                  ![t].latency = (ctThread[t].clock - ctStart[ctThread[t].elem]) % WordMod]
  /\ UNCHANGED <<insp_connect_start, ctStart, insp_connect_metrics, ctMetric, ctEvent,
                 ctConnects, ctCounted, ctReused, ctReplaced>>

\* record_latency: find the namespace's counters, insert zeroes when there are none and
\* look again, then add.  Without room for them the connect is not counted, but it still
\* makes an event.
RecordLooksUp(t) ==
  /\ At(t, "lookup") \/ At(t, "again")
  /\ IF ctThread[t].netns \in DOMAIN insp_connect_metrics
     THEN ctThread' = [ctThread EXCEPT ![t].at = "total", ![t].mtr = insp_connect_metrics[ctThread[t].netns]]
     ELSE Goes(t, IF At(t, "lookup") THEN "insert" ELSE "submit")
  /\ UNCHANGED <<insp_connect_start, ctStart, insp_connect_metrics, ctMetric, ctEvent,
                 ctConnects, ctCounted, ctReused, ctReplaced>>

RecordInserts(t) ==
  LET n == ctThread[t].netns IN
  /\ At(t, "insert") /\ Goes(t, "again")
  /\ \/ \E e \in FreeElems(MetricElems, insp_connect_metrics) :
          /\ Fits(insp_connect_metrics, n, CtMaxMetrics)
          /\ insp_connect_metrics' = HashUpdate(insp_connect_metrics, n, e, CtMaxMetrics)
          /\ ctMetric' = [ctMetric EXCEPT ![e] = ZeroMetric]
          /\ ctReplaced' = (ctReplaced \/ n \in DOMAIN insp_connect_metrics)
     \/ /\ ~Fits(insp_connect_metrics, n, CtMaxMetrics)
        /\ UNCHANGED <<insp_connect_metrics, ctMetric, ctReplaced>>
  /\ UNCHANGED <<insp_connect_start, ctStart, ctEvent, ctConnects, ctCounted, ctReused>>

RecordTotal(t) ==
  /\ At(t, "total") /\ Goes(t, "bucket")
  /\ ctMetric' = [ctMetric EXCEPT ![ctThread[t].mtr].connect_total = @ + 1]
  /\ ctCounted' = [ctCounted EXCEPT ![ctThread[t].netns] = @ + 1]
  /\ UNCHANGED <<insp_connect_start, ctStart, insp_connect_metrics, ctEvent, ctConnects, ctReused, ctReplaced>>

AddLatency(m, latency) ==
  IF latency >= Ct100ms THEN [m EXCEPT !.lat_100ms = @ + 1]
  ELSE IF latency >= Ct10ms THEN [m EXCEPT !.lat_10ms = @ + 1]
  ELSE IF latency >= Ct1ms THEN [m EXCEPT !.lat_1ms = @ + 1] ELSE m

RecordBucket(t) ==
  /\ At(t, "bucket") /\ Goes(t, "submit")
  /\ ctMetric' = [ctMetric EXCEPT ![ctThread[t].mtr] = AddLatency(@, ctThread[t].latency)]
  /\ UNCHANGED <<insp_connect_start, ctStart, insp_connect_metrics, ctEvent, ctConnects, ctCounted, ctReused,
                 ctReplaced>>

\* The ring buffer event, which is left out when the buffer is full.
ExitSubmits(t, full) ==
  /\ At(t, "submit") /\ Leaves(t)
  /\ ctEvent' = IF full THEN ctEvent
                ELSE [latency |-> ctThread[t].latency, own |-> ctThread[t].clock - ctThread[t].since]
  /\ UNCHANGED <<insp_connect_start, ctStart, insp_connect_metrics, ctMetric, ctConnects, ctCounted, ctReused,
                 ctReplaced>>

CtStep == \E t \in Threads : \/ trace_sys_enter_connect(t)
                             \/ \E ret \in {0, -1} : ExitDeletes(t, ret)
                             \/ ExitReadsClock(t)
                             \/ \E netns \in Netns : ExitReadsStart(t, netns)
                             \/ RecordLooksUp(t) \/ RecordInserts(t) \/ RecordTotal(t) \/ RecordBucket(t)
                             \/ \E full \in BOOLEAN : ExitSubmits(t, full)

CtNext == \/ CtStep /\ UNCHANGED now
          \/ KernelTick /\ UNCHANGED ctVars

CtSpec == now = 1 /\ CtInit /\ [][CtNext]_<<now, ctVars>>
-----------------------------------------------------------------------------
CtTypeOK ==
  /\ \A t \in Threads : ctThread[t].at \in
       {"user", "connect", "clock", "read", "lookup", "insert", "again", "total", "bucket", "submit"}
  /\ DOMAIN insp_connect_start \subseteq Threads /\ Range(insp_connect_start) \subseteq StartElems
  /\ DOMAIN insp_connect_metrics \subseteq Netns /\ Range(insp_connect_metrics) \subseteq MetricElems

\* The latency in an event is the caller's own, unless an element that was deleted but not
\* yet read went to another thread's connect in between.
ConnectLatencyIsOwn == ~ctReused => ctEvent.latency = ctEvent.own

\* Every connect that was counted shows in its namespace's total, unless two CPUs found the
\* namespace missing and both inserted zeroes.
ConnectsAllCounted ==
  ~ctReplaced => \A n \in Netns :
    ctCounted[n] = IF n \in DOMAIN insp_connect_metrics
                   THEN ctMetric[insp_connect_metrics[n]].connect_total ELSE 0

=============================================================================
