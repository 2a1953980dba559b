------------------------- MODULE KernelProbesProofs -------------------------
(***************************************************************************)
(* What holds of every program under bpf/, and of the flow probe, holds of *)
(* all of them together: DevicePathProofs and SocketPathProofs have the    *)
(* invariants, which the others do not disturb.                            *)
(***************************************************************************)
EXTENDS KernelProbes, DevicePathProofs, SocketPathProofs

AllInv == KlInv /\ TqInv /\ SiInv /\ VcInv /\ BioInv /\ LfInv
          /\ SlInv /\ SlCountInv /\ CtInv /\ CtCountInv /\ PtInv /\ FlInv

\* A step is the loaded program's, and for every other one only the clock may move.
LEMMA OneProgramSteps ==
  ASSUME [Next]_allVars
  PROVE  /\ KlNext \/ (Later /\ UNCHANGED klVars)
         /\ TqNext \/ (Later /\ UNCHANGED tqVars)
         /\ SiNext \/ (Later /\ UNCHANGED siVars)
         /\ VcNext \/ (Later /\ UNCHANGED vcVars)
         /\ BioNext \/ (Later /\ UNCHANGED bioVars)
         /\ SlNext \/ (Later /\ UNCHANGED slVars)
         /\ CtNext \/ (Later /\ UNCHANGED ctVars)
         /\ FlNext \/ UNCHANGED flVars
         /\ PtNext \/ UNCHANGED ptVars
         /\ LfNext \/ UNCHANGED lfVars
<1>1. /\ KlNext => Later
      /\ TqNext => Later
      /\ SiNext => Later
      /\ VcNext => Later
      /\ BioNext => Later
      /\ SlNext => Later
      /\ CtNext => Later
      /\ FlNext => Later
      /\ PtNext => Later
  BY DEF KlNext, TqNext, SiNext, VcNext, BioNext, SlNext, CtNext, FlNext, PtNext, Later
<1>2. UNCHANGED now => Later  BY DEF Later
<1>3. CASE Next  BY <1>1, <1>2, <1>3, Zenon DEF Next
<1>4. CASE UNCHANGED allVars  BY <1>2, <1>4 DEF allVars
<1>5. QED  BY <1>3, <1>4

\* The programs' invariants hold of every behaviour.
THEOREM ProbesInvariant == Spec => []AllInv
<1>1. Init => AllInv
  <2>1. ASSUME Init
        PROVE  PtInv
    BY <2>1 DEF Init, PtInit, NoPtEvent, PtInv, TupleReadsInside
  <2>2. QED  BY <2>1, LfStarts, KlStarts, TqStarts, SiStarts, DlStarts, SlStarts, SlCountStarts,
               CtStarts, CtCountStarts, FlStarts DEF Init, AllInv
<1>2. AllInv /\ [Next]_allVars => AllInv'
  BY OneProgramSteps, KlKept, TqKept, SiKept, VcKept, BioKept, SlKept, SlCountKept, CtKept, CtCountKept,
     PtKept, FlKept, LfKept, Zenon DEF AllInv
<1>3. QED  BY <1>1, <1>2, PTL DEF Spec

\* What SpansAreOwn says: the times reported by klatency_ip_local_deliver_finish,
\* net_dev_start_xmit, trace_virtcmdret, biolat_finish, sock_read, sock_send and
\* trace_sys_exit_connect run from the start of the packet, command, request, socket or
\* connect they are reported for.
THEOREM SpansOfOneSubject == Spec => []SpansAreOwn
<1>1. AllInv => SpansAreOwn
  BY DEF AllInv, KlInv, TqInv, VcInv, BioInv, SlInv, CtInv, SpansAreOwn
<1>2. QED  BY <1>1, ProbesInvariant, PTL

\* Where a later event restarts the measurement, net_dev_xmit, trace_softirq_entry,
\* trace_softirq_exit, sock_read and sock_send report no more than the true time.
THEOREM TimesNotOverstated == Spec => []NeverOverstated
<1>1. AllInv => NeverOverstated
  BY DEF AllInv, TqInv, SiInv, SlInv, NeverOverstated
<1>2. QED  BY <1>1, ProbesInvariant, PTL

\* A transmit event of the kernellatency program is made of one packet's stamps, unless an
\* entry was left behind at its address (update_txlat, bpf/kernellatency.c).
THEOREM TxEventsAreOwn == Spec => []TxSpanOfOnePacket
<1>1. AllInv => TxSpanOfOnePacket  BY DEF AllInv, KlInv
<1>2. QED  BY <1>1, ProbesInvariant, PTL

\* No entry of either kernellatency map outlives its packet, unless a packet was freed in
\* the middle of the functions that are traced.
THEOREM EntriesHaveOwners == Spec => []NoOrphanEntries
<1>1. AllInv => NoOrphanEntries  BY DEF AllInv, KlInv
<1>2. QED  BY <1>1, ProbesInvariant, PTL

\* What the socket program collects per direction and bucket, what record_latency adds per
\* namespace and what the hooks of bpf/flow.c add per tuple, over all CPUs, is what happened:
\* none is lost or counted twice, unless insp_sklat_metric was full, an entry was evicted
\* between a CPU's lookup and its addition, or two CPUs inserted a namespace's counters.
THEOREM CountsStayExact == Spec => []CountsAreExact
<1>1. AllInv => CountsAreExact  BY SlExact, FlExact DEF AllInv, CtCountInv, CountsAreExact
<1>2. QED  BY <1>1, ProbesInvariant, PTL

\* What set_tuple accepts it reads from the linear part of the packet, whatever its header
\* offsets and length are, as long as its fragments hold no more than the room before the
\* data; and the ports from behind the addresses, unless the u16 l4_off has wrapped.
THEOREM TuplesReadInside == Spec => []TupleReadsInside
<1>1. AllInv => TupleReadsInside  BY DEF AllInv, PtInv
<1>2. QED  BY <1>1, ProbesInvariant, PTL

\* metricsProbe.Stop of the flow probe goes through all its flows although cleanup may fail
\* at any of them: it leaves no filter but those it failed at and those that the listener's
\* goroutine attached after the sweep.
THEOREM StopLeavesNoFilter == Spec => []StopRemovesFilters
<1>1. AllInv => StopRemovesFilters  BY DEF AllInv, LfInv, FiltersOfFlows, StopRemovesFilters
<1>2. QED  BY <1>1, ProbesInvariant, PTL

\* While eventLoop runs and when it and the flow probe's listener have handled everything,
\* flows are on exactly the interfaces of the pattern that attachBPF last succeeded at, but
\* for those that changed between the manager's list and its subscription, those whose event
\* found the channel full and those renamed out of the pattern (handleUpdate, OnLinkAdd and
\* OnLinkDel); and no filter is without its flow but those a cleanup failed at.
THEOREM FlowsKeepUp == Spec => []FlowsFollowLinks
<1>1. ASSUME LfInv
      PROVE  FlowsFollowLinks
  <2>1. SUFFICES ASSUME manager = "run", nl = << >>, probe = "on", ch = << >>,
                        NEW i \in Index, i \notin missed, i \notin dropped, i \notin renamed
                 PROVE  /\ i \in flows <=> kernel[i] = "match" /\ i \notin unattached
                        /\ i \in filter <=> i \in flows \cup leftover
    BY DEF FlowsFollowLinks
  <2>2. DOMAIN nl = {} /\ DOMAIN ch = {}  BY <2>1
  <2>3. links[i] = kernel[i]  BY <1>1, <2>1, <2>2 DEF LfInv, CacheCatchesUp
  <2>4. /\ i \in flows => links[i] = "match"
        /\ links[i] = "match" => i \in flows \/ i \in unattached \/ kernel[i] = "none"
    BY <1>1, <2>1, <2>2 DEF LfInv, FlowsCatchUp
  <2>5. /\ i \in filter => i \in flows \/ i \in leftover
        /\ i \in leftover => i \in filter
        /\ i \in flows => i \notin unattached
        /\ i \in flows /\ kernel[i] # "none" => i \in filter
    BY <1>1, <2>1, Zenon DEF LfInv, FiltersOfFlows, FlowsFiltered
  <2>6. QED  BY <2>3, <2>4, <2>5
<1>2. AllInv => FlowsFollowLinks  BY <1>1 DEF AllInv
<1>3. QED  BY <1>2, ProbesInvariant, PTL
=============================================================================
