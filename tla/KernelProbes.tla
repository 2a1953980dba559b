---------------------------- MODULE KernelProbes ----------------------------
(***************************************************************************)
(* The tracing programs under bpf/, and the link manager with the probe    *)
(* that attaches the flow program, each explored on its own: they share no *)
(* map, only the clock, so a behaviour follows the one in loaded.          *)
(***************************************************************************)
EXTENDS KernelLatency, TxQueueLatency, SoftirqLatency, DeviceLatency, SocketLatency,
        ConnectTrace, PacketTrace, LinkFlow

VARIABLE loaded    \* the program this behaviour is about

Programs == {"kernellatency", "netiftxlatency", "softirq", "virtcmdlatency", "tracebiolatency",
             "socketlatency", "connect_trace", "flow", "packet_events", "links"}

allVars == <<now, loaded, klVars, tqVars, siVars, vcVars, bioVars, slVars, ctVars, flVars, ptVars, lfVars>>

Init == /\ now = 1 /\ loaded \in Programs
        /\ KlInit /\ TqInit /\ SiInit /\ DlInit /\ SlInit /\ CtInit /\ FlInit /\ PtInit
        /\ LfInit
        /\ loaded # "flow" => ~flEnablePort
        /\ loaded # "links" => born = {}

Next ==
  /\ UNCHANGED loaded
  /\ \/ loaded = "kernellatency" /\ KlNext
        /\ UNCHANGED <<tqVars, siVars, vcVars, bioVars, slVars, ctVars, flVars, ptVars, lfVars>>
     \/ loaded = "netiftxlatency" /\ TqNext
        /\ UNCHANGED <<klVars, siVars, vcVars, bioVars, slVars, ctVars, flVars, ptVars, lfVars>>
     \/ loaded = "softirq" /\ SiNext
        /\ UNCHANGED <<klVars, tqVars, vcVars, bioVars, slVars, ctVars, flVars, ptVars, lfVars>>
     \/ loaded = "virtcmdlatency" /\ VcNext
        /\ UNCHANGED <<klVars, tqVars, siVars, bioVars, slVars, ctVars, flVars, ptVars, lfVars>>
     \/ loaded = "tracebiolatency" /\ BioNext
        /\ UNCHANGED <<klVars, tqVars, siVars, vcVars, slVars, ctVars, flVars, ptVars, lfVars>>
     \/ loaded = "socketlatency" /\ SlNext
        /\ UNCHANGED <<klVars, tqVars, siVars, vcVars, bioVars, ctVars, flVars, ptVars, lfVars>>
     \/ loaded = "connect_trace" /\ CtNext
        /\ UNCHANGED <<klVars, tqVars, siVars, vcVars, bioVars, slVars, flVars, ptVars, lfVars>>
     \/ loaded = "flow" /\ FlNext
        /\ UNCHANGED <<klVars, tqVars, siVars, vcVars, bioVars, slVars, ctVars, ptVars, lfVars>>
     \/ loaded = "packet_events" /\ PtNext
        /\ UNCHANGED <<klVars, tqVars, siVars, vcVars, bioVars, slVars, ctVars, flVars, lfVars>>
     \/ loaded = "links" /\ LfNext
        /\ UNCHANGED <<now, klVars, tqVars, siVars, vcVars, bioVars, slVars, ctVars, flVars, ptVars>>

Spec == Init /\ [][Next]_allVars

\* Every program's maps, events and kernel state have their types, and no map holds more
\* than its max_entries.
ProbesTypeOK == KlTypeOK /\ TqTypeOK /\ SiTypeOK /\ DlTypeOK /\ SlTypeOK /\ CtTypeOK /\ FlTypeOK
                /\ LfTypeOK

\* A time that a program reports runs from the start of the very packet, command, request,
\* socket or connect it is reported for, although addresses, threads and map elements are
\* used again: klatency_ip_local_deliver_finish, net_dev_start_xmit, trace_virtcmdret,
\* biolat_finish, sock_read and sock_send, trace_sys_exit_connect.
SpansAreOwn == RxSpanOfOnePacket /\ QdiscSpanIsOwn /\ CommandTimeIsOwn /\ BioSpanOfOneRequest
               /\ SocketSpanOfOneLife /\ ConnectLatencyIsOwn

\* Where a later event may restart the measurement (a requeued packet, a vector raised
\* again, another arrival) the time reported is never longer than the true one:
\* net_dev_xmit, trace_softirq_entry and trace_softirq_exit, sock_read and sock_send.
NeverOverstated == XmitNeverOverstated /\ SoftirqNeverOverstated /\ WaitingNeverOverstated

\* The counters of sock_read and sock_send after collect, of record_latency and of the flow
\* program lose and double nothing but what full or replaced map entries explain.
CountsAreExact == CollectedCountsSpans /\ ConnectsAllCounted /\ FlowCountsExact
=============================================================================
