---------------------------- MODULE PacketTrace -----------------------------
(***************************************************************************)
(* The programs that trace single packets: bpf/flow.c, which counts them   *)
(* per flow in an LRU per-CPU map, and bpf/packetloss.c, bpf/tcpreset.c    *)
(* and bpf/tcpretrans.c, which write an event each.                        *)
(*                                                                         *)
(* __do_flow on one CPU is two steps, the lookup and the write through the *)
(* pointer it got (or the insertion), with other CPUs' steps between them. *)
(***************************************************************************)
EXTENDS BpfMaps, PacketTuple, FiniteSetsExt

CONSTANTS FlCpus, FlMaxEntries, MaxFrames,
          Frames,      \* what the traffic control hooks see
          Skbs         \* what the other programs see

\* The sizes in a packet are unsigned.
ASSUME PtAssumption == /\ \A s \in Skbs : /\ s.headroom \in Nat /\ s.network_header \in 0..(U16 - 1)
                                           /\ s.len \in Nat /\ s.paged \in 0..s.len /\ s.ihl \in Nat
                       /\ \A f \in Frames : f.bytes \in Nat
                       /\ U16 \in Nat \ {0}
                       /\ IsFiniteSet(FlCpus) /\ FlMaxEntries \in Nat

VARIABLES flEnablePort,        \* the switch flow_port_key
          flCpu,               \* [FlCpus -> the lookup done, gone if its entry was evicted since]
          insp_flow4_metrics,  \* tuple -> [FlCpus -> [packets, bytes]]
          flFrames,            \* frames so far
          flSeen,              \* history, tuple -> [packets, bytes] since it was inserted
          flStale,             \* history: a CPU added to an entry evicted after its lookup
          ptEvent              \* the last event of the tracing programs

flVars == <<flEnablePort, flCpu, insp_flow4_metrics, flFrames, flSeen, flStale>>
ptVars == <<ptEvent>>

Idle == [hit |-> FALSE, gone |-> FALSE, tuple |-> Refused, len |-> 0]
NoCount == [packets |-> 0, bytes |-> 0]
Count(m, len) == [packets |-> m.packets + 1, bytes |-> m.bytes + len]

FlInit == /\ flEnablePort \in BOOLEAN
          /\ flCpu = [c \in FlCpus |-> Idle]
          /\ insp_flow4_metrics = << >> /\ flSeen = << >>
          /\ flFrames = 0 /\ flStale = FALSE

\* The tuple is looked up (tc_ingress and tc_egress are the same program).
FlowLooksUp(c, frame) ==
  LET tuple == set_flow_tuple4(frame, flEnablePort) IN
  /\ flCpu[c] = Idle /\ flFrames < MaxFrames
  /\ flFrames' = flFrames + 1
  /\ flCpu' = IF tuple = Refused THEN flCpu
              ELSE [flCpu EXCEPT ![c] = [hit |-> tuple \in DOMAIN insp_flow4_metrics, gone |-> FALSE,
                                         tuple |-> tuple, len |-> frame.bytes]]
  /\ UNCHANGED <<flEnablePort, insp_flow4_metrics, flSeen, flStale>>

Seen(tuple, len) ==
  Put(flSeen, tuple, Count(IF tuple \in DOMAIN flSeen THEN flSeen[tuple] ELSE NoCount, len))

\* The entry was found: add to this CPU's value.  If it was evicted since, the addition
\* goes to memory that is free or holds another flow.
FlowAdds(c) ==
  LET f == flCpu[c]  m == insp_flow4_metrics IN
  /\ f # Idle /\ f.hit
  /\ flCpu' = [flCpu EXCEPT ![c] = Idle]
  /\ IF ~f.gone
     THEN /\ insp_flow4_metrics' = [m EXCEPT ![f.tuple][c] = Count(@, f.len)]
          /\ flSeen' = Seen(f.tuple, f.len)
          /\ UNCHANGED flStale
     ELSE /\ insp_flow4_metrics' \in {m} \cup {[m EXCEPT ![t][c] = Count(@, f.len)] : t \in DOMAIN m}
          /\ flStale' = TRUE
          /\ UNCHANGED flSeen
  /\ UNCHANGED <<flEnablePort, flFrames>>

\* Mutant: a map that is not per-CPU: the insertion replaces everybody's counts.
FlowReplaces(c) ==
  LET f == flCpu[c]  m == insp_flow4_metrics
      fresh == [d \in FlCpus |-> IF d = c THEN [packets |-> 1, bytes |-> f.len] ELSE NoCount] IN
  /\ f # Idle /\ ~f.hit
  /\ f.tuple \in DOMAIN m \/ Cardinality(DOMAIN m) < FlMaxEntries
  /\ insp_flow4_metrics' = HashUpdate(m, f.tuple, fresh, FlMaxEntries)
  /\ flSeen' = Seen(f.tuple, f.len)
  /\ flCpu' = [flCpu EXCEPT ![c] = Idle]
  /\ UNCHANGED <<flEnablePort, flFrames, flStale>>

\* The entry was not found: insert it with this packet's count, evicting another one when
\* the map is full; if another CPU inserted it meanwhile, set this CPU's value only.
FlowInserts(c) ==
  LET f == flCpu[c]  m == insp_flow4_metrics
      value == [packets |-> 1, bytes |-> f.len]
      fresh == [d \in FlCpus |-> IF d = c THEN value ELSE NoCount] IN
  /\ f # Idle /\ ~f.hit
  /\ \/ /\ f.tuple \in DOMAIN m
        /\ insp_flow4_metrics' = [m EXCEPT ![f.tuple][c] = value]
        /\ flSeen' = Seen(f.tuple, f.len)
        /\ flCpu' = [flCpu EXCEPT ![c] = Idle]
     \/ /\ f.tuple \notin DOMAIN m /\ Cardinality(DOMAIN m) < FlMaxEntries
        /\ insp_flow4_metrics' = HashUpdate(m, f.tuple, fresh, FlMaxEntries)
        /\ flSeen' = Seen(f.tuple, f.len)
        /\ flCpu' = [flCpu EXCEPT ![c] = Idle]
     \/ /\ f.tuple \notin DOMAIN m /\ Cardinality(DOMAIN m) >= FlMaxEntries
        /\ \E old \in DOMAIN m :
             /\ insp_flow4_metrics' = HashUpdate(HashDelete(m, old), f.tuple, fresh, FlMaxEntries)
             /\ flSeen' = Put(HashDelete(flSeen, old), f.tuple, value)
             /\ flCpu' = [d \in FlCpus |-> IF d = c THEN Idle
                             ELSE [flCpu[d] EXCEPT !.gone = @ \/ (flCpu[d].hit /\ flCpu[d].tuple = old)]]
  /\ UNCHANGED <<flEnablePort, flFrames, flStale>>

FlNext == /\ \E c \in FlCpus : \/ \E frame \in Frames : FlowLooksUp(c, frame)
                               \/ FlowAdds(c)
                               \/ FlowInserts(c)
          /\ UNCHANGED now
-----------------------------------------------------------------------------
NoPtEvent == [prog |-> "none", status |-> 0, type |-> "none", skb |-> << >>]

PtInit == ptEvent = NoPtEvent

\* packetloss.c: a dropped packet whose headers are not read makes no event.
kfree_skb(skb) ==
  ptEvent' = IF set_tuple(skb) < 0 THEN ptEvent
             ELSE [prog |-> "packetloss", status |-> 0, type |-> "none", skb |-> skb]

\* tcpreset.c: a reset is always reported, with a zero tuple when the headers are not read.
trace_sendreset(skb, hasSock) ==
  ptEvent' = [prog |-> "tcpreset", status |-> set_tuple(skb), skb |-> skb,
              type |-> IF hasSock THEN "PROCESS" ELSE "NOSOCK"]

trace_sendactive(hasSock) ==
  ptEvent' = IF ~hasSock THEN ptEvent ELSE [prog |-> "tcpreset", status |-> 0, skb |-> << >>, type |-> "ACTIVE"]

\* A received reset is dropped when its stack does not fit in the stack map.
insp_rstrx(stack_id, hasSock) ==
  ptEvent' = IF stack_id < 0 \/ ~hasSock THEN ptEvent
             ELSE [prog |-> "tcpreset", status |-> 0, skb |-> << >>, type |-> "RECEIVE"]

tcpretrans == ptEvent' = [prog |-> "tcpretrans", status |-> 0, skb |-> << >>, type |-> "none"]

PtNext == /\ \/ \E skb \in Skbs : kfree_skb(skb) \/ \E hasSock \in BOOLEAN : trace_sendreset(skb, hasSock)
             \/ \E id \in {0, -17}, hasSock \in BOOLEAN : insp_rstrx(id, hasSock)
             \/ \E hasSock \in BOOLEAN : trace_sendactive(hasSock)
             \/ tcpretrans
          /\ UNCHANGED now
-----------------------------------------------------------------------------
FlTypeOK ==
  /\ flFrames \in 0..MaxFrames /\ flStale \in BOOLEAN
  /\ Cardinality(DOMAIN insp_flow4_metrics) <= FlMaxEntries
  /\ \A t \in DOMAIN insp_flow4_metrics : insp_flow4_metrics[t] \in [FlCpus -> [packets : Nat, bytes : Nat]]

\* What the exporter sums over the CPUs for a flow is every packet and byte of it since it
\* entered the map: CPUs that miss the same new flow together lose nothing to each other,
\* as long as no entry is evicted between a CPU's lookup and its addition.
FlowCountsExact ==
  ~flStale => \A t \in DOMAIN insp_flow4_metrics :
    /\ MapThenSumSet(LAMBDA c : insp_flow4_metrics[t][c].packets, FlCpus) = flSeen[t].packets
    /\ MapThenSumSet(LAMBDA c : insp_flow4_metrics[t][c].bytes, FlCpus) = flSeen[t].bytes

\* What is read for a packet is behind head and before the end of its linear part, and the
\* ports are read behind the addresses.
ReadInside(skb) ==
  /\ skb.paged <= skb.headroom => ReadsEnd(skb) <= LinearEnd(skb)
  /\ skb.len < U16 => L4Off(skb) = L3End(skb)

\* What set_tuple accepts it reads from the packet's own memory: the offsets count from an
\* earlier byte than skb->len, so bounding them by it is safe as long as the fragments hold
\* no more than the room before the data.  The ports are read behind the addresses unless
\* the packet is longer than l4_off, a u16, can count.
TupleReadsInside ==
  (ptEvent.prog = "packetloss" \/ (ptEvent.prog = "tcpreset" /\ ptEvent.skb # << >>))
    /\ ptEvent.status = 0 => ReadInside(ptEvent.skb)
=============================================================================
