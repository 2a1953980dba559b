--------------------------- MODULE KernelLatency ---------------------------
(***************************************************************************)
(* bpf/kernellatency.c: the time a packet spends between the first and the *)
(* last of four kernel functions, on the way in and on the way out, kept   *)
(* in two hash maps under the address of its sk_buff.                      *)
(*                                                                         *)
(* The kernel, which is not part of the repository, is modelled as far as  *)
(* the program sees it: a packet lives at an address, runs along one of    *)
(* four routes, may be freed anywhere on it, and its address is used again.*)
(***************************************************************************)
EXTENDS BpfMaps, Sequences

CONSTANTS Addr,          \* sk_buff addresses
          MaxPkts,       \* bound on the packets allocated in a behaviour
          KlThresh,      \* THRESH, 10 ms in the source
          KlMaxEntries   \* max_entries of both maps, 10000 in the source

VARIABLES skb,                  \* live packets: address -> [gen, route, pos]
          pkts,                 \* packets allocated so far; the last one's gen
          insp_kernelrx_entry,  \* address -> [stamp, gen], gen is history
          insp_kerneltx_entry,
          klEvent,              \* the last event written to the perf buffer
          klLeaked              \* history: a packet with an entry was freed by
                                \* a function the program does not hook

klVars == <<skb, pkts, insp_kernelrx_entry, insp_kerneltx_entry, klEvent, klLeaked>>

\* The hooked functions each kind of packet runs through.  A forwarded packet never
\* reaches ip_local_deliver_finish; a UDP packet is sent without __ip_queue_xmit.
Route == [deliver |-> <<"ip_rcv", "ip_rcv_finish", "ip_local_deliver", "ip_local_deliver_finish">>,
          forward |-> <<"ip_rcv", "ip_rcv_finish", "ip_output", "ip_finish_output2">>,
          tcp     |-> <<"__ip_queue_xmit", "ip_local_out", "ip_output", "ip_finish_output2">>,
          udp     |-> <<"ip_local_out", "ip_output", "ip_finish_output2">>]

NoKlEvent == [dir |-> "none", latency |-> 0, stamp |-> <<0, 0, 0, 0>>, opened |-> 0, gen |-> 0]

KlInit == /\ skb = << >> /\ pkts = 0
          /\ insp_kernelrx_entry = << >> /\ insp_kerneltx_entry = << >>
          /\ klEvent = NoKlEvent /\ klLeaked = FALSE

\* The packet at address a calls fn.
Calls(a, fn) == /\ a \in DOMAIN skb
                /\ skb[a].pos <= Len(Route[skb[a].route])
                /\ Route[skb[a].route][skb[a].pos] = fn
                /\ skb' = [skb EXCEPT ![a].pos = @ + 1]

SkbAlloc(a, route) == /\ a \notin DOMAIN skb /\ pkts < MaxPkts
                      /\ pkts' = pkts + 1
                      /\ skb' = Put(skb, a, [gen |-> pkts + 1, route |-> route, pos |-> 1])
                      /\ UNCHANGED <<insp_kernelrx_entry, insp_kerneltx_entry, klEvent, klLeaked>>

-----------------------------------------------------------------------------

Fresh(a) == [stamp |-> <<now, 0, 0, 0>>, gen |-> skb[a].gen]

Stamp(m, a, i) == IF a \in DOMAIN m THEN [m EXCEPT ![a].stamp[i] = now] ELSE m

\* update_rxlat and update_txlat: report when the span exceeds the threshold.
Reported(m, a, dir) ==
  LET lat == m[a].stamp IN
  IF a \in DOMAIN m /\ now > lat[1] /\ now - lat[1] > KlThresh
  THEN [dir |-> dir, latency |-> now - lat[1], stamp |-> [lat EXCEPT ![4] = now],
        opened |-> m[a].gen, gen |-> skb[a].gen]
  ELSE klEvent

klatency_ip_rcv(a) ==
  /\ Calls(a, "ip_rcv")
  /\ insp_kernelrx_entry' = HashUpdate(insp_kernelrx_entry, a, Fresh(a), KlMaxEntries)
  /\ UNCHANGED <<pkts, insp_kerneltx_entry, klEvent, klLeaked>>

klatency_ip_rcv_finish(a) ==
  /\ Calls(a, "ip_rcv_finish")
  /\ insp_kernelrx_entry' = Stamp(insp_kernelrx_entry, a, 2)
  /\ UNCHANGED <<pkts, insp_kerneltx_entry, klEvent, klLeaked>>

klatency_ip_local_deliver(a) ==
  /\ Calls(a, "ip_local_deliver")
  /\ insp_kernelrx_entry' = Stamp(insp_kernelrx_entry, a, 3)
  /\ UNCHANGED <<pkts, insp_kerneltx_entry, klEvent, klLeaked>>

klatency_ip_local_deliver_finish(a) ==
  /\ Calls(a, "ip_local_deliver_finish")
  /\ klEvent' = Reported(insp_kernelrx_entry, a, "rx")
  /\ insp_kernelrx_entry' = HashDelete(insp_kernelrx_entry, a)
  /\ UNCHANGED <<pkts, insp_kerneltx_entry, klLeaked>>

klatency_ip_queue_xmit(a) ==
  /\ Calls(a, "__ip_queue_xmit")
  /\ insp_kerneltx_entry' = HashUpdate(insp_kerneltx_entry, a, Fresh(a), KlMaxEntries)
  /\ UNCHANGED <<pkts, insp_kernelrx_entry, klEvent, klLeaked>>

klatency_ip_local(a) ==
  /\ Calls(a, "ip_local_out")
  /\ insp_kerneltx_entry' = Stamp(insp_kerneltx_entry, a, 2)
  /\ UNCHANGED <<pkts, insp_kernelrx_entry, klEvent, klLeaked>>

klatency_ip_output(a) ==
  /\ Calls(a, "ip_output")
  /\ insp_kerneltx_entry' = Stamp(insp_kerneltx_entry, a, 3)
  /\ UNCHANGED <<pkts, insp_kernelrx_entry, klEvent, klLeaked>>

klatency_ip_finish_output2(a) ==
  /\ Calls(a, "ip_finish_output2")
  /\ klEvent' = Reported(insp_kerneltx_entry, a, "tx")
  /\ insp_kerneltx_entry' = HashDelete(insp_kerneltx_entry, a)
  /\ UNCHANGED <<pkts, insp_kernelrx_entry, klLeaked>>

Forget(a) == /\ insp_kernelrx_entry' = HashDelete(insp_kernelrx_entry, a)
             /\ insp_kerneltx_entry' = HashDelete(insp_kerneltx_entry, a)

\* kfree_skb and consume_skb drop a reference; only the last one ends the packet's life.
Released(a, last) == /\ a \in DOMAIN skb
                     /\ skb' = IF last THEN HashDelete(skb, a) ELSE skb
                     /\ UNCHANGED <<pkts, klEvent, klLeaked>>

\* Mutant: a consumed packet is forgotten on the way in only.
ConsumeRxOnly(a, last) == /\ Released(a, last)
                          /\ insp_kernelrx_entry' = HashDelete(insp_kernelrx_entry, a)
                          /\ UNCHANGED insp_kerneltx_entry

report_kfree(a, last)   == Released(a, last) /\ Forget(a)
report_consume(a, last) == Released(a, last) /\ Forget(a)

\* The kernel has other functions that free a packet (napi_consume_skb,
\* kfree_skb_partial); the program does not see them.
UnhookedFree(a) == /\ a \in DOMAIN skb
                   /\ skb' = HashDelete(skb, a)
                   /\ klLeaked' = (klLeaked \/ a \in DOMAIN insp_kernelrx_entry
                                            \/ a \in DOMAIN insp_kerneltx_entry)
                   /\ UNCHANGED <<pkts, insp_kernelrx_entry, insp_kerneltx_entry, klEvent>>

KlCall(a) == \/ klatency_ip_rcv(a) \/ klatency_ip_rcv_finish(a)
             \/ klatency_ip_local_deliver(a) \/ klatency_ip_local_deliver_finish(a)
             \/ klatency_ip_queue_xmit(a) \/ klatency_ip_local(a)
             \/ klatency_ip_output(a) \/ klatency_ip_finish_output2(a)
             \/ UnhookedFree(a)
             \/ \E route \in DOMAIN Route : SkbAlloc(a, route)
             \/ \E last \in BOOLEAN : report_kfree(a, last) \/ report_consume(a, last)

KlNext == \/ \E a \in Addr : KlCall(a) /\ UNCHANGED now
          \/ KernelTick /\ UNCHANGED klVars

KlSpec == now = 1 /\ KlInit /\ [][KlNext]_<<now, klVars>>
-----------------------------------------------------------------------------
KlEntry == [stamp : [1..4 -> 0..MaxTime], gen : 1..MaxPkts]

\* Packets, entries and the event have their types and neither map outgrows max_entries.
KlTypeOK ==
  /\ DOMAIN skb \subseteq Addr /\ pkts \in 0..MaxPkts
  /\ \A a \in DOMAIN skb : skb[a] \in [gen : 1..pkts, route : DOMAIN Route, pos : 1..5]
  /\ \A m \in {insp_kernelrx_entry, insp_kerneltx_entry} :
       /\ DOMAIN m \subseteq Addr /\ Cardinality(DOMAIN m) <= KlMaxEntries
       /\ \A a \in DOMAIN m : m[a] \in KlEntry

\* RXKERNEL_SLOW is about one packet: the stamp it starts from was taken for the packet
\* that is being delivered, even when the address had belonged to a packet freed behind
\* the program's back, because ip_rcv replaces whatever entry the address had.
RxSpanOfOnePacket == klEvent.dir = "rx" => klEvent.opened = klEvent.gen

\* TXKERNEL_SLOW is about one packet too, as long as no packet with an entry was freed by
\* a function the program does not hook: ip_local_out, ip_output and ip_finish_output2 take
\* an entry that another packet left at the address for their own.
TxSpanOfOnePacket == (klEvent.dir = "tx" /\ ~klLeaked) => klEvent.opened = klEvent.gen

\* With every free hooked, an entry is the entry of the packet that lives at its address:
\* the maps hold at most the packets in flight and cannot fill up with dead ones.
NoOrphanEntries ==
  ~klLeaked => \A m \in {insp_kernelrx_entry, insp_kerneltx_entry} : \A a \in DOMAIN m :
                 a \in DOMAIN skb /\ m[a].gen = skb[a].gen
=============================================================================
