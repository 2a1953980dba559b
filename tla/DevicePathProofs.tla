-------------------------- MODULE DevicePathProofs --------------------------
(***************************************************************************)
(* What the programs between the IP layer and the devices report is true   *)
(* of the packet, vector, command or request it is about, for any sets of  *)
(* addresses, CPUs and threads, any threshold and any size of the maps;    *)
(* and the flow probe keeps its filters in step with the interfaces,       *)
(* whatever the order of the link events, of its start and of its stop.    *)
(*                                                                         *)
(* Every program has an invariant XInv that its own steps keep, and that   *)
(* the others keep as they move nothing of it but the clock.               *)
(***************************************************************************)
EXTENDS KernelLatency, TxQueueLatency, SoftirqLatency, DeviceLatency, LinkFlow, TLAPS

\* A sequence with one element replaced.
LEMMA SetElement ==
  ASSUME NEW S, NEW s \in Seq(S), NEW i \in DOMAIN s, NEW v \in S
  PROVE  LET u == [s EXCEPT ![i] = v] IN
         /\ u \in Seq(S) /\ DOMAIN u = DOMAIN s /\ u[i] = v
         /\ \A x \in DOMAIN s : x # i => u[x] = s[x]
  OBVIOUS

-----------------------------------------------------------------------------
(* KernelLatency *)

Entry == [stamp : [1..4 -> Nat], gen : Nat]
Packet == [gen : Nat, route : {"deliver", "forward", "tcp", "udp"}, pos : Nat \ {0}]

\* As much of the types as the argument needs.
KlShapes == /\ now \in Nat /\ pkts \in Nat /\ klLeaked \in BOOLEAN
          /\ skb \in [DOMAIN skb -> Packet]
          /\ insp_kernelrx_entry \in [DOMAIN insp_kernelrx_entry -> Entry]
          /\ insp_kerneltx_entry \in [DOMAIN insp_kerneltx_entry -> Entry]

\* A received packet that has passed ip_rcv finds its own entry, or none.
RxOwn == \A a \in DOMAIN skb :
           (skb[a].route \in {"deliver", "forward"} /\ skb[a].pos > 1 /\ a \in DOMAIN insp_kernelrx_entry)
           => insp_kernelrx_entry[a].gen = skb[a].gen

KlInv == KlShapes /\ RxOwn /\ NoOrphanEntries /\ RxSpanOfOnePacket /\ TxSpanOfOnePacket

-----------------------------------------------------------------------------
\* A packet that calls a function keeps its identity and moves on by one; ip_rcv is the
\* first call of a received packet and ip_local_deliver_finish never is (the kernel's
\* routes through the hooks of kernellatency.c).
LEMMA CallsMoves ==
  ASSUME KlShapes, NEW a, NEW fn, Calls(a, fn)
  PROVE  /\ a \in DOMAIN skb /\ DOMAIN skb' = DOMAIN skb
         /\ skb' \in [DOMAIN skb -> Packet]
         /\ \A b \in DOMAIN skb : /\ skb'[b].gen = skb[b].gen /\ skb'[b].route = skb[b].route
                                  /\ b # a => skb'[b] = skb[b]
         /\ fn = "ip_local_deliver_finish" => skb[a].route = "deliver" /\ skb[a].pos > 1
         /\ skb[a].route \in {"deliver", "forward"} /\ fn # "ip_rcv" => skb[a].pos > 1
<1>1. a \in DOMAIN skb /\ skb' = [skb EXCEPT ![a].pos = @ + 1]  BY Zenon DEF Calls
<1>2. /\ skb[a].route \in {"deliver", "forward", "tcp", "udp"} /\ skb[a].pos \in Nat \ {0}
      /\ skb[a].pos <= Len(Route[skb[a].route]) /\ Route[skb[a].route][skb[a].pos] = fn
  BY Zenon DEF Calls, KlShapes, Packet
<1>3. skb' \in [DOMAIN skb -> Packet] /\ DOMAIN skb' = DOMAIN skb
  BY <1>1 DEF KlShapes, Packet
<1>4. \A b \in DOMAIN skb : /\ skb'[b].gen = skb[b].gen /\ skb'[b].route = skb[b].route
                            /\ b # a => skb'[b] = skb[b]
  BY <1>1, Zenon DEF KlShapes, Packet
<1>. DEFINE r == skb[a].route
            p == skb[a].pos
<1>. DEFINE Firsts == /\ fn = "ip_local_deliver_finish" => r = "deliver" /\ p > 1
                      /\ r \in {"deliver", "forward"} /\ fn # "ip_rcv" => p > 1
<1>5. ASSUME r = "deliver" PROVE Firsts
  <2>1. Route[r] = <<"ip_rcv", "ip_rcv_finish", "ip_local_deliver", "ip_local_deliver_finish">>
    BY <1>5 DEF Route
  <2>2. p \in 1..4  BY <1>2, <2>1
  <2>. QED  BY <1>2, <1>5, <2>1, <2>2
<1>6. ASSUME r = "forward" PROVE Firsts
  <2>1. Route[r] = <<"ip_rcv", "ip_rcv_finish", "ip_output", "ip_finish_output2">>
    BY <1>6 DEF Route
  <2>2. p \in 1..4  BY <1>2, <2>1
  <2>. QED  BY <1>2, <1>6, <2>1, <2>2
<1>7. ASSUME r = "tcp" PROVE Firsts
  <2>1. Route[r] = <<"__ip_queue_xmit", "ip_local_out", "ip_output", "ip_finish_output2">>
    BY <1>7 DEF Route
  <2>2. p \in 1..4  BY <1>2, <2>1
  <2>. QED  BY <1>2, <1>7, <2>1, <2>2
<1>8. ASSUME r = "udp" PROVE Firsts
  <2>1. Route[r] = <<"ip_local_out", "ip_output", "ip_finish_output2">>
    BY <1>8 DEF Route
  <2>2. p \in 1..3  BY <1>2, <2>1
  <2>. QED  BY <1>2, <1>8, <2>1, <2>2
<1>9. QED  BY <1>1, <1>2, <1>3, <1>4, <1>5, <1>6, <1>7, <1>8, Zenon

-----------------------------------------------------------------------------
\* u is the map m after a step of the packet at a: an entry is an old one, with the packet
\* it was made for, or the one of the packet at a.
Follows(m, u, a) ==
  /\ u \in [DOMAIN u -> Entry]
  /\ \A b \in DOMAIN u : (b \in DOMAIN m /\ u[b].gen = m[b].gen) \/ (b = a /\ u[b].gen = skb[a].gen)

\* bpf_map_update_elem with a fresh entry: either it is there or the map was full.
LEMMA UpdateFollows ==
  ASSUME KlShapes, NEW m, m \in [DOMAIN m -> Entry], NEW a \in DOMAIN skb, NEW n
  PROVE  LET u == HashUpdate(m, a, Fresh(a), n) IN
         Follows(m, u, a) /\ (a \in DOMAIN u => u[a].gen = skb[a].gen)
<1>1. Fresh(a) \in Entry /\ Fresh(a).gen = skb[a].gen
  BY DEF Fresh, Entry, KlShapes, Packet
<1>2. QED  BY <1>1, Zenon DEF HashUpdate, Put, Follows

\* A stamp changes no entry's packet.
LEMMA StampFollows ==
  ASSUME KlShapes, NEW m, m \in [DOMAIN m -> Entry], NEW a, NEW i \in 1..4
  PROVE  Follows(m, Stamp(m, a, i), a)
  BY Zenon DEF Stamp, Follows, Entry, KlShapes

\* Deleting an entry leaves the others as they are.
LEMMA DeleteFollows ==
  ASSUME NEW m, m \in [DOMAIN m -> Entry], NEW a
  PROVE  Follows(m, HashDelete(m, a), a) /\ DOMAIN HashDelete(m, a) = DOMAIN m \ {a}
  BY Zenon DEF HashDelete, Follows

\* A hook that treats its maps so keeps what is known of them.
LEMMA CallKeeps ==
  ASSUME KlInv, NEW a, NEW fn, Calls(a, fn), UNCHANGED <<now, pkts, klLeaked>>,
         Follows(insp_kernelrx_entry, insp_kernelrx_entry', a),
         Follows(insp_kerneltx_entry, insp_kerneltx_entry', a),
         (fn = "ip_rcv" /\ a \in DOMAIN insp_kernelrx_entry')
            => insp_kernelrx_entry'[a].gen = skb[a].gen
  PROVE  KlShapes' /\ RxOwn' /\ NoOrphanEntries'
<1>1. KlShapes  BY Zenon DEF KlInv
<1>2. /\ a \in DOMAIN skb /\ DOMAIN skb' = DOMAIN skb
      /\ skb' \in [DOMAIN skb -> Packet]
      /\ \A b \in DOMAIN skb : /\ skb'[b].gen = skb[b].gen /\ skb'[b].route = skb[b].route
                               /\ b # a => skb'[b] = skb[b]
      /\ skb[a].route \in {"deliver", "forward"} /\ fn # "ip_rcv" => skb[a].pos > 1
  BY <1>1, CallsMoves
<1>3. KlShapes'  BY <1>1, <1>2, Zenon DEF KlShapes, Follows
<1>4. RxOwn'
  <2>1. SUFFICES ASSUME NEW b \in DOMAIN skb', skb'[b].route \in {"deliver", "forward"}, skb'[b].pos > 1,
                        b \in DOMAIN insp_kernelrx_entry'
                 PROVE  insp_kernelrx_entry'[b].gen = skb'[b].gen
    BY Zenon DEF RxOwn
  <2>2. CASE b = a  BY <1>2, <2>1, <2>2, Zenon DEF KlInv, RxOwn, Follows
  <2>3. CASE b # a  BY <1>2, <2>1, <2>3, Zenon DEF KlInv, RxOwn, Follows
  <2>4. QED  BY <2>2, <2>3, Zenon
<1>5. NoOrphanEntries'
  BY <1>2 DEF KlInv, NoOrphanEntries, Follows
<1>6. QED  BY <1>3, <1>4, <1>5, Zenon

\* A map that a hook leaves alone.
LEMMA SameFollows ==
  ASSUME NEW m, m \in [DOMAIN m -> Entry], NEW a
  PROVE  Follows(m, m, a)
  BY Zenon DEF Follows

-----------------------------------------------------------------------------
\* Every hook keeps the invariant.
LEMMA HookInv ==
  ASSUME KlInv, NEW a, KlCall(a), UNCHANGED now
  PROVE  KlInv'
<1>. DEFINE rx == insp_kernelrx_entry
            tx == insp_kerneltx_entry
            Same == Follows(rx, rx, a) /\ Follows(tx, tx, a)
            Spans == RxSpanOfOnePacket /\ TxSpanOfOnePacket
<1>0. /\ KlShapes /\ RxOwn /\ NoOrphanEntries /\ Spans
      /\ rx \in [DOMAIN rx -> Entry] /\ tx \in [DOMAIN tx -> Entry] /\ Same
  BY SameFollows, Zenon DEF KlInv, KlShapes
<1>1. UNCHANGED <<klEvent, klLeaked>> => Spans'
  BY <1>0 DEF RxSpanOfOnePacket, TxSpanOfOnePacket
<1>2. CASE klatency_ip_rcv(a)
  <2>1. a \in DOMAIN skb  BY <1>2, <1>0, CallsMoves, Zenon DEF klatency_ip_rcv
  <2>2. Follows(rx, rx', a) /\ (a \in DOMAIN rx' => rx'[a].gen = skb[a].gen)
    BY <1>0, <1>2, <2>1, UpdateFollows, Zenon DEF klatency_ip_rcv
  <2>3. KlShapes' /\ RxOwn' /\ NoOrphanEntries'
    BY <1>0, <1>2, <2>2, CallKeeps, Zenon DEF klatency_ip_rcv
  <2>4. QED  BY <1>1, <1>2, <2>3, Zenon DEF KlInv, klatency_ip_rcv
<1>3. CASE klatency_ip_rcv_finish(a)
  <2>1. Follows(rx, rx', a)  BY <1>0, <1>3, StampFollows DEF klatency_ip_rcv_finish
  <2>2. KlShapes' /\ RxOwn' /\ NoOrphanEntries'
    BY <1>0, <1>3, <2>1, CallKeeps, Zenon DEF klatency_ip_rcv_finish
  <2>3. QED  BY <1>1, <1>3, <2>2, Zenon DEF KlInv, klatency_ip_rcv_finish
<1>4. CASE klatency_ip_local_deliver(a)
  <2>1. Follows(rx, rx', a)  BY <1>0, <1>4, StampFollows DEF klatency_ip_local_deliver
  <2>2. KlShapes' /\ RxOwn' /\ NoOrphanEntries'
    BY <1>0, <1>4, <2>1, CallKeeps, Zenon DEF klatency_ip_local_deliver
  <2>3. QED  BY <1>1, <1>4, <2>2, Zenon DEF KlInv, klatency_ip_local_deliver
<1>5. CASE klatency_ip_local(a)
  <2>1. Follows(tx, tx', a)  BY <1>0, <1>5, StampFollows DEF klatency_ip_local
  <2>2. KlShapes' /\ RxOwn' /\ NoOrphanEntries'
    BY <1>0, <1>5, <2>1, CallKeeps, Zenon DEF klatency_ip_local
  <2>3. QED  BY <1>1, <1>5, <2>2, Zenon DEF KlInv, klatency_ip_local
<1>6. CASE klatency_ip_output(a)
  <2>1. Follows(tx, tx', a)  BY <1>0, <1>6, StampFollows DEF klatency_ip_output
  <2>2. KlShapes' /\ RxOwn' /\ NoOrphanEntries'
    BY <1>0, <1>6, <2>1, CallKeeps, Zenon DEF klatency_ip_output
  <2>3. QED  BY <1>1, <1>6, <2>2, Zenon DEF KlInv, klatency_ip_output
<1>7. CASE klatency_ip_queue_xmit(a)
  <2>1. a \in DOMAIN skb  BY <1>7, <1>0, CallsMoves, Zenon DEF klatency_ip_queue_xmit
  <2>2. Follows(tx, tx', a)
    BY <1>0, <1>7, <2>1, UpdateFollows, Zenon DEF klatency_ip_queue_xmit
  <2>3. KlShapes' /\ RxOwn' /\ NoOrphanEntries'
    BY <1>0, <1>7, <2>2, CallKeeps, Zenon DEF klatency_ip_queue_xmit
  <2>4. QED  BY <1>1, <1>7, <2>3, Zenon DEF KlInv, klatency_ip_queue_xmit
<1>8. CASE klatency_ip_local_deliver_finish(a)
  <2>1. Follows(rx, rx', a)  BY <1>0, <1>8, DeleteFollows, ZenonT(30) DEF klatency_ip_local_deliver_finish
  <2>2. KlShapes' /\ RxOwn' /\ NoOrphanEntries'
    BY <1>0, <1>8, <2>1, CallKeeps, Zenon DEF klatency_ip_local_deliver_finish
  <2>3. a \in DOMAIN skb /\ skb[a].route = "deliver" /\ skb[a].pos > 1
    BY <1>0, <1>8, CallsMoves, Zenon DEF klatency_ip_local_deliver_finish
  <2>4. a \in DOMAIN rx => rx[a].gen = skb[a].gen  BY <1>0, <2>3, Zenon DEF RxOwn
  <2>5. Spans'
    BY <1>0, <1>8, <2>4, Zenon DEF klatency_ip_local_deliver_finish, Reported, RxSpanOfOnePacket, TxSpanOfOnePacket
  <2>6. QED  BY <2>2, <2>5, Zenon DEF KlInv
<1>9. CASE klatency_ip_finish_output2(a)
  <2>1. Follows(tx, tx', a)  BY <1>0, <1>9, DeleteFollows, ZenonT(30) DEF klatency_ip_finish_output2
  <2>2. KlShapes' /\ RxOwn' /\ NoOrphanEntries'
    BY <1>0, <1>9, <2>1, CallKeeps, Zenon DEF klatency_ip_finish_output2
  <2>4. ~klLeaked /\ a \in DOMAIN tx => tx[a].gen = skb[a].gen  BY <1>0, Zenon DEF NoOrphanEntries
  <2>5. Spans'
    BY <1>0, <1>9, <2>4, Zenon DEF klatency_ip_finish_output2, Reported, RxSpanOfOnePacket, TxSpanOfOnePacket
  <2>6. QED  BY <2>2, <2>5, Zenon DEF KlInv
<1>10. CASE \E last \in BOOLEAN : report_kfree(a, last) \/ report_consume(a, last)
  <2>1. PICK last \in BOOLEAN : Released(a, last) /\ Forget(a)
    BY <1>10, Zenon DEF report_kfree, report_consume
  <2>2. /\ Follows(rx, rx', a) /\ DOMAIN rx' = DOMAIN rx \ {a}
        /\ Follows(tx, tx', a) /\ DOMAIN tx' = DOMAIN tx \ {a}
    BY <1>0, <2>1, DeleteFollows, Zenon DEF Forget
  <2>3. /\ skb' \in [DOMAIN skb' -> Packet] /\ DOMAIN skb \ {a} \subseteq DOMAIN skb'
        /\ DOMAIN skb' \subseteq DOMAIN skb /\ \A b \in DOMAIN skb' : skb'[b] = skb[b]
    BY <1>0, <2>1, Zenon DEF Released, HashDelete, KlShapes
  <2>4. KlShapes'  BY <1>0, <2>1, <2>2, <2>3, Zenon DEF Released, KlShapes, Follows
  <2>5. RxOwn' /\ NoOrphanEntries'
    BY <1>0, <2>1, <2>2, <2>3 DEF Released, RxOwn, NoOrphanEntries, Follows
  <2>6. QED  BY <1>1, <2>1, <2>4, <2>5, Zenon DEF KlInv, Released
<1>11. CASE UnhookedFree(a)
  <2>1. /\ skb' \in [DOMAIN skb' -> Packet] /\ DOMAIN skb' = DOMAIN skb \ {a}
        /\ \A b \in DOMAIN skb' : skb'[b] = skb[b]
    BY <1>0, <1>11, Zenon DEF UnhookedFree, HashDelete, KlShapes
  <2>2. KlShapes' /\ RxOwn'
    BY <1>0, <1>11, <2>1, Zenon DEF UnhookedFree, KlShapes, RxOwn
  <2>3. NoOrphanEntries' /\ Spans'
    BY <1>0, <1>11, <2>1, ZenonT(30) DEF UnhookedFree, KlShapes, NoOrphanEntries, RxSpanOfOnePacket, TxSpanOfOnePacket
  <2>4. QED  BY <2>2, <2>3, Zenon DEF KlInv
<1>12. CASE \E route \in DOMAIN Route : SkbAlloc(a, route)
  <2>1. PICK route \in {"deliver", "forward", "tcp", "udp"} : SkbAlloc(a, route)
    BY <1>12, Zenon DEF Route
  <2>2. /\ a \notin DOMAIN skb /\ DOMAIN skb' = DOMAIN skb \cup {a}
        /\ skb' \in [DOMAIN skb' -> Packet] /\ skb'[a].pos = 1
        /\ \A b \in DOMAIN skb : skb'[b] = skb[b]
    BY <1>0, <2>1 DEF SkbAlloc, Put, KlShapes, Packet
  <2>3. KlShapes' /\ RxOwn'
    BY <1>0, <2>1, <2>2 DEF SkbAlloc, KlShapes, RxOwn
  <2>4. NoOrphanEntries'
    BY <1>0, <2>1, <2>2, Zenon DEF SkbAlloc, NoOrphanEntries
  <2>5. QED  BY <1>1, <2>1, <2>3, <2>4, Zenon DEF KlInv, SkbAlloc
<1>13. QED  BY <1>2, <1>3, <1>4, <1>5, <1>6, <1>7, <1>8, <1>9, <1>10, <1>11, <1>12, Zenon DEF KlCall

\* A step of the program, or of another one.
LEMMA KlKept ==
  ASSUME KlInv, KlNext \/ (Later /\ UNCHANGED klVars)
  PROVE  KlInv'
<1>1. CASE \E a \in Addr : KlCall(a) /\ UNCHANGED now  BY <1>1, HookInv, Zenon
<1>2. CASE (KernelTick \/ Later) /\ UNCHANGED klVars
  <2>1. now' \in Nat  BY <1>2 DEF KlInv, KlShapes, KernelTick, Later
  <2>2. QED
    BY <1>2, <2>1, Zenon DEF klVars, KlInv, KlShapes, RxOwn, NoOrphanEntries, RxSpanOfOnePacket, TxSpanOfOnePacket
<1>3. QED  BY <1>1, <1>2, Zenon DEF KlNext

LEMMA KlStarts ==
  ASSUME now = 1, KlInit
  PROVE  KlInv
<1>1. DOMAIN << >> = {}  OBVIOUS
<1>2. << >> \in [{} -> Packet] /\ << >> \in [{} -> Entry]  OBVIOUS
<1>3. KlShapes  BY <1>1, <1>2, ZenonT(30) DEF KlInit, KlShapes
<1>4. RxOwn /\ NoOrphanEntries  BY <1>1, Zenon DEF KlInit, RxOwn, NoOrphanEntries
<1>5. RxSpanOfOnePacket /\ TxSpanOfOnePacket
  BY Zenon DEF KlInit, NoKlEvent, RxSpanOfOnePacket, TxSpanOfOnePacket
<1>6. QED  BY <1>3, <1>4, <1>5, Zenon DEF KlInv
-----------------------------------------------------------------------------
(* TxQueueLatency *)

TqPacket == [addr : TqAddr, direct : BOOLEAN, at : {"new", "queued", "sending", "sent"},
             owns : BOOLEAN, queued : Nat, started : Nat]
TqShapes == /\ now \in Nat /\ tqPkt \in Seq(TqPacket)
            /\ insp_txq \in [DOMAIN insp_txq -> Nat] /\ insp_txs \in [DOMAIN insp_txs -> Nat]

\* An address has one owner; a packet that was not given to the driver owns its own, and
\* only a packet that passed net_dev_queue waits in the queue.
OneOwner ==
  /\ \A g, h \in DOMAIN tqPkt :
       tqPkt[g].owns /\ tqPkt[h].owns /\ tqPkt[g].addr = tqPkt[h].addr => g = h
  /\ \A g \in DOMAIN tqPkt : /\ tqPkt[g].at \in {"new", "queued"} => tqPkt[g].owns
                             /\ tqPkt[g].at = "queued" => ~tqPkt[g].direct

\* The queue's stamp at the address of a packet that may be started, or given back by a
\* busy driver, is the packet's own.
QueueStampOwn == \A g \in DOMAIN tqPkt :
  (tqPkt[g].at \in {"queued", "sending"} /\ tqPkt[g].owns /\ ~tqPkt[g].direct
     /\ tqPkt[g].addr \in DOMAIN insp_txq) => insp_txq[tqPkt[g].addr] = tqPkt[g].queued

\* The driver's stamp is not older than any packet that is being sent from the address:
\* a start without the queue's stamp finds no driver's stamp either.
DriverStampLater ==
  /\ DOMAIN insp_txs \subseteq DOMAIN insp_txq
  /\ \A g \in DOMAIN tqPkt :
       /\ tqPkt[g].started <= now
       /\ tqPkt[g].at = "sending" /\ tqPkt[g].addr \in DOMAIN insp_txs =>
            insp_txs[tqPkt[g].addr] >= tqPkt[g].started

TqInv == TqShapes /\ OneOwner /\ QueueStampOwn /\ DriverStampLater /\ QdiscSpanIsOwn /\ XmitNeverOverstated

\* An event of a start or a completion with such stamps is true.
LEMMA TqReportTrue ==
  ASSUME TqInv, NEW g \in DOMAIN tqPkt,
         \/ tqEvent' = tqEvent
         \/ /\ tqPkt[g].at = "queued" \/ tqPkt[g].direct
            /\ tqEvent' = TqReported(insp_txq, g, "QDISC", now - tqPkt[g].queued)
         \/ tqPkt[g].at = "sending" /\ tqEvent' = TqReported(insp_txs, g, "XMIT", now - tqPkt[g].started)
  PROVE  QdiscSpanIsOwn' /\ XmitNeverOverstated'
<1>1. CASE tqEvent' = tqEvent  BY <1>1, Zenon DEF TqInv, QdiscSpanIsOwn, XmitNeverOverstated
<1>2. tqPkt[g] \in TqPacket  BY DEF TqInv, TqShapes
<1>3. CASE /\ tqPkt[g].at = "queued" \/ tqPkt[g].direct
           /\ tqEvent' = [action |-> "QDISC", latency |-> now - insp_txq[tqPkt[g].addr],
                          direct |-> tqPkt[g].direct, own |-> now - tqPkt[g].queued]
           /\ tqPkt[g].addr \in DOMAIN insp_txq
  BY <1>2, <1>3, Zenon DEF TqInv, OneOwner, QueueStampOwn, QdiscSpanIsOwn, XmitNeverOverstated
<1>4. CASE /\ tqPkt[g].at = "sending" /\ tqPkt[g].addr \in DOMAIN insp_txs
           /\ tqEvent' = [action |-> "XMIT", latency |-> now - insp_txs[tqPkt[g].addr],
                          direct |-> tqPkt[g].direct, own |-> now - tqPkt[g].started]
  <2>1. insp_txs[tqPkt[g].addr] \in Nat /\ tqPkt[g].started \in Nat /\ now \in Nat
    BY <1>2, <1>4, Zenon DEF TqInv, TqShapes, TqPacket
  <2>2. insp_txs[tqPkt[g].addr] >= tqPkt[g].started  BY <1>4, Zenon DEF TqInv, DriverStampLater
  <2>3. QED  BY <1>4, <2>1, <2>2 DEF QdiscSpanIsOwn, XmitNeverOverstated
<1>5. QED  BY <1>1, <1>3, <1>4, Zenon DEF TqReported

\* A packet comes to an address that nobody owns.
LEMMA TqArriveKeeps ==
  ASSUME TqInv, NEW a \in TqAddr, NEW direct \in BOOLEAN, TqArrive(a, direct), UNCHANGED now
  PROVE  TqInv'
<1>. DEFINE p == [addr |-> a, direct |-> direct, at |-> "new", owns |-> TRUE, queued |-> 0, started |-> 0]
            n == Len(tqPkt) + 1
<1>1. p \in TqPacket /\ tqPkt \in Seq(TqPacket) /\ now \in Nat  BY Zenon DEF TqPacket, TqInv, TqShapes
<1>2. tqPkt' = Append(tqPkt, p)  BY Zenon DEF TqArrive
<1>3. /\ tqPkt' \in Seq(TqPacket) /\ DOMAIN tqPkt' = DOMAIN tqPkt \cup {n} /\ n \notin DOMAIN tqPkt
      /\ tqPkt'[n] = p /\ \A h \in DOMAIN tqPkt : tqPkt'[h] = tqPkt[h]
  <2>. HIDE DEF p
  <2>. QED  BY <1>1, <1>2
<1>4. UNCHANGED <<insp_txq, insp_txs, tqEvent>>  BY Zenon DEF TqArrive
<1>5. TqShapes'  BY <1>3, <1>4, Zenon DEF TqInv, TqShapes
<1>6. OneOwner'
  <2>1. \A h \in DOMAIN tqPkt : tqPkt[h].addr = a => ~tqPkt[h].owns  BY Zenon DEF TqArrive
  <2>2. ASSUME NEW g \in DOMAIN tqPkt', NEW h \in DOMAIN tqPkt', tqPkt'[g].owns, tqPkt'[h].owns,
               tqPkt'[g].addr = tqPkt'[h].addr
        PROVE  g = h
    <3>1. CASE g \in DOMAIN tqPkt /\ h \in DOMAIN tqPkt  BY <1>3, <2>2, <3>1, Zenon DEF TqInv, OneOwner
    <3>2. CASE g = n \/ h = n  BY <1>3, <2>1, <2>2, <3>2
    <3>3. QED  BY <1>3, <3>1, <3>2, Zenon
  <2>3. ASSUME NEW g \in DOMAIN tqPkt'
        PROVE  /\ tqPkt'[g].at \in {"new", "queued"} => tqPkt'[g].owns
               /\ tqPkt'[g].at = "queued" => ~tqPkt'[g].direct
    BY <1>3 DEF TqInv, OneOwner
  <2>4. QED  BY <2>2, <2>3, Zenon DEF OneOwner
<1>7. QueueStampOwn'  BY <1>3, <1>4 DEF TqInv, QueueStampOwn
<1>8. DriverStampLater'  BY <1>1, <1>3, <1>4 DEF TqInv, DriverStampLater
<1>9. QED  BY <1>4, <1>5, <1>6, <1>7, <1>8, Zenon DEF TqInv, QdiscSpanIsOwn, XmitNeverOverstated

\* A step of packet g leaves the other packets, and where g is, alone.
TqChanges(g) ==
  /\ tqPkt' \in Seq(TqPacket) /\ DOMAIN tqPkt' = DOMAIN tqPkt
  /\ \A h \in DOMAIN tqPkt : h # g => tqPkt'[h] = tqPkt[h]
  /\ tqPkt'[g].addr = tqPkt[g].addr /\ tqPkt'[g].direct = tqPkt[g].direct
  /\ tqPkt'[g].owns => tqPkt[g].owns
  /\ tqPkt'[g].at \in {"new", "queued"} => tqPkt'[g].owns
  /\ tqPkt'[g].at = "queued" => ~tqPkt'[g].direct

LEMMA OwnerKept ==
  ASSUME TqInv, NEW g \in DOMAIN tqPkt, TqChanges(g)
  PROVE  OneOwner'
<1>1. ASSUME NEW i \in DOMAIN tqPkt, NEW j \in DOMAIN tqPkt, tqPkt'[i].owns, tqPkt'[j].owns,
             tqPkt'[i].addr = tqPkt'[j].addr
      PROVE  i = j
  <2>1. tqPkt[i].owns /\ tqPkt[j].owns /\ tqPkt[i].addr = tqPkt[j].addr  BY <1>1, Zenon DEF TqChanges
  <2>2. QED  BY <2>1, Zenon DEF TqInv, OneOwner
<1>2. ASSUME NEW i \in DOMAIN tqPkt
      PROVE  /\ tqPkt'[i].at \in {"new", "queued"} => tqPkt'[i].owns
             /\ tqPkt'[i].at = "queued" => ~tqPkt'[i].direct
  BY Zenon DEF TqInv, OneOwner, TqChanges
<1>3. QED  BY <1>1, <1>2, Zenon DEF OneOwner, TqChanges

\* The stamp of net_dev_queue is the packet's own, and no other owner's.
LEMMA TqQueueKeeps ==
  ASSUME TqInv, NEW g \in DOMAIN tqPkt, net_dev_queue(g), UNCHANGED now
  PROVE  TqInv'
<1>. DEFINE a == tqPkt[g].addr
<1>1. /\ tqPkt \in Seq(TqPacket) /\ tqPkt[g] \in TqPacket /\ now \in Nat /\ insp_txq \in [DOMAIN insp_txq -> Nat]
      /\ tqPkt[g].at = "new" /\ ~tqPkt[g].direct /\ tqPkt[g].owns /\ tqPkt[g].started <= now
  BY DEF TqInv, TqShapes, OneOwner, DriverStampLater, net_dev_queue
<1>2. TqChanges(g) /\ tqPkt'[g].at = "queued" /\ tqPkt'[g].queued = now /\ tqPkt'[g].started = tqPkt[g].started
  <2>. DEFINE p == [tqPkt[g] EXCEPT !.at = "queued", !.queued = now]
  <2>1. /\ p \in TqPacket /\ p.at = "queued" /\ p.queued = now /\ p.started = tqPkt[g].started
        /\ p.addr = a /\ p.owns = tqPkt[g].owns /\ p.direct = tqPkt[g].direct
    BY <1>1, Zenon DEF TqPacket
  <2>2. tqPkt' = [tqPkt EXCEPT ![g] = p]  BY Zenon DEF net_dev_queue
  <2>. HIDE DEF p
  <2>3. QED  BY <1>1, <2>1, <2>2, SetElement, Zenon DEF TqChanges
<1>3. /\ insp_txq' \in [DOMAIN insp_txq' -> Nat] /\ DOMAIN insp_txq \subseteq DOMAIN insp_txq'
      /\ a \in DOMAIN insp_txq' => insp_txq'[a] = now
      /\ \A x \in DOMAIN insp_txq' : x # a => x \in DOMAIN insp_txq /\ insp_txq'[x] = insp_txq[x]
  <2>1. insp_txq' = HashUpdate(insp_txq, a, now, TqMaxEntries)  BY Zenon DEF net_dev_queue
  <2>2. QED  BY <1>1, <2>1, Zenon DEF HashUpdate, Put
<1>4. UNCHANGED <<insp_txs, tqEvent>>  BY Zenon DEF net_dev_queue
<1>5. TqShapes'  BY <1>2, <1>3, <1>4, Zenon DEF TqInv, TqShapes, TqChanges
<1>6. QueueStampOwn'
  <2>1. SUFFICES ASSUME NEW h \in DOMAIN tqPkt, tqPkt'[h].at \in {"queued", "sending"}, tqPkt'[h].owns,
                        ~tqPkt'[h].direct, tqPkt'[h].addr \in DOMAIN insp_txq'
                 PROVE  insp_txq'[tqPkt'[h].addr] = tqPkt'[h].queued
    BY <1>2, Zenon DEF QueueStampOwn, TqChanges
  <2>2. CASE h = g  BY <1>2, <1>3, <2>1, <2>2, Zenon DEF TqChanges
  <2>3. CASE h # g
    <3>1. tqPkt'[h] = tqPkt[h]  BY <1>2, <2>3, Zenon DEF TqChanges
    <3>2. tqPkt[h].addr # a  BY <1>1, <2>1, <2>3, <3>1, Zenon DEF TqInv, OneOwner
    <3>3. QED  BY <1>3, <2>1, <3>1, <3>2 DEF TqInv, QueueStampOwn
  <2>4. QED  BY <2>2, <2>3, Zenon
<1>7. DriverStampLater'
  BY <1>1, <1>2, <1>3, <1>4 DEF TqInv, DriverStampLater, TqChanges
<1>8. QED  BY <1>2, <1>4, <1>5, <1>6, <1>7, OwnerKept, Zenon DEF TqInv, QdiscSpanIsOwn, XmitNeverOverstated

\* A start: the driver's stamp is new, or there is none.
LEMMA TqStartKeeps ==
  ASSUME TqInv, NEW g \in DOMAIN tqPkt, net_dev_start_xmit(g), UNCHANGED now
  PROVE  TqInv'
<1>. DEFINE a == tqPkt[g].addr
<1>1. /\ tqPkt \in Seq(TqPacket) /\ tqPkt[g] \in TqPacket /\ now \in Nat /\ insp_txs \in [DOMAIN insp_txs -> Nat]
      /\ tqPkt[g].at = "queued" \/ tqPkt[g].direct
      /\ DOMAIN insp_txs \subseteq DOMAIN insp_txq /\ insp_txq' = insp_txq
  BY DEF TqInv, TqShapes, DriverStampLater, net_dev_start_xmit
<1>2. /\ TqChanges(g) /\ tqPkt'[g].at = "sending" /\ tqPkt'[g].started = now /\ tqPkt'[g].queued = tqPkt[g].queued
  <2>. DEFINE p == [tqPkt[g] EXCEPT !.at = "sending", !.started = now]
  <2>1. /\ p \in TqPacket /\ p.at = "sending" /\ p.started = now /\ p.queued = tqPkt[g].queued
        /\ p.addr = a /\ p.owns = tqPkt[g].owns /\ p.direct = tqPkt[g].direct
    BY <1>1, Zenon DEF TqPacket
  <2>2. tqPkt' = [tqPkt EXCEPT ![g] = p]  BY Zenon DEF net_dev_start_xmit
  <2>. HIDE DEF p
  <2>3. QED  BY <1>1, <2>1, <2>2, SetElement, Zenon DEF TqChanges
<1>3. QdiscSpanIsOwn' /\ XmitNeverOverstated'
  BY <1>1, TqReportTrue, Zenon DEF net_dev_start_xmit
<1>4. /\ insp_txs' \in [DOMAIN insp_txs' -> Nat] /\ DOMAIN insp_txs' \subseteq DOMAIN insp_txq
      /\ a \in DOMAIN insp_txs' => insp_txs'[a] = now
      /\ \A x \in DOMAIN insp_txs' : x # a => x \in DOMAIN insp_txs /\ insp_txs'[x] = insp_txs[x]
  <2>1. CASE a \in DOMAIN insp_txq  
    <3>1. insp_txs' = HashUpdate(insp_txs, a, now, TqMaxEntries)  BY <2>1, Zenon DEF net_dev_start_xmit
    <3>2. QED  BY <1>1, <2>1, <3>1, Zenon DEF HashUpdate, Put
  <2>2. CASE a \notin DOMAIN insp_txq  BY <1>1, <2>2, Zenon DEF net_dev_start_xmit
  <2>3. QED  BY <2>1, <2>2, Zenon
<1>5. TqShapes'  BY <1>1, <1>2, <1>4, Zenon DEF TqInv, TqShapes, TqChanges
<1>6. QueueStampOwn'  BY <1>1, <1>2 DEF TqInv, OneOwner, QueueStampOwn, TqChanges
<1>7. DriverStampLater'
  <2>1. SUFFICES ASSUME NEW h \in DOMAIN tqPkt
                 PROVE  /\ tqPkt'[h].started <= now
                        /\ tqPkt'[h].at = "sending" /\ tqPkt'[h].addr \in DOMAIN insp_txs' =>
                             insp_txs'[tqPkt'[h].addr] >= tqPkt'[h].started
    BY <1>1, <1>2, <1>4, Zenon DEF DriverStampLater, TqChanges
  <2>2. CASE h = g  BY <1>1, <1>2, <1>4, <2>2 DEF TqChanges
  <2>3. CASE h # g
    <3>1. tqPkt'[h] = tqPkt[h] /\ tqPkt[h].started <= now  BY <1>2, <2>3, Zenon DEF TqInv, DriverStampLater, TqChanges
    <3>2. CASE tqPkt[h].addr = a  BY <1>4, <3>1, <3>2, Zenon
    <3>3. CASE tqPkt[h].addr # a  BY <1>4, <3>1, <3>3, Zenon DEF TqInv, DriverStampLater
    <3>4. QED  BY <3>2, <3>3, Zenon
  <2>4. QED  BY <2>2, <2>3, Zenon
<1>8. QED  BY <1>2, <1>3, <1>5, <1>6, <1>7, OwnerKept, Zenon DEF TqInv

\* A completion, or the end of a packet, takes stamps away and adds none.
LEMMA TqEndKeeps ==
  ASSUME TqInv, NEW g \in DOMAIN tqPkt, (\E busy \in BOOLEAN : net_dev_xmit(g, busy)) \/ TqFree(g), UNCHANGED now
  PROVE  TqInv'
<1>1. /\ tqPkt \in Seq(TqPacket) /\ tqPkt[g] \in TqPacket /\ now \in Nat /\ insp_txs \in [DOMAIN insp_txs -> Nat]
  BY DEF TqInv, TqShapes
<1>2. /\ TqChanges(g) /\ tqPkt'[g].started = tqPkt[g].started /\ tqPkt'[g].queued = tqPkt[g].queued
      /\ tqPkt'[g].at = "sending" => tqPkt[g].at = "sending"
      /\ tqPkt'[g].at \in {"queued", "sending"} => tqPkt[g].at \in {"queued", "sending"}
  <2>1. CASE TqFree(g)  
    <3>. DEFINE p == [tqPkt[g] EXCEPT !.owns = FALSE, !.at = IF @ = "queued" THEN "sent" ELSE @]
    <3>1. /\ p \in TqPacket /\ p.started = tqPkt[g].started /\ p.queued = tqPkt[g].queued
          /\ p.addr = tqPkt[g].addr /\ ~p.owns /\ p.direct = tqPkt[g].direct
          /\ p.at = "sent" \/ p.at = tqPkt[g].at
          /\ p.at \notin {"new", "queued"}
      BY <1>1, <2>1, Zenon DEF TqFree, TqPacket
    <3>2. tqPkt' = [tqPkt EXCEPT ![g] = p]  BY <2>1, Zenon DEF TqFree
    <3>. HIDE DEF p
    <3>3. QED  BY <1>1, <3>1, <3>2, SetElement, Zenon DEF TqChanges
  <2>2. ASSUME NEW busy \in BOOLEAN, net_dev_xmit(g, busy)
        PROVE  /\ TqChanges(g) /\ tqPkt'[g].started = tqPkt[g].started /\ tqPkt'[g].queued = tqPkt[g].queued
               /\ tqPkt[g].at = "sending"
    <3>. DEFINE p == [tqPkt[g] EXCEPT !.at = IF busy THEN "queued" ELSE "sent"]
    <3>1. /\ p \in TqPacket /\ p.started = tqPkt[g].started /\ p.queued = tqPkt[g].queued
          /\ p.addr = tqPkt[g].addr /\ p.owns = tqPkt[g].owns /\ p.direct = tqPkt[g].direct
          /\ p.at \in {"queued", "sent"} /\ (p.at = "queued" => p.owns /\ ~p.direct)
      BY <1>1, <2>2, Zenon DEF net_dev_xmit, TqPacket
    <3>2. tqPkt' = [tqPkt EXCEPT ![g] = p] /\ tqPkt[g].at = "sending"  BY <2>2, Zenon DEF net_dev_xmit
    <3>. HIDE DEF p
    <3>3. QED  BY <1>1, <3>1, <3>2, SetElement, Zenon DEF TqChanges
  <2>3. QED  BY <2>1, <2>2, Zenon
<1>3. insp_txq' = insp_txq  BY Zenon DEF net_dev_xmit, TqFree
<1>4. /\ insp_txs' \in [DOMAIN insp_txs' -> Nat] /\ DOMAIN insp_txs' \subseteq DOMAIN insp_txs
      /\ \A x \in DOMAIN insp_txs' : insp_txs'[x] = insp_txs[x]
  <2>1. insp_txs' = insp_txs \/ insp_txs' = HashDelete(insp_txs, tqPkt[g].addr)  BY Zenon DEF net_dev_xmit, TqFree
  <2>2. QED  BY <1>1, <2>1, Zenon DEF HashDelete
<1>5. QdiscSpanIsOwn' /\ XmitNeverOverstated'
  BY TqReportTrue, Zenon DEF net_dev_xmit, TqFree
<1>6. TqShapes'  BY <1>2, <1>3, <1>4, Zenon DEF TqInv, TqShapes, TqChanges
<1>7. QueueStampOwn'  BY <1>2, <1>3 DEF TqInv, QueueStampOwn, TqChanges
<1>8. DriverStampLater'
  <2>1. DOMAIN insp_txs' \subseteq DOMAIN insp_txq'  BY <1>3, <1>4, Zenon DEF TqInv, DriverStampLater
  <2>2. ASSUME NEW h \in DOMAIN tqPkt
        PROVE  /\ tqPkt'[h].started = tqPkt[h].started /\ tqPkt'[h].addr = tqPkt[h].addr
               /\ tqPkt'[h].at = "sending" => tqPkt[h].at = "sending"
    BY <1>2, Zenon DEF TqChanges
  <2>3. DOMAIN tqPkt' = DOMAIN tqPkt  BY <1>2, Zenon DEF TqChanges
  <2>4. QED  BY <1>4, <2>1, <2>2, <2>3, Zenon DEF TqInv, DriverStampLater
<1>9. QED  BY <1>2, <1>5, <1>6, <1>7, <1>8, OwnerKept, Zenon DEF TqInv

LEMMA TqKept ==
  ASSUME TqInv, TqNext \/ (Later /\ UNCHANGED tqVars)
  PROVE  TqInv'
<1>1. CASE TqStep /\ UNCHANGED now
  BY <1>1, TqArriveKeeps, TqQueueKeeps, TqStartKeeps, TqEndKeeps, Zenon DEF TqStep
<1>2. CASE (KernelTick \/ Later) /\ UNCHANGED tqVars
  <2>1. now \in Nat /\ now' \in Nat /\ now' >= now  BY <1>2 DEF TqInv, TqShapes, KernelTick, Later
  <2>2. UNCHANGED <<tqPkt, insp_txq, insp_txs, tqEvent>>  BY <1>2, Zenon DEF tqVars
  <2>3. TqShapes'  BY <2>1, <2>2, Zenon DEF TqInv, TqShapes
  <2>4. \A g \in DOMAIN tqPkt : tqPkt[g].started \in Nat  
    <3>1. tqPkt \in Seq(TqPacket)  BY Zenon DEF TqInv, TqShapes
    <3>2. \A g \in DOMAIN tqPkt : tqPkt[g] \in TqPacket  BY <3>1
    <3>3. QED  BY <3>2, Zenon DEF TqPacket
  <2>5. DriverStampLater'  BY <2>1, <2>2, <2>4 DEF TqInv, DriverStampLater
  <2>6. QED
    BY <2>2, <2>3, <2>5, Zenon DEF TqInv, OneOwner, QueueStampOwn, QdiscSpanIsOwn, XmitNeverOverstated
<1>3. QED  BY <1>1, <1>2, Zenon DEF TqNext

LEMMA TqStarts ==
  ASSUME now = 1, TqInit
  PROVE  TqInv
<1>1. tqPkt = << >> /\ insp_txq = << >> /\ insp_txs = << >> /\ tqEvent.action = "none"
  BY Zenon DEF TqInit, NoTqEvent
<1>2. DOMAIN << >> = {} /\ << >> \in Seq(TqPacket) /\ << >> \in [{} -> Nat]  OBVIOUS
<1>3. TqShapes  BY <1>1, <1>2, Zenon DEF TqShapes
<1>4. OneOwner /\ QueueStampOwn /\ DriverStampLater
  BY <1>1, <1>2, Zenon DEF OneOwner, QueueStampOwn, DriverStampLater
<1>5. QED  BY <1>1, <1>3, <1>4, Zenon DEF TqInv, QdiscSpanIsOwn, XmitNeverOverstated

-----------------------------------------------------------------------------
(* SoftirqLatency *)

SiShapes == /\ now \in Nat \ {0} /\ siPending \in [Cpus -> [Vecs -> Nat]]
            /\ siRunning \in [Cpus -> [vec : Vecs \cup {"none"}, since : Nat]]
            /\ insp_softirq_entry \in [DOMAIN insp_softirq_entry -> [Cpus -> Nat]]
            /\ DOMAIN insp_softirq_entry \subseteq {<<v, p>> : v \in Vecs \cap IrqFilterBits, p \in SiPhases}
            /\ \A c \in Cpus, v \in Vecs : siPending[c][v] <= now

\* A CPU's value under a key is of a raise it has not served, not older than the first one,
\* or of the handler it is running.
StampsOfCpu == \A k \in DOMAIN insp_softirq_entry : \A c \in Cpus :
  LET stamp == insp_softirq_entry[k][c] IN
  stamp # 0 =>
    /\ k[2] = "SCHED"  => siPending[c][k[1]] # 0 /\ stamp >= siPending[c][k[1]]
    /\ k[2] = "EXCUTE" => siRunning[c].vec = k[1] /\ siRunning[c].since = stamp

SiInv == SiShapes /\ StampsOfCpu /\ SoftirqNeverOverstated

\* The keys are pairs, and an event made of such stamps is true.
LEMMA SiKeys ==
  ASSUME SiInv, NEW k \in DOMAIN insp_softirq_entry
  PROVE  /\ k = <<k[1], k[2]>> /\ k[1] \in Vecs /\ k[1] \in IrqFilterBits /\ k[2] \in {"SCHED", "EXCUTE"}
         /\ insp_softirq_entry[k] \in [Cpus -> Nat]
<1>1. PICK v \in Vecs \cap IrqFilterBits, p \in SiPhases : k = <<v, p>>
  BY DEF SiInv, SiShapes
<1>2. insp_softirq_entry[k] \in [Cpus -> Nat]  BY DEF SiInv, SiShapes
<1>3. QED  BY <1>1, <1>2, Zenon DEF SiPhases

LEMMA SiReportTrue ==
  ASSUME SiInv, NEW c \in Cpus, NEW v \in Vecs,
         \/ siEvent' = siEvent
         \/ siEvent' = SiReported(c, v, "SCHED", now - siPending[c][v])
         \/ siEvent' = SiReported(c, v, "EXCUTE", now - siRunning[c].since)
  PROVE  SoftirqNeverOverstated'
<1>1. CASE siEvent' = siEvent  BY <1>1, Zenon DEF SiInv, SoftirqNeverOverstated
<1>2. ASSUME NEW p \in SiPhases, NEW own, <<v, p>> \in DOMAIN insp_softirq_entry,
             insp_softirq_entry[<<v, p>>][c] # 0,
             siEvent' = [phase |-> p, vec |-> v, latency |-> now - insp_softirq_entry[<<v, p>>][c], own |-> own],
             p = "SCHED" => own = now - siPending[c][v], p = "EXCUTE" => own = now - siRunning[c].since
      PROVE  SoftirqNeverOverstated'
  <2>. DEFINE stamp == insp_softirq_entry[<<v, p>>][c]
  <2>1. stamp \in Nat /\ now \in Nat /\ siPending[c][v] \in Nat /\ siRunning[c].since \in Nat
    BY <1>2 DEF SiInv, SiShapes
  <2>2. /\ p = "SCHED" => stamp >= siPending[c][v]
        /\ p = "EXCUTE" => siRunning[c].since = stamp
    BY <1>2, Zenon DEF SiInv, StampsOfCpu
  <2>3. siEvent'.latency = now - stamp /\ siEvent'.own = own /\ siEvent'.phase = p  BY <1>2, ZenonT(30)
  <2>. HIDE DEF stamp
  <2>4. CASE p = "SCHED"  BY <1>2, <2>1, <2>2, <2>3, <2>4 DEF SoftirqNeverOverstated
  <2>5. CASE p = "EXCUTE"  BY <1>2, <2>1, <2>2, <2>3, <2>5 DEF SoftirqNeverOverstated
  <2>6. QED  BY <2>4, <2>5, Zenon DEF SiPhases
<1>3. ASSUME NEW p \in SiPhases, NEW own, siEvent' = SiReported(c, v, p, own)
      PROVE  \/ siEvent' = siEvent
             \/ /\ <<v, p>> \in DOMAIN insp_softirq_entry /\ insp_softirq_entry[<<v, p>>][c] # 0
                /\ siEvent' = [phase |-> p, vec |-> v, latency |-> now - insp_softirq_entry[<<v, p>>][c], own |-> own]
  BY <1>3, ZenonT(30) DEF SiReported
<1>4. CASE siEvent' = SiReported(c, v, "SCHED", now - siPending[c][v])
  BY <1>1, <1>2, <1>3, <1>4, Zenon DEF SiPhases
<1>5. CASE siEvent' = SiReported(c, v, "EXCUTE", now - siRunning[c].since)
  BY <1>1, <1>2, <1>3, <1>5, Zenon DEF SiPhases
<1>6. QED  BY <1>1, <1>4, <1>5, Zenon

\* A raise: the key is inserted when no CPU has it, with this CPU's time.
LEMMA SiRaiseKeeps ==
  ASSUME SiInv, NEW c \in Cpus, NEW v \in Vecs, trace_softirq_raise(c, v), UNCHANGED now
  PROVE  SiInv'
<1>. DEFINE m == insp_softirq_entry  k0 == <<v, "SCHED">>
<1>1. /\ now \in Nat \ {0} /\ siPending \in [Cpus -> [Vecs -> Nat]] /\ m \in [DOMAIN m -> [Cpus -> Nat]]
      /\ siRunning' = siRunning /\ siEvent' = siEvent
      /\ siPending[c][v] <= now
  BY DEF SiInv, SiShapes, trace_softirq_raise
<1>2. /\ siPending' \in [Cpus -> [Vecs -> Nat]]
      /\ siPending'[c][v] = IF siPending[c][v] = 0 THEN now ELSE siPending[c][v]
      /\ \A d \in Cpus, w \in Vecs : d # c \/ w # v => siPending'[d][w] = siPending[d][w]
  BY <1>1, Zenon DEF trace_softirq_raise
<1>3. \/ m' = m
      \/ v \in IrqFilterBits /\ m' = Put(m, k0, [d \in Cpus |-> IF d = c THEN now ELSE 0])
  BY Zenon DEF trace_softirq_raise, filter_irqs, PercpuInsert, PercpuUpdate, HashUpdate
<1>4. /\ m' \in [DOMAIN m' -> [Cpus -> Nat]]
      /\ DOMAIN m' \subseteq DOMAIN m \cup {k0} /\ (DOMAIN m' = DOMAIN m \/ v \in IrqFilterBits)
      /\ \A k \in DOMAIN m' : \/ k \in DOMAIN m /\ m'[k] = m[k]
                              \/ k = k0 /\ m'[k] = [d \in Cpus |-> IF d = c THEN now ELSE 0]
  BY <1>1, <1>3 DEF Put
<1>5. SiShapes'
  <2>1. DOMAIN m' \subseteq {<<w, p>> : w \in Vecs \cap IrqFilterBits, p \in SiPhases}
    BY <1>4 DEF SiInv, SiShapes, SiPhases
  <2>2. \A d \in Cpus, w \in Vecs : siPending'[d][w] <= now
    BY <1>1, <1>2 DEF SiInv, SiShapes
  <2>3. QED  BY <1>1, <1>2, <1>4, <2>1, <2>2 DEF SiInv, SiShapes
<1>6. StampsOfCpu'
  <2>1. SUFFICES ASSUME NEW k \in DOMAIN m', NEW d \in Cpus, m'[k][d] # 0
                 PROVE  /\ k[2] = "SCHED" => siPending'[d][k[1]] # 0 /\ m'[k][d] >= siPending'[d][k[1]]
                        /\ k[2] = "EXCUTE" => siRunning[d].vec = k[1] /\ siRunning[d].since = m'[k][d]
    BY <1>1, ZenonT(30) DEF StampsOfCpu
  <2>2. CASE k \in DOMAIN m /\ m'[k] = m[k]
    <3>1. /\ k[2] = "SCHED" => siPending[d][k[1]] # 0 /\ m[k][d] >= siPending[d][k[1]]
          /\ k[2] = "EXCUTE" => siRunning[d].vec = k[1] /\ siRunning[d].since = m[k][d]
      BY <2>1, <2>2 DEF SiInv, StampsOfCpu
    <3>2. k[1] \in Vecs  BY <2>2, SiKeys, Zenon
    <3>3. k[2] = "SCHED" => siPending'[d][k[1]] = siPending[d][k[1]]  BY <1>2, <3>1, <3>2, Zenon
    <3>4. QED  BY <2>2, <3>1, <3>3, Zenon
  <2>3. CASE k = k0 /\ m'[k] = [e \in Cpus |-> IF e = c THEN now ELSE 0]
    BY <1>1, <1>2, <2>1, <2>3
  <2>4. QED  BY <1>4, <2>2, <2>3, Zenon
<1>7. QED  BY <1>1, <1>5, <1>6, Zenon DEF SiInv, SoftirqNeverOverstated

\* An entry on an idle CPU: its raise is gone from the map, and its run is stamped.
LEMMA SiEntryKeeps ==
  ASSUME SiInv, NEW c \in Cpus, NEW v \in Vecs, trace_softirq_entry(c, v), UNCHANGED now
  PROVE  SiInv'
<1>. DEFINE m == insp_softirq_entry  k0 == <<v, "SCHED">>  k1 == <<v, "EXCUTE">>
<1>1. /\ now \in Nat \ {0} /\ siPending \in [Cpus -> [Vecs -> Nat]] /\ m \in [DOMAIN m -> [Cpus -> Nat]]
      /\ siRunning \in [Cpus -> [vec : Vecs \cup {"none"}, since : Nat]]
      /\ siRunning[c].since = 0
  BY DEF SiInv, SiShapes, trace_softirq_entry
<1>2. /\ siPending' \in [Cpus -> [Vecs -> Nat]] /\ siPending'[c][v] = 0
      /\ \A d \in Cpus, w \in Vecs : d # c \/ w # v => siPending'[d][w] = siPending[d][w]
      /\ siRunning' \in [Cpus -> [vec : Vecs \cup {"none"}, since : Nat]]
      /\ siRunning'[c].vec = v /\ siRunning'[c].since = now
      /\ \A d \in Cpus : d # c => siRunning'[d] = siRunning[d]
  BY <1>1, Zenon DEF trace_softirq_entry
<1>3. \A k \in DOMAIN m : k[2] = "EXCUTE" => m[k][c] = 0
  BY <1>1, Zenon DEF SiInv, StampsOfCpu
<1>4. /\ m' \in [DOMAIN m' -> [Cpus -> Nat]] /\ k0 \notin DOMAIN m'
      /\ DOMAIN m' \subseteq DOMAIN m \cup {k1} /\ (DOMAIN m' \subseteq DOMAIN m \/ v \in IrqFilterBits)
      /\ \A k \in DOMAIN m' : \/ k \in DOMAIN m /\ m'[k] = m[k] /\ k # k1
                              \/ /\ k = k1 /\ m'[k][c] = now
                                 /\ \A d \in Cpus : d # c => m'[k][d] = 0 \/ (k \in DOMAIN m /\ m'[k][d] = m[k][d])
  <2>1. CASE v \in IrqFilterBits
    <3>. DEFINE n == HashDelete(m, k0)
    <3>1. /\ n \in [DOMAIN n -> [Cpus -> Nat]] /\ DOMAIN n = DOMAIN m \ {k0} /\ k0 # k1
          /\ \A k \in DOMAIN n : n[k] = m[k]
      BY <1>1, Zenon DEF HashDelete
    <3>2. m' = PercpuUpdate(n, k1, c, now, Cpus, SiMaxEntries)
      BY <2>1, Zenon DEF trace_softirq_entry, filter_irqs
    <3>. HIDE DEF n, k0, k1
    <3>3. CASE k1 \in DOMAIN n
      <4>1. m' = [n EXCEPT ![k1][c] = now]  BY <3>2, <3>3, Zenon DEF PercpuUpdate
      <4>2. QED  BY <1>1, <2>1, <3>1, <3>3, <4>1, Zenon
    <3>4. CASE k1 \notin DOMAIN n
      <4>1. m' = n \/ m' = Put(n, k1, [d \in Cpus |-> IF d = c THEN now ELSE 0])
        BY <3>2, <3>4, Zenon DEF PercpuUpdate, HashUpdate
      <4>2. CASE m' = n  BY <2>1, <3>1, <3>4, <4>2, Zenon
      <4>3. CASE m' = Put(n, k1, [d \in Cpus |-> IF d = c THEN now ELSE 0])
        BY <1>1, <2>1, <3>1, <3>4, <4>3, Zenon DEF Put
      <4>4. QED  BY <4>1, <4>2, <4>3, Zenon
    <3>5. QED  BY <3>3, <3>4, Zenon
  <2>2. CASE v \notin IrqFilterBits
    <3>1. m' = m  BY <2>2, Zenon DEF trace_softirq_entry, filter_irqs
    <3>2. \A k \in DOMAIN m : k # k0 /\ k # k1
      <4>1. k0[1] = v /\ k1[1] = v  BY ZenonT(30)
      <4>2. QED  BY <2>2, <4>1, SiKeys, Zenon
    <3>3. QED  BY <1>1, <3>1, <3>2, Zenon
  <2>3. QED  BY <2>1, <2>2, Zenon
<1>5. SiShapes'
  <2>1. DOMAIN m' \subseteq {<<w, p>> : w \in Vecs \cap IrqFilterBits, p \in SiPhases}
    BY <1>4 DEF SiInv, SiShapes, SiPhases
  <2>2. ASSUME NEW d \in Cpus, NEW w \in Vecs
        PROVE  siPending'[d][w] <= now
    <3>1. CASE d = c /\ w = v  BY <1>1, <1>2, <3>1
    <3>2. CASE ~(d = c /\ w = v)  BY <1>1, <1>2, <3>2 DEF SiInv, SiShapes
    <3>3. QED  BY <3>1, <3>2, Zenon
  <2>3. QED  BY <1>1, <1>2, <1>4, <2>1, <2>2 DEF SiInv, SiShapes
<1>6. StampsOfCpu'
  <2>1. SUFFICES ASSUME NEW k \in DOMAIN m', NEW d \in Cpus, m'[k][d] # 0
                 PROVE  /\ k[2] = "SCHED" => siPending'[d][k[1]] # 0 /\ m'[k][d] >= siPending'[d][k[1]]
                        /\ k[2] = "EXCUTE" => siRunning'[d].vec = k[1] /\ siRunning'[d].since = m'[k][d]
    BY ZenonT(30) DEF StampsOfCpu
  <2>2. CASE k \in DOMAIN m /\ m'[k][d] = m[k][d]
    <3>1. /\ k[2] = "SCHED" => siPending[d][k[1]] # 0 /\ m[k][d] >= siPending[d][k[1]]
          /\ k[2] = "EXCUTE" => siRunning[d].vec = k[1] /\ siRunning[d].since = m[k][d] /\ d # c
      BY <1>3, <2>1, <2>2, Zenon DEF SiInv, StampsOfCpu
    <3>2. k[1] \in Vecs /\ k = <<k[1], k[2]>>  BY <2>2, SiKeys, Zenon
    <3>3. k[2] = "SCHED" => k[1] # v  BY <1>4, <3>2, Zenon
    <3>4. k[2] = "SCHED" => siPending'[d][k[1]] = siPending[d][k[1]]  BY <1>2, <3>2, <3>3
    <3>5. QED  BY <1>2, <2>2, <3>1, <3>4, ZenonT(30)
  <2>3. CASE k = k1 /\ d = c  BY <1>2, <1>4, <2>3, Zenon
  <2>4. QED  BY <1>4, <2>1, <2>2, <2>3, ZenonT(30)
<1>7. SoftirqNeverOverstated'  BY SiReportTrue, Zenon DEF trace_softirq_entry
<1>8. QED  BY <1>5, <1>6, <1>7, Zenon DEF SiInv

\* An exit: the CPU keeps no stamp of a run.
LEMMA SiExitKeeps ==
  ASSUME SiInv, NEW c \in Cpus, NEW v \in Vecs, trace_softirq_exit(c, v), UNCHANGED now
  PROVE  SiInv'
<1>. DEFINE m == insp_softirq_entry  k1 == <<v, "EXCUTE">>
<1>1. /\ now \in Nat \ {0} /\ m \in [DOMAIN m -> [Cpus -> Nat]]
      /\ siRunning \in [Cpus -> [vec : Vecs \cup {"none"}, since : Nat]]
      /\ siRunning[c].vec = v /\ siPending' = siPending
  BY DEF SiInv, SiShapes, trace_softirq_exit
<1>2. /\ siRunning' \in [Cpus -> [vec : Vecs \cup {"none"}, since : Nat]]
      /\ \A d \in Cpus : d # c => siRunning'[d] = siRunning[d]
  BY <1>1, Zenon DEF trace_softirq_exit
<1>3. /\ m' \in [DOMAIN m' -> [Cpus -> Nat]] /\ DOMAIN m' \subseteq DOMAIN m
      /\ \A k \in DOMAIN m' : m'[k] = m[k]
      /\ k1 \in DOMAIN m' => m[k1][c] = 0
  <2>1. CASE m' = HashDelete(m, k1)  BY <1>1, <2>1, Zenon DEF HashDelete
  <2>2. CASE m' = m /\ (v \notin IrqFilterBits \/ k1 \notin DOMAIN m \/ m[k1][c] = 0)
    <3>1. k1 \in DOMAIN m => k1[1] \in IrqFilterBits  BY SiKeys, Zenon
    <3>2. k1[1] = v  BY Zenon
    <3>3. QED  BY <1>1, <2>2, <3>1, <3>2, Zenon
  <2>3. QED  BY <2>1, <2>2, Zenon DEF trace_softirq_exit, filter_irqs
<1>4. SiShapes'  BY <1>1, <1>2, <1>3 DEF SiInv, SiShapes
<1>5. StampsOfCpu'
  <2>1. SUFFICES ASSUME NEW k \in DOMAIN m', NEW d \in Cpus, m'[k][d] # 0
                 PROVE  /\ k[2] = "SCHED" => siPending[d][k[1]] # 0 /\ m'[k][d] >= siPending[d][k[1]]
                        /\ k[2] = "EXCUTE" => siRunning'[d].vec = k[1] /\ siRunning'[d].since = m'[k][d]
    BY <1>1, Zenon DEF StampsOfCpu
  <2>2. k \in DOMAIN m /\ m'[k] = m[k]  BY <1>3, Zenon
  <2>3. /\ k[2] = "SCHED" => siPending[d][k[1]] # 0 /\ m[k][d] >= siPending[d][k[1]]
        /\ k[2] = "EXCUTE" => siRunning[d].vec = k[1] /\ siRunning[d].since = m[k][d]
    BY <2>1, <2>2 DEF SiInv, StampsOfCpu
  <2>4. k = <<k[1], k[2]>>  BY <2>2, SiKeys, Zenon
  <2>5. k[2] = "EXCUTE" => d # c  BY <1>1, <1>3, <2>1, <2>2, <2>3, <2>4, ZenonT(30)
  <2>6. QED  BY <1>2, <2>2, <2>3, <2>5, Zenon
<1>6. SoftirqNeverOverstated'  BY SiReportTrue, ZenonT(30) DEF trace_softirq_exit
<1>7. QED  BY <1>4, <1>5, <1>6, Zenon DEF SiInv

LEMMA SiKept ==
  ASSUME SiInv, SiNext \/ (Later /\ UNCHANGED siVars)
  PROVE  SiInv'
<1>1. ASSUME NEW c \in Cpus, NEW v \in Vecs, UNCHANGED now,
             trace_softirq_raise(c, v) \/ trace_softirq_entry(c, v) \/ trace_softirq_exit(c, v)
      PROVE  SiInv'
  BY <1>1, SiRaiseKeeps, SiEntryKeeps, SiExitKeeps, Zenon
<1>2. CASE (KernelTick \/ Later) /\ UNCHANGED siVars
  <2>1. now \in Nat /\ now' \in Nat \ {0} /\ now' >= now  BY <1>2 DEF SiInv, SiShapes, KernelTick, Later
  <2>2. UNCHANGED <<siPending, siRunning, insp_softirq_entry, siEvent>>  BY <1>2, Zenon DEF siVars
  <2>3. SiShapes'  BY <2>1, <2>2 DEF SiInv, SiShapes
  <2>4. QED  BY <2>2, <2>3, Zenon DEF SiInv, StampsOfCpu, SoftirqNeverOverstated
<1>3. QED  BY <1>1, <1>2, Zenon DEF SiNext

LEMMA SiStarts ==
  ASSUME now = 1, SiInit
  PROVE  SiInv
<1>1. insp_softirq_entry = << >>  BY Zenon DEF SiInit
<1>2. DOMAIN << >> = {} /\ << >> \in [{} -> [Cpus -> Nat]]  OBVIOUS
<1>3. insp_softirq_entry \in [DOMAIN insp_softirq_entry -> [Cpus -> Nat]] /\ DOMAIN insp_softirq_entry = {}
  BY <1>1, <1>2, Zenon
<1>4. SiShapes  BY <1>3 DEF SiShapes, SiInit
<1>5. QED  BY <1>3, <1>4 DEF SiInv, SiInit, StampsOfCpu, SoftirqNeverOverstated

-----------------------------------------------------------------------------
(* DeviceLatency *)

VcShapes == /\ now \in Nat /\ vcCall \in [DOMAIN vcCall -> [cpu : DlCpus, since : Nat, moved : BOOLEAN]]
            /\ insp_virtcmdlat \in [DOMAIN insp_virtcmdlat -> [DlCpus -> Nat]]

\* A thread that was not moved finds the time of its own call on its CPU, or no entry.
CallStampOwn == \A t \in DOMAIN vcCall : (t \in DOMAIN insp_virtcmdlat /\ ~vcCall[t].moved)
                                        => insp_virtcmdlat[t][vcCall[t].cpu] = vcCall[t].since

VcInv == VcShapes /\ CallStampOwn /\ CommandTimeIsOwn

LEMMA VirtcmdKeeps ==
  ASSUME VcInv, NEW t \in Tids, NEW c \in DlCpus, trace_virtcmd(t, c), UNCHANGED now
  PROVE  VcInv'
<1>. DEFINE m == insp_virtcmdlat
<1>1. /\ now \in Nat /\ m \in [DOMAIN m -> [DlCpus -> Nat]]
      /\ vcCall \in [DOMAIN vcCall -> [cpu : DlCpus, since : Nat, moved : BOOLEAN]]
  BY Zenon DEF VcInv, VcShapes
<1>2. /\ vcCall' \in [DOMAIN vcCall' -> [cpu : DlCpus, since : Nat, moved : BOOLEAN]]
      /\ vcCall'[t].cpu = c /\ vcCall'[t].since = now
      /\ \A u \in DOMAIN vcCall' : u # t => u \in DOMAIN vcCall /\ vcCall'[u] = vcCall[u]
  BY <1>1, Zenon DEF trace_virtcmd, Put
<1>3. /\ m' \in [DOMAIN m' -> [DlCpus -> Nat]]
      /\ t \in DOMAIN m' => m'[t][c] = now
      /\ \A u \in DOMAIN m' : u # t => u \in DOMAIN m /\ m'[u] = m[u]
  <2>1. \/ t \in DOMAIN m /\ m' = [m EXCEPT ![t][c] = now]
        \/ t \notin DOMAIN m /\ m' = m
        \/ t \notin DOMAIN m /\ m' = Put(m, t, [d \in DlCpus |-> IF d = c THEN now ELSE 0])
    BY Zenon DEF trace_virtcmd, PercpuUpdate, HashUpdate
  <2>2. QED  BY <1>1, <2>1 DEF Put
<1>4. VcShapes'  BY <1>1, <1>2, <1>3, Zenon DEF VcShapes
<1>5. CallStampOwn'  BY <1>2, <1>3, Zenon DEF VcInv, CallStampOwn
<1>6. QED  BY <1>4, <1>5, Zenon DEF VcInv, CommandTimeIsOwn, trace_virtcmd

LEMMA VirtcmdEndKeeps ==
  ASSUME VcInv, NEW t \in Tids, trace_virtcmdret(t) \/ MissedReturn(t), UNCHANGED now
  PROVE  VcInv'
<1>. DEFINE m == insp_virtcmdlat
<1>1. /\ now \in Nat /\ m \in [DOMAIN m -> [DlCpus -> Nat]] /\ t \in DOMAIN vcCall
      /\ vcCall \in [DOMAIN vcCall -> [cpu : DlCpus, since : Nat, moved : BOOLEAN]]
  BY Zenon DEF VcInv, VcShapes, trace_virtcmdret, MissedReturn
<1>2. /\ vcCall' \in [DOMAIN vcCall' -> [cpu : DlCpus, since : Nat, moved : BOOLEAN]]
      /\ \A u \in DOMAIN vcCall' : u \in DOMAIN vcCall /\ vcCall'[u] = vcCall[u]
  BY <1>1, Zenon DEF trace_virtcmdret, MissedReturn, HashDelete
<1>3. /\ m' \in [DOMAIN m' -> [DlCpus -> Nat]]
      /\ \A u \in DOMAIN m' : u \in DOMAIN m /\ m'[u] = m[u]
  BY <1>1, ZenonT(30) DEF trace_virtcmdret, MissedReturn, HashDelete
<1>4. CommandTimeIsOwn'
  <2>1. CASE vcEvent' = vcEvent  BY <2>1, Zenon DEF VcInv, CommandTimeIsOwn
  <2>2. CASE /\ t \in DOMAIN m
             /\ vcEvent' = [latency |-> now - m[t][vcCall[t].cpu], own |-> now - vcCall[t].since,
                            moved |-> vcCall[t].moved]
    BY <1>1, <2>2, Zenon DEF VcInv, CallStampOwn, CommandTimeIsOwn
  <2>3. QED  BY <2>1, <2>2, Zenon DEF trace_virtcmdret, MissedReturn
<1>5. QED  BY <1>1, <1>2, <1>3, <1>4, Zenon DEF VcInv, VcShapes, CallStampOwn

LEMMA VcKept ==
  ASSUME VcInv, VcNext \/ (Later /\ UNCHANGED vcVars)
  PROVE  VcInv'
<1>1. ASSUME NEW t \in Tids, NEW c \in DlCpus, Migrate(t, c), UNCHANGED now
      PROVE  VcInv'
  <2>1. /\ vcCall \in [DOMAIN vcCall -> [cpu : DlCpus, since : Nat, moved : BOOLEAN]] /\ t \in DOMAIN vcCall
        /\ UNCHANGED <<insp_virtcmdlat, vcEvent>>
    BY <1>1, Zenon DEF VcInv, VcShapes, Migrate
  <2>2. /\ vcCall' \in [DOMAIN vcCall -> [cpu : DlCpus, since : Nat, moved : BOOLEAN]]
        /\ vcCall'[t].moved /\ \A u \in DOMAIN vcCall : u # t => vcCall'[u] = vcCall[u]
    BY <1>1, <2>1, ZenonT(30) DEF Migrate
  <2>3. QED  BY <1>1, <2>1, <2>2, Zenon DEF VcInv, VcShapes, CallStampOwn, CommandTimeIsOwn
<1>2. CASE (KernelTick \/ Later) /\ UNCHANGED vcVars
  BY <1>2 DEF VcInv, VcShapes, CallStampOwn, CommandTimeIsOwn, KernelTick, Later, vcVars
<1>3. QED  BY <1>1, <1>2, VirtcmdKeeps, VirtcmdEndKeeps, Zenon DEF VcNext, VcStep

BioShapes == /\ now \in Nat /\ bioMerged \in BOOLEAN /\ bioGen \in Nat
             /\ bioReq \in [DOMAIN bioReq -> Nat]
             /\ insp_biolat_entry \in [DOMAIN insp_biolat_entry -> [start : Nat, gen : Nat]]

BioInv == BioShapes /\ BioEntriesInFlight /\ BioSpanOfOneRequest

LEMMA BioBeginKeeps ==
  ASSUME BioInv, NEW r \in Requests, biolat_start(r) \/ Unstarted(r), UNCHANGED now
  PROVE  BioInv'
<1>. DEFINE m == insp_biolat_entry
<1>1. /\ now \in Nat /\ bioGen \in Nat /\ bioGen + 1 \in Nat /\ bioReq \in [DOMAIN bioReq -> Nat]
      /\ m \in [DOMAIN m -> [start : Nat, gen : Nat]] /\ r \notin DOMAIN bioReq
      /\ bioGen' = bioGen + 1 /\ UNCHANGED <<bioEvent, bioMerged>>
  BY DEF BioInv, BioShapes, biolat_start, Unstarted
<1>2. /\ bioReq' \in [DOMAIN bioReq' -> Nat] /\ DOMAIN bioReq' = DOMAIN bioReq \cup {r}
      /\ bioReq'[r] = bioGen + 1 /\ \A q \in DOMAIN bioReq : bioReq'[q] = bioReq[q]
  <2>1. bioReq' = Put(bioReq, r, bioGen + 1)  BY Zenon DEF biolat_start, Unstarted
  <2>2. QED  BY <1>1, <2>1, Zenon DEF Put
<1>3. /\ m' \in [DOMAIN m' -> [start : Nat, gen : Nat]]
      /\ \A q \in DOMAIN m' : \/ q \in DOMAIN m /\ m'[q] = m[q]
                              \/ q = r /\ m'[q].gen = bioGen + 1
  <2>. DEFINE e == [start |-> now, gen |-> bioGen + 1]
  <2>1. e \in [start : Nat, gen : Nat] /\ e.gen = bioGen + 1  BY <1>1, Zenon
  <2>2. m' = m \/ m' = Put(m, r, e)  BY Zenon DEF biolat_start, Unstarted, HashUpdate
  <2>. HIDE DEF e
  <2>3. QED  BY <1>1, <2>1, <2>2, Zenon DEF Put
<1>4. BioShapes'  BY <1>1, <1>2, <1>3, Zenon DEF BioInv, BioShapes
<1>5. BioEntriesInFlight'  BY <1>1, <1>2, <1>3, Zenon DEF BioInv, BioEntriesInFlight
<1>6. QED  BY <1>1, <1>4, <1>5, Zenon DEF BioInv, BioSpanOfOneRequest

LEMMA BioEndKeeps ==
  ASSUME BioInv, NEW r \in Requests, biolat_finish(r) \/ Merged(r), UNCHANGED now
  PROVE  BioInv'
<1>. DEFINE m == insp_biolat_entry
<1>1. /\ now \in Nat /\ bioGen \in Nat /\ bioReq \in [DOMAIN bioReq -> Nat] /\ bioMerged \in BOOLEAN
      /\ m \in [DOMAIN m -> [start : Nat, gen : Nat]] /\ r \in DOMAIN bioReq
      /\ bioGen' = bioGen
  BY Zenon DEF BioInv, BioShapes, biolat_finish, Merged
<1>2. /\ bioReq' \in [DOMAIN bioReq' -> Nat] /\ DOMAIN bioReq' = DOMAIN bioReq \ {r}
      /\ \A q \in DOMAIN bioReq' : bioReq'[q] = bioReq[q]
  <2>1. bioReq' = HashDelete(bioReq, r)  BY Zenon DEF biolat_finish, Merged
  <2>2. QED  BY <1>1, <2>1, ZenonT(30) DEF HashDelete
<1>3. /\ m' \in [DOMAIN m' -> [start : Nat, gen : Nat]] /\ bioMerged' \in BOOLEAN
      /\ \A q \in DOMAIN m' : q \in DOMAIN m /\ m'[q] = m[q]
      /\ ~bioMerged' => ~bioMerged /\ r \notin DOMAIN m'
  BY <1>1, Zenon DEF biolat_finish, Merged, HashDelete
<1>4. BioShapes'  BY <1>1, <1>2, <1>3, Zenon DEF BioInv, BioShapes
<1>5. BioEntriesInFlight'  BY <1>1, <1>2, <1>3, Zenon DEF BioInv, BioEntriesInFlight
<1>6. BioSpanOfOneRequest'
  <2>1. CASE bioEvent' = bioEvent  BY <1>3, <2>1, Zenon DEF BioInv, BioSpanOfOneRequest
  <2>2. CASE /\ r \in DOMAIN m
             /\ bioEvent' = [latency |-> now - m[r].start, opened |-> m[r].gen, gen |-> bioReq[r]]
    BY <1>3, <2>2, Zenon DEF BioInv, BioEntriesInFlight, BioSpanOfOneRequest
  <2>3. QED  BY <2>1, <2>2, Zenon DEF biolat_finish, Merged
<1>7. QED  BY <1>4, <1>5, <1>6, Zenon DEF BioInv

LEMMA BioKept ==
  ASSUME BioInv, BioNext \/ (Later /\ UNCHANGED bioVars)
  PROVE  BioInv'
<1>1. CASE (KernelTick \/ Later) /\ UNCHANGED bioVars
  BY <1>1 DEF BioInv, BioShapes, BioEntriesInFlight, BioSpanOfOneRequest, KernelTick, Later, bioVars
<1>2. QED  BY <1>1, BioBeginKeeps, BioEndKeeps, Zenon DEF BioNext, BioStep

LEMMA DlStarts ==
  ASSUME now = 1, DlInit
  PROVE  VcInv /\ BioInv
<1>1. vcCall = << >> /\ insp_virtcmdlat = << >> /\ bioReq = << >> /\ insp_biolat_entry = << >>  BY Zenon DEF DlInit
<1>2. DOMAIN << >> = {} /\ \A S : << >> \in [{} -> S]  OBVIOUS
<1>3. /\ vcCall \in [DOMAIN vcCall -> [cpu : DlCpus, since : Nat, moved : BOOLEAN]]
      /\ insp_virtcmdlat \in [DOMAIN insp_virtcmdlat -> [DlCpus -> Nat]]
      /\ bioReq \in [DOMAIN bioReq -> Nat]
      /\ insp_biolat_entry \in [DOMAIN insp_biolat_entry -> [start : Nat, gen : Nat]]
      /\ DOMAIN vcCall = {} /\ DOMAIN insp_biolat_entry = {}
  BY <1>1, <1>2, Zenon
<1>4. VcInv  BY <1>3, ZenonT(30) DEF VcInv, VcShapes, CallStampOwn, CommandTimeIsOwn, DlInit
<1>5. BioInv  BY <1>3, Zenon DEF BioInv, BioShapes, BioEntriesInFlight, BioSpanOfOneRequest, DlInit
<1>6. QED  BY <1>4, <1>5, Zenon

-----------------------------------------------------------------------------
(* LinkFlow *)

\* A filter belongs to a flow or is left over, after the sweep to a late flow; a flow was
\* attached when the helper last tried.
FiltersOfFlows == /\ filter \subseteq flows \cup leftover /\ leftover \subseteq filter
                  /\ \A i \in flows : i \notin unattached
                  /\ probe \in {"swept", "closed"} => filter \subseteq late \cup leftover

\* What cleanup does of the filters in there, without the end of the process.
Removes(S, there) == \E kept \in SUBSET (S \cap there) : /\ filter' = (there \ S) \cup kept
                                                        /\ leftover' = (leftover \ S) \cup kept

\* What cleanup does not remove is left over.
LEMMA CleanupLeaves ==
  ASSUME leftover \subseteq filter, NEW S, NEW there, filter \subseteq there, Removes(S, there)
  PROVE  /\ leftover' \subseteq filter'
         /\ \A i : i \in filter' => i \in leftover' \/ (i \in there /\ i \notin S)
         /\ \A i : i \in leftover /\ i \notin S => i \in leftover'
         /\ \A i : i \in there /\ i \notin S => i \in filter'
  BY Zenon DEF Removes

LEMMA FiltersKept ==
  ASSUME FiltersOfFlows, LfNext \/ UNCHANGED lfVars
  PROVE  FiltersOfFlows'
<1>. USE DEF kernelVars, flowVars, historyVars
<1>1. ASSUME NEW i \in Index, NEW name \in Names \cup {"none"}, KernelChange(i, name)
      PROVE  FiltersOfFlows'
  <2>1. UNCHANGED <<flows, unattached, late, probe>>  BY <1>1, Zenon DEF KernelChange
  <2>2. \A j : (j \in filter' => j \in filter) /\ (j \in filter' /\ j \in leftover => j \in leftover')
               /\ (j \in leftover' => j \in leftover /\ (j \in filter => j \in filter'))
    BY <1>1, Zenon DEF KernelChange
  <2>3. QED  BY <2>1, <2>2, Zenon DEF FiltersOfFlows
<1>2. CASE UNCHANGED <<flowVars, probe>>  BY <1>2, Zenon DEF FiltersOfFlows
<1>3. CASE StartListsLinks \/ StartSubscribes \/ handleUpdate \/ eventLoopEnds \/ StopLinkManager \/ DispatchEnds
  BY <1>2, <1>3, Zenon DEF StartListsLinks, StartSubscribes, handleUpdate, eventLoopEnds, StopLinkManager, DispatchEnds
<1>4. CASE ProbeStart \/ StopUnregisters
  BY <1>4, Zenon DEF ProbeStart, StopUnregisters, FiltersOfFlows
<1>5. CASE Dispatch
  <2>. DEFINE j == Head(ch).index
  <2>1. probe' = probe  BY <1>5, Zenon DEF Dispatch
  <2>2. CASE UNCHANGED flowVars  BY <1>2, <2>1, <2>2, Zenon
  <2>3. CASE j \notin flows /\ attachBPF(j)
    <3>1. /\ flows' = flows \cup {j} /\ filter' = filter \cup {j}
          /\ leftover' = leftover \ {j} /\ unattached' = unattached \ {j}
          /\ probe \in {"swept", "closed"} => late' = late \cup {j}
      BY <2>3, Zenon DEF attachBPF, Attachable
    <3>. HIDE DEF j
    <3>2. leftover' \subseteq filter' /\ \A i \in flows' : i \notin unattached'  BY <3>1, Zenon DEF FiltersOfFlows
    <3>3. filter' \subseteq flows' \cup leftover'  BY <3>1, Zenon DEF FiltersOfFlows
    <3>4. probe \in {"swept", "closed"} => filter' \subseteq late' \cup leftover'  BY <3>1, Zenon DEF FiltersOfFlows
    <3>5. QED  BY <2>1, <3>2, <3>3, <3>4, Zenon DEF FiltersOfFlows
  <2>4. CASE j \notin flows /\ attachFails(j)
    <3>1. PICK there : filter \subseteq there /\ there \subseteq filter \cup {j} /\ Removes({j}, there)
      BY <2>4, Zenon DEF attachFails, cleanup, Removes
    <3>2. flows' = flows /\ late' = late /\ unattached' = unattached \cup {j}  BY <2>4, Zenon DEF attachFails
    <3>3. leftover \subseteq filter  BY Zenon DEF FiltersOfFlows
    <3>4. /\ leftover' \subseteq filter'
          /\ \A i : i \in filter' => i \in leftover' \/ (i \in there /\ i \notin {j})
          /\ \A i : i \in leftover /\ i \notin {j} => i \in leftover'
      BY <3>1, <3>3, CleanupLeaves, Zenon
    <3>. HIDE DEF j
    <3>5. \A i \in filter' : i \in leftover' \/ (i \in filter /\ i # j)  BY <3>1, <3>4, Zenon
    <3>6. QED  BY <2>1, <2>4, <3>2, <3>4, <3>5, Zenon DEF FiltersOfFlows
  <2>5. CASE j \in flows /\ tryStopLinkFlow(j)
    <3>1. flows' = flows \ {j} /\ Removes({j}, filter) /\ UNCHANGED <<unattached, late>>
      BY <2>5, Zenon DEF tryStopLinkFlow, cleanup, Removes
    <3>2. leftover \subseteq filter /\ filter \subseteq filter  BY Zenon DEF FiltersOfFlows
    <3>3. /\ leftover' \subseteq filter'
          /\ \A i : i \in filter' => i \in leftover' \/ (i \in filter /\ i \notin {j})
          /\ \A i : i \in leftover /\ i \notin {j} => i \in leftover'
      BY <3>1, <3>2, CleanupLeaves, Zenon
    <3>. HIDE DEF j
    <3>4. QED  BY <2>1, <3>1, <3>3, Zenon DEF FiltersOfFlows
  <2>6. QED  BY <1>5, <2>2, <2>3, <2>4, <2>5, Zenon DEF Dispatch, tryStartLinkFlow, tryStopLinkFlow
<1>6. CASE StopSweeps
  <2>1. Removes(flows, filter) /\ UNCHANGED <<flows, unattached, late>>  BY <1>6, Zenon DEF StopSweeps, cleanup, Removes
  <2>2. leftover \subseteq filter /\ filter \subseteq filter  BY Zenon DEF FiltersOfFlows
  <2>3. /\ leftover' \subseteq filter'
        /\ \A i : i \in filter' => i \in leftover' \/ (i \in filter /\ i \notin flows)
        /\ \A i : i \in leftover /\ i \notin flows => i \in leftover'
    BY <2>1, <2>2, CleanupLeaves, Zenon
  <2>4. QED  BY <2>1, <2>3, Zenon DEF FiltersOfFlows
<1>7. CASE StopCloses  BY <1>7, Zenon DEF StopCloses, FiltersOfFlows
<1>8. CASE UNCHANGED lfVars  BY <1>2, <1>8, Zenon DEF lfVars
<1>9. QED  BY <1>1, <1>3, <1>4, <1>5, <1>6, <1>7, <1>8, Zenon DEF LfNext

\* FlowsFollowLinks: what the messages and the events under way will make of the cache and
\* of the flows.
Message == [type : {"RTM_NEWLINK", "RTM_DELLINK"}, index : Index, name : Names \cup {"none"}]
Event == [add : BOOLEAN, index : Index, name : Names]
LfShapes == /\ kernel \in [Index -> Names \cup {"none"}] /\ links \in [Index -> Names \cup {"none"}]
            /\ nl \in Seq(Message) /\ ch \in Seq(Event)
            /\ \A k \in DOMAIN nl : nl[k].type = "RTM_NEWLINK" <=> nl[k].name # "none"

\* Where the manager, the listener and the probe are in step.
Stages == /\ manager \in {"list", "subscribe"} => nl = << >> /\ probe = "off"
          /\ manager = "list" => links = [i \in Index |-> "none"]
          /\ probe = "off" => flows = {} /\ listener = "none" /\ ~done
          /\ probe = "on" /\ manager \in {"run", "deaf"} => listener = "on" /\ ~done

\* Nothing is known of an interface that never was.
Unborn == \A i \in Index \ born :
  /\ kernel[i] = "none" /\ links[i] = "none" /\ i \notin flows
  /\ \A k \in DOMAIN nl : nl[k].index # i

\* The last message about an interface has its present name; without one the cache does.
CacheCatchesUp == manager \in {"subscribe", "run"} => \A i \in Index \ missed :
  /\ \A k \in DOMAIN nl :
       (nl[k].index = i /\ \A l \in DOMAIN nl : l > k => nl[l].index # i) => nl[k].name = kernel[i]
  /\ (\A k \in DOMAIN nl : nl[k].index # i) => links[i] = kernel[i]

\* Without a rename out of the pattern, no message takes an interface from it to another
\* name.
NeverOut == \A i \in Index \ renamed : \A l \in DOMAIN nl :
  (nl[l].index = i /\ nl[l].name = "other") =>
    links[i] # "match" /\ \A k \in DOMAIN nl : k < l /\ nl[k].index = i => nl[k].name # "match"

\* The last event of the pattern about an interface says what the cache does; without one
\* the flows do, unless the interface was gone when its event was handled or attaching to
\* it failed.
Matches(q, k, i) == q[k].index = i /\ q[k].name = "match"
FlowsCatchUp == probe = "on" /\ manager = "run" => \A i \in Index \ (dropped \cup renamed) :
  /\ \A k \in DOMAIN ch :
       (Matches(ch, k, i) /\ \A l \in DOMAIN ch : l > k => ~Matches(ch, l, i)) => (ch[k].add <=> links[i] = "match")
  /\ (\A k \in DOMAIN ch : ~Matches(ch, k, i)) =>
       /\ i \in flows => links[i] = "match"
       /\ links[i] = "match" => i \in flows \/ i \in unattached \/ kernel[i] = "none"

\* A flow of an interface that exists has its filters.
FlowsFiltered == probe = "on" => \A i \in Index : i \in flows /\ kernel[i] # "none" => i \in filter

LfInv == FiltersOfFlows /\ LfShapes /\ Stages /\ Unborn /\ CacheCatchesUp /\ NeverOut /\ FlowsCatchUp /\ FlowsFiltered

\* A queue that gets or loses one element.
LEMMA AppendFacts ==
  ASSUME NEW S, NEW q \in Seq(S), NEW e \in S
  PROVE  LET u == Append(q, e)  n == Len(q) + 1 IN
         /\ u \in Seq(S) /\ DOMAIN u = DOMAIN q \cup {n} /\ u[n] = e /\ n \in Nat /\ n \notin DOMAIN q
         /\ \A k \in DOMAIN q : k \in Nat /\ k < n /\ u[k] = q[k]
  OBVIOUS

LEMMA TailFacts ==
  ASSUME NEW S, NEW q \in Seq(S), q # << >>
  PROVE  LET u == Tail(q) IN
         /\ u \in Seq(S) /\ 1 \in DOMAIN q /\ Head(q) = q[1] /\ Head(q) \in S
         /\ \A k \in DOMAIN u : k \in Nat /\ k + 1 \in DOMAIN q /\ u[k] = q[k + 1]
         /\ \A k \in DOMAIN q : k \in Nat /\ k >= 1 /\ (k # 1 => k - 1 \in DOMAIN u /\ u[k - 1] = q[k])
  OBVIOUS

LEMMA ChangeKeeps ==
  ASSUME LfInv, NEW i \in Index, NEW name \in Names \cup {"none"}, KernelChange(i, name)
  PROVE  LfShapes' /\ Stages' /\ Unborn' /\ CacheCatchesUp' /\ NeverOut' /\ FlowsCatchUp' /\ FlowsFiltered'
<1>. DEFINE msg == [type |-> IF name = "none" THEN "RTM_DELLINK" ELSE "RTM_NEWLINK", index |-> i, name |-> name]
            n == Len(nl) + 1
<1>1. /\ kernel \in [Index -> Names \cup {"none"}] /\ nl \in Seq(Message)
      /\ kernel[i] # name /\ (kernel[i] = "none" => i \notin born) /\ born' = born \cup {i}
      /\ UNCHANGED <<manager, links, listener, ch, chCap, done, flows, unattached, probe, dropped>>
  BY Zenon DEF LfInv, LfShapes, KernelChange
<1>2. kernel' \in [Index -> Names \cup {"none"}] /\ kernel'[i] = name /\ \A j \in Index : j # i => kernel'[j] = kernel[j]
  BY <1>1, Zenon DEF KernelChange
<1>3. /\ msg \in Message /\ msg.index = i /\ msg.name = name /\ (msg.type = "RTM_NEWLINK" <=> name # "none")
  BY Zenon DEF Message
<1>4. nl' = IF manager = "run" THEN Append(nl, msg) ELSE nl  BY Zenon DEF KernelChange
<1>. HIDE DEF msg
<1>5. manager = "run" =>
        /\ nl' \in Seq(Message) /\ DOMAIN nl' = DOMAIN nl \cup {n} /\ nl'[n] = msg /\ n \in Nat /\ n \notin DOMAIN nl
        /\ \A k \in DOMAIN nl : k \in Nat /\ k < n /\ nl'[k] = nl[k]
  BY <1>1, <1>3, <1>4, AppendFacts
<1>. HIDE DEF n
<1>6. kernel[i] = "none" => links[i] = "none" /\ i \notin flows /\ \A k \in DOMAIN nl : nl[k].index # i
  BY <1>1, Zenon DEF LfInv, Unborn
<1>7. LfShapes'
  <2>1. nl' \in Seq(Message) /\ \A k \in DOMAIN nl' : nl'[k].type = "RTM_NEWLINK" <=> nl'[k].name # "none"
    <3>1. CASE manager = "run"  BY <1>3, <1>5, <3>1, Zenon DEF LfInv, LfShapes
    <3>2. CASE manager # "run"  BY <1>1, <1>4, <3>2, Zenon DEF LfInv, LfShapes
    <3>3. QED  BY <3>1, <3>2, Zenon
  <2>2. QED  BY <1>1, <1>2, <2>1, Zenon DEF LfInv, LfShapes
<1>8. Stages'  BY <1>1, <1>4, Zenon DEF LfInv, Stages
<1>9. Unborn'
  <2>1. SUFFICES ASSUME NEW j \in Index \ born, j # i
                 PROVE  /\ kernel'[j] = "none" /\ links[j] = "none" /\ j \notin flows
                        /\ \A k \in DOMAIN nl' : nl'[k].index # j
    BY <1>1, Zenon DEF Unborn
  <2>2. \A k \in DOMAIN nl' : nl'[k].index # j
    <3>1. \A k \in DOMAIN nl : nl[k].index # j  BY Zenon DEF LfInv, Unborn
    <3>2. CASE manager = "run"  BY <1>3, <1>5, <2>1, <3>1, <3>2, Zenon
    <3>3. CASE manager # "run"  BY <1>4, <3>1, <3>3, Zenon
    <3>4. QED  BY <3>2, <3>3, Zenon
  <2>3. QED  BY <1>2, <2>1, <2>2, Zenon DEF LfInv, Unborn
<1>10. CacheCatchesUp'
  <2>1. CASE manager = "run"
    <3>1. \A j \in Index : j # i /\ j \notin missed' => j \notin missed  BY <2>1, Zenon DEF KernelChange
    <3>2. SUFFICES ASSUME NEW j \in Index, j \notin missed'
                   PROVE  /\ \A k \in DOMAIN nl' :
                               (nl'[k].index = j /\ \A l \in DOMAIN nl' : l > k => nl'[l].index # j) =>
                                  nl'[k].name = kernel'[j]
                          /\ (\A k \in DOMAIN nl' : nl'[k].index # j) => links[j] = kernel'[j]
      BY <1>1, Zenon DEF CacheCatchesUp
    <3>3. CASE j = i  BY <1>2, <1>3, <1>5, <2>1, <3>3, Zenon
    <3>4. CASE j # i
      <4>1. /\ \A k \in DOMAIN nl :
                 (nl[k].index = j /\ \A l \in DOMAIN nl : l > k => nl[l].index # j) => nl[k].name = kernel[j]
            /\ (\A k \in DOMAIN nl : nl[k].index # j) => links[j] = kernel[j]
        BY <2>1, <3>1, <3>2, <3>4, Zenon DEF LfInv, CacheCatchesUp
      <4>2. kernel'[j] = kernel[j] /\ nl'[n].index # j  BY <1>2, <1>3, <1>5, <2>1, <3>4, Zenon
      <4>3. QED  BY <1>5, <2>1, <4>1, <4>2
    <3>5. QED  BY <3>3, <3>4, Zenon
  <2>2. CASE manager = "subscribe"
    <3>1. missed' = missed \cup {i} /\ nl' = nl  BY <1>4, <2>2, Zenon DEF KernelChange
    <3>2. QED  BY <1>1, <1>2, <2>2, <3>1 DEF LfInv, CacheCatchesUp
  <2>3. QED  BY <1>1, <2>1, <2>2, Zenon DEF CacheCatchesUp
<1>11. NeverOut'
  <2>1. \A j \in Index : j \notin renamed' => j \notin renamed  BY Zenon DEF KernelChange
  <2>2. i \notin renamed' /\ name = "other" => kernel[i] = "none"
    BY <1>1, Zenon DEF KernelChange, LfInv, LfShapes, Names
  <2>3. CASE manager # "run"  BY <1>1, <1>4, <2>1, <2>3 DEF LfInv, NeverOut
  <2>4. CASE manager = "run"
    <3>1. SUFFICES ASSUME NEW j \in Index, j \notin renamed', NEW l \in DOMAIN nl', nl'[l].index = j, nl'[l].name = "other"
                   PROVE  links[j] # "match" /\ \A k \in DOMAIN nl' : k < l /\ nl'[k].index = j => nl'[k].name # "match"
      BY <1>1, Zenon DEF NeverOut
    <3>2. CASE l = n
      <4>1. j = i /\ kernel[i] = "none"  BY <1>3, <1>5, <2>2, <2>4, <3>1, <3>2, Zenon
      <4>2. QED  BY <1>5, <1>6, <2>4, <3>2, <4>1
    <3>3. CASE l \in DOMAIN nl
      <4>1. links[j] # "match" /\ \A k \in DOMAIN nl : k < l /\ nl[k].index = j => nl[k].name # "match"
        BY <1>5, <2>1, <2>4, <3>1, <3>3, Zenon DEF LfInv, NeverOut
      <4>2. QED  BY <1>5, <2>4, <3>3, <4>1
    <3>4. QED  BY <1>5, <2>4, <3>2, <3>3
  <2>5. QED  BY <2>3, <2>4, Zenon
<1>12. FlowsCatchUp'
  <2>1. \A j \in Index : j \notin renamed' => j \notin renamed  BY Zenon DEF KernelChange
  <2>2. \A j \in Index : links[j] = "match" /\ kernel[j] = "none" => kernel'[j] = "none"
    BY <1>2, <1>6, Zenon
  <2>3. QED  BY <1>1, <2>1, <2>2 DEF LfInv, FlowsCatchUp, Matches
<1>13. FlowsFiltered'
  <2>1. \A j \in Index : j \in filter /\ kernel'[j] # "none" => j \in filter'  BY <1>2, Zenon DEF KernelChange
  <2>2. \A j \in Index : j \in flows /\ kernel'[j] # "none" => kernel[j] # "none"  BY <1>2, <1>6, Zenon
  <2>3. QED  BY <1>1, <2>1, <2>2, Zenon DEF LfInv, FlowsFiltered
<1>14. QED  BY <1>7, <1>8, <1>9, <1>10, <1>11, <1>12, <1>13, Zenon

LEMMA UpdateKeeps ==
  ASSUME LfInv, handleUpdate
  PROVE  LfShapes' /\ Stages' /\ Unborn' /\ CacheCatchesUp' /\ NeverOut' /\ FlowsCatchUp' /\ FlowsFiltered'
<1>. DEFINE u == Head(nl)  j == u.index  n == Len(ch) + 1
<1>1. /\ manager = "run" /\ nl # << >> /\ nl' = Tail(nl) /\ nl \in Seq(Message) /\ ch \in Seq(Event)
      /\ links \in [Index -> Names \cup {"none"}]
      /\ UNCHANGED <<kernel, born, manager, listener, done, flows, filter, unattached, probe, missed, renamed>>
  BY Zenon DEF LfInv, LfShapes, handleUpdate, kernelVars, flowVars
<1>2. /\ nl' \in Seq(Message) /\ 1 \in DOMAIN nl /\ u = nl[1] /\ u \in Message
      /\ \A k \in DOMAIN nl' : k \in Nat /\ k + 1 \in DOMAIN nl /\ nl'[k] = nl[k + 1]
      /\ \A k \in DOMAIN nl : k \in Nat /\ k >= 1 /\ (k # 1 => k - 1 \in DOMAIN nl' /\ nl'[k - 1] = nl[k])
  BY <1>1, TailFacts, Zenon
<1>3. /\ j \in Index /\ u.name \in Names \cup {"none"} /\ (u.type = "RTM_NEWLINK" <=> u.name # "none")
      /\ links[j] \in Names \cup {"none"}
  BY <1>1, <1>2 DEF LfInv, LfShapes, Message
<1>4. links' = [links EXCEPT ![j] = u.name]  BY <1>3, Zenon DEF handleUpdate
<1>5. PICK ev \in Event :
        /\ ev.index = j /\ (ev.add <=> u.name # "none") /\ (ev.add => ev.name = u.name)
        /\ ~ev.add /\ links[j] # "none" => ev.name = links[j]
        /\ broadcast(ev)
  <2>1. CASE u.name # "none"
    <3>. DEFINE e == [add |-> TRUE, index |-> j, name |-> u.name]
    <3>1. e \in Event /\ e.index = j /\ e.add /\ e.name = u.name  BY <1>3, <2>1, Zenon DEF Event
    <3>2. broadcast(e)  BY <1>3, <2>1, Zenon DEF handleUpdate
    <3>. HIDE DEF e
    <3>3. QED  BY <2>1, <3>1, <3>2, Zenon
  <2>2. CASE u.name = "none"
    <3>1. PICK name \in IF links[j] = "none" THEN Names ELSE {links[j]} :
                 broadcast([add |-> FALSE, index |-> j, name |-> name])
      BY <1>3, <2>2, Zenon DEF handleUpdate
    <3>. DEFINE e == [add |-> FALSE, index |-> j, name |-> name]
    <3>2. e \in Event /\ e.index = j /\ ~e.add /\ e.name = name  BY <1>3, Zenon DEF Event
    <3>3. broadcast(e)  BY <3>1, Zenon
    <3>. HIDE DEF e
    <3>4. QED  BY <2>2, <3>1, <3>2, <3>3, Zenon
  <2>3. QED  BY <2>1, <2>2, Zenon
<1>. HIDE DEF u, j
<1>6. /\ links' \in [Index -> Names \cup {"none"}] /\ links'[j] = u.name
      /\ \A i \in Index : i # j => links'[i] = links[i]
  BY <1>1, <1>3, <1>4, Zenon
<1>7. \/ listener # "on" /\ ch' = ch /\ dropped' = dropped
      \/ ch' = Append(ch, ev) /\ dropped' = dropped
      \/ ch' = ch /\ dropped' = dropped \cup {j}
  BY <1>5, Zenon DEF broadcast
<1>8. ch' = Append(ch, ev) =>
        /\ ch' \in Seq(Event) /\ DOMAIN ch' = DOMAIN ch \cup {n} /\ ch'[n] = ev /\ n \in Nat /\ n \notin DOMAIN ch
        /\ \A k \in DOMAIN ch : k \in Nat /\ k < n /\ ch'[k] = ch[k]
  BY <1>1, AppendFacts
<1>. HIDE DEF n
<1>9. LfShapes'
  <2>1. ch' \in Seq(Event)  BY <1>1, <1>7, <1>8, Zenon
  <2>2. \A k \in DOMAIN nl' : nl'[k].type = "RTM_NEWLINK" <=> nl'[k].name # "none"  BY <1>2 DEF LfInv, LfShapes
  <2>3. QED  BY <1>1, <1>2, <1>6, <2>1, <2>2, Zenon DEF LfInv, LfShapes
<1>10. Stages'  BY <1>1, Zenon DEF LfInv, Stages
<1>11. Unborn'
  <2>1. j \in born  BY <1>2, <1>3, Zenon DEF LfInv, Unborn, j
  <2>2. \A i \in Index \ born : \A k \in DOMAIN nl' : nl'[k].index # i  BY <1>2, Zenon DEF LfInv, Unborn
  <2>3. QED  BY <1>1, <1>6, <2>1, <2>2, Zenon DEF LfInv, Unborn
<1>12. CacheCatchesUp'
  <2>1. SUFFICES ASSUME NEW i \in Index, i \notin missed
                 PROVE  /\ \A k \in DOMAIN nl' :
                             (nl'[k].index = i /\ \A l \in DOMAIN nl' : l > k => nl'[l].index # i) =>
                                nl'[k].name = kernel[i]
                        /\ (\A k \in DOMAIN nl' : nl'[k].index # i) => links'[i] = kernel[i]
    BY <1>1 DEF CacheCatchesUp
  <2>2. /\ \A k \in DOMAIN nl :
             (nl[k].index = i /\ \A l \in DOMAIN nl : l > k => nl[l].index # i) => nl[k].name = kernel[i]
        /\ (\A k \in DOMAIN nl : nl[k].index # i) => links[i] = kernel[i]
    BY <1>1, <2>1, Zenon DEF LfInv, CacheCatchesUp
  <2>3. ASSUME NEW k \in DOMAIN nl', nl'[k].index = i, \A l \in DOMAIN nl' : l > k => nl'[l].index # i
        PROVE  nl'[k].name = kernel[i]
    <3>1. k + 1 \in DOMAIN nl /\ nl'[k] = nl[k + 1] /\ k \in Nat  BY <1>2, Zenon
    <3>2. \A l \in DOMAIN nl : l > k + 1 => nl[l].index # i
      <4>1. ASSUME NEW l \in DOMAIN nl, l > k + 1
            PROVE  nl[l].index # i
        <5>1. l - 1 \in DOMAIN nl' /\ nl'[l - 1] = nl[l] /\ l - 1 > k  BY <1>2, <3>1, <4>1
        <5>2. QED  BY <2>3, <5>1, Zenon
      <4>2. QED  BY <4>1, Zenon
    <3>3. QED  BY <2>2, <2>3, <3>1, <3>2, Zenon
  <2>4. ASSUME \A k \in DOMAIN nl' : nl'[k].index # i
        PROVE  links'[i] = kernel[i]
    <3>1. \A k \in DOMAIN nl : k # 1 => nl[k].index # i  BY <1>2, <2>4, Zenon
    <3>2. CASE i = j
      <4>1. nl[1].index = i /\ \A l \in DOMAIN nl : l > 1 => nl[l].index # i  BY <1>2, <3>1, <3>2 DEF j
      <4>2. QED  BY <1>2, <1>6, <2>2, <3>2, <4>1, Zenon
    <3>3. CASE i # j
      <4>1. nl[1].index # i  BY <1>2, <3>3, Zenon DEF j
      <4>2. QED  BY <1>6, <2>2, <3>1, <3>3, <4>1, Zenon
    <3>4. QED  BY <3>2, <3>3, Zenon
  <2>5. QED  BY <2>3, <2>4, Zenon
<1>13. NeverOut'
  <2>1. SUFFICES ASSUME NEW i \in Index, i \notin renamed, NEW l \in DOMAIN nl', nl'[l].index = i, nl'[l].name = "other"
                 PROVE  links'[i] # "match" /\ \A k \in DOMAIN nl' : k < l /\ nl'[k].index = i => nl'[k].name # "match"
    BY <1>1 DEF NeverOut
  <2>2. l + 1 \in DOMAIN nl /\ nl'[l] = nl[l + 1] /\ l \in Nat /\ l >= 1
    <3>1. l + 1 \in DOMAIN nl /\ nl'[l] = nl[l + 1] /\ l \in Nat  BY <1>2, Zenon
    <3>2. l \in 1..Len(nl')  BY <1>2
    <3>3. QED  BY <3>1, <3>2
  <2>3. links[i] # "match" /\ \A k \in DOMAIN nl : k < l + 1 /\ nl[k].index = i => nl[k].name # "match"
    BY <2>1, <2>2, Zenon DEF LfInv, NeverOut
  <2>4. links'[i] # "match"
    <3>1. CASE i = j  BY <1>2, <1>6, <2>2, <2>3, <3>1 DEF j
    <3>2. CASE i # j  BY <1>6, <2>3, <3>2, Zenon
    <3>3. QED  BY <3>1, <3>2, Zenon
  <2>5. QED  BY <1>2, <2>2, <2>3, <2>4
<1>14. FlowsCatchUp'
  <2>1. SUFFICES ASSUME probe = "on", NEW i \in Index, i \notin dropped', i \notin renamed
                 PROVE  /\ \A k \in DOMAIN ch' :
                             (Matches(ch', k, i) /\ \A l \in DOMAIN ch' : l > k => ~Matches(ch', l, i)) =>
                                (ch'[k].add <=> links'[i] = "match")
                        /\ (\A k \in DOMAIN ch' : ~Matches(ch', k, i)) =>
                             /\ i \in flows => links'[i] = "match"
                             /\ links'[i] = "match" => i \in flows \/ i \in unattached \/ kernel[i] = "none"
    BY <1>1, Zenon DEF FlowsCatchUp, Matches
  <2>2. listener = "on" /\ i \notin dropped  BY <1>1, <1>7, <2>1, Zenon DEF LfInv, Stages
  <2>3. /\ \A k \in DOMAIN ch :
             (Matches(ch, k, i) /\ \A l \in DOMAIN ch : l > k => ~Matches(ch, l, i)) => (ch[k].add <=> links[i] = "match")
        /\ (\A k \in DOMAIN ch : ~Matches(ch, k, i)) =>
             /\ i \in flows => links[i] = "match"
             /\ links[i] = "match" => i \in flows \/ i \in unattached \/ kernel[i] = "none"
    BY <1>1, <2>1, <2>2, Zenon DEF LfInv, FlowsCatchUp
  <2>4. CASE ch' = ch
    <3>1. i # j  BY <1>7, <1>8, <2>1, <2>2, <2>4, Zenon
    <3>2. links'[i] = links[i]  BY <1>6, <3>1, Zenon
    <3>3. QED  BY <2>3, <2>4, <3>2, Zenon DEF Matches
  <2>5. CASE ch' = Append(ch, ev)
    <3>1. \A k \in DOMAIN ch : Matches(ch', k, i) <=> Matches(ch, k, i)  BY <1>8, <2>5, Zenon DEF Matches
    <3>2. Matches(ch', n, i) <=> j = i /\ ev.name = "match"  BY <1>5, <1>8, <2>5, Zenon DEF Matches
    <3>3. CASE i = j /\ ev.name = "match"
      <4>1. ev.add <=> links'[i] = "match"  BY <1>5, <1>6, <3>3, Zenon
      <4>2. QED  BY <1>8, <2>5, <3>2, <3>3, <4>1, Zenon
    <3>4. CASE ~(i = j /\ ev.name = "match")
      <4>1. links'[i] = "match" <=> links[i] = "match"
        <5>1. CASE i # j  BY <1>6, <5>1, Zenon
        <5>2. CASE i = j
          <6>1. links'[i] # "match"  BY <1>5, <1>6, <3>4, <5>2, Zenon
          <6>2. links[i] # "match"
            <7>1. CASE ev.add
              <8>1. u.name = "other"  BY <1>3, <1>5, <3>4, <5>2, <7>1, Zenon DEF Names
              <8>2. QED  BY <1>2, <2>1, <5>2, <8>1, Zenon DEF LfInv, NeverOut, j
            <7>2. CASE ~ev.add  BY <1>5, <3>4, <5>2, <7>2, Zenon
            <7>3. QED  BY <7>1, <7>2, Zenon
          <6>3. QED  BY <6>1, <6>2, Zenon
        <5>3. QED  BY <5>1, <5>2, Zenon
      <4>2. ~Matches(ch', n, i)  BY <3>2, <3>4, Zenon
      <4>. HIDE DEF Matches
      <4>3. QED  BY <1>8, <2>3, <2>5, <3>1, <4>1, <4>2, Zenon
    <3>5. QED  BY <3>3, <3>4, Zenon
  <2>6. QED  BY <1>7, <2>2, <2>4, <2>5, Zenon
<1>15. FlowsFiltered'  BY <1>1, Zenon DEF LfInv, FlowsFiltered
<1>16. QED  BY <1>9, <1>10, <1>11, <1>12, <1>13, <1>14, <1>15, Zenon

\* A step that leaves the links and their messages alone leaves what the cache knows.
LEMMA CacheFrame ==
  ASSUME LfInv, UNCHANGED <<kernel, nl, links, missed, renamed>>,
         manager' \in {"subscribe", "run"} => manager \in {"subscribe", "run"}
  PROVE  CacheCatchesUp' /\ NeverOut'
<1>1. kernel' = kernel /\ nl' = nl /\ links' = links /\ missed' = missed /\ renamed' = renamed  BY Zenon
<1>2. CacheCatchesUp'
  <2>1. SUFFICES ASSUME manager' \in {"subscribe", "run"}, NEW i \in Index \ missed
                 PROVE  /\ \A k \in DOMAIN nl :
                             (nl[k].index = i /\ \A l \in DOMAIN nl : l > k => nl[l].index # i) => nl[k].name = kernel[i]
                        /\ (\A k \in DOMAIN nl : nl[k].index # i) => links[i] = kernel[i]
    BY <1>1, SMTT(20) DEF CacheCatchesUp
  <2>2. QED  BY <2>1, Zenon DEF LfInv, CacheCatchesUp
<1>3. NeverOut'  BY <1>1, SMTT(20) DEF LfInv, NeverOut
<1>4. QED  BY <1>2, <1>3, Zenon

LEMMA DispatchKeeps ==
  ASSUME LfInv, Dispatch
  PROVE  LfShapes' /\ Stages' /\ Unborn' /\ CacheCatchesUp' /\ NeverOut' /\ FlowsCatchUp' /\ FlowsFiltered'
<1>. DEFINE ev == Head(ch)  j == ev.index
<1>1. /\ listener # "none" /\ ch # << >> /\ ch' = Tail(ch) /\ ch \in Seq(Event)
      /\ UNCHANGED <<kernel, born, nl, manager, links, listener, done, probe, missed, dropped, renamed>>
  BY Zenon DEF LfInv, LfShapes, Dispatch, kernelVars, historyVars
<1>2. /\ ch' \in Seq(Event) /\ 1 \in DOMAIN ch /\ ev = ch[1] /\ ev \in Event
      /\ \A k \in DOMAIN ch' : k \in Nat /\ k + 1 \in DOMAIN ch /\ ch'[k] = ch[k + 1]
      /\ \A k \in DOMAIN ch : k \in Nat /\ k >= 1 /\ (k # 1 => k - 1 \in DOMAIN ch' /\ ch'[k - 1] = ch[k])
  BY <1>1, TailFacts, Zenon
<1>3. j \in Index  BY <1>2, Zenon DEF Event
<1>a. leftover \subseteq filter /\ filter \subseteq filter /\ filter \subseteq filter \cup {j}
  BY Zenon DEF LfInv, FiltersOfFlows
<1>b. ASSUME ev.name = "match", ev.add, j \notin flows
      PROVE  /\ \/ kernel[j] # "none" /\ flows' = flows \cup {j} /\ j \in filter'
                \/ flows' = flows /\ j \in unattached'
             /\ \A i : i # j /\ i \in filter => i \in filter'
             /\ \A i : i # j /\ i \in unattached => i \in unattached'
  <2>1. attachBPF(j) \/ attachFails(j)  BY <1>b, Zenon DEF Dispatch, tryStartLinkFlow
  <2>2. CASE attachBPF(j)  BY <2>2, Zenon DEF attachBPF, Attachable
  <2>3. CASE attachFails(j)
    <3>1. PICK there : filter \subseteq there /\ Removes({j}, there)  BY <1>a, <2>3, Zenon DEF attachFails, cleanup, Removes
    <3>2. \A i : i \in there /\ i \notin {j} => i \in filter'  BY <1>a, <3>1, CleanupLeaves, Zenon
    <3>3. flows' = flows /\ unattached' = unattached \cup {j}  BY <2>3, Zenon DEF attachFails
    <3>. HIDE DEF j
    <3>4. QED  BY <3>1, <3>2, <3>3, Zenon
  <2>4. QED  BY <2>1, <2>2, <2>3, Zenon
<1>c. ASSUME ev.name = "match", ~ev.add, j \in flows
      PROVE  /\ flows' = flows \ {j} /\ unattached' = unattached
             /\ \A i : i # j /\ i \in filter => i \in filter'
  <2>1. flows' = flows \ {j} /\ Removes({j}, filter) /\ UNCHANGED <<unattached, late>>
    BY <1>c, Zenon DEF Dispatch, tryStopLinkFlow, cleanup, Removes
  <2>2. \A i : i \in filter /\ i \notin {j} => i \in filter'  BY <1>a, <2>1, CleanupLeaves, Zenon
  <2>. HIDE DEF j
  <2>3. QED  BY <2>1, <2>2, Zenon
<1>d. ev.name # "match" \/ (ev.add /\ j \in flows) \/ (~ev.add /\ j \notin flows) =>
        flows' = flows /\ filter' = filter /\ unattached' = unattached
  BY Zenon DEF Dispatch, tryStartLinkFlow, tryStopLinkFlow, flowVars
<1>. HIDE DEF ev, j
<1>4. /\ \A i : i \in flows' => i \in flows \/ (i = j /\ kernel[j] # "none")
      /\ \A i : i \in flows' /\ (i \in flows => i \in filter) => i \in filter'
  BY <1>b, <1>c, <1>d, Zenon
<1>5. /\ ev.name = "match" /\ ev.add => j \in flows' \/ j \in unattached'
      /\ ev.name = "match" /\ ~ev.add => j \notin flows'
      /\ ev.name # "match" => flows' = flows /\ unattached' = unattached
      /\ \A i \in Index : i # j => (i \in flows' <=> i \in flows) /\ (i \in unattached => i \in unattached')
  BY <1>b, <1>c, <1>d, Zenon
<1>6. LfShapes'  BY <1>1, <1>2, Zenon DEF LfInv, LfShapes
<1>7. Stages'  BY <1>1, Zenon DEF LfInv, Stages
<1>8. Unborn'  BY <1>1, <1>4, Zenon DEF LfInv, Unborn
<1>9. CacheCatchesUp' /\ NeverOut'  BY <1>1, CacheFrame, Zenon
<1>10. FlowsFiltered'  BY <1>1, <1>4, Zenon DEF LfInv, FlowsFiltered
<1>11. FlowsCatchUp'
  <2>1. SUFFICES ASSUME probe = "on", manager = "run", NEW i \in Index, i \notin dropped, i \notin renamed
                 PROVE  /\ \A k \in DOMAIN ch' :
                             (Matches(ch', k, i) /\ \A l \in DOMAIN ch' : l > k => ~Matches(ch', l, i)) =>
                                (ch'[k].add <=> links[i] = "match")
                        /\ (\A k \in DOMAIN ch' : ~Matches(ch', k, i)) =>
                             /\ i \in flows' => links[i] = "match"
                             /\ links[i] = "match" => i \in flows' \/ i \in unattached' \/ kernel[i] = "none"
    BY <1>1, Zenon DEF FlowsCatchUp, Matches
  <2>2. /\ \A k \in DOMAIN ch :
             (Matches(ch, k, i) /\ \A l \in DOMAIN ch : l > k => ~Matches(ch, l, i)) => (ch[k].add <=> links[i] = "match")
        /\ (\A k \in DOMAIN ch : ~Matches(ch, k, i)) =>
             /\ i \in flows => links[i] = "match"
             /\ links[i] = "match" => i \in flows \/ i \in unattached \/ kernel[i] = "none"
    BY <2>1, Zenon DEF LfInv, FlowsCatchUp
  <2>3. /\ \A k \in DOMAIN ch' : Matches(ch', k, i) <=> Matches(ch, k + 1, i)
        /\ Matches(ch, 1, i) <=> j = i /\ ev.name = "match"
    BY <1>2, Zenon DEF Matches, j
  <2>4. \A k \in DOMAIN ch : k # 1 => (k - 1 \in DOMAIN ch' /\ (Matches(ch', k - 1, i) <=> Matches(ch, k, i)))
    BY <1>2, Zenon DEF Matches
  <2>5. ASSUME NEW k \in DOMAIN ch', Matches(ch', k, i), \A l \in DOMAIN ch' : l > k => ~Matches(ch', l, i)
        PROVE  ch'[k].add <=> links[i] = "match"
    <3>1. k + 1 \in DOMAIN ch /\ Matches(ch, k + 1, i) /\ ch'[k] = ch[k + 1] /\ k \in Nat  BY <1>2, <2>3, <2>5, Zenon
    <3>2. ASSUME NEW l \in DOMAIN ch, l > k + 1
          PROVE  ~Matches(ch, l, i)
      <4>1. l \in Nat /\ l # 1 /\ l - 1 > k  BY <1>2, <3>1, <3>2
      <4>2. QED  BY <2>4, <2>5, <4>1, Zenon
    <3>3. QED  BY <2>2, <3>1, <3>2, Zenon
  <2>6. ASSUME \A k \in DOMAIN ch' : ~Matches(ch', k, i)
        PROVE  /\ i \in flows' => links[i] = "match"
               /\ links[i] = "match" => i \in flows' \/ i \in unattached' \/ kernel[i] = "none"
    <3>1. \A k \in DOMAIN ch : k # 1 => ~Matches(ch, k, i)  BY <2>4, <2>6, Zenon
    <3>2. CASE i = j /\ ev.name = "match"
      <4>1. Matches(ch, 1, i) /\ \A l \in DOMAIN ch : l > 1 => ~Matches(ch, l, i)  BY <2>3, <3>1, <3>2
      <4>2. ev.add <=> links[i] = "match"  BY <1>2, <2>2, <4>1, Zenon
      <4>3. QED  BY <1>5, <2>1, <3>2, <4>2, Zenon
    <3>3. CASE ~(i = j /\ ev.name = "match")
      <4>1. \A k \in DOMAIN ch : ~Matches(ch, k, i)  BY <2>3, <3>1, <3>3, Zenon
      <4>2. (i \in flows' <=> i \in flows) /\ (i \in unattached => i \in unattached')  BY <1>5, <3>3, Zenon
      <4>3. QED  BY <2>2, <4>1, <4>2, Zenon
    <3>4. QED  BY <3>2, <3>3, Zenon
  <2>7. QED  BY <2>5, <2>6, Zenon
<1>12. QED  BY <1>6, <1>7, <1>8, <1>9, <1>10, <1>11, Zenon

\* The listener starts with an event for every link of the cache.
LEMMA ProbeStartKeeps ==
  ASSUME LfInv, ProbeStart
  PROVE  LfShapes' /\ Stages' /\ Unborn' /\ CacheCatchesUp' /\ NeverOut' /\ FlowsCatchUp' /\ FlowsFiltered'
<1>1. /\ manager \in {"run", "deaf"} /\ probe = "off" /\ probe' = "on" /\ listener' = "on" /\ flows = {} /\ ~done
      /\ links \in [Index -> Names \cup {"none"}]
      /\ UNCHANGED <<kernel, born, nl, manager, links, done, flows, filter, missed, dropped, renamed>>
  BY Zenon DEF LfInv, LfShapes, Stages, ProbeStart, registerListener, kernelVars, flowVars, historyVars
<1>2. PICK q \in Replay : ch' = [k \in DOMAIN q |-> [add |-> TRUE, index |-> q[k], name |-> links[q[k]]]]
  BY Zenon DEF ProbeStart, registerListener
<1>3. PICK n \in 0..Cardinality(Index) : q \in [1..n -> Index]  BY Zenon DEF Replay
<1>4. {q[k] : k \in DOMAIN q} = {i \in Index : links[i] # "none"}  BY Zenon DEF Replay
<1>5. n \in Nat /\ DOMAIN q = 1..n  BY <1>3
<1>6. ASSUME NEW k \in DOMAIN q
      PROVE  q[k] \in Index /\ links[q[k]] \in Names
  <2>1. q[k] \in {i \in Index : links[i] # "none"}  BY <1>4, Zenon
  <2>2. QED  BY <1>1, <2>1, Zenon
<1>7. DOMAIN ch' = DOMAIN q /\ \A k \in DOMAIN q : ch'[k].add /\ ch'[k].index = q[k] /\ ch'[k].name = links[q[k]]
  BY <1>2, Zenon
<1>8. ch' \in Seq(Event)
  <2>1. \A k \in 1..n : [add |-> TRUE, index |-> q[k], name |-> links[q[k]]] \in Event
    BY <1>5, <1>6, Zenon DEF Event
  <2>2. ch' = [k \in 1..n |-> [add |-> TRUE, index |-> q[k], name |-> links[q[k]]]]  BY <1>2, <1>5, Zenon
  <2>3. ch' \in [1..n -> Event]  BY <2>1, <2>2, Zenon
  <2>4. QED  BY <1>5, <2>3
<1>9. LfShapes' /\ Stages' /\ Unborn'  BY <1>1, <1>8, Zenon DEF LfInv, LfShapes, Stages, Unborn
<1>10. CacheCatchesUp' /\ NeverOut'  BY <1>1, CacheFrame, Zenon
<1>11. FlowsCatchUp'
  <2>1. ASSUME NEW i \in Index, NEW k \in DOMAIN ch', Matches(ch', k, i)
        PROVE  ch'[k].add /\ links[i] = "match"
    BY <1>7, <2>1, Zenon DEF Matches
  <2>2. ASSUME NEW i \in Index, links[i] = "match"
        PROVE  \E k \in DOMAIN ch' : Matches(ch', k, i)
    <3>1. i \in {q[k] : k \in DOMAIN q}  BY <1>4, <2>2, Zenon
    <3>2. QED  BY <1>7, <2>2, <3>1 DEF Matches
  <2>. HIDE DEF Matches
  <2>3. QED  BY <1>1, <2>1, <2>2, Zenon DEF FlowsCatchUp
<1>12. FlowsFiltered'  BY <1>1, Zenon DEF FlowsFiltered
<1>13. QED  BY <1>9, <1>10, <1>11, <1>12, Zenon

LEMMA LfKept ==
  ASSUME LfInv, LfNext \/ UNCHANGED lfVars
  PROVE  LfInv'
<1>1. FiltersOfFlows'  BY FiltersKept, Zenon DEF LfInv
<1>2. CASE StartListsLinks
  <2>1. /\ manager = "list" /\ manager' = "subscribe" /\ links' = kernel /\ nl = << >>
        /\ kernel \in [Index -> Names \cup {"none"}] /\ probe = "off"
        /\ UNCHANGED <<kernel, born, nl, listener, ch, done, flows, filter, probe, missed, dropped, renamed>>
    BY <1>2, Zenon DEF LfInv, LfShapes, Stages, StartListsLinks, kernelVars, flowVars, historyVars
  <2>2. DOMAIN nl = {}  BY <2>1
  <2>3. LfShapes' /\ Stages' /\ Unborn'  BY <2>1, <2>2, Zenon DEF LfInv, LfShapes, Stages, Unborn
  <2>4. CacheCatchesUp' /\ NeverOut'  BY <2>1, <2>2, Zenon DEF CacheCatchesUp, NeverOut
  <2>5. FlowsCatchUp' /\ FlowsFiltered'  BY <2>1, Zenon DEF FlowsCatchUp, FlowsFiltered
  <2>6. QED  BY <1>1, <2>3, <2>4, <2>5, Zenon DEF LfInv
<1>3. CASE StartSubscribes
  <2>1. /\ manager = "subscribe" /\ manager' = "run" /\ probe = "off"
        /\ UNCHANGED <<kernel, born, nl, links, listener, ch, done, flows, filter, probe, missed, dropped, renamed>>
    BY <1>3, Zenon DEF LfInv, Stages, StartSubscribes, kernelVars, flowVars, historyVars
  <2>2. LfShapes' /\ Stages' /\ Unborn'  BY <2>1, Zenon DEF LfInv, LfShapes, Stages, Unborn
  <2>3. CacheCatchesUp' /\ NeverOut'  BY <2>1, CacheFrame, Zenon
  <2>4. FlowsCatchUp' /\ FlowsFiltered'  BY <2>1, Zenon DEF FlowsCatchUp, FlowsFiltered
  <2>5. QED  BY <1>1, <2>2, <2>3, <2>4, Zenon DEF LfInv
<1>4. CASE StopLinkManager \/ StopUnregisters \/ StopSweeps \/ StopCloses
  <2>1. /\ UNCHANGED <<kernel, born, nl, links, ch, flows, missed, dropped, renamed>>
        /\ probe' = "on" => manager' = "stopped"
        /\ probe' = "on" => probe = "on" /\ filter' = filter
        /\ probe' = "off" => probe = "off" /\ listener' = listener /\ done' = done
        /\ manager' \in {"list", "subscribe"} => manager' = manager /\ probe # "off"
        /\ manager' = "run" => manager = "run"
    BY <1>4, Zenon DEF StopLinkManager, StopUnregisters, StopSweeps, StopCloses, kernelVars, flowVars, historyVars,
       LfInv, Stages
  <2>2. LfShapes' /\ Unborn'  BY <2>1, Zenon DEF LfInv, LfShapes, Unborn
  <2>3. Stages'  BY <2>1 DEF LfInv, Stages
  <2>4. CacheCatchesUp' /\ NeverOut'  BY <2>1, CacheFrame, Zenon
  <2>5. FlowsCatchUp'  BY <2>1, Zenon DEF FlowsCatchUp
  <2>6. FlowsFiltered'  BY <2>1, Zenon DEF LfInv, FlowsFiltered
  <2>7. QED  BY <1>1, <2>2, <2>3, <2>4, <2>5, <2>6, Zenon DEF LfInv
<1>5. CASE DispatchEnds
  <2>1. /\ done /\ ch' = << >>
        /\ UNCHANGED <<kernel, born, nl, manager, links, listener, done, flows, filter, probe, missed, dropped, renamed>>
    BY <1>5, Zenon DEF DispatchEnds, kernelVars, flowVars, historyVars
  <2>2. ~(probe = "on" /\ manager = "run")  BY <2>1, Zenon DEF LfInv, Stages
  <2>3. LfShapes' /\ Stages' /\ Unborn'  BY <2>1 DEF LfInv, LfShapes, Stages, Unborn
  <2>4. CacheCatchesUp' /\ NeverOut'  BY <2>1, CacheFrame, Zenon
  <2>5. FlowsCatchUp'  BY <2>1, <2>2, Zenon DEF FlowsCatchUp
  <2>6. FlowsFiltered'  BY <2>1, Zenon DEF LfInv, FlowsFiltered
  <2>7. QED  BY <1>1, <2>3, <2>4, <2>5, <2>6, Zenon DEF LfInv
<1>a. CASE eventLoopEnds
  <2>1. /\ manager' = "deaf" /\ nl' = << >> /\ (probe = "on" => listener = "on" /\ ~done)
        /\ UNCHANGED <<kernel, born, links, listener, ch, done, flows, filter, probe, missed, dropped, renamed>>
    BY <1>a, Zenon DEF eventLoopEnds, kernelVars, flowVars, historyVars, LfInv, Stages
  <2>2. DOMAIN nl' = {} /\ nl' \in Seq(Message)  BY <2>1
  <2>3. LfShapes' /\ Stages' /\ Unborn'  BY <2>1, <2>2, Zenon DEF LfInv, LfShapes, Stages, Unborn
  <2>4. CacheCatchesUp' /\ NeverOut' /\ FlowsCatchUp'
    BY <2>1, <2>2, Zenon DEF CacheCatchesUp, NeverOut, FlowsCatchUp
  <2>5. FlowsFiltered'  BY <2>1, Zenon DEF LfInv, FlowsFiltered
  <2>6. QED  BY <1>1, <2>3, <2>4, <2>5, Zenon DEF LfInv
<1>6. CASE UNCHANGED lfVars
  <2>1. /\ UNCHANGED <<kernel, born, nl, manager, links, listener, ch, done, flows, filter, probe, missed, dropped, renamed>>
        /\ unattached' = unattached
    BY <1>6, Zenon DEF lfVars, kernelVars, flowVars, historyVars
  <2>2. LfShapes' /\ Stages' /\ Unborn'  BY <2>1, Zenon DEF LfInv, LfShapes, Stages, Unborn
  <2>3. CacheCatchesUp' /\ NeverOut'  BY <2>1, CacheFrame, Zenon
  <2>4. FlowsCatchUp'  BY <2>1 DEF LfInv, FlowsCatchUp, Matches
  <2>5. FlowsFiltered'  BY <2>1, Zenon DEF LfInv, FlowsFiltered
  <2>6. QED  BY <1>1, <2>2, <2>3, <2>4, <2>5, Zenon DEF LfInv
<1>7. QED
  BY <1>1, <1>2, <1>3, <1>4, <1>5, <1>6, <1>a, ChangeKeeps, UpdateKeeps, DispatchKeeps, ProbeStartKeeps, Zenon DEF LfNext, LfInv

LEMMA LfStarts ==
  ASSUME LfInit
  PROVE  LfInv
<1>1. /\ kernel \in [Index -> Names \cup {"none"}] /\ born = {i \in Index : kernel[i] # "none"}
      /\ nl = << >> /\ ch = << >> /\ manager = "list" /\ links = [i \in Index |-> "none"] /\ listener = "none"
      /\ done = FALSE /\ flows = {} /\ filter = {} /\ leftover = {} /\ probe = "off"
  BY Zenon DEF LfInit
<1>2. DOMAIN nl = {}  BY <1>1
<1>3. LfShapes /\ Stages /\ Unborn /\ FiltersOfFlows
  BY <1>1, <1>2 DEF LfShapes, Stages, Unborn, FiltersOfFlows
<1>4. CacheCatchesUp /\ NeverOut /\ FlowsCatchUp /\ FlowsFiltered
  BY <1>1, <1>2, Zenon DEF CacheCatchesUp, NeverOut, FlowsCatchUp, FlowsFiltered
<1>5. QED  BY <1>3, <1>4, Zenon DEF LfInv
=============================================================================
