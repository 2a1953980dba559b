--------------------------- MODULE TxQueueLatency ---------------------------
(***************************************************************************)
(* bpf/netiftxlatency.c: how long a packet waits in the queueing           *)
(* discipline (net_dev_queue to net_dev_start_xmit) and in the driver      *)
(* (net_dev_start_xmit to net_dev_xmit).  Both maps are keyed by sk_buff   *)
(* address; insp_txq is never deleted from.                                *)
(*                                                                         *)
(* The kernel around it: the driver may free a packet, and its address be  *)
(* taken by the next, before the net_dev_xmit tracepoint of the first has  *)
(* run; a driver that is busy has the packet queued and started again; and *)
(* segments of a large packet, or packets sent by dev_direct_xmit, reach   *)
(* the driver without passing net_dev_queue.                               *)
(***************************************************************************)
EXTENDS BpfMaps, Sequences

CONSTANTS TqAddr, TqMaxPkts, TqThresh, TqMaxEntries

VARIABLES tqPkt,     \* the packets so far: [addr, direct, at, owns, queued, started]
          insp_txq,  \* address -> time
          insp_txs,
          tqEvent    \* the last event: [action, latency, direct, own]

tqVars == <<tqPkt, insp_txq, insp_txs, tqEvent>>

NoTqEvent == [action |-> "none", latency |-> 0, direct |-> FALSE, own |-> 0]

TqInit == tqPkt = << >> /\ insp_txq = << >> /\ insp_txs = << >> /\ tqEvent = NoTqEvent

\* A packet is allocated at an address no live packet owns.
TqArrive(a, direct) ==
  /\ Len(tqPkt) < TqMaxPkts
  /\ \A h \in DOMAIN tqPkt : tqPkt[h].addr = a => ~tqPkt[h].owns
  /\ tqPkt' = Append(tqPkt, [addr |-> a, direct |-> direct, at |-> "new", owns |-> TRUE, queued |-> 0,
                             started |-> 0])
  /\ UNCHANGED <<insp_txq, insp_txs, tqEvent>>

\* report_txlat_events, when the span exceeds the threshold.
TqReported(m, g, action, own) ==
  LET a == tqPkt[g].addr IN
  IF a \in DOMAIN m /\ now - m[a] > TqThresh
  THEN [action |-> action, latency |-> now - m[a], direct |-> tqPkt[g].direct, own |-> own]
  ELSE tqEvent

net_dev_queue(g) ==
  /\ tqPkt[g].at = "new" /\ ~tqPkt[g].direct
  /\ tqPkt' = [tqPkt EXCEPT ![g].at = "queued", ![g].queued = now]
  /\ insp_txq' = HashUpdate(insp_txq, tqPkt[g].addr, now, TqMaxEntries)
  /\ UNCHANGED <<insp_txs, tqEvent>>

net_dev_start_xmit(g) ==
  LET a == tqPkt[g].addr IN
  /\ tqPkt[g].at = IF tqPkt[g].direct THEN "new" ELSE "queued"
  /\ tqPkt' = [tqPkt EXCEPT ![g].at = "sending", ![g].started = now]
  /\ tqEvent' = TqReported(insp_txq, g, "QDISC", now - tqPkt[g].queued)
  /\ insp_txs' = IF a \in DOMAIN insp_txq THEN HashUpdate(insp_txs, a, now, TqMaxEntries) ELSE insp_txs
  /\ UNCHANGED insp_txq

\* busy: the driver refused the packet, which goes back to the queue (only a packet
\* the driver did not take can).
net_dev_xmit(g, busy) ==
  /\ tqPkt[g].at = "sending" /\ (busy => tqPkt[g].owns /\ ~tqPkt[g].direct)
  /\ tqPkt' = [tqPkt EXCEPT ![g].at = IF busy THEN "queued" ELSE "sent"]
  /\ tqEvent' = TqReported(insp_txs, g, "XMIT", now - tqPkt[g].started)
  /\ insp_txs' = HashDelete(insp_txs, tqPkt[g].addr)
  /\ UNCHANGED insp_txq

\* The packet is dropped from the queue, or freed by the driver that sent it.
TqFree(g) ==
  /\ tqPkt[g].owns /\ tqPkt[g].at \in {"queued", "sending", "sent"}
  /\ tqPkt' = [tqPkt EXCEPT ![g].owns = FALSE, ![g].at = IF @ = "queued" THEN "sent" ELSE @]
  /\ UNCHANGED <<insp_txq, insp_txs, tqEvent>>

TqStep == \/ \E a \in TqAddr, direct \in BOOLEAN : TqArrive(a, direct)
          \/ \E g \in DOMAIN tqPkt : \/ net_dev_queue(g)
                                     \/ net_dev_start_xmit(g)
                                     \/ \E busy \in BOOLEAN : net_dev_xmit(g, busy)
                                     \/ TqFree(g)

TqNext == \/ TqStep /\ UNCHANGED now
          \/ KernelTick /\ UNCHANGED tqVars

TqSpec == now = 1 /\ TqInit /\ [][TqNext]_<<now, tqVars>>
-----------------------------------------------------------------------------
TqTypeOK ==
  /\ \A g \in DOMAIN tqPkt :
       tqPkt[g] \in [addr : TqAddr, direct : BOOLEAN, at : {"new", "queued", "sending", "sent"},
                     owns : BOOLEAN, queued : 0..MaxTime, started : 0..MaxTime]
  /\ \A m \in {insp_txq, insp_txs} :
       DOMAIN m \subseteq TqAddr /\ Cardinality(DOMAIN m) <= TqMaxEntries

\* NETIFTX_QDISC events carry the packet's own wait since it was queued, although insp_txq
\* still holds the stamps of every packet that used an address before, unless the packet
\* came to the driver without being queued: then the stamp is a dead packet's.
QdiscSpanIsOwn ==
  (tqEvent.action = "QDISC" /\ ~tqEvent.direct) => tqEvent.latency = tqEvent.own

\* NETIFTX_XMIT events of queued packets never overstate the time in the driver, even when
\* the address was reused before net_dev_xmit ran: a later packet's stamp is later.
XmitNeverOverstated ==
  (tqEvent.action = "XMIT" /\ ~tqEvent.direct) => tqEvent.latency <= tqEvent.own

=============================================================================
