---------------------------- MODULE PacketTuple -----------------------------
(***************************************************************************)
(* bpf/headers/inspector.h: how the programs find addresses and ports in a *)
(* packet.  set_flow_tuple4 reads a frame in the traffic control hooks,    *)
(* where data and data_end bound it.  set_tuple reads any sk_buff: its     *)
(* header offsets count from skb->head, but it compares them with          *)
(* skb->len, which counts from skb->data and includes paged fragments.  A  *)
(* packet is a record of the facts the code branches on, with sizes in     *)
(* bytes.                                                                  *)
(***************************************************************************)
EXTENDS Integers

CONSTANT U16        \* 2^16

EthHdr == 14
IpHdr == 20
Ip6Hdr == 40
L4Hdr(proto) == CASE proto = "TCP" -> 20 [] proto = "UDP" -> 8 [] OTHER -> 0

Ported(proto) == proto \in {"TCP", "UDP"}

-----------------------------------------------------------------------------
\* frame: [bytes, ethertype, proto, ihl, flow]; bytes is data_end - data, flow stands for
\* the addresses and ports in it.

Refused == [status |-> -1]

\* A frame that is not IPv4 is accepted with the tuple left at zero.
ZeroTuple == [status |-> 0, flow |-> 0, proto |-> "0", ports |-> FALSE]

set_flow_tuple4(frame, port) ==
  LET l4_off == EthHdr + 4 * frame.ihl IN
  IF EthHdr > frame.bytes THEN Refused
  ELSE IF frame.ethertype # "IP" THEN ZeroTuple
  ELSE IF EthHdr + IpHdr > frame.bytes THEN Refused
  ELSE IF port /\ Ported(frame.proto) /\ l4_off + L4Hdr(frame.proto) > frame.bytes THEN Refused
  ELSE [status |-> 0, flow |-> frame.flow, proto |-> frame.proto, ports |-> port /\ Ported(frame.proto)]

-----------------------------------------------------------------------------
\* skb: [headroom, network_header, len, paged, vsn, ihl, proto].  data starts headroom bytes
\* after head; the packet has len bytes, of which the last paged are in fragments that are
\* not behind head.  vsn, ihl and proto are what the reads at the offsets below return,
\* wherever these point.

\* The end of the network header, as the sums in the conditions have it (an int or a u32).
L3End(skb) == skb.network_header + IF skb.vsn = 4 THEN 4 * skb.ihl ELSE Ip6Hdr

\* l4_off is a u16.
L4Off(skb) == L3End(skb) % U16

\* The end of the last byte set_tuple may read.
ReadsEnd(skb) ==
  LET l4End == L4Off(skb) + L4Hdr(skb.proto) IN IF L3End(skb) > l4End THEN L3End(skb) ELSE l4End

\* The end of the bytes behind head.
LinearEnd(skb) == skb.headroom + (skb.len - skb.paged)

\* Mutant: the transport header is not checked.
SetTupleNoL4(skb) ==
  LET l3_off == skb.network_header IN
  IF l3_off = 0 \/ l3_off >= skb.len THEN -1
  ELSE IF skb.vsn \notin {4, 6} \/ (skb.vsn = 4 /\ (skb.ihl < 5 \/ skb.ihl > 15)) THEN -1
  ELSE IF L3End(skb) > skb.len THEN -1
  ELSE 0

set_tuple(skb) ==
  LET l3_off == skb.network_header IN
  IF l3_off = 0 \/ l3_off >= skb.len THEN -1
  ELSE IF skb.vsn \notin {4, 6} THEN -1
  ELSE IF skb.vsn = 4 /\ (skb.ihl < 5 \/ skb.ihl > 15) THEN -1
  ELSE IF L3End(skb) > skb.len THEN -1
  ELSE IF L4Off(skb) >= skb.len THEN -1
  ELSE IF L4Off(skb) + L4Hdr(skb.proto) > skb.len THEN -1
  ELSE 0
=============================================================================
