--------------------------- MODULE SocketLatency ----------------------------
(***************************************************************************)
(* bpf/socketlatency.c: how long data waits in a TCP socket to be read and *)
(* to be sent, and pkg/exporter/probe/tracesocketlatency, which adds the   *)
(* counters up.  The stamps of a socket live in an LRU map under its       *)
(* address; createat, lastread and lastsend are written and never read,    *)
(* and are left out.                                                       *)
(***************************************************************************)
EXTENDS BpfMaps, FiniteSetsExt

CONSTANTS Socks, SlCpus,
          SlThresh1, SlThresh100,   \* LAT_THRESH_NS, LAT_THRESH_NS_100MS
          SlMaxEntries,             \* of insp_sklat_entry, 10000 in the source
          SlMaxKeys,                \* of insp_sklat_metric, 4096 in the source
          MaxSocks, MaxObs          \* bounds on sockets opened and on spans counted

VARIABLES slSock,             \* open sockets: address -> [gen, waiting]; waiting[dir] is when
                              \* the oldest data not yet read or sent came, 0 if there is none
          slGen,
          insp_sklat_entry,   \* address -> [last, gen]; last[dir] is lastreceive, lastwrite
          insp_sklat_metric,  \* <<cpu, bucket, dir>> -> count
          slEvent,            \* the last span counted
          slCounted,          \* history, [dir -> [bucket -> spans counted]]
          slFull              \* history: a counter did not fit in insp_sklat_metric

slVars == <<slSock, slGen, insp_sklat_entry, insp_sklat_metric, slEvent, slCounted, slFull>>

Dirs == {"READ", "WRITE"}
Buckets == {"1MS", "100MS"}

SlInit == /\ slSock = << >> /\ slGen = 0
          /\ insp_sklat_entry = << >> /\ insp_sklat_metric = << >>
          /\ slEvent = [latency |-> 0, waiting |-> 0, opened |-> 0, gen |-> 0]
          /\ slCounted = [d \in Dirs |-> [b \in Buckets |-> 0]] /\ slFull = FALSE

\* update_elem on an LRU map: when it is full some other key goes.
LruUpdates(m, k, v, maxEntries) ==
  IF k \in DOMAIN m \/ Cardinality(DOMAIN m) < maxEntries
  THEN {HashUpdate(m, k, v, maxEntries)}
  ELSE {HashUpdate(HashDelete(m, old), k, v, maxEntries) : old \in DOMAIN m}

sock_create(s) ==
  /\ s \notin DOMAIN slSock /\ slGen < MaxSocks
  /\ slGen' = slGen + 1
  /\ slSock' = Put(slSock, s, [gen |-> slGen + 1, waiting |-> [d \in Dirs |-> 0]])
  /\ insp_sklat_entry' \in
       LruUpdates(insp_sklat_entry, s, [last |-> [d \in Dirs |-> 0], gen |-> slGen + 1], SlMaxEntries)
  /\ UNCHANGED <<insp_sklat_metric, slEvent, slCounted, slFull>>

\* Data comes to s: from the network, to be read, or from the application, to be sent.
SlArrives(s, dir) ==
  /\ s \in DOMAIN slSock
  /\ slSock' = [slSock EXCEPT ![s].waiting[dir] = IF @ = 0 THEN now ELSE @]
  /\ insp_sklat_entry' = IF s \in DOMAIN insp_sklat_entry
                         THEN [insp_sklat_entry EXCEPT ![s].last[dir] = now]
                         ELSE insp_sklat_entry
  /\ UNCHANGED <<slGen, insp_sklat_metric, slEvent, slCounted, slFull>>

sock_receive(s) == SlArrives(s, "READ")
sock_write(s)   == SlArrives(s, "WRITE")

SlBucket(latency) == IF latency > SlThresh100 THEN "100MS" ELSE "1MS"

\* The count of key goes up by one, or a first one is inserted.
SlCount(key) ==
  LET m == insp_sklat_metric IN
  IF key \in DOMAIN m THEN [m EXCEPT ![key] = @ + 1] ELSE HashUpdate(m, key, 1, SlMaxKeys)

\* The socket is read, or its data sent, on cpu c: all of what was waiting, or none of it.
SlServes(s, dir, c, all) ==
  LET last    == insp_sklat_entry[s].last[dir]
      latency == now - last
      key     == <<c, SlBucket(latency), dir>> IN
  /\ s \in DOMAIN slSock /\ (all => slSock[s].waiting[dir] # 0)
  /\ slSock' = [slSock EXCEPT ![s].waiting[dir] = IF all THEN 0 ELSE @]
  /\ IF s \in DOMAIN insp_sklat_entry /\ last > 0 /\ latency > SlThresh1
     THEN /\ MapThenSumSet(LAMBDA k : slCounted[k[1]][k[2]], Dirs \X Buckets) < MaxObs
          /\ slEvent' = [latency |-> latency, gen |-> slSock[s].gen, opened |-> insp_sklat_entry[s].gen,
                         waiting |-> IF slSock[s].waiting[dir] = 0 THEN 0 ELSE now - slSock[s].waiting[dir]]
          /\ insp_sklat_metric' = SlCount(key)
          /\ slCounted' = [slCounted EXCEPT ![dir][SlBucket(latency)] = @ + 1]
          /\ slFull' = (slFull \/ key \notin DOMAIN SlCount(key))
     ELSE UNCHANGED <<slEvent, insp_sklat_metric, slCounted, slFull>>
  /\ UNCHANGED <<slGen, insp_sklat_entry>>

sock_read(s, c, all) == SlServes(s, "READ", c, all)
sock_send(s, c, all) == SlServes(s, "WRITE", c, all)

sock_destroy(s) == /\ s \in DOMAIN slSock
                   /\ slSock' = HashDelete(slSock, s)
                   /\ insp_sklat_entry' = HashDelete(insp_sklat_entry, s)
                   /\ UNCHANGED <<slGen, insp_sklat_metric, slEvent, slCounted, slFull>>

\* A socket that was put in the hash table and never established, such as a connection
\* request that expires, is freed without tcp_done.
SockFreed(s) == /\ s \in DOMAIN slSock
                /\ slSock' = HashDelete(slSock, s)
                /\ UNCHANGED <<slGen, insp_sklat_entry, insp_sklat_metric, slEvent, slCounted, slFull>>

\* collect: a span over 100 ms counts as one over 1 ms too.
Collected(dir, bucket) ==
  LET wanted == {k \in DOMAIN insp_sklat_metric : k[3] = dir /\ (bucket = "1MS" \/ k[2] = "100MS")}
  IN  MapThenSumSet(LAMBDA k : insp_sklat_metric[k], wanted)

SlStep == \E s \in Socks : \/ sock_create(s) \/ sock_receive(s) \/ sock_write(s)
                           \/ sock_destroy(s) \/ SockFreed(s)
                           \/ \E c \in SlCpus, all \in BOOLEAN : sock_read(s, c, all) \/ sock_send(s, c, all)

SlNext == \/ SlStep /\ UNCHANGED now
          \/ KernelTick /\ UNCHANGED slVars

SlSpec == now = 1 /\ SlInit /\ [][SlNext]_<<now, slVars>>
-----------------------------------------------------------------------------
SlTypeOK ==
  /\ DOMAIN slSock \subseteq Socks /\ slGen \in 0..MaxSocks
  /\ \A s \in DOMAIN insp_sklat_entry :
       insp_sklat_entry[s] \in [last : [Dirs -> 0..MaxTime], gen : 1..MaxSocks]
  /\ DOMAIN insp_sklat_metric \subseteq SlCpus \X Buckets \X Dirs
  /\ Cardinality(DOMAIN insp_sklat_metric) <= SlMaxKeys
  /\ Cardinality(DOMAIN insp_sklat_entry) <= SlMaxEntries

\* A span is measured within one socket's life, however often its address is reused and
\* whatever the LRU map evicts.
SocketSpanOfOneLife == slEvent.opened = slEvent.gen

\* When data was waiting, the span counted is never longer than the oldest of it waited.
\* (When none was, the span is the age of data read before: lastreceive is never cleared.)
WaitingNeverOverstated == slEvent.waiting # 0 => slEvent.latency <= slEvent.waiting

\* The exported read1ms, read100ms, write1ms and write100ms are the numbers of spans over
\* 1 ms and over 100 ms, over all CPUs, until insp_sklat_metric, which is never emptied,
\* has no room for a counter.
CollectedCountsSpans ==
  ~slFull => \A d \in Dirs : /\ Collected(d, "100MS") = slCounted[d]["100MS"]
                             /\ Collected(d, "1MS") = slCounted[d]["1MS"] + slCounted[d]["100MS"]
=============================================================================
