--------------------------- MODULE IpCacheProofs ----------------------------
(***************************************************************************)
(* Proofs about IpCache for any number of pods, addresses, agents and      *)
(* streams, any buffer sizes and any bounds.                               *)
(***************************************************************************)
EXTENDS IpCache, TLAPS

\* Changes syncControl has received.
Received == revision - Len(logChan)

\* cl is the change that made the map of revision cl.rev from the one before.
Genuine(cl, rev, maps) == cl.rev \in 1..rev /\ maps[cl.rev + 1] = Apply(maps[cl.rev], cl)

\* q holds the changes r + 1, r + 2, ... in this order.
RunOf(q, r, rev, maps) == \A i \in 1..Len(q) : q[i].rev = r + i /\ Genuine(q[i], rev, maps)
Run(q, r) == RunOf(q, r, revision, states)

LogInv ==
  /\ revision + Len(handler) <= MaxRevision
  /\ Len(states) = revision + 1
  /\ Len(logChan) <= revision
  /\ Run(logChan, Received)
  /\ Run(log, snapRev) /\ snapRev + Len(log) = Received
  /\ Run(pending, maxSynced) /\ maxSynced + Len(pending) = Received
  /\ snap = states[snapRev + 1]

SyncInv ==
  /\ sync.at \in {"select", "compact", "batch"} => sync.todo = {}
  /\ sync.at = "flush" => pending # << >>
  /\ sync.at = "catchup" => pending = << >>
  /\ sync.next \in 1..(Len(pending) + 1)
  /\ sync.at = "flush" => sync.next <= Len(pending)
  /\ sync.cur = NoStream => sync.next = 1
  /\ sync.cur # NoStream => sync.cur \in sync.todo

ClientOK(s) ==
  /\ clients[s].on => clients[s].revision <= Received
  /\ Active(s) => snapRev <= clients[s].revision
  /\ s \in sync.todo => clients[s].on /\ snapRev <= clients[s].revision
  /\ clients[s].on /\ clients[s].state = "uptodate" =>
       \/ clients[s].revision = maxSynced + Len(pending) /\ sync.at = "flush"
       \/ clients[s].revision = maxSynced /\ sync.at # "flush"
       \/ s \in sync.todo /\ sync.at = "flush"
  /\ sync.at = "flush" /\ s \in sync.todo =>
       clients[s].revision = IF s = sync.cur THEN maxSynced + sync.next - 1 ELSE maxSynced

ClientInv == \A s \in Streams : ClientOK(s)

StreamOK(a, s) ==
  /\ \A b \in Agents : agent[b].stream = s => b = a
  /\ stream[s].net # << >> =>
       /\ agent[a].period = period
       /\ Run(stream[s].net, agent[a].revision)
       /\ agent[a].revision + Len(stream[s].net) <= Received
  /\ stream[s].end = "open" =>
       /\ agent[a].period = period
       /\ Run(stream[s].ch, agent[a].revision + Len(stream[s].net))
       /\ agent[a].revision + Len(stream[s].net) + Len(stream[s].ch) <= Received
       /\ clients[s].on => clients[s].revision = agent[a].revision + Len(stream[s].net) + Len(stream[s].ch)

StreamInv ==
  \A a \in Agents :
     /\ agent[a].at = "recv" => agent[a].stream \in Streams
     /\ agent[a].at # "recv" => agent[a].stream = NoStream
     /\ \A s \in Streams : agent[a].stream = s => StreamOK(a, s)

AgentInv ==
  \A a \in Agents :
     /\ agent[a].period <= period
     /\ agent[a].period = period => /\ agent[a].revision <= Received
                                    /\ agent[a].entries = states[agent[a].revision + 1]

IInv == IpTypeOK /\ LogInv /\ SyncInv /\ ClientInv /\ StreamInv /\ AgentInv
-----------------------------------------------------------------------------
\* The first change of a run and the rest of it.
LEMMA RunTail ==
  ASSUME NEW q \in Seq(Changes), NEW r \in Nat, NEW rev, NEW maps,
         q # << >>, RunOf(q, r, rev, maps)
  PROVE  /\ Head(q) \in Changes /\ Head(q).rev = r + 1 /\ Genuine(Head(q), rev, maps)
         /\ Tail(q) \in Seq(Changes) /\ Len(Tail(q)) = Len(q) - 1
         /\ RunOf(Tail(q), r + 1, rev, maps)
<1>1. Len(q) \in Nat /\ Len(q) >= 1 /\ Head(q) = q[1] /\ Head(q) \in Changes
  OBVIOUS
<1>2. Tail(q) \in Seq(Changes) /\ Len(Tail(q)) = Len(q) - 1
      /\ \A i \in 1..Len(Tail(q)) : Tail(q)[i] = q[i + 1]
  OBVIOUS
<1>3. q[1].rev = r + 1 /\ Genuine(q[1], rev, maps)
  BY <1>1 DEF RunOf
<1>4. RunOf(Tail(q), r + 1, rev, maps)
  <2>. SUFFICES ASSUME NEW i \in 1..Len(Tail(q))
                PROVE  Tail(q)[i].rev = (r + 1) + i /\ Genuine(Tail(q)[i], rev, maps)
    BY Zenon DEF RunOf
  <2>1. i + 1 \in 1..Len(q) /\ Tail(q)[i] = q[i + 1]
    BY <1>1, <1>2
  <2>2. q[i + 1].rev = r + (i + 1) /\ Genuine(q[i + 1], rev, maps)
    BY <2>1, Zenon DEF RunOf
  <2>. QED BY <2>1, <2>2
<1>. QED BY <1>1, <1>2, <1>3, <1>4, Zenon

\* A run grows by its next change.
LEMMA RunAppend ==
  ASSUME NEW q \in Seq(Changes), NEW r \in Nat, NEW rev, NEW maps, NEW cl \in Changes,
         RunOf(q, r, rev, maps), cl.rev = r + Len(q) + 1, Genuine(cl, rev, maps)
  PROVE  /\ Append(q, cl) \in Seq(Changes) /\ Len(Append(q, cl)) = Len(q) + 1
         /\ RunOf(Append(q, cl), r, rev, maps)
<1>1. /\ Append(q, cl) \in Seq(Changes) /\ Len(Append(q, cl)) = Len(q) + 1
      /\ Append(q, cl)[Len(q) + 1] = cl
      /\ \A i \in 1..Len(q) : Append(q, cl)[i] = q[i]
  OBVIOUS
<1>2. ASSUME NEW i \in 1..(Len(q) + 1)
      PROVE  Append(q, cl)[i].rev = r + i /\ Genuine(Append(q, cl)[i], rev, maps)
  <2>1. CASE i = Len(q) + 1
    BY <1>1, <2>1
  <2>2. CASE i \in 1..Len(q)
    BY <1>1, <2>2, Zenon DEF RunOf
  <2>. QED BY <2>1, <2>2
<1>. QED BY <1>1, <1>2, Zenon DEF RunOf

\* The empty sequence is a run.
LEMMA RunEmpty ==
  ASSUME NEW r, NEW rev, NEW maps
  PROVE  << >> \in Seq(Changes) /\ Len(<< >>) = 0 /\ RunOf(<< >>, r, rev, maps)
BY DEF RunOf

\* Runs stay runs when a map is added to the history.
LEMMA RunKept ==
  ASSUME NEW q \in Seq(Changes), NEW r \in Nat, NEW rev \in Nat, NEW maps \in Seq(Maps), NEW m \in Maps,
         Len(maps) = rev + 1, RunOf(q, r, rev, maps)
  PROVE  RunOf(q, r, rev + 1, Append(maps, m))
<1>. SUFFICES ASSUME NEW i \in 1..Len(q)
              PROVE  q[i].rev = r + i /\ Genuine(q[i], rev + 1, Append(maps, m))
  BY Zenon DEF RunOf
<1>1. q[i].rev = r + i /\ q[i].rev \in 1..rev /\ maps[q[i].rev + 1] = Apply(maps[q[i].rev], q[i])
  BY Zenon DEF RunOf, Genuine
<1>2. \A j \in 1..(rev + 1) : Append(maps, m)[j] = maps[j]
  OBVIOUS
<1>3. Append(maps, m)[q[i].rev + 1] = Apply(Append(maps, m)[q[i].rev], q[i])
  BY <1>1, <1>2
<1>. QED BY <1>1, <1>3 DEF Genuine

\* A change applied to a map gives a map.
LEMMA ApplyType ==
  ASSUME NEW m \in Maps, NEW ip \in IPs, NEW pod \in Pods, NEW cl, cl.ip = ip, cl.pod = pod
  PROVE  Apply(m, cl) \in Maps
BY Zenon DEF Apply, Maps

\* Facts about the types of the log and of the clients, used throughout.
LEMMA TypeFacts ==
  ASSUME IInv
  PROVE  /\ revision \in Nat /\ snapRev \in Nat /\ maxSynced \in Nat /\ Received \in Nat
         /\ Received <= revision /\ revision <= MaxRevision
         /\ log \in Seq(Changes) /\ pending \in Seq(Changes) /\ Len(log) \in Nat /\ Len(pending) \in Nat
         /\ snapRev + Len(log) = Received /\ maxSynced + Len(pending) = Received
         /\ \A s \in Streams : /\ clients[s].revision \in Nat
                               /\ stream[s].net \in Seq(Changes) /\ stream[s].ch \in Seq(Changes)
                               /\ Len(stream[s].net) \in Nat /\ Len(stream[s].ch) \in Nat
         /\ \A a \in Agents : agent[a].revision \in Nat
<1>1. /\ revision \in Nat /\ snapRev \in Nat /\ maxSynced \in Nat /\ Received \in Nat
      /\ Received <= revision /\ revision <= MaxRevision
      /\ log \in Seq(Changes) /\ pending \in Seq(Changes) /\ Len(log) \in Nat /\ Len(pending) \in Nat
      /\ snapRev + Len(log) = Received /\ maxSynced + Len(pending) = Received
  BY DEF IInv, IpTypeOK, LogTypeOK, LogInv, Received
<1>2. \A s \in Streams : /\ clients[s].revision \in Nat
                         /\ stream[s].net \in Seq(Changes) /\ stream[s].ch \in Seq(Changes)
                         /\ Len(stream[s].net) \in Nat /\ Len(stream[s].ch) \in Nat
  BY DEF IInv, IpTypeOK, ClientTypeOK
<1>3. \A a \in Agents : agent[a].revision \in Nat
  BY DEF IInv, IpTypeOK, AgentTypeOK
<1>. QED BY <1>1, <1>2, <1>3, Zenon

\* The part of the invariant about the log holds on while the log is left alone.
LEMMA LogKept ==
  ASSUME LogInv, UNCHANGED <<handler, logVars, log, snapRev, snap, pending, maxSynced>>
  PROVE  LogInv' /\ Received' = Received
<1>1. UNCHANGED <<handler, revision, logChan, states, log, snapRev, snap, pending, maxSynced>>
  BY Zenon DEF logVars
<1>2. Received' = Received
  BY <1>1, Zenon DEF Received
<1>. QED BY <1>1, <1>2, Zenon DEF LogInv, Run

\* The part about the agents' copies holds on while they and the history are left alone.
LEMMA AgentsKept ==
  ASSUME AgentInv, UNCHANGED <<agent, period, states>>, Received' \in {Received, Received + 1}, Received \in Nat,
         \A a \in Agents : agent[a].revision \in Nat
  PROVE  AgentInv'
<1>. SUFFICES ASSUME NEW a \in Agents
              PROVE  /\ agent[a].period <= period
                     /\ agent[a].period = period => /\ agent[a].revision <= Received'
                                                    /\ agent[a].entries = states[agent[a].revision + 1]
  BY Zenon DEF AgentInv
<1>1. /\ agent[a].period <= period
      /\ agent[a].period = period => /\ agent[a].revision <= Received
                                     /\ agent[a].entries = states[agent[a].revision + 1]
  BY Zenon DEF AgentInv
<1>2. agent[a].revision <= Received => agent[a].revision <= Received'
  OBVIOUS
<1>. QED BY <1>1, <1>2, Zenon

\* The part about the streams holds on while clients, streams, agents and history do.
LEMMA StreamsKept ==
  ASSUME StreamInv, UNCHANGED <<Received, revision, states, clients, stream, agent, period>>
  PROVE  StreamInv'
<1>1. ASSUME NEW a \in Agents, NEW s \in Streams
      PROVE  StreamOK(a, s)' <=> StreamOK(a, s)
  BY Zenon DEF StreamOK, Run
<1>. QED BY <1>1, Zenon DEF StreamInv

LEMMA InitInv == Init => IInv
<1>. SUFFICES ASSUME Init PROVE IInv
  BY Zenon
<1>1. Empty \in Maps /\ states = <<Empty>> /\ Len(states) = 1 /\ states \in Seq(Maps) /\ states[1] = Empty
  BY DEF Init, Empty, Maps
<1>2. PodTypeOK /\ SyncTypeOK /\ LogTypeOK
  <2>1. SyncTypeOK
    BY IpAssumption DEF Init, SyncTypeOK, Select
  <2>2. PodTypeOK
    <3>1. pods \in [Pods -> IPs \cup {NoIP}]
      BY Zenon DEF Init
    <3>2. handler \in Seq(Entries)
      BY DEF Init
    <3>. QED BY <3>1, <3>2, Zenon DEF PodTypeOK
  <2>3. LogTypeOK
    BY IpAssumption, <1>1, RunEmpty DEF Init, LogTypeOK
  <2>. QED BY <2>1, <2>2, <2>3, Zenon
<1>3. ClientTypeOK /\ AgentTypeOK
  BY IpAssumption, <1>1 DEF Init, ClientTypeOK, AgentTypeOK, NoClient, Drained
<1>4. LogInv
  <2>1. \A r : RunOf(<< >>, r, revision, states)
    BY RunEmpty, Zenon
  <2>2. Len(handler) = 0 /\ Len(logChan) = 0 /\ Len(log) = 0 /\ Len(pending) = 0
    BY Zenon DEF Init
  <2>3. Run(logChan, Received) /\ Run(log, snapRev) /\ Run(pending, maxSynced)
    BY <2>1, Zenon DEF Init, Run
  <2>4. revision = 0 /\ snapRev = 0 /\ maxSynced = 0 /\ snap = Empty
    BY Zenon DEF Init
  <2>. QED BY IpAssumption, <1>1, <2>2, <2>3, <2>4 DEF LogInv, Received
<1>5. SyncInv /\ ClientInv /\ StreamInv
  BY IpAssumption, RunEmpty DEF Init, SyncInv, ClientInv, ClientOK, StreamInv, StreamOK, Run, Select, NoClient, Drained, Active
<1>6. AgentInv
  BY DEF Init, AgentInv
<1>. QED BY <1>2, <1>3, <1>4, <1>5, <1>6, Zenon DEF IInv, IpTypeOK

LEMMA OnPodInv ==
  ASSUME IInv, NEW p \in Pods, NEW ip \in IPs \cup {NoIP}, OnPod(p, ip)
  PROVE  IInv'
<1>1. pods[p] \in IPs \cup {NoIP}
  BY Zenon DEF IInv, IpTypeOK, PodTypeOK
<1>2. Del(p, pods[p]) \in Seq(Entries) /\ Set(p, ip) \in Seq(Entries)
  <2>1. /\ \A i \in IPs : [op |-> "Del", ip |-> i, pod |-> p] \in Entries
        /\ \A i \in IPs : [op |-> "Set", ip |-> i, pod |-> p] \in Entries
    BY Zenon DEF Entries
  <2>2. \A e \in Entries : <<e>> \in Seq(Entries)
    OBVIOUS
  <2>. QED BY <1>1, <2>1, <2>2 DEF Del, Set
<1>3. handler' = Del(p, pods[p]) \o Set(p, ip) /\ handler' \in Seq(Entries) /\ revision + Len(handler') <= MaxRevision
  BY <1>2 DEF OnPod
<1>4. PodTypeOK'
  BY <1>3, Zenon DEF IInv, IpTypeOK, PodTypeOK, OnPod
<1>5. (LogTypeOK /\ SyncTypeOK /\ ClientTypeOK /\ AgentTypeOK)'
  BY ZenonT(30) DEF IInv, IpTypeOK, LogTypeOK, SyncTypeOK, ClientTypeOK, AgentTypeOK, OnPod, logVars, syncVars, faultVars
<1>6. LogInv'
  BY <1>3, Zenon DEF IInv, LogInv, Received, Run, OnPod, logVars, syncVars
<1>7. SyncInv' /\ ClientInv' /\ StreamInv' /\ AgentInv'
  BY DEF IInv, SyncInv, ClientInv, ClientOK, StreamInv, StreamOK, AgentInv, Received, Run, Active, OnPod, logVars, syncVars, faultVars
<1>. QED BY <1>4, <1>5, <1>6, <1>7, Zenon DEF IInv, IpTypeOK

LEMMA LogChangeInv ==
  ASSUME IInv, LogChange
  PROVE  IInv'
<1>. DEFINE h == Head(handler)
            cl == [rev |-> revision + 1, op |-> h.op, ip |-> h.ip, pod |-> h.pod]
            m == Apply(states[revision + 1], cl)
<1>1. /\ h \in Entries
      /\ Tail(handler) \in Seq(Entries)
      /\ Len(Tail(handler)) = Len(handler) - 1 /\ Len(handler) \in Nat /\ Len(handler) >= 1
  BY DEF LogChange, IInv, IpTypeOK, PodTypeOK
<1>2. /\ revision \in Nat /\ revision + 1 \in 1..MaxRevision /\ cl \in Changes
      /\ states \in Seq(Maps) /\ Len(states) = revision + 1 /\ states[revision + 1] \in Maps
  <2>1. /\ revision \in Nat /\ revision + 1 \in 1..MaxRevision
        /\ states \in Seq(Maps) /\ Len(states) = revision + 1
    BY IpAssumption, <1>1 DEF IInv, IpTypeOK, LogTypeOK, LogInv
  <2>2. cl \in Changes
    BY <1>1, <2>1, Zenon DEF Changes, Entries
  <2>3. states[revision + 1] \in Maps
    BY <2>1
  <2>. QED BY <2>1, <2>2, <2>3, Zenon
<1>3. m \in Maps
  BY <1>1, <1>2, ApplyType, Zenon DEF Entries
<1>4. /\ logChan' = Append(logChan, cl) /\ states' = Append(states, m) /\ revision' = revision + 1
      /\ handler' = Tail(handler) /\ Len(logChan) < LogBufferSize
      /\ UNCHANGED <<pods, syncVars, clients, stream, agent, faultVars>>
  BY Zenon DEF LogChange
<1>5. /\ states' \in Seq(Maps) /\ Len(states') = revision + 2
      /\ \A i \in 1..(revision + 1) : states'[i] = states[i]
      /\ states'[revision + 2] = m
  BY <1>2, <1>3, <1>4
<1>6. /\ logChan' \in Seq(Changes) /\ Len(logChan') = Len(logChan) + 1 /\ Len(logChan) \in Nat
      /\ Received' = Received /\ Received \in Nat
  BY <1>2, <1>4 DEF IInv, IpTypeOK, LogTypeOK, Received, LogInv
<1>7. ASSUME NEW q \in Seq(Changes), NEW r \in Nat, Run(q, r)
      PROVE  RunOf(q, r, revision', states')
  BY <1>2, <1>3, <1>4, <1>7, RunKept, Zenon DEF Run
<1>8. IpTypeOK'
  <2>1. PodTypeOK'
    BY <1>1, <1>4, Zenon DEF IInv, IpTypeOK, PodTypeOK
  <2>2. LogTypeOK'
    BY IpAssumption, <1>2, <1>4, <1>5, <1>6 DEF IInv, IpTypeOK, LogTypeOK, syncVars
  <2>3. (SyncTypeOK /\ ClientTypeOK /\ AgentTypeOK)'
    BY <1>4, Zenon DEF IInv, IpTypeOK, SyncTypeOK, ClientTypeOK, AgentTypeOK, syncVars, faultVars
  <2>. QED BY <2>1, <2>2, <2>3, Zenon DEF IpTypeOK
<1>9. LogInv'
  <2>1. Genuine(cl, revision', states')
    BY <1>2, <1>4, <1>5 DEF Genuine
  <2>2. RunOf(logChan', Received', revision', states')
    <3>1. logChan \in Seq(Changes) /\ RunOf(logChan, Received, revision', states')
      BY <1>6, <1>7, Zenon DEF IInv, LogInv, IpTypeOK, LogTypeOK
    <3>2. cl.rev = Received + Len(logChan) + 1
      BY <1>2, <1>6 DEF Received
    <3>. QED BY <1>2, <1>4, <1>6, <2>1, <3>1, <3>2, RunAppend, Zenon
  <2>3. RunOf(log, snapRev, revision', states') /\ RunOf(pending, maxSynced, revision', states')
    BY <1>7 DEF IInv, LogInv, IpTypeOK, LogTypeOK
  <2>4. snapRev + 1 \in 1..(revision + 1)
    BY <1>2 DEF IInv, LogInv, IpTypeOK, LogTypeOK, Received
  <2>5. /\ snapRev + Len(log) = Received /\ maxSynced + Len(pending) = Received /\ snap = states'[snapRev + 1]
        /\ Len(logChan') <= revision'
    BY <1>2, <1>4, <1>5, <1>6, <2>4, SMTT(30) DEF IInv, LogInv
  <2>6. revision' + Len(handler') <= MaxRevision /\ Len(states') = revision' + 1
    BY <1>1, <1>2, <1>4, <1>5 DEF IInv, LogInv
  <2>. QED BY <1>4, <1>6, <2>2, <2>3, <2>5, <2>6, Zenon DEF LogInv, Run, syncVars
<1>10. SyncInv' /\ ClientInv'
  BY <1>4, <1>6, Zenon DEF IInv, SyncInv, ClientInv, ClientOK, Active, syncVars
<1>11. StreamInv'
  <2>1. \A a \in Agents, s \in Streams :
           /\ stream[s].net \in Seq(Changes) /\ stream[s].ch \in Seq(Changes)
           /\ agent[a].revision \in Nat /\ agent[a].revision + Len(stream[s].net) \in Nat
    BY DEF IInv, IpTypeOK, ClientTypeOK, AgentTypeOK
  <2>2. \A q \in Seq(Changes), r \in Nat : Run(q, r) => RunOf(q, r, revision', states')
    BY <1>7, Zenon
  <2>3. ASSUME NEW a \in Agents, NEW s \in Streams, StreamOK(a, s)
        PROVE  StreamOK(a, s)'
    BY <1>4, <1>6, <2>1, <2>2, <2>3, ZenonT(30) DEF StreamOK, Run, faultVars
  <2>. QED BY <1>4, <2>3, Zenon DEF IInv, StreamInv
<1>12. AgentInv'
  <2>1. Received <= revision
    BY <1>2, <1>6 DEF Received
  <2>2. \A a \in Agents : agent[a].revision \in Nat
    BY DEF IInv, IpTypeOK, AgentTypeOK
  <2>. QED BY <1>2, <1>4, <1>5, <1>6, <2>1, <2>2 DEF IInv, AgentInv, faultVars
<1>. QED BY <1>8, <1>9, <1>10, <1>11, <1>12, Zenon DEF IInv

LEMMA ReceiveInv ==
  ASSUME IInv, Receive
  PROVE  IInv'
<1>. DEFINE cl == Head(logChan)
<1>1. /\ revision \in Nat /\ snapRev \in Nat /\ maxSynced \in Nat /\ Received \in Nat
      /\ logChan \in Seq(Changes) /\ log \in Seq(Changes) /\ pending \in Seq(Changes)
      /\ Len(logChan) \in Nat /\ Len(log) \in Nat /\ Len(pending) \in Nat
  BY SMTT(30) DEF IInv, IpTypeOK, LogTypeOK, LogInv, Received
<1>2. /\ sync.at = "select" /\ logChan # << >>
      /\ logChan' = Tail(logChan) /\ log' = Append(log, cl) /\ pending' = Append(pending, cl)
      /\ sync'.at \in {"compact", "batch"} /\ sync'.todo = {} /\ sync'.cur = NoStream /\ sync'.next = 1
      /\ UNCHANGED <<podVars, revision, states, snapRev, snap, maxSynced, stream, agent, faultVars>>
  BY Zenon DEF Receive, Select
<1>3. \A s \in Streams :
         /\ clients'[s].on => clients[s].on
         /\ clients'[s].revision = clients[s].revision
         /\ clients'[s].state = clients[s].state
         /\ Active(s)' => Active(s)
  BY DEF Receive, IInv, IpTypeOK, ClientTypeOK, Active
<1>4. clients' \in [Streams -> [on : BOOLEAN, revision : 0..MaxRevision,
                                state : {"stale", "blocking", "uptodate"}, closed : BOOLEAN]]
  <2>1. \A s \in Streams : (clients[s].closed \/ (clients[s].on /\ Backpressured(s))) \in BOOLEAN
    BY Zenon
  <2>. QED BY <2>1, ZenonT(30) DEF Receive, IInv, IpTypeOK, ClientTypeOK
<1>5. /\ cl \in Changes /\ cl.rev = Received + 1 /\ Genuine(cl, revision, states)
      /\ logChan' \in Seq(Changes) /\ Len(logChan') = Len(logChan) - 1 /\ Run(logChan', Received + 1)
  BY <1>1, <1>2, RunTail, Zenon DEF IInv, LogInv, Run
<1>6. Received' = Received + 1
  BY <1>1, <1>2, <1>5 DEF Received
<1>7. log' \in Seq(Changes) /\ Len(log') = Len(log) + 1 /\ Run(log', snapRev)
  <2>1. RunOf(log, snapRev, revision, states) /\ cl.rev = snapRev + Len(log) + 1
    BY <1>5, Zenon DEF IInv, LogInv, Run
  <2>. QED BY <1>1, <1>2, <1>5, <2>1, RunAppend, SMTT(30) DEF Run
<1>8. pending' \in Seq(Changes) /\ Len(pending') = Len(pending) + 1 /\ Run(pending', maxSynced)
  <2>1. RunOf(pending, maxSynced, revision, states) /\ cl.rev = maxSynced + Len(pending) + 1
    BY <1>5, Zenon DEF IInv, LogInv, Run
  <2>. QED BY <1>1, <1>2, <1>5, <2>1, RunAppend, SMTT(30) DEF Run
<1>9. IpTypeOK'
  <2>1. PodTypeOK' /\ AgentTypeOK'
    BY <1>2, Zenon DEF IInv, IpTypeOK, PodTypeOK, AgentTypeOK, podVars, faultVars
  <2>2. LogTypeOK'
    BY IpAssumption, <1>1, <1>2, <1>5, <1>7, <1>8 DEF IInv, IpTypeOK, LogTypeOK
  <2>3. SyncTypeOK'
    <3>1. sync' = [Select EXCEPT !.at = IF Len(log) + 1 > CompactThreshold THEN "compact" ELSE "batch"]
      BY Zenon DEF Receive
    <3>2. \E x \in {"compact", "batch"} : sync' = [Select EXCEPT !.at = x]
      BY <3>1, Zenon
    <3>3. PICK x \in {"compact", "batch"} :
            sync' = [at |-> x, todo |-> {}, cur |-> NoStream, next |-> 1, tick |-> FALSE]
      BY <3>2, Zenon DEF Select
    <3>. QED BY IpAssumption, <3>3 DEF SyncTypeOK
  <2>4. ClientTypeOK'
    BY <1>2, <1>4, Zenon DEF IInv, IpTypeOK, ClientTypeOK
  <2>. QED BY <2>1, <2>2, <2>3, <2>4, Zenon DEF IpTypeOK
<1>10. LogInv'
  <2>1. revision' + Len(handler') <= MaxRevision /\ Len(states') = revision' + 1 /\ snap' = states'[snapRev' + 1]
    BY <1>2, Zenon DEF IInv, LogInv, podVars
  <2>2. Len(logChan') <= revision'
    BY <1>1, <1>2, <1>5 DEF IInv, LogInv
  <2>3. snapRev' + Len(log') = Received' /\ maxSynced' + Len(pending') = Received'
    BY <1>1, <1>2, <1>6, <1>7, <1>8 DEF IInv, LogInv
  <2>4. Run(logChan, Received)' /\ Run(log, snapRev)' /\ Run(pending, maxSynced)'
    BY <1>2, <1>5, <1>6, <1>7, <1>8, Zenon DEF Run
  <2>. QED BY <2>1, <2>2, <2>3, <2>4, Zenon DEF LogInv
<1>11. SyncInv'
  BY <1>1, <1>2, <1>8 DEF SyncInv
<1>12. ClientInv'
  <2>1. \A s \in Streams : clients[s].revision \in Nat
    BY DEF IInv, IpTypeOK, ClientTypeOK
  <2>2. sync.at # "flush" /\ sync'.at # "flush" /\ sync'.todo = {} /\ UNCHANGED <<snapRev, maxSynced>>
    BY <1>2, Zenon
  <2>3. ASSUME NEW s \in Streams
        PROVE  /\ clients'[s].on => clients'[s].revision <= Received'
               /\ Active(s)' => snapRev' <= clients'[s].revision
               /\ clients'[s].on /\ clients'[s].state = "uptodate" => clients'[s].revision = maxSynced'
    BY <1>1, <1>3, <1>6, <2>1, <2>2 DEF IInv, ClientInv, ClientOK
  <2>. QED BY <2>2, <2>3, Zenon DEF ClientInv, ClientOK
<1>13. StreamInv'
  <2>1. \A a \in Agents, s \in Streams :
           /\ Len(stream[s].net) \in Nat /\ Len(stream[s].ch) \in Nat /\ agent[a].revision \in Nat
    BY DEF IInv, IpTypeOK, ClientTypeOK, AgentTypeOK
  <2>2. UNCHANGED <<revision, states, stream, agent, period>>
    BY <1>2, Zenon DEF faultVars
  <2>3. ASSUME NEW a \in Agents, NEW s \in Streams, StreamOK(a, s)
        PROVE  StreamOK(a, s)'
    <3>1. /\ stream'[s] = stream[s] /\ agent' = agent /\ period' = period
          /\ Received' = Received + 1 /\ clients'[s].revision = clients[s].revision
          /\ clients'[s].on => clients[s].on
      BY <1>3, <1>6, <2>2, Zenon
    <3>. DEFINE n == agent[a].revision + Len(stream[s].net)
                k == n + Len(stream[s].ch)
    <3>2. n \in Nat /\ k \in Nat /\ (n <= Received => n <= Received + 1) /\ (k <= Received => k <= Received + 1)
      <4>1. agent[a].revision \in Nat /\ Len(stream[s].net) \in Nat /\ Len(stream[s].ch) \in Nat
        BY <2>1, Zenon
      <4>2. Received \in Nat
        BY <1>1, Zenon
      <4>3. \A x, y, z, r \in Nat : /\ x + y \in Nat /\ (x + y) + z \in Nat
                                   /\ (x + y <= r => x + y <= r + 1)
                                   /\ ((x + y) + z <= r => (x + y) + z <= r + 1)
        OBVIOUS
      <4>. QED BY <4>1, <4>2, <4>3, Zenon
    <3>3. RunOf(stream[s].net, agent[a].revision, revision', states') <=> Run(stream[s].net, agent[a].revision)
      BY <2>2, Zenon DEF Run
    <3>4. RunOf(stream[s].ch, n, revision', states') <=> Run(stream[s].ch, n)
      BY <2>2, Zenon DEF Run
    <3>. HIDE DEF n, k
    <3>5. /\ stream[s].net # << >> => agent[a].period = period /\ Run(stream[s].net, agent[a].revision) /\ n <= Received
          /\ stream[s].end = "open" =>
               /\ agent[a].period = period /\ Run(stream[s].ch, n) /\ k <= Received
               /\ clients[s].on => clients[s].revision = k
          /\ \A b \in Agents : agent[b].stream = s => b = a
      BY <2>3, ZenonT(30) DEF StreamOK, n, k
    <3>6. /\ stream'[s].net # << >> =>
               /\ agent'[a].period = period' /\ Run(stream[s].net, agent[a].revision)' /\ n <= Received'
          /\ stream'[s].end = "open" =>
               /\ agent'[a].period = period' /\ RunOf(stream[s].ch, n, revision', states') /\ k <= Received'
               /\ clients'[s].on => clients'[s].revision = k
          /\ \A b \in Agents : agent'[b].stream = s => b = a
      BY <3>1, <3>2, <3>3, <3>4, <3>5, Zenon DEF Run
    <3>. QED BY <3>1, <3>6, Zenon DEF StreamOK, Run, n, k
  <2>. QED BY <2>2, <2>3, Zenon DEF IInv, StreamInv
<1>14. AgentInv'
  BY <1>1, <1>2, <1>6, AgentsKept, TypeFacts, Zenon DEF IInv, faultVars
<1>. QED BY <1>9, <1>10, <1>11, <1>12, <1>13, <1>14, Zenon DEF IInv

LEMMA CompactInv ==
  ASSUME IInv, Compact
  PROVE  IInv'
<1>. DEFINE cl == Head(log)
<1>1. /\ revision \in Nat /\ snapRev \in Nat /\ maxSynced \in Nat /\ Received \in Nat
      /\ log \in Seq(Changes) /\ Len(log) \in Nat /\ snapRev + Len(log) = Received
      /\ Received <= revision /\ revision <= MaxRevision
  BY DEF IInv, IpTypeOK, LogTypeOK, LogInv, Received
<1>2. /\ sync.at = "compact" /\ log # << >> /\ HaveAll(cl.rev)
      /\ log' = Tail(log) /\ snapRev' = cl.rev /\ snap' = Apply(snap, cl)
      /\ UNCHANGED <<podVars, logVars, pending, maxSynced, sync, clients, stream, agent, faultVars>>
  BY Zenon DEF Compact, Compacting
<1>3. /\ cl \in Changes /\ cl.rev = snapRev + 1 /\ Genuine(cl, revision, states)
      /\ log' \in Seq(Changes) /\ Len(log') = Len(log) - 1 /\ Run(log', snapRev + 1)
  BY <1>1, <1>2, RunTail, Zenon DEF IInv, LogInv, Run
<1>4. Received' = Received /\ snapRev' = snapRev + 1 /\ snapRev' + Len(log') = Received
  BY <1>1, <1>2, <1>3 DEF Received, logVars
<1>5. snap' = states[snapRev + 2]
  <2>1. snap = states[snapRev + 1] /\ states[cl.rev + 1] = Apply(states[cl.rev], cl)
    BY <1>3, Zenon DEF IInv, LogInv, Genuine
  <2>2. cl.rev + 1 = snapRev + 2
    BY <1>1, <1>3
  <2>. QED BY <1>2, <1>3, <2>1, <2>2, Zenon
<1>6. snap' \in Maps
  BY <1>2, <1>3, ApplyType, Zenon DEF IInv, IpTypeOK, LogTypeOK, Changes
<1>7. IpTypeOK'
  <2>1. LogTypeOK'
    BY IpAssumption, <1>1, <1>2, <1>3, <1>4, <1>6 DEF IInv, IpTypeOK, LogTypeOK, logVars
  <2>. QED BY <1>2, <2>1, Zenon DEF IInv, IpTypeOK, PodTypeOK, SyncTypeOK, ClientTypeOK, AgentTypeOK, podVars, faultVars
<1>8. LogInv'
  <2>1. /\ revision' + Len(handler') <= MaxRevision /\ Len(states') = revision' + 1
        /\ Len(logChan') <= revision' /\ maxSynced' + Len(pending') = Received'
        /\ Run(logChan, Received)' /\ Run(pending, maxSynced)'
    BY <1>2, <1>4, Zenon DEF IInv, LogInv, Run, podVars, logVars
  <2>2. Run(log, snapRev)'
    BY <1>2, <1>3, <1>4, Zenon DEF Run, logVars
  <2>3. snap' = states'[snapRev' + 1]
    BY <1>1, <1>2, <1>4, <1>5 DEF logVars
  <2>. QED BY <1>4, <2>1, <2>2, <2>3, Zenon DEF LogInv
<1>9. SyncInv'
  BY <1>2, Zenon DEF IInv, SyncInv
<1>10. ClientInv'
  BY <1>1, <1>2, <1>3, <1>4, ZenonT(30) DEF IInv, SyncInv, ClientInv, ClientOK, HaveAll, Active
<1>11. StreamInv' /\ AgentInv'
  <2>1. UNCHANGED <<Received, revision, states, clients, stream, agent, period>>
    BY <1>2, <1>4, Zenon DEF logVars, faultVars
  <2>2. StreamInv'
    BY <2>1, StreamsKept, Zenon DEF IInv
  <2>3. AgentInv'
    BY <2>1, AgentsKept, TypeFacts, Zenon DEF IInv
  <2>. QED BY <2>2, <2>3, Zenon
<1>. QED BY <1>7, <1>8, <1>9, <1>10, <1>11, Zenon DEF IInv

\* CopyClients only removes closed clients and shuts their channels.
LEMMA CopyClientsFacts ==
  ASSUME IInv, NEW wanted, NEW at \in {"flush", "catchup"}, NEW tick \in BOOLEAN, CopyClients(wanted, at, tick)
  PROVE  /\ ClientTypeOK' /\ SyncTypeOK'
         /\ sync'.at = at /\ sync'.cur = NoStream /\ sync'.next = 1
         /\ sync'.todo = {s \in Streams : Active(s) /\ clients[s].state \in wanted}
         /\ \A s \in Streams :
              /\ clients'[s].on => clients'[s] = clients[s] /\ Active(s)
              /\ Active(s) => clients'[s] = clients[s]
              /\ stream'[s].ch = stream[s].ch /\ stream'[s].net = stream[s].net /\ stream'[s].end = stream[s].end
<1>1. clients' = [s \in Streams |-> IF clients[s].on /\ clients[s].closed THEN NoClient ELSE clients[s]]
  BY Zenon DEF CopyClients
<1>2. stream' = [s \in Streams |-> IF clients[s].on /\ clients[s].closed
                                  THEN [stream[s] EXCEPT !.shut = TRUE] ELSE stream[s]]
  BY Zenon DEF CopyClients
<1>3. sync' = [Select EXCEPT !.at = at, !.tick = tick,
                             !.todo = {s \in Streams : Active(s) /\ clients[s].state \in wanted}]
  BY Zenon DEF CopyClients
<1>4. ClientTypeOK'
  <2>1. NoClient \in [on : BOOLEAN, revision : 0..MaxRevision,
                      state : {"stale", "blocking", "uptodate"}, closed : BOOLEAN]
    BY IpAssumption DEF NoClient
  <2>2. clients' \in [Streams -> [on : BOOLEAN, revision : 0..MaxRevision,
                                  state : {"stale", "blocking", "uptodate"}, closed : BOOLEAN]]
    BY <1>1, <2>1, Zenon DEF IInv, IpTypeOK, ClientTypeOK
  <2>3. stream' \in [Streams -> [ch : Seq(Changes), shut : BOOLEAN, net : Seq(Changes),
                                 end : {"open", "DataLoss", "InvalidArgument", "broken"}]]
    BY <1>2, Zenon DEF IInv, IpTypeOK, ClientTypeOK
  <2>4. \A s \in Streams : Len(stream'[s].ch) <= ClientBufferSize /\ Len(stream'[s].net) <= NetSize
    BY <1>2, Zenon DEF IInv, IpTypeOK, ClientTypeOK
  <2>. QED BY <2>2, <2>3, <2>4, Zenon DEF ClientTypeOK
<1>5. SyncTypeOK'
  <2>. DEFINE T == {s \in Streams : Active(s) /\ clients[s].state \in wanted}
  <2>1. T \in SUBSET Streams
    BY Zenon
  <2>2. sync' = [Select EXCEPT !.at = at, !.tick = tick, !.todo = T]
    BY <1>3, Zenon
  <2>. HIDE DEF T
  <2>3. sync' = [at |-> at, todo |-> T, cur |-> NoStream, next |-> 1, tick |-> tick]
    BY <2>2, Zenon DEF Select
  <2>. QED BY IpAssumption, <2>1, <2>3 DEF SyncTypeOK
<1>6. sync'.at = at /\ sync'.cur = NoStream /\ sync'.next = 1
      /\ sync'.todo = {s \in Streams : Active(s) /\ clients[s].state \in wanted}
  BY <1>3, Zenon DEF Select
<1>7. \A s \in Streams :
         /\ clients'[s].on => clients'[s] = clients[s] /\ Active(s)
         /\ Active(s) => clients'[s] = clients[s]
  BY <1>1, Zenon DEF Active, NoClient
<1>8. \A s \in Streams : stream'[s].ch = stream[s].ch /\ stream'[s].net = stream[s].net /\ stream'[s].end = stream[s].end
  BY <1>2 DEF IInv, IpTypeOK, ClientTypeOK
<1>. QED BY <1>4, <1>5, <1>6, <1>7, <1>8, Zenon

\* Removing closed clients disturbs neither the streams nor the agents.
LEMMA CopyClientsStreams ==
  ASSUME IInv, NEW wanted, NEW at \in {"flush", "catchup"}, NEW tick \in BOOLEAN, CopyClients(wanted, at, tick),
         UNCHANGED <<logVars, agent, period>>
  PROVE  StreamInv' /\ AgentInv'
<1>1. UNCHANGED <<revision, states, Received, agent, period>>
  BY Zenon DEF logVars, Received
<1>2. AgentInv'
  BY <1>1, Zenon DEF IInv, AgentInv
<1>3. ASSUME NEW a \in Agents, NEW s \in Streams, StreamOK(a, s)
      PROVE  StreamOK(a, s)'
  BY <1>1, <1>3, CopyClientsFacts, Zenon DEF StreamOK, Run
<1>4. StreamInv'
  BY <1>1, <1>3, Zenon DEF IInv, StreamInv
<1>. QED BY <1>2, <1>4, Zenon

\* A flush starts with the up-to-date clients, all of them at maxSynced.
LEMMA StartFlushInv ==
  ASSUME IInv, NEW tick \in BOOLEAN, sync.at # "flush", pending # << >>, CopyClients({"uptodate"}, "flush", tick),
         UNCHANGED <<podVars, logVars, log, snapRev, snap, pending, maxSynced, agent, faultVars>>
  PROVE  IInv'
<1>1. UNCHANGED Received
  BY Zenon DEF Received, logVars
<1>2. PodTypeOK' /\ LogTypeOK' /\ AgentTypeOK'
  BY Zenon DEF IInv, IpTypeOK, PodTypeOK, LogTypeOK, AgentTypeOK, podVars, logVars, faultVars
<1>3. LogInv'
  BY LogKept, ZenonT(30) DEF IInv, podVars
<1>4. /\ sync'.at = "flush" /\ sync'.cur = NoStream /\ sync'.next = 1 /\ ClientTypeOK' /\ SyncTypeOK'
      /\ sync'.todo = {s \in Streams : Active(s) /\ clients[s].state \in {"uptodate"}}
      /\ \A s \in Streams : /\ clients'[s].on => clients'[s] = clients[s] /\ Active(s)
                            /\ Active(s) => clients'[s] = clients[s]
  <2>. DEFINE W == {"uptodate"}
  <2>1. CopyClients(W, "flush", tick)
    BY Zenon
  <2>. HIDE DEF W
  <2>2. /\ sync'.at = "flush" /\ sync'.cur = NoStream /\ sync'.next = 1 /\ ClientTypeOK' /\ SyncTypeOK'
        /\ sync'.todo = {s \in Streams : Active(s) /\ clients[s].state \in W}
        /\ \A s \in Streams : /\ clients'[s].on => clients'[s] = clients[s] /\ Active(s)
                              /\ Active(s) => clients'[s] = clients[s]
    <3>1. "flush" \in {"flush", "catchup"}
      BY Zenon
    <3>2. sync'.at = "flush" /\ sync'.cur = NoStream /\ sync'.next = 1
      BY <2>1, <3>1, CopyClientsFacts
    <3>3. ClientTypeOK' /\ SyncTypeOK'
      BY <2>1, <3>1, CopyClientsFacts, Zenon
    <3>4. sync'.todo = {s \in Streams : Active(s) /\ clients[s].state \in W}
      BY <2>1, <3>1, CopyClientsFacts, Zenon
    <3>5. \A s \in Streams : /\ clients'[s].on => clients'[s] = clients[s] /\ Active(s)
                             /\ Active(s) => clients'[s] = clients[s]
      BY <2>1, <3>1, CopyClientsFacts, ZenonT(30)
    <3>. QED BY <3>2, <3>3, <3>4, <3>5, Zenon
  <2>. QED BY <2>2, Zenon DEF W
<1>5. SyncInv'
  BY <1>4, TypeFacts, SMTT(30) DEF SyncInv
<1>6. ClientInv'
  <2>. SUFFICES ASSUME NEW s \in Streams
       PROVE  /\ clients'[s].on => clients'[s].revision <= Received'
              /\ clients'[s].on => snapRev' <= clients'[s].revision
              /\ s \in sync'.todo => clients'[s].on /\ clients'[s].revision = maxSynced
              /\ clients'[s].on /\ clients'[s].state = "uptodate" => s \in sync'.todo
    BY IpAssumption, <1>4, Zenon DEF ClientInv, ClientOK, Active
  <2>1. clients'[s].on => clients'[s] = clients[s] /\ Active(s)
    BY <1>4, Zenon
  <2>2. s \in sync'.todo => Active(s) /\ clients[s].state = "uptodate" /\ clients'[s] = clients[s]
    BY <1>4, Zenon
  <2>3. Active(s) /\ clients[s].state = "uptodate" => s \in sync'.todo
    BY <1>4, ZenonT(30)
  <2>4. Active(s) => /\ clients[s].on /\ clients[s].revision <= Received /\ snapRev <= clients[s].revision
                     /\ clients[s].state = "uptodate" => clients[s].revision = maxSynced
    BY Zenon DEF IInv, ClientInv, ClientOK, Active
  <2>. QED BY <1>1, <2>1, <2>2, <2>3, <2>4, Zenon
<1>7. StreamInv' /\ AgentInv'
  BY CopyClientsStreams, ZenonT(30) DEF faultVars
<1>. QED BY <1>2, <1>3, <1>4, <1>5, <1>6, <1>7, Zenon DEF IInv, IpTypeOK

\* The end of a flush, or an empty one: every up-to-date client is at the new maxSynced.
LEMMA StartCatchUpInv ==
  ASSUME IInv, NEW tick \in BOOLEAN, CopyClients({"stale", "blocking"}, "catchup", tick),
         pending' = << >>, maxSynced' = Received,
         \A s \in Streams : clients[s].on /\ clients[s].state = "uptodate" => clients[s].revision = Received,
         UNCHANGED <<podVars, logVars, log, snapRev, snap, agent, faultVars>>
  PROVE  IInv'
<1>1. UNCHANGED Received
  BY ZenonT(30) DEF Received, logVars
<1>2. PodTypeOK' /\ LogTypeOK' /\ AgentTypeOK'
  <2>1. PodTypeOK' /\ AgentTypeOK'
    BY Zenon DEF IInv, IpTypeOK, PodTypeOK, AgentTypeOK, podVars, logVars, faultVars
  <2>2. maxSynced' \in 0..MaxRevision /\ pending' \in Seq(Changes)
    BY IpAssumption, TypeFacts
  <2>. QED BY <2>1, <2>2, Zenon DEF IInv, IpTypeOK, LogTypeOK, podVars, logVars
<1>3. LogInv'
  <2>1. /\ revision' + Len(handler') <= MaxRevision /\ Len(states') = revision' + 1
        /\ Len(logChan') <= revision' /\ snapRev' + Len(log') = Received' /\ snap' = states'[snapRev' + 1]
        /\ Run(logChan, Received)' /\ Run(log, snapRev)'
    BY <1>1, Zenon DEF IInv, LogInv, Run, podVars, logVars
  <2>2. Len(pending') = 0 /\ Run(pending, maxSynced)'
    BY RunEmpty, ZenonT(30) DEF Run
  <2>3. maxSynced' + Len(pending') = Received'
    BY <1>1, <2>2, TypeFacts, SMTT(30)
  <2>. QED BY <2>1, <2>2, <2>3, Zenon DEF LogInv
<1>4. /\ sync'.at = "catchup" /\ sync'.cur = NoStream /\ sync'.next = 1 /\ ClientTypeOK' /\ SyncTypeOK'
      /\ sync'.todo = {s \in Streams : Active(s) /\ clients[s].state \in {"stale", "blocking"}}
      /\ \A s \in Streams : /\ clients'[s].on => clients'[s] = clients[s] /\ Active(s)
                            /\ Active(s) => clients'[s] = clients[s]
  <2>. DEFINE W == {"stale", "blocking"}
  <2>1. CopyClients(W, "catchup", tick)
    BY Zenon
  <2>. HIDE DEF W
  <2>2. /\ sync'.at = "catchup" /\ sync'.cur = NoStream /\ sync'.next = 1 /\ ClientTypeOK' /\ SyncTypeOK'
        /\ sync'.todo = {s \in Streams : Active(s) /\ clients[s].state \in W}
        /\ \A s \in Streams : /\ clients'[s].on => clients'[s] = clients[s] /\ Active(s)
                              /\ Active(s) => clients'[s] = clients[s]
    <3>1. "flush" \in {"flush", "catchup"} /\ "catchup" \in {"flush", "catchup"}
      BY Zenon
    <3>. QED BY <2>1, <3>1, CopyClientsFacts, ZenonT(30)
  <2>. QED BY <2>2, Zenon DEF W
<1>5. SyncInv'
  BY <1>4, RunEmpty DEF SyncInv
<1>6. ClientInv'
  <2>. SUFFICES ASSUME NEW s \in Streams
       PROVE  /\ clients'[s].on => clients'[s].revision <= Received'
              /\ clients'[s].on => snapRev' <= clients'[s].revision
              /\ s \in sync'.todo => clients'[s].on
              /\ clients'[s].on /\ clients'[s].state = "uptodate" => clients'[s].revision = maxSynced'
    BY <1>4, Zenon DEF ClientInv, ClientOK, Active
  <2>1. clients'[s].on => clients'[s] = clients[s] /\ Active(s)
    BY <1>4, Zenon
  <2>2. s \in sync'.todo => Active(s) /\ clients'[s] = clients[s]
    BY <1>4, Zenon
  <2>3. Active(s) => clients[s].on /\ clients[s].revision <= Received /\ snapRev <= clients[s].revision
    BY Zenon DEF IInv, ClientInv, ClientOK, Active
  <2>. QED BY <1>1, <2>1, <2>2, <2>3, ZenonT(30)
<1>7. StreamInv' /\ AgentInv'
  BY CopyClientsStreams, Zenon DEF faultVars
<1>. QED BY <1>2, <1>3, <1>4, <1>5, <1>6, <1>7, Zenon DEF IInv, IpTypeOK

\* Going back to the select with the clients as they are.
LEMMA SelectInv ==
  ASSUME IInv, sync' = Select, pending' \in Seq(Changes), maxSynced' \in 0..MaxRevision,
         maxSynced' + Len(pending') = Received, Run(pending', maxSynced'),
         \A s \in Streams : clients[s].on /\ clients[s].state = "uptodate" => clients[s].revision = maxSynced',
         UNCHANGED <<podVars, logVars, log, snapRev, snap, clients, stream, agent, faultVars>>
  PROVE  IInv'
<1>1. UNCHANGED Received
  BY Zenon DEF Received, logVars
<1>2. sync'.at = "select" /\ sync'.todo = {} /\ sync'.cur = NoStream /\ sync'.next = 1
  BY Zenon DEF Select
<1>3. PodTypeOK' /\ LogTypeOK' /\ AgentTypeOK' /\ ClientTypeOK'
  BY Zenon DEF IInv, IpTypeOK, PodTypeOK, LogTypeOK, AgentTypeOK, ClientTypeOK, podVars, logVars, faultVars
<1>4. SyncTypeOK'
  BY IpAssumption DEF SyncTypeOK, Select
<1>5. LogInv'
  <2>1. /\ revision' + Len(handler') <= MaxRevision /\ Len(states') = revision' + 1
        /\ Len(logChan') <= revision' /\ snapRev' + Len(log') = Received' /\ snap' = states'[snapRev' + 1]
        /\ Run(logChan, Received)' /\ Run(log, snapRev)'
    BY <1>1, Zenon DEF IInv, LogInv, Run, podVars, logVars
  <2>2. Run(pending, maxSynced)'
    BY Zenon DEF Run, logVars
  <2>. QED BY <1>1, <2>1, <2>2, Zenon DEF LogInv
<1>6. SyncInv'
  <2>1. Len(pending') \in Nat
    BY SMTT(30)
  <2>. QED BY <1>2, <2>1 DEF SyncInv
<1>7. ClientInv'
  BY <1>1, <1>2, Zenon DEF IInv, ClientInv, ClientOK, Active
<1>8. StreamInv' /\ AgentInv'
  <2>1. UNCHANGED <<Received, revision, states, clients, stream, agent, period>>
    BY <1>1, Zenon DEF logVars, faultVars
  <2>2. StreamInv'
    BY <2>1, StreamsKept, Zenon DEF IInv
  <2>3. AgentInv'
    BY <2>1, AgentsKept, TypeFacts, Zenon DEF IInv
  <2>. QED BY <2>2, <2>3, Zenon
<1>. QED BY <1>3, <1>4, <1>5, <1>6, <1>7, <1>8, Zenon DEF IInv, IpTypeOK

LEMMA CompactDoneInv ==
  ASSUME IInv, CompactDone
  PROVE  IInv'
<1>1. sync.at # "flush" /\ UNCHANGED <<podVars, logVars, log, snapRev, snap, pending, maxSynced, agent, faultVars>>
  BY Zenon DEF CompactDone
<1>2. CASE Len(pending) > MaxSyncBatchSize
  <2>1. pending # << >>
    BY <1>2, IpAssumption, TypeFacts
  <2>2. CopyClients({"uptodate"}, "flush", FALSE)
    BY <1>2, ZenonT(30) DEF CompactDone
  <2>. QED BY <1>1, <2>1, <2>2, StartFlushInv, Zenon
<1>3. CASE ~(Len(pending) > MaxSyncBatchSize)
  <2>1. sync' = Select /\ UNCHANGED <<clients, stream>>
    BY <1>3, Zenon DEF CompactDone
  <2>2. /\ pending' \in Seq(Changes) /\ maxSynced' \in 0..MaxRevision
        /\ maxSynced' + Len(pending') = Received /\ Run(pending', maxSynced')
    BY <1>1, Zenon DEF IInv, IpTypeOK, LogTypeOK, LogInv
  <2>3. \A s \in Streams : clients[s].on /\ clients[s].state = "uptodate" => clients[s].revision = maxSynced'
    BY <1>1, Zenon DEF IInv, ClientInv, ClientOK
  <2>. QED BY <1>1, <2>1, <2>2, <2>3, SelectInv, Zenon
<1>. QED BY <1>2, <1>3, Zenon

LEMMA TickInv ==
  ASSUME IInv, Tick
  PROVE  IInv'
<1>1. /\ sync.at = "select"
      /\ UNCHANGED <<podVars, logVars, log, snapRev, snap, pending, maxSynced, agent, faultVars>>
  BY Zenon DEF Tick
<1>2. CASE pending # << >>
  <2>1. CopyClients({"uptodate"}, "flush", TRUE)
    BY <1>2, Zenon DEF Tick
  <2>. QED BY <1>1, <1>2, <2>1, StartFlushInv, Zenon
<1>3. CASE pending = << >>
  <2>1. CopyClients({"stale", "blocking"}, "catchup", TRUE)
    BY <1>3, ZenonT(30) DEF Tick
  <2>2. Len(pending) = 0
    BY <1>3, Zenon
  <2>3. pending' = << >> /\ maxSynced' = Received /\ maxSynced = Received
    BY <1>1, <1>3, <2>2, TypeFacts
  <2>4. \A s \in Streams : clients[s].on /\ clients[s].state = "uptodate" => clients[s].revision = Received
    BY <1>1, <2>3, Zenon DEF IInv, ClientInv, ClientOK
  <2>. QED BY <1>1, <2>1, <2>3, <2>4, StartCatchUpInv, Zenon
<1>. QED BY <1>2, <1>3, Zenon

LEMMA FlushDoneInv ==
  ASSUME IInv, FlushDone
  PROVE  IInv'
<1>1. /\ sync.at = "flush" /\ sync.todo = {} /\ pending' = << >> /\ maxSynced' = pending[Len(pending)].rev
      /\ UNCHANGED <<podVars, logVars, log, snapRev, snap, agent, faultVars>>
  BY ZenonT(30) DEF FlushDone
<1>2. maxSynced' = Received
  <2>1. pending # << >> /\ Run(pending, maxSynced)
    BY <1>1, Zenon DEF IInv, SyncInv, LogInv
  <2>2. Len(pending) \in 1..Len(pending)
    BY <2>1, TypeFacts
  <2>. QED BY <1>1, <2>1, <2>2, TypeFacts, Zenon DEF Run, RunOf
<1>3. \A s \in Streams : clients[s].on /\ clients[s].state = "uptodate" => clients[s].revision = Received
  BY <1>1, TypeFacts, ZenonT(30) DEF IInv, ClientInv, ClientOK
<1>4. CASE sync.tick
  <2>1. CopyClients({"stale", "blocking"}, "catchup", TRUE)
    BY <1>4, Zenon DEF FlushDone
  <2>. QED BY <1>1, <1>2, <1>3, <2>1, StartCatchUpInv, Zenon
<1>5. CASE ~sync.tick
  <2>1. sync' = Select /\ UNCHANGED <<clients, stream>>
    BY <1>5, Zenon DEF FlushDone
  <2>2. /\ pending' \in Seq(Changes) /\ maxSynced' \in 0..MaxRevision /\ Len(pending') = 0
        /\ maxSynced' + Len(pending') = Received
    BY <1>1, <1>2, TypeFacts, IpAssumption
  <2>3. Run(pending', maxSynced')
    BY <1>1, RunEmpty, Zenon DEF Run
  <2>. QED BY <1>1, <1>2, <1>3, <2>1, <2>2, <2>3, SelectInv, Zenon
<1>. QED BY <1>4, <1>5, Zenon

LEMMA CatchUpDoneInv ==
  ASSUME IInv, CatchUpDone
  PROVE  IInv'
<1>1. /\ sync.at = "catchup" /\ sync' = [Select EXCEPT !.at = "compact"]
      /\ UNCHANGED <<podVars, logVars, log, snapRev, snap, pending, maxSynced, clients, stream, agent, faultVars>>
  BY Zenon DEF CatchUpDone
<1>2. sync'.at = "compact" /\ sync'.todo = {} /\ sync'.cur = NoStream /\ sync'.next = 1
  BY <1>1, Zenon DEF Select
<1>3. UNCHANGED Received
  BY <1>1, Zenon DEF Received, logVars
<1>4. SyncTypeOK'
  <2>1. sync' = [at |-> "compact", todo |-> {}, cur |-> NoStream, next |-> 1, tick |-> FALSE]
    BY <1>1, Zenon DEF Select
  <2>. QED BY IpAssumption, <2>1 DEF SyncTypeOK
<1>5. (PodTypeOK /\ LogTypeOK /\ ClientTypeOK /\ AgentTypeOK)'
  BY <1>1, Zenon DEF IInv, IpTypeOK, PodTypeOK, LogTypeOK, AgentTypeOK, ClientTypeOK, podVars, logVars, faultVars
<1>6. LogInv'
  BY <1>1, LogKept, Zenon DEF IInv, podVars
<1>7. SyncInv'
  BY <1>1, <1>2, TypeFacts, SMTT(30) DEF SyncInv
<1>8. ClientInv'
  BY <1>1, <1>2, <1>3, Zenon DEF IInv, ClientInv, ClientOK, Active
<1>9. StreamInv' /\ AgentInv'
  <2>1. UNCHANGED <<Received, revision, states, clients, stream, agent, period>>
    BY <1>1, <1>3, Zenon DEF logVars, faultVars
  <2>2. StreamInv'
    BY <2>1, StreamsKept, Zenon DEF IInv
  <2>3. AgentInv'
    BY <2>1, AgentsKept, TypeFacts, Zenon DEF IInv
  <2>. QED BY <2>2, <2>3, Zenon
<1>. QED BY <1>4, <1>5, <1>6, <1>7, <1>8, <1>9, Zenon DEF IInv, IpTypeOK

\* A change pushed to a client that is one behind it keeps the client's stream in order.
LEMMA PushInv ==
  ASSUME IInv, NEW s \in Streams, NEW cl \in Changes,
         clients[s].on, Genuine(cl, revision, states),
         cl.rev = clients[s].revision + 1, cl.rev <= Received,
         Room(s), Push(s, cl),
         clients'[s].revision = cl.rev,
         \A t \in Streams \ {s} : clients'[t] = clients[t],
         UNCHANGED <<logVars, agent, faultVars>>
  PROVE  /\ StreamInv' /\ AgentInv'
         /\ stream' \in [Streams -> [ch : Seq(Changes), shut : BOOLEAN, net : Seq(Changes),
                                     end : {"open", "DataLoss", "InvalidArgument", "broken"}]]
         /\ \A t \in Streams : Len(stream'[t].ch) <= ClientBufferSize /\ Len(stream'[t].net) <= NetSize
<1>1. /\ UNCHANGED <<revision, states, Received, agent, period>>
      /\ stream' = [stream EXCEPT ![s].ch = Append(@, cl)]
  BY Zenon DEF Push, Received, logVars, faultVars
<1>2. /\ stream[s].ch \in Seq(Changes) /\ Append(stream[s].ch, cl) \in Seq(Changes)
      /\ Len(stream[s].ch) \in Nat /\ Len(Append(stream[s].ch, cl)) = Len(stream[s].ch) + 1
  <2>1. \A q \in Seq(Changes) : Append(q, cl) \in Seq(Changes) /\ Len(Append(q, cl)) = Len(q) + 1
    OBVIOUS
  <2>. QED BY <2>1, TypeFacts, ZenonT(30)
<1>. DEFINE ch == Append(stream[s].ch, cl)
<1>9. ch \in Seq(Changes) /\ stream' = [stream EXCEPT ![s] = [@ EXCEPT !.ch = ch]]
  BY <1>1, <1>2, Zenon
<1>. HIDE DEF ch
<1>3. stream' \in [Streams -> [ch : Seq(Changes), shut : BOOLEAN, net : Seq(Changes),
                               end : {"open", "DataLoss", "InvalidArgument", "broken"}]]
  BY <1>9, ZenonT(30) DEF IInv, IpTypeOK, ClientTypeOK
<1>4. /\ stream'[s].ch = Append(stream[s].ch, cl) /\ stream'[s].net = stream[s].net
      /\ stream'[s].end = stream[s].end
      /\ \A t \in Streams \ {s} : stream'[t] = stream[t]
  <2>1. /\ stream'[s].ch = ch /\ stream'[s].net = stream[s].net
        /\ stream'[s].end = stream[s].end
        /\ \A t \in Streams \ {s} : stream'[t] = stream[t]
    BY <1>9, Zenon DEF IInv, IpTypeOK, ClientTypeOK
  <2>. QED BY <2>1, Zenon DEF ch
<1>5. \A t \in Streams : Len(stream'[t].ch) <= ClientBufferSize /\ Len(stream'[t].net) <= NetSize
  <2>1. Len(stream[s].ch) + 1 <= ClientBufferSize
    BY IpAssumption, <1>2 DEF Room
  <2>2. \A t \in Streams : Len(stream[t].ch) <= ClientBufferSize /\ Len(stream[t].net) <= NetSize
    BY ZenonT(30) DEF IInv, IpTypeOK, ClientTypeOK
  <2>. QED BY <1>2, <1>4, <2>1, <2>2, Zenon
<1>6. ASSUME NEW a \in Agents, NEW t \in Streams, StreamOK(a, t)
      PROVE  StreamOK(a, t)'
  <2>1. CASE t # s
    <3>1. stream'[t] = stream[t] /\ clients'[t] = clients[t]
      BY <1>4, <2>1, Zenon
    <3>. QED BY <1>1, <1>6, <3>1, ZenonT(30) DEF StreamOK, Run
  <2>2. CASE t = s
    <3>. DEFINE n == agent[a].revision + Len(stream[s].net)
    <3>1. agent[a].revision \in Nat /\ Len(stream[s].net) \in Nat
      BY TypeFacts, ZenonT(30)
    <3>2. n \in Nat
      BY <3>1, SMTT(30)
    <3>3. stream[s].end = "open" =>
             /\ agent[a].period = period /\ RunOf(stream[s].ch, n, revision, states)
             /\ clients[s].revision = n + Len(stream[s].ch)
      BY <1>6, <2>2, Zenon DEF StreamOK, Run
    <3>4. /\ stream[s].net # << >> =>
               /\ agent[a].period = period /\ Run(stream[s].net, agent[a].revision) /\ n <= Received
          /\ \A b \in Agents : agent[b].stream = s => b = a
      BY <1>6, <2>2, Zenon DEF StreamOK
    <3>. HIDE DEF n
    <3>5. stream[s].end = "open" => RunOf(Append(stream[s].ch, cl), n, revision, states)
      <4>. SUFFICES ASSUME stream[s].end = "open" PROVE RunOf(Append(stream[s].ch, cl), n, revision, states)
        BY Zenon
      <4>1. cl.rev = n + Len(stream[s].ch) + 1
        BY <3>3, ZenonT(30)
      <4>. QED BY <1>2, <3>2, <3>3, <4>1, RunAppend, ZenonT(30)
    <3>6. stream[s].end = "open" => n + Len(Append(stream[s].ch, cl)) = cl.rev
      BY <1>2, <3>2, <3>3
    <3>7. /\ stream'[s].end = "open" =>
               /\ agent'[a].period = period' /\ Run(stream[s].ch, n)'
               /\ n + Len(stream'[s].ch) <= Received' /\ clients'[s].revision = n + Len(stream'[s].ch)
          /\ n' = n
      <4>1. n' = n
        BY <1>1, <1>4, Zenon DEF n
      <4>. QED BY <1>1, <1>4, <3>3, <3>5, <3>6, <4>1, Zenon DEF Run
    <3>. QED BY <1>1, <1>4, <2>2, <3>4, <3>7, Zenon DEF StreamOK, Run, n
  <2>. QED BY <2>1, <2>2, Zenon
<1>7. StreamInv'
  BY <1>1, <1>6, Zenon DEF IInv, StreamInv
<1>8. AgentInv'
  BY <1>1, Zenon DEF IInv, AgentInv
<1>. QED BY <1>3, <1>5, <1>7, <1>8, Zenon

\* The fields of sync when a client is done, and its type.
LEMMA NextClientFacts ==
  ASSUME IInv, NEW s \in Streams, sync' = NextClient(s)
  PROVE  /\ SyncTypeOK' /\ sync'.at = sync.at /\ sync'.todo = sync.todo \ {s}
         /\ sync'.cur = NoStream /\ sync'.next = 1
<1>1. sync \in [at : {"select", "compact", "batch", "flush", "catchup"}, todo : SUBSET Streams,
               cur : Streams \cup {NoStream}, next : 1..(MaxRevision + 1), tick : BOOLEAN]
  BY Zenon DEF IInv, IpTypeOK, SyncTypeOK
<1>2. 1 \in 1..(MaxRevision + 1)
  BY IpAssumption
<1>. QED BY <1>1, <1>2, Zenon DEF NextClient, SyncTypeOK

\* syncControl's own invariant when a client is done.
LEMMA NextClientSync ==
  ASSUME IInv, sync.at \in {"flush", "catchup"}, pending' = pending,
         sync'.at = sync.at, sync'.cur = NoStream, sync'.next = 1
  PROVE  SyncInv'
<1>1. /\ sync.at = "flush" => pending # << >> /\ sync.next \in 1..(Len(pending) + 1) /\ sync.next <= Len(pending)
      /\ sync.at = "catchup" => pending = << >>
  BY Zenon DEF IInv, SyncInv
<1>2. Len(pending) \in Nat
  BY TypeFacts, Zenon
<1>3. 1 \in 1..(Len(pending) + 1) /\ (sync.at = "flush" => 1 <= Len(pending))
  BY <1>1, <1>2
<1>. QED BY <1>1, <1>3, Zenon DEF SyncInv

LEMMA FlushInv ==
  ASSUME IInv, NEW s \in Streams, Flush(s)
  PROVE  IInv'
<1>. DEFINE cl == pending[sync.next]
<1>1. /\ sync.at = "flush" /\ s \in sync.todo /\ sync.cur \in {s, NoStream}
      /\ UNCHANGED <<podVars, logVars, log, snapRev, snap, pending, maxSynced, agent, faultVars>>
  BY ZenonT(30) DEF Flush, Turn
<1>2. /\ sync.next \in 1..Len(pending) /\ sync.todo \subseteq Streams
      /\ sync.cur = NoStream => sync.next = 1
  BY <1>1, TypeFacts DEF IInv, SyncInv, IpTypeOK, SyncTypeOK
<1>3. /\ cl \in Changes /\ cl.rev = maxSynced + sync.next /\ Genuine(cl, revision, states)
  <2>1. pending \in Seq(Changes) /\ RunOf(pending, maxSynced, revision, states)
    BY TypeFacts, ZenonT(30) DEF IInv, LogInv, Run
  <2>2. cl \in Changes
    BY <1>2, <2>1, SMTT(30)
  <2>. QED BY <1>2, <2>1, <2>2, ZenonT(30) DEF RunOf
<1>4. clients[s].on /\ clients[s].revision = maxSynced + sync.next - 1 /\ snapRev <= clients[s].revision
  <2>1. sync.cur = NoStream => s # sync.cur
    BY IpAssumption, Zenon
  <2>2. clients[s].on /\ snapRev <= clients[s].revision
        /\ clients[s].revision = IF s = sync.cur THEN maxSynced + sync.next - 1 ELSE maxSynced
    BY <1>1, Zenon DEF IInv, ClientInv, ClientOK
  <2>3. maxSynced \in Nat
    BY TypeFacts, ZenonT(30)
  <2>. QED BY <1>1, <1>2, <2>1, <2>2, <2>3
<1>5. cl.rev = clients[s].revision + 1 /\ cl.rev <= Received /\ cl.rev \in 0..MaxRevision
      /\ (sync.next = Len(pending) => cl.rev = maxSynced + Len(pending))
  <2>1. /\ maxSynced \in Nat /\ Len(pending) \in Nat /\ Received \in Nat /\ maxSynced + Len(pending) = Received
        /\ Received <= MaxRevision
    BY IpAssumption, TypeFacts
  <2>. HIDE DEF cl
  <2>. QED BY IpAssumption, <1>2, <1>3, <1>4, <2>1
<1>6. \A t \in sync.todo : t # s => t # sync.cur /\ clients[t].revision = maxSynced /\ clients[t].on
                                  /\ snapRev <= clients[t].revision
  BY IpAssumption, <1>1, <1>2, Zenon DEF IInv, ClientInv, ClientOK
<1>7. UNCHANGED Received /\ (PodTypeOK /\ LogTypeOK /\ AgentTypeOK)' /\ LogInv'
  BY <1>1, Zenon DEF IInv, IpTypeOK, PodTypeOK, LogTypeOK, AgentTypeOK, LogInv, Received, Run, podVars, logVars, faultVars
<1>8. CASE ~Room(s)
  <2>1. /\ clients' = [clients EXCEPT ![s].state = "blocking"] /\ sync' = NextClient(s) /\ UNCHANGED stream
    BY <1>8, Zenon DEF Flush
  <2>2. /\ SyncTypeOK' /\ sync'.at = "flush" /\ sync'.todo = sync.todo \ {s}
        /\ sync'.cur = NoStream /\ sync'.next = 1
    BY <1>1, <2>1, NextClientFacts, Zenon
  <2>3. ClientTypeOK'
    BY <2>1, Zenon DEF IInv, IpTypeOK, ClientTypeOK
  <2>4. /\ \A t \in Streams \ {s} : clients'[t] = clients[t]
        /\ clients'[s].state = "blocking" /\ clients'[s].revision = clients[s].revision
        /\ clients'[s].on /\ (Active(s)' => Active(s))
    BY <1>4, <2>1, Zenon DEF IInv, IpTypeOK, ClientTypeOK, Active
  <2>5. SyncInv'
    BY <1>1, <2>2, NextClientSync, Zenon
  <2>6. ClientInv'
    <3>1. ASSUME NEW t \in Streams, t # s
          PROVE  ClientOK(t)'
      <4>1. ClientOK(t) /\ clients'[t] = clients[t] /\ UNCHANGED <<snapRev, maxSynced, pending>>
        BY <1>1, <2>4, <3>1, Zenon DEF IInv, ClientInv
      <4>2. t # sync'.cur /\ (t \in sync'.todo <=> t \in sync.todo)
        BY <2>2, <3>1, IpAssumption, Zenon
      <4>. QED BY <1>1, <1>6, <1>7, <2>2, <3>1, <4>1, <4>2, Zenon DEF ClientOK, Active
    <3>2. ClientOK(s)'
      <4>1. s \notin sync'.todo /\ ClientOK(s)
        BY <2>2, Zenon DEF IInv, ClientInv
      <4>. QED BY <1>1, <1>4, <1>7, <2>2, <2>4, <4>1, Zenon DEF ClientOK, Active
    <3>. QED BY <3>1, <3>2, Zenon DEF ClientInv
  <2>7. ASSUME NEW a \in Agents, NEW t \in Streams, StreamOK(a, t)
        PROVE  StreamOK(a, t)'
    <3>1. clients'[t].revision = clients[t].revision /\ (clients'[t].on => clients[t].on)
      BY <1>4, <2>4, Zenon
    <3>. QED BY <1>1, <1>7, <2>1, <2>7, <3>1, Zenon DEF StreamOK, Run, logVars, faultVars
  <2>8. StreamInv' /\ AgentInv'
    BY <1>1, <1>7, <2>7, Zenon DEF IInv, StreamInv, AgentInv, logVars, faultVars
  <2>. QED BY <1>7, <2>2, <2>3, <2>5, <2>6, <2>8, Zenon DEF IInv, IpTypeOK
<1>9. CASE Room(s)
  <2>1. /\ Push(s, cl) /\ clients' = [clients EXCEPT ![s].revision = cl.rev]
        /\ sync' = IF sync.next = Len(pending) THEN NextClient(s) ELSE [sync EXCEPT !.cur = s, !.next = @ + 1]
    BY <1>9, Zenon DEF Flush
  <2>2. /\ \A t \in Streams \ {s} : clients'[t] = clients[t]
        /\ clients'[s].state = clients[s].state /\ clients'[s].revision = cl.rev
        /\ clients'[s].on /\ (Active(s)' => Active(s))
    BY <1>4, <2>1, Zenon DEF IInv, IpTypeOK, ClientTypeOK, Active
  <2>3. clients' \in [Streams -> [on : BOOLEAN, revision : 0..MaxRevision,
                                  state : {"stale", "blocking", "uptodate"}, closed : BOOLEAN]]
    BY <1>5, <2>1, ZenonT(30) DEF IInv, IpTypeOK, ClientTypeOK
  <2>4. StreamInv' /\ AgentInv' /\ ClientTypeOK'
    <3>1. /\ StreamInv' /\ AgentInv'
          /\ stream' \in [Streams -> [ch : Seq(Changes), shut : BOOLEAN, net : Seq(Changes),
                                      end : {"open", "DataLoss", "InvalidArgument", "broken"}]]
          /\ \A t \in Streams : Len(stream'[t].ch) <= ClientBufferSize /\ Len(stream'[t].net) <= NetSize
      BY <1>1, <1>3, <1>4, <1>5, <1>9, <2>1, <2>2, PushInv, Zenon
    <3>. QED BY <2>3, <3>1, Zenon DEF ClientTypeOK
  <2>5. CASE sync.next = Len(pending)
    <3>1. /\ SyncTypeOK' /\ sync'.at = "flush" /\ sync'.todo = sync.todo \ {s}
          /\ sync'.cur = NoStream /\ sync'.next = 1
      BY <1>1, <2>1, <2>5, NextClientFacts, Zenon
    <3>2. SyncInv'
      BY <1>1, <3>1, NextClientSync, Zenon
    <3>3. ClientInv'
      <4>1. ASSUME NEW t \in Streams, t # s
            PROVE  ClientOK(t)'
        <5>1. ClientOK(t) /\ clients'[t] = clients[t] /\ UNCHANGED <<snapRev, maxSynced, pending>>
          BY <1>1, <2>2, <4>1, Zenon DEF IInv, ClientInv
        <5>2. t # sync'.cur /\ (t \in sync'.todo <=> t \in sync.todo)
          BY <1>2, <3>1, <4>1, IpAssumption, Zenon
        <5>. QED BY <1>1, <1>6, <1>7, <3>1, <4>1, <5>1, <5>2, Zenon DEF ClientOK, Active
      <4>2. ClientOK(s)'
        <5>1. snapRev <= cl.rev
          BY <1>4, <1>5, TypeFacts, SMTT(30)
        <5>. QED BY <1>1, <1>4, <1>5, <1>7, <2>2, <2>5, <3>1, <5>1, ZenonT(30) DEF ClientOK, Active
      <4>. QED BY <4>1, <4>2, Zenon DEF ClientInv
    <3>. QED BY <1>7, <2>4, <3>1, <3>2, <3>3, Zenon DEF IInv, IpTypeOK
  <2>6. CASE sync.next # Len(pending)
    <3>1. sync' = [sync EXCEPT !.cur = s, !.next = @ + 1]
      BY <2>1, <2>6, Zenon
    <3>2. sync.next + 1 \in 1..Len(pending) /\ sync.next + 1 \in 1..(MaxRevision + 1)
      BY IpAssumption, <1>2, <2>6, TypeFacts, SMTT(30)
    <3>3. /\ SyncTypeOK' /\ sync'.at = "flush" /\ sync'.todo = sync.todo
          /\ sync'.cur = s /\ sync'.next = sync.next + 1
      BY <1>1, <3>1, <3>2, Zenon DEF IInv, IpTypeOK, SyncTypeOK
    <3>4. SyncInv'
      BY IpAssumption, <1>1, <1>2, <3>2, <3>3, TypeFacts, SMTT(30) DEF SyncInv
    <3>5. ClientInv'
      <4>1. ASSUME NEW t \in Streams, t # s
            PROVE  ClientOK(t)'
        <5>1. ClientOK(t) /\ clients'[t] = clients[t] /\ UNCHANGED <<snapRev, maxSynced, pending>>
          BY <1>1, <2>2, <4>1, Zenon DEF IInv, ClientInv
        <5>2. t # sync'.cur /\ (t \in sync'.todo <=> t \in sync.todo)
          BY <1>2, <3>3, <4>1, IpAssumption, Zenon
        <5>. QED BY <1>1, <1>6, <1>7, <3>3, <4>1, <5>1, <5>2, Zenon DEF ClientOK, Active
      <4>2. ClientOK(s)'
        <5>1. snapRev <= cl.rev /\ cl.rev = maxSynced + (sync.next + 1) - 1
          BY <1>2, <1>3, <1>4, <1>5, TypeFacts, SMTT(30)
        <5>. QED BY <1>1, <1>4, <1>5, <1>7, <2>2, <3>3, <5>1, ZenonT(30) DEF ClientOK, Active
      <4>. QED BY <4>1, <4>2, Zenon DEF ClientInv
    <3>. QED BY <1>7, <2>4, <3>3, <3>4, <3>5, Zenon DEF IInv, IpTypeOK
  <2>. QED BY <2>5, <2>6, Zenon
<1>. QED BY <1>8, <1>9, Zenon

\* In a run, the first change above a revision that is not before the run is the next one.
LEMMA FindNextFacts ==
  ASSUME NEW q \in Seq(Changes), NEW r \in Nat, NEW target \in Nat, NEW rev, NEW maps,
         RunOf(q, r, rev, maps), r <= target, FindNext(q, target) # 0
  PROVE  /\ FindNext(q, target) \in 1..Len(q)
         /\ q[FindNext(q, target)].rev = target + 1
<1>. DEFINE First(i) == q[i].rev > target /\ \A j \in 1..(i - 1) : q[j].rev <= target
<1>1. Len(q) \in Nat /\ \A i \in 1..Len(q) : q[i].rev = r + i
  BY DEF RunOf
<1>2. \E i \in 1..Len(q) : q[i].rev > target
  BY Zenon DEF FindNext
<1>3. target + 1 - r \in 1..Len(q)
  BY <1>1, <1>2
<1>4. First(target + 1 - r)
  <2>1. q[target + 1 - r].rev = target + 1
    BY <1>1, <1>3
  <2>2. ASSUME NEW j \in 1..((target + 1 - r) - 1)
        PROVE  q[j].rev <= target
    <3>1. j \in 1..Len(q) /\ r + j <= target
      BY <1>1, <1>3
    <3>. QED BY <1>1, <3>1, Zenon
  <2>. QED BY <2>1, <2>2
<1>5. FindNext(q, target) = CHOOSE i \in 1..Len(q) : First(i)
  BY <1>2, Zenon DEF FindNext
<1>6. FindNext(q, target) \in 1..Len(q) /\ First(FindNext(q, target))
  <2>. HIDE DEF First
  <2>. QED BY <1>3, <1>4, <1>5, Zenon
<1>7. ASSUME NEW i \in 1..Len(q), First(i)
      PROVE  q[i].rev = target + 1
  <2>1. CASE i = 1
    BY <1>1, <1>7, <2>1
  <2>2. CASE i > 1
    <3>1. i - 1 \in 1..(i - 1) /\ i - 1 \in 1..Len(q)
      BY <1>1, <2>2
    <3>2. q[i - 1].rev <= target /\ q[i].rev > target
      BY <1>7, <3>1, ZenonT(30)
    <3>3. q[i - 1].rev = r + (i - 1) /\ q[i].rev = r + i
      BY <1>1, <3>1, Zenon
    <3>. QED BY <3>2, <3>3
  <2>. QED BY <1>1, <2>1, <2>2
<1>. QED BY <1>6, <1>7, Zenon

LEMMA CatchUpInv ==
  ASSUME IInv, NEW s \in Streams, CatchUp(s)
  PROVE  IInv'
<1>. DEFINE i == FindNext(log, clients[s].revision)
            cl == log[i]
<1>1. /\ sync.at = "catchup" /\ s \in sync.todo /\ sync.cur \in {s, NoStream}
      /\ UNCHANGED <<podVars, logVars, log, snapRev, snap, pending, maxSynced, agent, faultVars>>
  BY Zenon DEF CatchUp, Turn
<1>2. /\ pending = << >> /\ Len(pending) = 0 /\ maxSynced = Received /\ sync.todo \subseteq Streams
      /\ sync.next \in 1..1 /\ clients[s].on /\ snapRev <= clients[s].revision
  <2>1. pending = << >> /\ sync.next \in 1..(Len(pending) + 1) /\ sync.todo \subseteq Streams
    BY <1>1, ZenonT(30) DEF IInv, SyncInv, IpTypeOK, SyncTypeOK
  <2>2. Len(pending) = 0
    BY <2>1, Zenon
  <2>3. maxSynced = Received
    BY <2>2, TypeFacts, SMTT(30)
  <2>4. clients[s].on /\ snapRev <= clients[s].revision
    BY <1>1, Zenon DEF IInv, ClientInv, ClientOK
  <2>. QED BY <2>1, <2>2, <2>3, <2>4
<1>3. UNCHANGED Received /\ (PodTypeOK /\ LogTypeOK /\ AgentTypeOK)' /\ LogInv'
  BY <1>1, Zenon DEF IInv, IpTypeOK, PodTypeOK, LogTypeOK, AgentTypeOK, LogInv, Received, Run, podVars, logVars, faultVars
<1>4. \A t \in Streams : ClientOK(t)
  BY Zenon DEF IInv, ClientInv
<1>5. CASE i = 0
  <2>1. sync' = NextClient(s) /\ UNCHANGED <<clients, stream>>
    BY <1>5, Zenon DEF CatchUp
  <2>2. /\ SyncTypeOK' /\ sync'.at = "catchup" /\ sync'.todo = sync.todo \ {s}
        /\ sync'.cur = NoStream /\ sync'.next = 1
    BY <1>1, <2>1, NextClientFacts, Zenon
  <2>3. SyncInv'
    BY <1>1, <2>2, NextClientSync, Zenon
  <2>4. ClientInv'
    BY <1>1, <1>3, <1>4, <2>1, <2>2, Zenon DEF ClientInv, ClientOK, Active
  <2>5. ClientTypeOK' /\ StreamInv' /\ AgentInv'
    <3>1. UNCHANGED <<Received, revision, states, clients, stream, agent, period>>
      BY <1>1, <1>3, <2>1, Zenon DEF logVars, faultVars
    <3>2. StreamInv'
      BY <3>1, StreamsKept, Zenon DEF IInv
    <3>3. AgentInv'
      BY <3>1, AgentsKept, TypeFacts, Zenon DEF IInv
    <3>4. ClientTypeOK'
      BY <2>1, Zenon DEF IInv, IpTypeOK, ClientTypeOK
    <3>. QED BY <3>2, <3>3, <3>4, Zenon
  <2>. QED BY <1>3, <2>2, <2>3, <2>4, <2>5, Zenon DEF IInv, IpTypeOK
<1>6. CASE i # 0 /\ ~Room(s)
  <2>1. clients' = [clients EXCEPT ![s].state = "blocking"] /\ sync' = NextClient(s) /\ UNCHANGED stream
    BY <1>6, Zenon DEF CatchUp
  <2>2. /\ SyncTypeOK' /\ sync'.at = "catchup" /\ sync'.todo = sync.todo \ {s}
        /\ sync'.cur = NoStream /\ sync'.next = 1
    BY <1>1, <2>1, NextClientFacts, Zenon
  <2>3. ClientTypeOK'
    BY <2>1, ZenonT(30) DEF IInv, IpTypeOK, ClientTypeOK
  <2>4. /\ \A t \in Streams \ {s} : clients'[t] = clients[t]
        /\ clients'[s].state = "blocking" /\ clients'[s].revision = clients[s].revision
        /\ clients'[s].on /\ (Active(s)' => Active(s))
    BY <1>2, <2>1, Zenon DEF IInv, IpTypeOK, ClientTypeOK, Active
  <2>5. SyncInv'
    BY <1>1, <2>2, NextClientSync, Zenon
  <2>6. ClientInv'
    BY <1>1, <1>2, <1>3, <1>4, <2>2, <2>4, ZenonT(30) DEF ClientInv, ClientOK, Active
  <2>7. ASSUME NEW a \in Agents, NEW t \in Streams, StreamOK(a, t)
        PROVE  StreamOK(a, t)'
    <3>1. clients'[t].revision = clients[t].revision /\ (clients'[t].on => clients[t].on)
      BY <1>2, <2>4, Zenon
    <3>. QED BY <1>1, <1>3, <2>1, <2>7, <3>1, Zenon DEF StreamOK, Run, logVars, faultVars
  <2>8. StreamInv' /\ AgentInv'
    BY <1>1, <1>3, <2>7, Zenon DEF IInv, StreamInv, AgentInv, logVars, faultVars
  <2>. QED BY <1>3, <2>2, <2>3, <2>5, <2>6, <2>8, Zenon DEF IInv, IpTypeOK
<1>7. CASE i # 0 /\ Room(s)
  <2>1. i \in 1..Len(log) /\ cl.rev = clients[s].revision + 1
    <3>1. /\ log \in Seq(Changes) /\ snapRev \in Nat /\ clients[s].revision \in Nat
          /\ RunOf(log, snapRev, revision, states)
      BY TypeFacts, Zenon DEF IInv, LogInv, Run
    <3>. QED BY <1>2, <1>7, <3>1, FindNextFacts, ZenonT(30)
  <2>2. cl \in Changes /\ Genuine(cl, revision, states) /\ cl.rev = snapRev + i
    <3>1. log \in Seq(Changes) /\ RunOf(log, snapRev, revision, states)
      BY TypeFacts, Zenon DEF IInv, LogInv, Run
    <3>2. i \in 1..Len(log)
      BY <2>1, Zenon
    <3>. HIDE DEF i
    <3>3. log[i] \in Changes
      BY <3>1, <3>2
    <3>4. log[i].rev = snapRev + i /\ Genuine(log[i], revision, states)
      BY <3>1, <3>2, ZenonT(30) DEF RunOf
    <3>. QED BY <3>3, <3>4, Zenon
  <2>. HIDE DEF i, cl
  <2>3. cl.rev <= Received /\ cl.rev \in 0..MaxRevision /\ snapRev <= cl.rev
    <3>1. /\ snapRev \in Nat /\ Len(log) \in Nat /\ Received \in Nat /\ snapRev + Len(log) = Received
          /\ Received <= revision /\ revision <= MaxRevision /\ revision \in Nat
      BY TypeFacts, Zenon
    <3>. QED BY IpAssumption, <2>1, <2>2, <3>1
  <2>4. PICK st \in {"uptodate", clients[s].state} :
           /\ Push(s, cl)
           /\ clients' = [clients EXCEPT ![s].revision = cl.rev, ![s].state = st]
           /\ st = "uptodate" => cl.rev = maxSynced \/ clients[s].state = "uptodate"
           /\ sync' = NextClient(s) \/ sync' = [sync EXCEPT !.cur = s]
    <3>1. /\ Push(s, cl)
          /\ clients' = [clients EXCEPT ![s].revision = cl.rev,
                            ![s].state = IF cl.rev = maxSynced THEN "uptodate"
                                         ELSE IF cl.rev > maxSynced THEN "stale" ELSE @]
          /\ sync' = IF cl.rev >= maxSynced THEN NextClient(s) ELSE [sync EXCEPT !.cur = s]
      BY <1>7, ZenonT(30) DEF CatchUp, i, cl
    <3>2. ~(cl.rev > maxSynced)
      BY <1>2, <2>3, TypeFacts
    <3>3. CASE cl.rev = maxSynced
      <4>1. clients' = [clients EXCEPT ![s].revision = cl.rev, ![s].state = "uptodate"]
        BY <3>1, <3>3, Zenon
      <4>. QED BY <3>1, <3>3, <4>1, Zenon
    <3>4. CASE cl.rev # maxSynced
      <4>1. clients' = [clients EXCEPT ![s].revision = cl.rev, ![s].state = @]
        BY <3>1, <3>2, <3>4, Zenon
      <4>2. clients' = [clients EXCEPT ![s].revision = cl.rev, ![s].state = clients[s].state]
        BY <4>1, Zenon DEF IInv, IpTypeOK, ClientTypeOK
      <4>. QED BY <3>1, <3>4, <4>2, Zenon
    <3>. QED BY <3>3, <3>4, Zenon
  <2>5. st \in {"stale", "blocking", "uptodate"}
    BY Zenon DEF IInv, IpTypeOK, ClientTypeOK
  <2>6. /\ \A t \in Streams \ {s} : clients'[t] = clients[t]
        /\ clients'[s].state = st /\ clients'[s].revision = cl.rev
        /\ clients'[s].on /\ (Active(s)' => Active(s))
    BY <1>2, <2>4 DEF IInv, IpTypeOK, ClientTypeOK, Active
  <2>7. clients' \in [Streams -> [on : BOOLEAN, revision : 0..MaxRevision,
                                  state : {"stale", "blocking", "uptodate"}, closed : BOOLEAN]]
    <3>1. clients' = [clients EXCEPT ![s] = [[@ EXCEPT !.revision = cl.rev] EXCEPT !.state = st]]
      BY <2>4, ZenonT(30) DEF IInv, IpTypeOK, ClientTypeOK
    <3>. DEFINE c0 == clients[s]
                c1 == [c0 EXCEPT !.revision = cl.rev]
                c2 == [c1 EXCEPT !.state = st]
                C == [on : BOOLEAN, revision : 0..MaxRevision,
                      state : {"stale", "blocking", "uptodate"}, closed : BOOLEAN]
    <3>2. c0 \in C
      BY Zenon DEF IInv, IpTypeOK, ClientTypeOK
    <3>. HIDE DEF c0
    <3>3. c1 \in C
      BY <2>3, <3>2, Zenon
    <3>. HIDE DEF c1
    <3>4. c2 \in C
      BY <2>5, <3>3, Zenon
    <3>5. clients' = [clients EXCEPT ![s] = c2]
      BY <3>1, ZenonT(30) DEF c0, c1, c2
    <3>. HIDE DEF c2
    <3>. QED BY <3>4, <3>5, Zenon DEF IInv, IpTypeOK, ClientTypeOK
  <2>8. StreamInv' /\ AgentInv' /\ ClientTypeOK'
    <3>1. /\ StreamInv' /\ AgentInv'
          /\ stream' \in [Streams -> [ch : Seq(Changes), shut : BOOLEAN, net : Seq(Changes),
                                      end : {"open", "DataLoss", "InvalidArgument", "broken"}]]
          /\ \A t \in Streams : Len(stream'[t].ch) <= ClientBufferSize /\ Len(stream'[t].net) <= NetSize
      BY <1>1, <1>2, <1>7, <2>1, <2>2, <2>3, <2>4, <2>6, PushInv, Zenon
    <3>. QED BY <2>7, <3>1, Zenon DEF ClientTypeOK
  <2>9. /\ SyncTypeOK' /\ sync'.at = "catchup" /\ sync'.todo \subseteq sync.todo /\ sync'.next = 1
        /\ sync'.cur # NoStream => sync'.cur \in sync'.todo
    <3>1. CASE sync' = NextClient(s)
      BY <1>1, <3>1, NextClientFacts, Zenon
    <3>2. CASE sync' = [sync EXCEPT !.cur = s]
      BY <1>1, <1>2, <3>2, SMTT(30) DEF IInv, IpTypeOK, SyncTypeOK
    <3>. QED BY <2>4, <3>1, <3>2, ZenonT(30)
  <2>10. SyncInv'
    BY <1>1, <1>2, <2>9 DEF SyncInv
  <2>11. ASSUME NEW t \in Streams, t # s
         PROVE  ClientOK(t)'
    BY <1>1, <1>3, <1>4, <2>6, <2>9, <2>11, Zenon DEF ClientOK, Active
  <2>12. ClientOK(s)'
    <3>1. clients[s].state = "uptodate" => clients[s].revision = maxSynced
      BY <1>1, <1>2, <1>4, ZenonT(30) DEF ClientOK
    <3>2. clients[s].state # "uptodate"
      BY <1>2, <2>1, <2>3, <3>1, TypeFacts
    <3>. QED BY <1>1, <1>2, <1>3, <2>3, <2>4, <2>6, <2>9, <3>2, Zenon DEF ClientOK, Active
  <2>. QED BY <1>3, <2>8, <2>9, <2>10, <2>11, <2>12, Zenon DEF IInv, IpTypeOK, ClientInv
<1>. QED BY <1>5, <1>6, <1>7, Zenon

\* What a step that leaves the log and syncControl alone preserves.
LEMMA ServerKept ==
  ASSUME IInv, UNCHANGED <<podVars, logVars, syncVars>>
  PROVE  /\ PodTypeOK' /\ LogTypeOK' /\ SyncTypeOK' /\ LogInv' /\ SyncInv'
         /\ UNCHANGED <<Received, revision, states, snapRev, maxSynced, pending, sync>>
<1>1. UNCHANGED <<Received, revision, states, snapRev, maxSynced, pending, sync>>
  BY Zenon DEF Received, logVars, syncVars
<1>2. PodTypeOK' /\ LogTypeOK' /\ SyncTypeOK'
  BY Zenon DEF IInv, IpTypeOK, PodTypeOK, LogTypeOK, SyncTypeOK, podVars, logVars, syncVars
<1>3. LogInv' /\ SyncInv'
  BY <1>1, Zenon DEF IInv, LogInv, SyncInv, Run, podVars, logVars, syncVars
<1>. QED BY <1>1, <1>2, <1>3, Zenon

LEMMA ListCacheInv ==
  ASSUME IInv, NEW a \in Agents, ListCache(a)
  PROVE  IInv'
<1>. DEFINE new == [at |-> "watch", period |-> period, revision |-> snapRev, entries |-> snap, stream |-> NoStream]
<1>1. /\ agent' = [agent EXCEPT ![a] = new]
      /\ UNCHANGED <<podVars, logVars, syncVars, clients, stream, faultVars>>
  BY ZenonT(30) DEF ListCache
<1>2. /\ PodTypeOK' /\ LogTypeOK' /\ SyncTypeOK' /\ LogInv' /\ SyncInv'
      /\ UNCHANGED <<Received, revision, states, snapRev, maxSynced, pending, sync>>
  BY <1>1, ServerKept, Zenon
<1>3. new \in [at : {"list", "watch", "recv"}, period : 0..(MaxFaults + 1),
              revision : 0..MaxRevision, entries : Maps, stream : Streams \cup {NoStream}]
  BY DEF IInv, IpTypeOK, LogTypeOK, AgentTypeOK
<1>4. AgentTypeOK' /\ ClientTypeOK' /\ ClientInv'
  <2>. HIDE DEF new
  <2>1. AgentTypeOK'
    BY <1>1, <1>3, Zenon DEF IInv, IpTypeOK, AgentTypeOK, faultVars
  <2>. QED BY <1>1, <1>2, <2>1, ZenonT(30) DEF IInv, IpTypeOK, ClientTypeOK, ClientInv, ClientOK, Active
<1>5. agent'[a] = new /\ \A b \in Agents \ {a} : agent'[b] = agent[b]
  BY <1>1, ZenonT(30) DEF IInv, IpTypeOK, AgentTypeOK
<1>6. AgentInv'
  <2>1. snapRev <= Received /\ snap = states[snapRev + 1]
    <3>1. snap = states[snapRev + 1]
      BY Zenon DEF IInv, LogInv
    <3>2. snapRev <= Received
      BY TypeFacts
    <3>. QED BY <3>1, <3>2, Zenon
  <2>2. UNCHANGED <<period, states, Received>> /\ period <= period
    BY <1>1, <1>2 DEF faultVars, IInv, IpTypeOK, AgentTypeOK
  <2>4. agent'[a].period = period /\ agent'[a].revision = snapRev /\ agent'[a].entries = snap
    BY <1>5
  <2>3. ASSUME NEW b \in Agents
        PROVE  /\ agent'[b].period <= period
               /\ agent'[b].period = period => /\ agent'[b].revision <= Received
                                               /\ agent'[b].entries = states[agent'[b].revision + 1]
    <3>1. CASE b = a
      BY <2>1, <2>2, <2>4, <3>1, Zenon
    <3>2. CASE b # a
      BY <1>5, <3>2, Zenon DEF IInv, AgentInv
    <3>. QED BY <3>1, <3>2, ZenonT(30)
  <2>. QED BY <2>2, <2>3, ZenonT(30) DEF AgentInv
<1>7. ASSUME NEW b \in Agents \ {a}, NEW s \in Streams, StreamOK(b, s)
      PROVE  StreamOK(b, s)'
  <2>1. \A c \in Agents : agent'[c].stream = s => c = b
    <3>1. agent'[a].stream = NoStream
      BY <1>5
    <3>2. NoStream \notin Streams
      BY IpAssumption
    <3>3. agent'[a].stream # s
      BY <3>1, <3>2, Zenon
    <3>. QED BY <1>5, <1>7, <3>3, ZenonT(30) DEF StreamOK
  <2>2. UNCHANGED <<clients, stream, period>>
    BY <1>1, Zenon DEF faultVars
  <2>. QED BY <1>2, <1>5, <1>7, <2>1, <2>2, Zenon DEF StreamOK, Run
<1>8. StreamInv'
  <2>1. agent'[a].at # "recv" /\ agent'[a].stream = NoStream /\ \A s \in Streams : agent'[a].stream # s
    BY <1>5, IpAssumption
  <2>. QED BY <1>5, <1>7, <2>1, ZenonT(30) DEF IInv, StreamInv
<1>. QED BY <1>2, <1>4, <1>6, <1>8, Zenon DEF IInv, IpTypeOK

LEMMA RecvErrorInv ==
  ASSUME IInv, NEW a \in Agents, RecvError(a)
  PROVE  IInv'
<1>1. PICK at \in {"list", "watch"} :
        /\ agent' = [agent EXCEPT ![a].stream = NoStream, ![a].at = at]
        /\ UNCHANGED <<podVars, logVars, syncVars, clients, stream, faultVars>>
  BY Zenon DEF RecvError
<1>2. /\ PodTypeOK' /\ LogTypeOK' /\ SyncTypeOK' /\ LogInv' /\ SyncInv'
      /\ UNCHANGED <<Received, revision, states, snapRev, maxSynced, pending, sync>>
  BY <1>1, ServerKept, Zenon
<1>3. AgentTypeOK' /\ ClientTypeOK' /\ ClientInv'
  <2>1. AgentTypeOK'
    BY <1>1, ZenonT(30) DEF IInv, IpTypeOK, AgentTypeOK, faultVars
  <2>. QED BY <1>1, <1>2, <2>1, Zenon DEF IInv, IpTypeOK, ClientTypeOK, ClientInv, ClientOK, Active
<1>4. /\ agent'[a].stream = NoStream /\ agent'[a].at = at /\ agent'[a].period = agent[a].period
      /\ agent'[a].revision = agent[a].revision /\ agent'[a].entries = agent[a].entries
      /\ \A b \in Agents \ {a} : agent'[b] = agent[b]
  BY <1>1, Zenon DEF IInv, IpTypeOK, AgentTypeOK
<1>5. AgentInv'
  <2>1. period' = period /\ states' = states /\ Received' = Received
    BY <1>1, <1>2, Zenon DEF faultVars
  <2>2. ASSUME NEW b \in Agents
        PROVE  /\ agent'[b].period = agent[b].period /\ agent'[b].revision = agent[b].revision
               /\ agent'[b].entries = agent[b].entries
    BY <1>4, ZenonT(30)
  <2>. QED BY <2>1, <2>2, ZenonT(30) DEF IInv, AgentInv
<1>6. ASSUME NEW b \in Agents \ {a}, NEW s \in Streams, StreamOK(b, s)
      PROVE  StreamOK(b, s)'
  <2>1. \A c \in Agents : agent'[c].stream = s => c = b
    BY IpAssumption, <1>4, <1>6, Zenon DEF StreamOK
  <2>2. UNCHANGED <<clients, stream, period>>
    BY <1>1, Zenon DEF faultVars
  <2>. QED BY <1>2, <1>4, <1>6, <2>1, <2>2, Zenon DEF StreamOK, Run
<1>7. StreamInv'
  BY IpAssumption, <1>4, <1>6, Zenon DEF IInv, StreamInv
<1>. QED BY <1>2, <1>3, <1>5, <1>7, Zenon DEF IInv, IpTypeOK

LEMMA MarkClientClosedInv ==
  ASSUME IInv, NEW s \in Streams, MarkClientClosed(s)
  PROVE  IInv'
<1>1. /\ clients' = [clients EXCEPT ![s].closed = TRUE]
      /\ UNCHANGED <<podVars, logVars, syncVars, stream, agent, faultVars>>
  BY Zenon DEF MarkClientClosed
<1>2. /\ PodTypeOK' /\ LogTypeOK' /\ SyncTypeOK' /\ LogInv' /\ SyncInv'
      /\ UNCHANGED <<Received, revision, states, snapRev, maxSynced, pending, sync>>
  BY <1>1, ServerKept, Zenon
<1>3. \A t \in Streams : /\ clients'[t].on <=> clients[t].on
                         /\ clients'[t].revision = clients[t].revision
                         /\ clients'[t].state = clients[t].state
                         /\ Active(t)' => Active(t)
  BY <1>1 DEF IInv, IpTypeOK, ClientTypeOK, Active
<1>4. AgentTypeOK' /\ AgentInv' /\ ClientTypeOK'
  <2>1. AgentTypeOK'
    BY <1>1, Zenon DEF IInv, IpTypeOK, AgentTypeOK, faultVars
  <2>2. AgentInv'
    BY <1>1, <1>2, Zenon DEF IInv, AgentInv, faultVars
  <2>3. ClientTypeOK'
    BY <1>1, ZenonT(30) DEF IInv, IpTypeOK, ClientTypeOK
  <2>. QED BY <2>1, <2>2, <2>3, Zenon
<1>5. ClientInv'
  BY <1>2, <1>3, ZenonT(30) DEF IInv, ClientInv, ClientOK
<1>6. ASSUME NEW b \in Agents, NEW t \in Streams, StreamOK(b, t)
      PROVE  StreamOK(b, t)'
  <2>1. UNCHANGED <<agent, stream, period>>
    BY <1>1, Zenon DEF faultVars
  <2>. QED BY <1>2, <1>3, <1>6, <2>1, Zenon DEF StreamOK, Run
<1>7. StreamInv'
  BY <1>1, <1>6, Zenon DEF IInv, StreamInv
<1>. QED BY <1>2, <1>4, <1>5, <1>7, Zenon DEF IInv, IpTypeOK

LEMMA RestartInv ==
  ASSUME IInv, Restart
  PROVE  IInv'
<1>1. /\ Empty \in Maps /\ states' = <<Empty>> /\ Len(states') = 1 /\ states' \in Seq(Maps) /\ states'[1] = Empty
      /\ revision' = 0 /\ snapRev' = 0 /\ maxSynced' = 0 /\ snap' = Empty
  BY DEF Restart, Empty, Maps
<1>2. /\ handler' = << >> /\ logChan' = << >> /\ log' = << >> /\ pending' = << >> /\ Len(<< >>) = 0
      /\ sync' = Select /\ Received' = 0
  <2>1. handler' = << >> /\ logChan' = << >> /\ log' = << >> /\ pending' = << >> /\ sync' = Select
    BY Zenon DEF Restart
  <2>2. Len(<< >>) = 0
    BY Zenon
  <2>3. Received' = revision' - Len(logChan')
    BY Zenon DEF Received
  <2>4. Len(logChan') = 0
    BY <2>1, <2>2, Zenon
  <2>5. Received' = 0
    BY <1>1, <2>3, <2>4
  <2>. QED BY <2>1, <2>2, <2>5, Zenon
<1>3. /\ pods' = [p \in Pods |-> NoIP] /\ agent' = agent
      /\ clients' = [s \in Streams |-> NoClient] /\ stream' = [s \in Streams |-> Drained("broken")]
      /\ period' = period + 1 /\ faults' = faults + 1 /\ faults < MaxFaults
  BY Zenon DEF Restart
<1>4. PodTypeOK' /\ LogTypeOK' /\ SyncTypeOK'
  <2>1. PodTypeOK'
    BY <1>2, <1>3 DEF PodTypeOK
  <2>2. LogTypeOK'
    BY IpAssumption, <1>1, <1>2, RunEmpty, SMTT(30) DEF LogTypeOK
  <2>3. SyncTypeOK'
    BY IpAssumption, <1>2, SMTT(30) DEF SyncTypeOK, Select
  <2>. QED BY <2>1, <2>2, <2>3, Zenon
<1>5. ClientTypeOK' /\ \A s \in Streams : /\ ~clients'[s].on /\ stream'[s].net = << >> /\ stream'[s].end = "broken"
  <2>. DEFINE u == [ch |-> << >>, shut |-> FALSE, net |-> << >>, end |-> "broken"]
  <2>1. stream' = [s \in Streams |-> u]
    BY <1>3, ZenonT(30) DEF Drained
  <2>2. u \in [ch : Seq(Changes), shut : BOOLEAN, net : Seq(Changes),
              end : {"open", "DataLoss", "InvalidArgument", "broken"}]
        /\ Len(u.ch) = 0 /\ Len(u.net) = 0 /\ u.net = << >> /\ u.end = "broken"
    BY RunEmpty, Zenon
  <2>3. NoClient \in [on : BOOLEAN, revision : 0..MaxRevision,
                     state : {"stale", "blocking", "uptodate"}, closed : BOOLEAN] /\ ~NoClient.on
    BY IpAssumption DEF NoClient
  <2>. HIDE DEF u
  <2>. QED BY IpAssumption, <1>3, <2>1, <2>2, <2>3 DEF ClientTypeOK
<1>6. AgentTypeOK'
  BY IpAssumption, <1>3 DEF IInv, IpTypeOK, AgentTypeOK
<1>7. LogInv'
  <2>1. \A r : RunOf(<< >>, r, revision', states')
    BY RunEmpty, Zenon
  <2>2. Run(logChan, Received)' /\ Run(log, snapRev)' /\ Run(pending, maxSynced)'
    BY <1>2, <2>1, Zenon DEF Run
  <2>. QED BY IpAssumption, <1>1, <1>2, <2>2 DEF LogInv
<1>8. SyncInv' /\ ClientInv'
  <2>1. sync'.at = "select" /\ sync'.todo = {} /\ sync'.cur = NoStream /\ sync'.next = 1
    BY <1>2, ZenonT(30) DEF Select
  <2>2. SyncInv'
    BY <1>2, <2>1 DEF SyncInv
  <2>3. ClientInv'
    BY <1>5, <2>1, Zenon DEF ClientInv, ClientOK, Active
  <2>. QED BY <2>2, <2>3, Zenon
<1>9. StreamInv'
  <2>1. ASSUME NEW a \in Agents, NEW s \in Streams, StreamOK(a, s)
        PROVE  StreamOK(a, s)'
    <3>1. stream'[s].net = << >> /\ stream'[s].end # "open" /\ agent' = agent
      BY <1>3, <1>5, Zenon
    <3>. QED BY <2>1, <3>1, ZenonT(30) DEF StreamOK
  <2>. QED BY <1>3, <2>1, Zenon DEF IInv, StreamInv
<1>10. AgentInv'
  <2>1. ASSUME NEW a \in Agents
        PROVE  agent[a].period <= period' /\ agent[a].period # period'
    <3>1. agent[a].period \in Nat /\ period \in Nat /\ agent[a].period <= period
      BY SMTT(30) DEF IInv, IpTypeOK, AgentTypeOK, AgentInv
    <3>. QED BY <1>3, <3>1, SMTT(30)
  <2>. QED BY <1>3, <2>1, ZenonT(30) DEF AgentInv
<1>. QED BY <1>4, <1>5, <1>6, <1>7, <1>8, <1>9, <1>10, Zenon DEF IInv, IpTypeOK

LEMMA WatchCacheInv ==
  ASSUME IInv, NEW a \in Agents, WatchCache(a)
  PROVE  IInv'
<1>. DEFINE end == IF agent[a].period # period THEN "InvalidArgument"
                   ELSE IF agent[a].revision < snapRev THEN "DataLoss" ELSE "open"
            new == [ch |-> << >>, shut |-> FALSE, net |-> << >>, end |-> end]
            client == [on |-> TRUE, revision |-> agent[a].revision, state |-> "stale", closed |-> FALSE]
<1>1. Registered(agent[a].revision) = client
  BY Zenon DEF Registered
<1>2. PICK s \in Streams :
        /\ Free(s)
        /\ agent' = [agent EXCEPT ![a].at = "recv", ![a].stream = s]
        /\ stream' = [stream EXCEPT ![s] = new]
        /\ clients' = IF end # "open" THEN clients
                      ELSE [clients EXCEPT ![s] = Registered(agent[a].revision)]
        /\ UNCHANGED <<podVars, logVars, syncVars, faultVars>>
  BY Zenon DEF WatchCache, Drained
<1>3. /\ agent' = [agent EXCEPT ![a].at = "recv", ![a].stream = s]
      /\ stream' = [stream EXCEPT ![s] = new]
      /\ clients' = IF end # "open" THEN clients ELSE [clients EXCEPT ![s] = client]
      /\ UNCHANGED <<podVars, logVars, syncVars, faultVars>>
  BY <1>1, <1>2, Zenon
<1>4. /\ PodTypeOK' /\ LogTypeOK' /\ SyncTypeOK' /\ LogInv' /\ SyncInv'
      /\ UNCHANGED <<Received, revision, states, snapRev, maxSynced, pending, sync>>
  BY <1>3, ServerKept, Zenon
<1>5. /\ new \in [ch : Seq(Changes), shut : BOOLEAN, net : Seq(Changes),
                  end : {"open", "DataLoss", "InvalidArgument", "broken"}]
      /\ Len(new.ch) = 0 /\ Len(new.net) = 0 /\ new.ch = << >> /\ new.net = << >> /\ new.end = end
  BY RunEmpty, ZenonT(30)
<1>6. /\ client \in [on : BOOLEAN, revision : 0..MaxRevision,
                     state : {"stale", "blocking", "uptodate"}, closed : BOOLEAN]
      /\ client.on /\ client.revision = agent[a].revision /\ client.state = "stale"
  BY ZenonT(30) DEF IInv, IpTypeOK, AgentTypeOK
<1>7. end = "open" => agent[a].period = period /\ snapRev <= agent[a].revision
  BY DEF IInv, IpTypeOK, AgentTypeOK, LogTypeOK
<1>8. /\ ~clients[s].on /\ \A b \in Agents : agent[b].stream # s
  BY <1>2, Zenon DEF Free, Using
<1>. HIDE DEF end, new, client
<1>9. ClientTypeOK' /\ AgentTypeOK'
  <2>1. AgentTypeOK'
    BY <1>3, ZenonT(30) DEF IInv, IpTypeOK, AgentTypeOK, faultVars
  <2>2. ClientTypeOK'
    BY IpAssumption, <1>3, <1>5, <1>6, SMTT(30) DEF IInv, IpTypeOK, ClientTypeOK
  <2>. QED BY <2>1, <2>2, Zenon
<1>10. /\ agent'[a].at = "recv" /\ agent'[a].stream = s
       /\ \A b \in Agents : /\ agent'[b].period = agent[b].period /\ agent'[b].revision = agent[b].revision
                            /\ agent'[b].entries = agent[b].entries
       /\ \A b \in Agents \ {a} : agent'[b] = agent[b]
  BY <1>3, Zenon DEF IInv, IpTypeOK, AgentTypeOK
<1>11. /\ stream'[s] = new /\ \A t \in Streams \ {s} : stream'[t] = stream[t] /\ clients'[t] = clients[t]
       /\ end # "open" => clients'[s] = clients[s]
       /\ end = "open" => clients'[s] = client
  BY <1>3, Zenon DEF IInv, IpTypeOK, ClientTypeOK
<1>12. AgentInv'
  <2>1. period' = period /\ states' = states /\ Received' = Received
    BY <1>3, <1>4, Zenon DEF faultVars
  <2>. QED BY <1>10, <2>1, Zenon DEF IInv, AgentInv
<1>13. agent[a].period = period => agent[a].revision <= Received
  BY ZenonT(30) DEF IInv, AgentInv
<1>14. ClientInv'
  <2>. SUFFICES ASSUME NEW t \in Streams PROVE ClientOK(t)'
    BY Zenon DEF ClientInv
  <2>1. ClientOK(t)
    BY Zenon DEF IInv, ClientInv
  <2>2. CASE clients'[t] = clients[t]
    BY <1>4, <2>1, <2>2, Zenon DEF ClientOK, Active
  <2>3. CASE t = s /\ end = "open"
    <3>1. s \notin sync.todo
      BY <1>8, <2>1, <2>3, ZenonT(30) DEF ClientOK
    <3>. QED BY <1>4, <1>6, <1>7, <1>11, <1>13, <2>3, <3>1, Zenon DEF ClientOK, Active
  <2>. QED BY <1>11, <2>2, <2>3, Zenon
<1>15. StreamOK(a, s)'
  <2>1. \A b \in Agents : agent'[b].stream = s => b = a
    BY <1>8, <1>10, Zenon
  <2>2. stream'[s].net = << >> /\ stream'[s].ch = << >> /\ stream'[s].end = end
        /\ Len(stream'[s].net) = 0 /\ Len(stream'[s].ch) = 0
    BY <1>5, <1>11, Zenon
  <2>3. end = "open" => agent'[a].period = period' /\ agent'[a].revision <= Received'
    BY <1>3, <1>4, <1>7, <1>10, <1>13, ZenonT(30) DEF faultVars
  <2>4. end = "open" => clients'[s].revision = agent'[a].revision
    BY <1>6, <1>10, <1>11, Zenon
  <2>5. RunOf(<< >>, agent'[a].revision + Len(stream'[s].net), revision', states')
    BY RunEmpty, ZenonT(30)
  <2>6. Run(stream[s].ch, agent[a].revision + Len(stream[s].net))'
    BY <2>2, <2>5, Zenon DEF Run
  <2>7. agent'[a].revision \in Nat
    BY <1>9 DEF AgentTypeOK
  <2>. QED BY <2>1, <2>2, <2>3, <2>4, <2>6, <2>7, SMTT(30) DEF StreamOK
<1>16. ASSUME NEW b \in Agents \ {a}, NEW t \in Streams \ {s}, StreamOK(b, t)
       PROVE  StreamOK(b, t)'
  <2>1. \A c \in Agents : agent'[c].stream = t => c = b
    BY <1>10, <1>16, Zenon DEF StreamOK
  <2>2. stream'[t] = stream[t] /\ clients'[t] = clients[t] /\ agent'[b] = agent[b] /\ period' = period
    BY <1>3, <1>10, <1>11, ZenonT(30) DEF faultVars
  <2>. QED BY <1>4, <1>16, <2>1, <2>2, Zenon DEF StreamOK, Run
<1>17. StreamInv'
  <2>. SUFFICES ASSUME NEW b \in Agents
                PROVE  /\ agent'[b].at = "recv" => agent'[b].stream \in Streams
                       /\ agent'[b].at # "recv" => agent'[b].stream = NoStream
                       /\ \A t \in Streams : agent'[b].stream = t => StreamOK(b, t)'
    BY ZenonT(30) DEF StreamInv
  <2>1. CASE b = a
    BY <1>10, <1>15, <2>1, Zenon
  <2>2. CASE b # a
    BY <1>8, <1>10, <1>16, <2>2, ZenonT(30) DEF IInv, StreamInv
  <2>. QED BY <2>1, <2>2, Zenon
<1>. QED BY <1>4, <1>9, <1>12, <1>14, <1>17, Zenon DEF IInv, IpTypeOK

LEMMA SendInv ==
  ASSUME IInv, NEW s \in Streams, Send(s)
  PROVE  IInv'
<1>. DEFINE old == stream[s]  new == stream'[s]
<1>1. UNCHANGED <<podVars, logVars, syncVars, clients, agent, faultVars>> /\ old.end = "open"
  BY Zenon DEF Send
<1>2. /\ PodTypeOK' /\ LogTypeOK' /\ SyncTypeOK' /\ LogInv' /\ SyncInv'
      /\ UNCHANGED <<Received, revision, states, snapRev, maxSynced, pending, sync>>
  BY <1>1, ServerKept, Zenon
<1>3. /\ old \in [ch : Seq(Changes), shut : BOOLEAN, net : Seq(Changes),
                  end : {"open", "DataLoss", "InvalidArgument", "broken"}]
      /\ Len(old.ch) <= ClientBufferSize /\ Len(old.net) <= NetSize
      /\ Len(old.ch) \in Nat /\ Len(old.net) \in Nat
  BY DEF IInv, IpTypeOK, ClientTypeOK
<1>4. AgentTypeOK' /\ AgentInv'
  <2>1. AgentTypeOK'
    BY <1>1, Zenon DEF IInv, IpTypeOK, AgentTypeOK, faultVars
  <2>2. AgentInv'
    BY <1>1, <1>2, Zenon DEF IInv, AgentInv, faultVars
  <2>. QED BY <2>1, <2>2, ZenonT(30)
<1>5. ClientInv'
  BY <1>1, <1>2, Zenon DEF IInv, ClientInv, ClientOK, Active
<1>6. \A t \in Streams \ {s} : stream'[t] = stream[t]
  BY Zenon DEF Send, IInv, IpTypeOK, ClientTypeOK
<1>7. \/ /\ old.ch # << >> /\ Len(old.net) < NetSize
         /\ new.ch = Tail(old.ch) /\ new.net = Append(old.net, Head(old.ch))
         /\ new.end = "open"
      \/ new.ch = old.ch /\ new.net = old.net /\ new.end = "DataLoss"
  BY DEF Send, IInv, IpTypeOK, ClientTypeOK
<1>8. ClientTypeOK'
  <2>1. CASE /\ old.ch # << >> /\ Len(old.net) < NetSize
             /\ stream' = [stream EXCEPT ![s].ch = Tail(@), ![s].net = Append(@, Head(stream[s].ch))]
    <3>1. /\ Tail(old.ch) \in Seq(Changes) /\ Len(Tail(old.ch)) <= ClientBufferSize
          /\ Append(old.net, Head(old.ch)) \in Seq(Changes) /\ Len(Append(old.net, Head(old.ch))) <= NetSize
      BY IpAssumption, <1>3, <2>1, SMTT(30)
    <3>2. new = [ch |-> Tail(old.ch), shut |-> old.shut, net |-> Append(old.net, Head(old.ch)), end |-> old.end]
      BY <1>3, <2>1, ZenonT(30) DEF IInv, IpTypeOK, ClientTypeOK
    <3>3. stream' = [stream EXCEPT ![s] = new]
      BY <2>1, Zenon DEF IInv, IpTypeOK, ClientTypeOK
    <3>4. /\ new \in [ch : Seq(Changes), shut : BOOLEAN, net : Seq(Changes),
                       end : {"open", "DataLoss", "InvalidArgument", "broken"}]
          /\ Len(new.ch) <= ClientBufferSize /\ Len(new.net) <= NetSize
      BY <1>3, <3>1, <3>2
    <3>. HIDE DEF new
    <3>. QED BY <1>1, <3>3, <3>4, Zenon DEF IInv, IpTypeOK, ClientTypeOK
  <2>2. CASE stream' = [stream EXCEPT ![s].end = "DataLoss"]
    BY <1>1, <2>2, ZenonT(30) DEF IInv, IpTypeOK, ClientTypeOK
  <2>. QED BY <2>1, <2>2, Zenon DEF Send
<1>9. ASSUME NEW a \in Agents, StreamOK(a, s)
      PROVE  StreamOK(a, s)'
  <2>. DEFINE r == agent[a].revision
  <2>1. r \in Nat /\ UNCHANGED <<agent, clients, period>>
    BY <1>1, TypeFacts, ZenonT(30) DEF faultVars
  <2>2. \A b \in Agents : agent'[b].stream = s => b = a
    BY <1>9, <2>1, Zenon DEF StreamOK
  <2>3. /\ agent[a].period = period
        /\ Run(old.ch, r + Len(old.net))
        /\ r + Len(old.net) + Len(old.ch) <= Received
        /\ clients[s].on => clients[s].revision = r + Len(old.net) + Len(old.ch)
        /\ old.net # << >> => Run(old.net, r)
    BY <1>1, <1>9, Zenon DEF StreamOK
  <2>4. CASE /\ old.ch # << >> /\ new.ch = Tail(old.ch) /\ new.net = Append(old.net, Head(old.ch))
             /\ new.end = "open"
    <3>1. RunOf(old.net, r, revision, states)
      BY <2>3, RunEmpty, Zenon DEF Run
    <3>2. r + Len(old.net) \in Nat
      BY <1>3, <2>1
    <3>3. /\ Head(old.ch) \in Changes /\ Head(old.ch).rev = r + Len(old.net) + 1
          /\ Genuine(Head(old.ch), revision, states)
          /\ Tail(old.ch) \in Seq(Changes) /\ Len(Tail(old.ch)) = Len(old.ch) - 1
          /\ RunOf(Tail(old.ch), r + Len(old.net) + 1, revision, states)
      <4>. HIDE DEF r
      <4>. QED BY <1>3, <2>3, <2>4, <3>2, RunTail, ZenonT(30) DEF Run
    <3>4. /\ Append(old.net, Head(old.ch)) \in Seq(Changes)
          /\ Len(Append(old.net, Head(old.ch))) = Len(old.net) + 1
          /\ RunOf(Append(old.net, Head(old.ch)), r, revision, states)
      <4>. HIDE DEF r
      <4>. DEFINE q == old.net  h == Head(old.ch)
      <4>1. r \in Nat /\ q \in Seq(Changes) /\ h \in Changes /\ h.rev = r + Len(q) + 1
        BY <1>3, <2>1, <3>3, ZenonT(30)
      <4>2. RunOf(q, r, revision, states) /\ Genuine(h, revision, states)
        BY <3>1, <3>3, Zenon
      <4>. HIDE DEF q, h
      <4>3. Append(q, h) \in Seq(Changes) /\ Len(Append(q, h)) = Len(q) + 1 /\ RunOf(Append(q, h), r, revision, states)
        BY <4>1, <4>2, RunAppend, Zenon
      <4>. QED BY <4>3, Zenon DEF q, h
    <3>5. Len(new.net) = Len(old.net) + 1 /\ Len(new.ch) = Len(old.ch) - 1
      BY <2>4, <3>3, <3>4, Zenon
    <3>6. r + Len(new.net) = r + Len(old.net) + 1
          /\ r + Len(new.net) + Len(new.ch) = r + Len(old.net) + Len(old.ch)
      <4>1. \A x, y \in Nat : x + (y + 1) = x + y + 1
        BY SMTT(30)
      <4>2. r \in Nat /\ Len(old.net) \in Nat /\ Len(old.ch) \in Nat
        BY <1>3, <2>1, Zenon
      <4>3. r + (Len(old.net) + 1) = r + Len(old.net) + 1
        BY <4>1, <4>2, ZenonT(30)
      <4>4. r + (Len(old.net) + 1) + (Len(old.ch) - 1) = r + Len(old.net) + Len(old.ch)
        <5>. DEFINE n == Len(old.net)  c == Len(old.ch)
        <5>1. r \in Nat /\ n \in Nat /\ c \in Nat
          BY <4>2, Zenon
        <5>2. r + (n + 1) + (c - 1) = r + n + c
          <6>. HIDE DEF r, n, c
          <6>. QED BY <5>1
        <5>. QED BY <5>2, Zenon
      <4>. QED BY <3>5, <4>3, <4>4, Zenon
    <3>7. Run(stream[s].net, agent[a].revision)' /\ Run(stream[s].ch, agent[a].revision + Len(stream[s].net))'
      BY <1>2, <2>1, <2>4, <3>3, <3>4, <3>6, Zenon DEF Run
    <3>8. r + Len(new.net) <= Received /\ r + Len(new.net) + Len(new.ch) <= Received
      <4>1. Len(old.ch) >= 1
        BY <1>3, <2>4
      <4>2. \A x, y, z, w \in Nat : x + y + z <= w /\ z >= 1 => x + y + 1 <= w
        BY SMTT(30)
      <4>3. Received \in Nat
        BY TypeFacts, Zenon
      <4>. HIDE DEF r
      <4>4. r + Len(old.net) + 1 <= Received
        BY <1>3, <2>1, <2>3, <4>1, <4>2, <4>3, Zenon
      <4>. QED BY <2>3, <3>6, <4>4, ZenonT(30)
    <3>. QED BY <1>2, <2>1, <2>2, <2>3, <2>4, <3>6, <3>7, <3>8, Zenon DEF StreamOK
  <2>5. CASE new.ch = old.ch /\ new.net = old.net /\ new.end = "DataLoss"
    BY <1>2, <1>9, <2>1, <2>2, <2>5, Zenon DEF StreamOK, Run
  <2>. QED BY <1>7, <2>4, <2>5, Zenon
<1>10. ASSUME NEW a \in Agents, NEW t \in Streams \ {s}, StreamOK(a, t)
       PROVE  StreamOK(a, t)'
  <2>1. stream'[t] = stream[t] /\ UNCHANGED <<agent, clients, period>>
    BY <1>1, <1>6, Zenon DEF faultVars
  <2>. QED BY <1>2, <1>10, <2>1, Zenon DEF StreamOK, Run
<1>11. StreamInv'
  BY <1>1, <1>9, <1>10, Zenon DEF IInv, StreamInv
<1>. QED BY <1>2, <1>4, <1>5, <1>8, <1>11, Zenon DEF IInv, IpTypeOK

LEMMA BreakInv ==
  ASSUME IInv, NEW s \in Streams, Break(s)
  PROVE  IInv'
<1>1. /\ UNCHANGED <<podVars, logVars, syncVars, clients, agent, period>>
      /\ faults' = faults + 1 /\ faults < MaxFaults
      /\ stream' = [stream EXCEPT ![s].net = << >>, ![s].end = "broken"]
  BY Zenon DEF Break
<1>2. /\ PodTypeOK' /\ LogTypeOK' /\ SyncTypeOK' /\ LogInv' /\ SyncInv'
      /\ UNCHANGED <<Received, revision, states, snapRev, maxSynced, pending, sync>>
  BY <1>1, ServerKept, Zenon
<1>3. AgentTypeOK' /\ AgentInv'
  <2>1. AgentTypeOK'
    BY IpAssumption, <1>1, SMTT(30) DEF IInv, IpTypeOK, AgentTypeOK
  <2>2. AgentInv'
    BY <1>1, <1>2, Zenon DEF IInv, AgentInv
  <2>. QED BY <2>1, <2>2, Zenon
<1>4. ClientInv'
  BY <1>1, <1>2, Zenon DEF IInv, ClientInv, ClientOK, Active
<1>5. /\ stream'[s].net = << >> /\ stream'[s].end = "broken"
      /\ \A t \in Streams \ {s} : stream'[t] = stream[t]
  BY <1>1, Zenon DEF IInv, IpTypeOK, ClientTypeOK
<1>6. ClientTypeOK'
  <2>. DEFINE old == stream[s]  new == stream'[s]
  <2>1. << >> \in Seq(Changes) /\ Len(<< >>) = 0
    BY RunEmpty, ZenonT(30)
  <2>2. /\ old \in [ch : Seq(Changes), shut : BOOLEAN, net : Seq(Changes),
                    end : {"open", "DataLoss", "InvalidArgument", "broken"}]
        /\ Len(old.ch) <= ClientBufferSize
    BY Zenon DEF IInv, IpTypeOK, ClientTypeOK
  <2>3. new = [ch |-> old.ch, shut |-> old.shut, net |-> << >>, end |-> "broken"]
    BY <1>1, <2>2, Zenon DEF IInv, IpTypeOK, ClientTypeOK
  <2>4. stream' = [stream EXCEPT ![s] = new]
    BY <1>1, ZenonT(30) DEF IInv, IpTypeOK, ClientTypeOK
  <2>5. /\ new \in [ch : Seq(Changes), shut : BOOLEAN, net : Seq(Changes),
                    end : {"open", "DataLoss", "InvalidArgument", "broken"}]
        /\ Len(new.ch) <= ClientBufferSize /\ Len(new.net) <= NetSize
    BY IpAssumption, <2>1, <2>2, <2>3
  <2>6. clients' = clients
    BY <1>1, Zenon
  <2>. HIDE DEF new
  <2>. QED BY <2>4, <2>5, <2>6, Zenon DEF IInv, IpTypeOK, ClientTypeOK
<1>7. ASSUME NEW a \in Agents, NEW t \in Streams, StreamOK(a, t)
      PROVE  StreamOK(a, t)'
  BY <1>1, <1>2, <1>5, <1>7, Zenon DEF StreamOK, Run
<1>8. StreamInv'
  BY <1>1, <1>7, Zenon DEF IInv, StreamInv
<1>. QED BY <1>2, <1>3, <1>4, <1>6, <1>8, Zenon DEF IInv, IpTypeOK

LEMMA RecvInv ==
  ASSUME IInv, NEW a \in Agents, Recv(a)
  PROVE  IInv'
<1>1. PICK s \in Streams : s = agent[a].stream /\ stream[s].net # << >>
  BY Zenon DEF Recv, IInv, StreamInv
<1>. DEFINE old == stream[s].net  cl == Head(old)  r == agent[a].revision
<1>2. /\ agent' = [agent EXCEPT ![a].revision = cl.rev, ![a].entries = Apply(@, cl)]
      /\ stream' = [stream EXCEPT ![s].net = Tail(@)]
      /\ UNCHANGED <<podVars, logVars, syncVars, clients, faultVars>>
  BY <1>1, Zenon DEF Recv
<1>3. /\ PodTypeOK' /\ LogTypeOK' /\ SyncTypeOK' /\ LogInv' /\ SyncInv'
      /\ UNCHANGED <<Received, revision, states, snapRev, maxSynced, pending, sync>>
  BY <1>2, ServerKept, ZenonT(30)
<1>4. /\ old \in Seq(Changes) /\ Len(old) <= NetSize /\ Len(old) \in Nat /\ r \in 0..MaxRevision
      /\ Len(stream[s].ch) \in Nat
  BY SMTT(30) DEF IInv, IpTypeOK, ClientTypeOK, AgentTypeOK
<1>5. StreamOK(a, s)
  BY <1>1, Zenon DEF IInv, StreamInv
<1>6. agent[a].period = period /\ RunOf(old, r, revision, states) /\ r + Len(old) <= Received
  BY <1>1, <1>5, ZenonT(30) DEF StreamOK, Run
<1>7. /\ cl \in Changes /\ cl.rev = r + 1 /\ Genuine(cl, revision, states)
      /\ Tail(old) \in Seq(Changes) /\ Len(Tail(old)) = Len(old) - 1
      /\ RunOf(Tail(old), r + 1, revision, states)
  <2>1. old # << >> /\ r \in Nat
    BY <1>1, <1>4, SMTT(30)
  <2>. HIDE DEF old, r
  <2>. QED BY <1>4, <1>6, <2>1, RunTail, ZenonT(30) DEF cl
<1>8. Apply(agent[a].entries, cl) = states[r + 2] /\ states[r + 2] \in Maps
  <2>1. agent[a].entries = states[r + 1]
    BY <1>6, Zenon DEF IInv, AgentInv
  <2>2. cl.rev \in 1..revision /\ states[(r + 1) + 1] = Apply(states[r + 1], cl)
    BY <1>7, Zenon DEF Genuine
  <2>3. (r + 1) + 1 = r + 2 /\ r + 2 \in 1..Len(states)
    <3>0. revision \in Nat /\ Len(states) = revision + 1
      BY TypeFacts, Zenon DEF IInv, LogInv
    <3>1. r + 1 <= revision /\ Len(states) = revision + 1 /\ revision \in Nat
      <4>. HIDE DEF cl, r
      <4>. QED BY <1>7, <2>2, <3>0, SMTT(30)
    <3>2. r \in Nat
      BY <1>4, SMTT(30)
    <3>. HIDE DEF r
    <3>. QED BY <3>1, <3>2, SMTT(30)
  <2>4. states[r + 2] \in Maps
    BY <2>3 DEF IInv, IpTypeOK, LogTypeOK
  <2>. QED BY <2>1, <2>2, <2>3, <2>4, Zenon
<1>9. r + 1 <= Received /\ r + 1 \in 0..MaxRevision
  <2>1. Len(old) >= 1
    BY <1>1, <1>4, SMTT(30)
  <2>2. Received \in Nat /\ Received <= MaxRevision
    BY IpAssumption, TypeFacts DEF IInv, IpTypeOK, LogTypeOK, Received
  <2>. HIDE DEF old, r
  <2>. QED BY IpAssumption, <1>4, <1>6, <2>1, <2>2, SMTT(30)
<1>10. /\ agent'[a].revision = r + 1 /\ agent'[a].entries = states[r + 2]
       /\ agent'[a].period = agent[a].period /\ agent'[a].at = agent[a].at
       /\ \A b \in Agents : agent'[b].stream = agent[b].stream /\ agent'[b].at = agent[b].at
       /\ \A b \in Agents \ {a} : agent'[b] = agent[b]
  BY <1>2, <1>7, <1>8, Zenon DEF IInv, IpTypeOK, AgentTypeOK
<1>11. AgentTypeOK'
  <2>. DEFINE new == agent'[a]
  <2>1. agent' = [agent EXCEPT ![a] = new]
    BY <1>2, Zenon DEF IInv, IpTypeOK, AgentTypeOK
  <2>2. new = [at |-> agent[a].at, period |-> agent[a].period, revision |-> cl.rev,
               entries |-> Apply(agent[a].entries, cl), stream |-> agent[a].stream]
    BY <1>2, Zenon DEF IInv, IpTypeOK, AgentTypeOK
  <2>3. cl.rev \in 0..MaxRevision /\ Apply(agent[a].entries, cl) \in Maps
    BY <1>7, <1>8, <1>9, Zenon
  <2>4. new \in [at : {"list", "watch", "recv"}, period : 0..(MaxFaults + 1),
                revision : 0..MaxRevision, entries : Maps, stream : Streams \cup {NoStream}]
    <3>1. /\ agent[a].at \in {"list", "watch", "recv"} /\ agent[a].period \in 0..(MaxFaults + 1)
          /\ agent[a].stream \in Streams \cup {NoStream}
      BY Zenon DEF IInv, IpTypeOK, AgentTypeOK
    <3>. DEFINE rev == cl.rev  entries == Apply(agent[a].entries, cl)
    <3>2. rev \in 0..MaxRevision /\ entries \in Maps
      BY <2>3, ZenonT(30)
    <3>. HIDE DEF rev, entries
    <3>3. [at |-> agent[a].at, period |-> agent[a].period, revision |-> rev, entries |-> entries,
           stream |-> agent[a].stream]
            \in [at : {"list", "watch", "recv"}, period : 0..(MaxFaults + 1),
                 revision : 0..MaxRevision, entries : Maps, stream : Streams \cup {NoStream}]
      BY <3>1, <3>2, Zenon
    <3>. QED BY <2>2, <3>3, Zenon DEF rev, entries
  <2>5. period' = period /\ faults' = faults
    BY <1>2, ZenonT(30) DEF faultVars
  <2>. HIDE DEF new
  <2>. QED BY <2>1, <2>4, <2>5, Zenon DEF IInv, IpTypeOK, AgentTypeOK
<1>12. AgentInv'
  <2>1. period' = period /\ states' = states /\ Received' = Received /\ (r + 1) + 1 = r + 2
    BY <1>2, <1>3, <1>4, SMTT(30) DEF faultVars
  <2>2. ASSUME NEW b \in Agents
        PROVE  /\ agent'[b].period <= period'
               /\ agent'[b].period = period' => /\ agent'[b].revision <= Received'
                                               /\ agent'[b].entries = states'[agent'[b].revision + 1]
    <3>1. CASE b = a
      <4>. HIDE DEF r
      <4>. QED BY <1>9, <1>10, <2>1, <3>1, Zenon DEF IInv, AgentInv
    <3>2. CASE b # a
      BY <1>10, <2>1, <3>2, Zenon DEF IInv, AgentInv
    <3>. QED BY <3>1, <3>2, Zenon
  <2>. QED BY <2>2, Zenon DEF AgentInv
<1>13. /\ stream'[s].net = Tail(old) /\ stream'[s].ch = stream[s].ch /\ stream'[s].end = stream[s].end
       /\ \A t \in Streams \ {s} : stream'[t] = stream[t]
  BY <1>2, Zenon DEF IInv, IpTypeOK, ClientTypeOK
<1>14. ClientTypeOK'
  <2>. DEFINE new == stream'[s]
  <2>1. Len(Tail(old)) <= NetSize /\ Tail(old) \in Seq(Changes)
    <3>1. Len(old) \in Nat /\ Len(Tail(old)) = Len(old) - 1 /\ Tail(old) \in Seq(Changes)
      BY <1>4, <1>7, Zenon
    <3>2. Len(old) <= NetSize
      BY <1>4, Zenon
    <3>. QED BY IpAssumption, <3>1, <3>2
  <2>2. new = [ch |-> stream[s].ch, shut |-> stream[s].shut, net |-> Tail(old), end |-> stream[s].end]
    BY <1>2, ZenonT(30) DEF IInv, IpTypeOK, ClientTypeOK
  <2>3. stream' = [stream EXCEPT ![s] = new]
    BY <1>2, Zenon DEF IInv, IpTypeOK, ClientTypeOK
  <2>4. /\ new \in [ch : Seq(Changes), shut : BOOLEAN, net : Seq(Changes),
                    end : {"open", "DataLoss", "InvalidArgument", "broken"}]
        /\ Len(new.ch) <= ClientBufferSize /\ Len(new.net) <= NetSize
    <3>1. /\ stream[s].ch \in Seq(Changes) /\ stream[s].shut \in BOOLEAN
          /\ stream[s].end \in {"open", "DataLoss", "InvalidArgument", "broken"}
          /\ Len(stream[s].ch) <= ClientBufferSize
      BY Zenon DEF IInv, IpTypeOK, ClientTypeOK
    <3>. DEFINE rest == Tail(old)
    <3>2. rest \in Seq(Changes) /\ Len(rest) <= NetSize
      BY <2>1, Zenon
    <3>3. new = [ch |-> stream[s].ch, shut |-> stream[s].shut, net |-> rest, end |-> stream[s].end]
      BY <2>2, Zenon
    <3>. HIDE DEF rest
    <3>. QED BY <3>1, <3>2, <3>3
  <2>5. clients' = clients
    BY <1>2, Zenon
  <2>. HIDE DEF new
  <2>. QED BY <2>3, <2>4, <2>5, ZenonT(30) DEF IInv, IpTypeOK, ClientTypeOK
<1>15. ClientInv'
  BY <1>2, <1>3, Zenon DEF IInv, ClientInv, ClientOK, Active
<1>16. StreamOK(a, s)'
  <2>1. \A b \in Agents : agent'[b].stream = s => b = a
    BY <1>5, <1>10, Zenon DEF StreamOK
  <2>2. (r + 1) + Len(Tail(old)) = r + Len(old)
    <3>1. \A x, y \in Nat : (x + 1) + (y - 1) = x + y
      OBVIOUS
    <3>2. r \in Nat
      BY <1>4
    <3>3. (r + 1) + (Len(old) - 1) = r + Len(old)
      BY <1>4, <3>1, <3>2, Zenon
    <3>. QED BY <1>7, <3>3, Zenon
  <2>3. /\ agent'[a].revision + Len(stream'[s].net) = r + Len(old)
        /\ UNCHANGED <<period, revision, states, Received, clients>>
    BY <1>2, <1>3, <1>10, <1>13, <2>2, Zenon DEF faultVars
  <2>4. Run(stream[s].net, agent[a].revision)'
    BY <1>3, <1>7, <1>10, <1>13, Zenon DEF Run
  <2>. HIDE DEF r
  <2>. QED BY <1>5, <1>6, <1>10, <1>13, <2>1, <2>3, <2>4, Zenon DEF StreamOK, Run, r
<1>17. ASSUME NEW b \in Agents \ {a}, NEW t \in Streams \ {s}, StreamOK(b, t)
       PROVE  StreamOK(b, t)'
  <2>1. \A c \in Agents : agent'[c].stream = t => c = b
    BY <1>10, <1>17, ZenonT(30) DEF StreamOK
  <2>2. stream'[t] = stream[t] /\ clients' = clients /\ agent'[b] = agent[b] /\ period' = period
    BY <1>2, <1>10, <1>13, ZenonT(30) DEF faultVars
  <2>. QED BY <1>3, <1>17, <2>1, <2>2, Zenon DEF StreamOK, Run
<1>18. StreamInv'
  <2>. SUFFICES ASSUME NEW b \in Agents
                PROVE  /\ agent'[b].at = "recv" => agent'[b].stream \in Streams
                       /\ agent'[b].at # "recv" => agent'[b].stream = NoStream
                       /\ \A t \in Streams : agent'[b].stream = t => StreamOK(b, t)'
    BY Zenon DEF StreamInv
  <2>1. CASE b = a
    BY <1>1, <1>10, <1>16, <2>1, Zenon DEF IInv, StreamInv
  <2>2. CASE b # a
    <3>1. agent[b].stream # s
      BY <1>5, <2>2, Zenon DEF StreamOK
    <3>. QED BY <1>10, <1>17, <2>2, <3>1, Zenon DEF IInv, StreamInv
  <2>. QED BY <2>1, <2>2, Zenon
<1>. QED BY <1>3, <1>11, <1>12, <1>14, <1>15, <1>18, Zenon DEF IInv, IpTypeOK
-----------------------------------------------------------------------------
\* The invariant is inductive.
LEMMA NextInv ==
  ASSUME IInv, [Next]_vars
  PROVE  IInv'
<1>1. ASSUME NEW p \in Pods, NEW ip \in IPs \cup {NoIP}, OnPod(p, ip) PROVE IInv'
  BY <1>1, OnPodInv, Zenon
<1>2. CASE LogChange
  BY <1>2, LogChangeInv, Zenon
<1>3. CASE SyncStep
  BY Zenon, <1>3, ReceiveInv, CompactInv, CompactDoneInv, TickInv, FlushInv, FlushDoneInv, CatchUpInv,
     CatchUpDoneInv DEF SyncStep
<1>4. ASSUME NEW s \in Streams, Send(s) \/ Break(s) \/ MarkClientClosed(s) PROVE IInv'
  BY <1>4, SendInv, BreakInv, MarkClientClosedInv, Zenon
<1>5. ASSUME NEW a \in Agents, AgentStep(a) PROVE IInv'
  BY <1>5, ListCacheInv, WatchCacheInv, RecvInv, RecvErrorInv, Zenon DEF AgentStep
<1>6. CASE Restart
  BY <1>6, RestartInv, Zenon
<1>7. CASE UNCHANGED vars
  <2>1. /\ UNCHANGED <<podVars, logVars, syncVars>>
        /\ UNCHANGED <<clients, stream, agent, period, faults>>
    BY <1>7, Zenon DEF vars, faultVars
  <2>2. /\ PodTypeOK' /\ LogTypeOK' /\ SyncTypeOK' /\ LogInv' /\ SyncInv'
        /\ UNCHANGED <<Received, revision, states, snapRev, maxSynced, pending, sync>>
    BY <2>1, ServerKept, Zenon
  <2>3. ClientTypeOK' /\ AgentTypeOK'
    BY <2>1, Zenon DEF IInv, IpTypeOK, ClientTypeOK, AgentTypeOK
  <2>4. ClientInv' /\ AgentInv'
    BY <2>1, <2>2, Zenon DEF IInv, ClientInv, ClientOK, Active, AgentInv
  <2>5. StreamInv'
    BY <2>1, <2>2, ZenonT(30) DEF IInv, StreamInv, StreamOK, Run
  <2>. QED BY <2>2, <2>3, <2>4, <2>5, Zenon DEF IInv, IpTypeOK
<1>. QED BY <1>1, <1>2, <1>3, <1>4, <1>5, <1>6, <1>7, Zenon DEF Next

LEMMA AlwaysInv == Spec => []IInv
<1>1. Init => IInv
  BY InitInv, Zenon
<1>2. IInv /\ [Next]_vars => IInv'
  BY NextInv, Zenon
<1>. QED BY <1>1, <1>2, PTL DEF Spec

\* Every variable keeps to its type and every channel to its capacity: logChange waits for
\* room, and syncControl and WatchCache only push where there is some.
THEOREM IpTypes == Spec => []IpTypeOK
<1>1. IInv => IpTypeOK
  BY Zenon DEF IInv
<1>. QED BY <1>1, AlwaysInv, PTL

\* Whatever the number of agents, the sizes of the buffers and the mix of snapshots,
\* batches, broken streams and restarts, an agent that listed in this period holds the
\* controller's map of its revision.
THEOREM ReplicasArePrefixes == Spec => []ReplicaIsPrefix
<1>1. IInv => ReplicaIsPrefix
  <2>. SUFFICES ASSUME IInv, NEW a \in Agents, agent[a].period = period
                PROVE  agent[a].revision <= revision /\ agent[a].entries = states[agent[a].revision + 1]
    BY Zenon DEF ReplicaIsPrefix
  <2>1. agent[a].revision <= Received /\ agent[a].entries = states[agent[a].revision + 1]
    BY Zenon DEF IInv, AgentInv
  <2>2. Received \in Nat /\ Received <= revision /\ revision \in Nat /\ agent[a].revision \in Nat
    BY TypeFacts, Zenon
  <2>. QED BY <2>1, <2>2
<1>. QED BY <1>1, AlwaysInv, PTL

\* syncUpToDateClients cannot panic: every client it turns to stands where the last flush
\* ended.
THEOREM NeverPanics == Spec => []NoPanic
<1>1. IInv => NoPanic
  <2>. SUFFICES ASSUME IInv, sync.at = "flush", NEW s \in sync.todo, s # sync.cur
                PROVE  clients[s].revision = maxSynced
    BY Zenon DEF NoPanic
  <2>1. s \in Streams
    BY Zenon DEF IInv, IpTypeOK, SyncTypeOK
  <2>. QED BY <2>1, ZenonT(30) DEF IInv, ClientInv, ClientOK
<1>. QED BY <1>1, AlwaysInv, PTL

\* The branch of syncOne marked "impossible" is never taken.
THEOREM CatchUpNeverPasses == Spec => []CatchUpEndsAtSynced
<1>1. IInv => CatchUpEndsAtSynced
  <2>. SUFFICES ASSUME IInv, sync.at = "catchup", NEW i \in 1..Len(log)
                PROVE  log[i].rev <= maxSynced
    BY Zenon DEF CatchUpEndsAtSynced
  <2>1. pending = << >> /\ Len(pending) = 0
    BY Zenon DEF IInv, SyncInv
  <2>2. log[i].rev = snapRev + i
    BY ZenonT(30) DEF IInv, LogInv, Run, RunOf
  <2>3. maxSynced = snapRev + Len(log) /\ snapRev \in Nat /\ Len(log) \in Nat
    BY <2>1, TypeFacts
  <2>. QED BY <2>2, <2>3
<1>. QED BY <1>1, AlwaysInv, PTL

\* Only ListCache takes an agent back or lets it skip a change; every message that Recv
\* delivers is the very next one.
THEOREM OnlyListsGoBack == Spec => BackOnlyByList
<1>. DEFINE A == \A a \in Agents : agent[a].at # "list" =>
                   agent'[a].revision \in {agent[a].revision, agent[a].revision + 1}
<1>1. IInv /\ [Next]_vars => [A]_vars
  <2>. SUFFICES ASSUME IInv, Next PROVE A
    BY Zenon
  <2>. SUFFICES ASSUME NEW a \in Agents, agent[a].at # "list"
                PROVE  agent'[a].revision \in {agent[a].revision, agent[a].revision + 1}
    BY Zenon
  <2>1. CASE agent'[a] = agent[a]
    BY <2>1, Zenon
  <2>2. CASE WatchCache(a) \/ RecvError(a)
    BY <2>2 DEF WatchCache, RecvError, IInv, IpTypeOK, AgentTypeOK
  <2>3. CASE Recv(a)
    <3>1. PICK s \in Streams : s = agent[a].stream /\ stream[s].net # << >>
      BY <2>3, Zenon DEF Recv, IInv, StreamInv
    <3>2. agent'[a].revision = Head(stream[s].net).rev
      BY <2>3, <3>1, Zenon DEF Recv, IInv, IpTypeOK, AgentTypeOK
    <3>3. RunOf(stream[s].net, agent[a].revision, revision, states)
      BY <3>1, Zenon DEF IInv, StreamInv, StreamOK, Run
    <3>4. stream[s].net \in Seq(Changes) /\ agent[a].revision \in Nat
      BY TypeFacts, Zenon
    <3>5. Head(stream[s].net).rev = agent[a].revision + 1
      BY <3>1, <3>3, <3>4, RunTail, ZenonT(30)
    <3>. QED BY <3>2, <3>5, Zenon
  <2>4. ASSUME NEW b \in Agents \ {a}, AgentStep(b) PROVE agent'[a] = agent[a]
    BY <2>4, Zenon DEF AgentStep, ListCache, WatchCache, Recv, RecvError, IInv, IpTypeOK, AgentTypeOK
  <2>5. CASE LogChange \/ SyncStep \/ Restart
    BY <2>1, <2>5, Zenon DEF LogChange, SyncStep, Receive, Compact, CompactDone, Tick, FlushDone, CatchUpDone, Flush, CatchUp, Restart
  <2>6. ASSUME NEW p \in Pods, NEW ip \in IPs \cup {NoIP}, OnPod(p, ip) PROVE agent' = agent
    BY <2>6, Zenon DEF OnPod
  <2>7. ASSUME NEW s \in Streams, Send(s) \/ Break(s) \/ MarkClientClosed(s) PROVE agent' = agent
    BY <2>7, ZenonT(30) DEF Send, Break, MarkClientClosed
  <2>8. ~ListCache(a)
    BY Zenon DEF ListCache
  <2>. HIDE DEF A
  <2>. QED BY <2>1, <2>2, <2>3, <2>4, <2>5, <2>6, <2>7, <2>8, Zenon DEF Next, AgentStep
<1>2. Spec => [][A]_vars
  BY <1>1, AlwaysInv, PTL DEF Spec
<1>. QED BY <1>2, Zenon DEF BackOnlyByList
=============================================================================
