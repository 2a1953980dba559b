------------------------------ MODULE IpCache -------------------------------
(***************************************************************************)
(* The controller's map from IP addresses to pods and nodes                *)
(* (pkg/controller/ipcache) and the agents that keep a copy of it          *)
(* (task-agent syncIPCache, nettop IPCache).                               *)
(*                                                                         *)
(* Informer handlers number the changes and push them to logChan.  One     *)
(* goroutine, syncControl, appends them to the log, forwards them to the   *)
(* clients' channels in batches and folds the head of the log into the     *)
(* snapshot once every client has it.  A WatchCache goroutine per stream   *)
(* sends on what its channel holds.  An agent lists the snapshot, watches  *)
(* from its revision, and after an error watches again from where it is,   *)
(* or lists again when the controller tells it that its revision is gone.  *)
(***************************************************************************)
EXTENDS Naturals, Sequences

CONSTANTS Pods, IPs, NoPod, NoIP,
          Homes,                \* <<pod, address>> pairs the network can assign
          Agents, Streams, NoStream,
          MaxSyncBatchSize, CompactThreshold, MaxRetainedLogEntries,
          ClientBufferSize, LogBufferSize,
          NetSize,              \* messages a connection holds
          MaxRevision,          \* bounds: changes, and restarts plus broken connections
          MaxFaults

ASSUME IpAssumption ==
  /\ NoStream \notin Streams
  /\ MaxSyncBatchSize \in Nat /\ CompactThreshold \in Nat /\ MaxRetainedLogEntries \in Nat
  /\ ClientBufferSize \in Nat /\ LogBufferSize \in Nat /\ NetSize \in Nat
  /\ MaxRevision \in Nat /\ MaxFaults \in Nat

VARIABLES pods,       \* [Pods -> the address the informer last reported, or NoIP]
          handler,    \* changes the running informer handler has still to log
          revision, logChan, log,
          snapRev, snap,          \* the snapshot's revision and entries
          states,                 \* history: states[r + 1] is the map after r changes
          pending, maxSynced,     \* pendingLogs, maxSyncedRevision
          sync,                   \* where syncControl is
          clients,                \* [Streams -> [on, revision, state, closed]]
          stream,                 \* [Streams -> [ch, shut, net, end]]
          agent,                  \* [Agents -> [at, period, revision, entries, stream]]
          period, faults

podVars    == <<pods, handler>>
logVars    == <<revision, logChan, states>>
syncVars   == <<log, snapRev, snap, pending, maxSynced, sync>>
faultVars  == <<period, faults>>
vars == <<podVars, logVars, syncVars, clients, stream, agent, faultVars>>

Empty == [ip \in IPs |-> NoPod]

\* apply, and ApplyIPCacheChange on the agent.
Apply(m, cl) == [m EXCEPT ![cl.ip] = IF cl.op = "Set" THEN cl.pod ELSE NoPod]

Select == [at |-> "select", todo |-> {}, cur |-> NoStream, next |-> 1, tick |-> FALSE]
NoClient == [on |-> FALSE, revision |-> 0, state |-> "stale", closed |-> FALSE]
Registered(rev) == [on |-> TRUE, revision |-> rev, state |-> "stale", closed |-> FALSE]
Drained(end) == [ch |-> << >>, shut |-> FALSE, net |-> << >>, end |-> end]

Init ==
  /\ pods = [p \in Pods |-> NoIP] /\ handler = << >>
  /\ revision = 0 /\ logChan = << >> /\ log = << >> /\ states = <<Empty>>
  /\ snapRev = 0 /\ snap = Empty /\ pending = << >> /\ maxSynced = 0 /\ sync = Select
  /\ clients = [s \in Streams |-> NoClient] /\ stream = [s \in Streams |-> Drained("open")]
  /\ agent = [a \in Agents |-> [at |-> "list", period |-> 0, revision |-> 0,
                                entries |-> Empty, stream |-> NoStream]]
  /\ period = 1 /\ faults = 0
-----------------------------------------------------------------------------
(* The informer handlers. *)

Del(p, ip) == IF ip = NoIP THEN << >> ELSE <<[op |-> "Del", ip |-> ip, pod |-> p]>>
Set(p, ip) == IF ip = NoIP THEN << >> ELSE <<[op |-> "Set", ip |-> ip, pod |-> p]>>

\* onAddPod, onDeletePod, onUpdatePod and the same three for nodes: a pod that had no
\* address before is added, one that has none now is deleted, and one whose address
\* changed is deleted under the old one and set under the new one.
OnPod(p, ip) ==
  /\ handler = << >> /\ ip # pods[p] /\ (ip = NoIP \/ <<p, ip>> \in Homes)
  /\ revision + Len(Del(p, pods[p]) \o Set(p, ip)) <= MaxRevision
  /\ pods' = [pods EXCEPT ![p] = ip]
  /\ handler' = Del(p, pods[p]) \o Set(p, ip)
  /\ UNCHANGED <<logVars, syncVars, clients, stream, agent, faultVars>>

\* logChange, one entry: it waits while logChan is full.
LogChange ==
  /\ handler # << >> /\ Len(logChan) < LogBufferSize
  /\ LET h  == Head(handler)
         cl == [rev |-> revision + 1, op |-> h.op, ip |-> h.ip, pod |-> h.pod] IN
     /\ logChan' = Append(logChan, cl)
     /\ states' = Append(states, Apply(states[revision + 1], cl))
  /\ revision' = revision + 1
  /\ handler' = Tail(handler)
  /\ UNCHANGED <<pods, syncVars, clients, stream, agent, faultVars>>
-----------------------------------------------------------------------------
(* syncControl. *)

Active(s) == clients[s].on /\ ~clients[s].closed

\* A revision is at most compactLog's minRevision when every active client has it.
HaveAll(rev) == \A s \in Streams : Active(s) => rev <= clients[s].revision

\* closeBackpressuredClients
Backpressured(s) == clients[s].state = "blocking" /\ Len(stream[s].ch) = ClientBufferSize

\* case cl := <-s.logChan, up to compactLog, whose loop is Compact.
Receive ==
  /\ sync.at = "select" /\ logChan # << >>
  /\ logChan' = Tail(logChan)
  /\ log' = Append(log, Head(logChan))
  /\ pending' = Append(pending, Head(logChan))
  /\ clients' = IF Len(log) + 1 > MaxRetainedLogEntries
                THEN [s \in Streams |-> [clients[s] EXCEPT !.closed = @ \/ (clients[s].on /\ Backpressured(s))]]
                ELSE clients
  /\ sync' = [Select EXCEPT !.at = IF Len(log) + 1 > CompactThreshold THEN "compact" ELSE "batch"]
  /\ UNCHANGED <<podVars, revision, states, snapRev, snap, maxSynced, stream, agent, faultVars>>

\* One round of compactLog's loop.  It holds clientsLock and the snapshot's lock all along,
\* so minRevision stays what it was.
Compacting == sync.at = "compact" /\ log # << >> /\ HaveAll(Head(log).rev)

Compact ==
  /\ Compacting
  /\ snap' = Apply(snap, Head(log))
  /\ snapRev' = Head(log).rev
  /\ log' = Tail(log)
  /\ UNCHANGED <<podVars, logVars, pending, maxSynced, sync, clients, stream, agent, faultVars>>

\* copyClients: closed clients leave the list and their channels are closed; the others
\* in one of the wanted states are returned.
CopyClients(wanted, at, tick) ==
  /\ clients' = [s \in Streams |-> IF clients[s].on /\ clients[s].closed THEN NoClient ELSE clients[s]]
  /\ stream' = [s \in Streams |-> IF clients[s].on /\ clients[s].closed
                                  THEN [stream[s] EXCEPT !.shut = TRUE] ELSE stream[s]]
  /\ sync' = [Select EXCEPT !.at = at, !.tick = tick,
                            !.todo = {s \in Streams : Active(s) /\ clients[s].state \in wanted}]

CompactDone ==
  /\ sync.at \in {"compact", "batch"} /\ ~Compacting
  /\ IF Len(pending) > MaxSyncBatchSize
     THEN CopyClients({"uptodate"}, "flush", FALSE)
     ELSE sync' = Select /\ UNCHANGED <<clients, stream>>
  /\ UNCHANGED <<podVars, logVars, log, snapRev, snap, pending, maxSynced, agent, faultVars>>

\* case <-ticker.C: flush what is pending first.
Tick ==
  /\ sync.at = "select"
  /\ IF pending # << >> THEN CopyClients({"uptodate"}, "flush", TRUE)
                        ELSE CopyClients({"stale", "blocking"}, "catchup", TRUE)
  /\ UNCHANGED <<podVars, logVars, log, snapRev, snap, pending, maxSynced, agent, faultVars>>

Turn(s) == s \in sync.todo /\ sync.cur \in {s, NoStream}
Room(s) == Len(stream[s].ch) < ClientBufferSize
Push(s, cl) == stream' = [stream EXCEPT ![s].ch = Append(@, cl)]
NextClient(s) == [sync EXCEPT !.todo = @ \ {s}, !.cur = NoStream, !.next = 1]

\* Mutant: a client with a full channel stays up to date.
FlushKeepsState(s) ==
  /\ sync.at = "flush" /\ Turn(s)
  /\ LET cl == pending[sync.next] IN
     \/ /\ Room(s) /\ Push(s, cl)
        /\ clients' = [clients EXCEPT ![s].revision = cl.rev]
        /\ sync' = IF sync.next = Len(pending) THEN NextClient(s)
                   ELSE [sync EXCEPT !.cur = s, !.next = @ + 1]
     \/ /\ ~Room(s)
        /\ UNCHANGED clients
        /\ sync' = NextClient(s)
        /\ UNCHANGED stream
  /\ UNCHANGED <<podVars, logVars, log, snapRev, snap, pending, maxSynced, agent, faultVars>>

\* One round of syncOneUpdateToDateClient's loop.
Flush(s) ==
  /\ sync.at = "flush" /\ Turn(s)
  /\ LET cl == pending[sync.next] IN
     \/ /\ Room(s) /\ Push(s, cl)
        /\ clients' = [clients EXCEPT ![s].revision = cl.rev]
        /\ sync' = IF sync.next = Len(pending) THEN NextClient(s)
                   ELSE [sync EXCEPT !.cur = s, !.next = @ + 1]
     \/ /\ ~Room(s)
        /\ clients' = [clients EXCEPT ![s].state = "blocking"]
        /\ sync' = NextClient(s)
        /\ UNCHANGED stream
  /\ UNCHANGED <<podVars, logVars, log, snapRev, snap, pending, maxSynced, agent, faultVars>>

FlushDone ==
  /\ sync.at = "flush" /\ sync.todo = {}
  /\ maxSynced' = pending[Len(pending)].rev
  /\ pending' = << >>
  /\ IF sync.tick THEN CopyClients({"stale", "blocking"}, "catchup", TRUE)
                  ELSE sync' = Select /\ UNCHANGED <<clients, stream>>
  /\ UNCHANGED <<podVars, logVars, log, snapRev, snap, agent, faultVars>>

\* findNext's binary search; 0 stands for -1.
findNext(slice, target) ==
  LET n == Len(slice)
      go[start \in 1..(n + 1), end \in 0..n, ret \in 0..n] ==
        LET mid == (start + end) \div 2 IN
        IF start > end THEN ret
        ELSE IF slice[mid].rev <= target THEN go[mid + 1, end, ret] ELSE go[start, mid - 1, mid]
  IN go[1, n, 0]

\* What the search is for (FindNextAgrees in MCIpCache): the first index whose revision is above target, or 0 for -1.
FindNext(slice, target) ==
  IF \E i \in 1..Len(slice) : slice[i].rev > target
  THEN CHOOSE i \in 1..Len(slice) :
         slice[i].rev > target /\ \A j \in 1..(i - 1) : slice[j].rev <= target
  ELSE 0

\* One round of syncOne's loop.
CatchUp(s) ==
  /\ sync.at = "catchup" /\ Turn(s)
  /\ LET i == FindNext(log, clients[s].revision) IN
     \/ /\ i = 0
        /\ sync' = NextClient(s)
        /\ UNCHANGED <<clients, stream>>
     \/ /\ i # 0 /\ ~Room(s)
        /\ clients' = [clients EXCEPT ![s].state = "blocking"]
        /\ sync' = NextClient(s)
        /\ UNCHANGED stream
     \/ /\ i # 0 /\ Room(s) /\ Push(s, log[i])
        /\ clients' = [clients EXCEPT ![s].revision = log[i].rev,
                                      ![s].state = IF log[i].rev = maxSynced THEN "uptodate"
                                                   ELSE IF log[i].rev > maxSynced THEN "stale" ELSE @]
        /\ sync' = IF log[i].rev >= maxSynced THEN NextClient(s) ELSE [sync EXCEPT !.cur = s]
  /\ UNCHANGED <<podVars, logVars, log, snapRev, snap, pending, maxSynced, agent, faultVars>>

CatchUpDone ==
  /\ sync.at = "catchup" /\ sync.todo = {}
  /\ sync' = [Select EXCEPT !.at = "compact"]
  /\ UNCHANGED <<podVars, logVars, log, snapRev, snap, pending, maxSynced, clients, stream, agent, faultVars>>

Locked == sync.at = "compact"
-----------------------------------------------------------------------------
(* ListCache and WatchCache, and the agents. *)

Using(s) == {a \in Agents : agent[a].stream = s}

\* reconn with relist: ListCache and UpdateIPCache.
ListCache(a) ==
  /\ agent[a].at = "list" /\ ~Locked
  /\ agent' = [agent EXCEPT ![a] = [at |-> "watch", period |-> period, revision |-> snapRev,
                                    entries |-> snap, stream |-> NoStream]]
  /\ UNCHANGED <<podVars, logVars, syncVars, clients, stream, faultVars>>

\* The call of WatchCache, refused or registered.  It takes a stream nobody uses.
Free(s) == ~clients[s].on /\ Using(s) = {}

\* Mutant: WatchCache accepts a revision the log no longer reaches.
WatchCacheFromAnywhere(a) ==
  /\ agent[a].at = "watch" /\ ~Locked /\ \E s \in Streams : Free(s)
  /\ LET s == CHOOSE t \in Streams : Free(t)
         refusal == IF agent[a].period # period THEN "InvalidArgument" ELSE "open" IN
     /\ agent' = [agent EXCEPT ![a].at = "recv", ![a].stream = s]
     /\ stream' = [stream EXCEPT ![s] = Drained(refusal)]
     /\ clients' = IF refusal # "open" THEN clients
                   ELSE [clients EXCEPT ![s] = Registered(agent[a].revision)]
  /\ UNCHANGED <<podVars, logVars, syncVars, faultVars>>

WatchCache(a) ==
  /\ agent[a].at = "watch" /\ ~Locked /\ \E s \in Streams : Free(s)
  /\ LET s == CHOOSE t \in Streams : Free(t)
         refusal == IF agent[a].period # period THEN "InvalidArgument"
                    ELSE IF agent[a].revision < snapRev THEN "DataLoss" ELSE "open" IN
     /\ agent' = [agent EXCEPT ![a].at = "recv", ![a].stream = s]
     /\ stream' = [stream EXCEPT ![s] = Drained(refusal)]
     /\ clients' = IF refusal # "open" THEN clients
                   ELSE [clients EXCEPT ![s] = Registered(agent[a].revision)]
  /\ UNCHANGED <<podVars, logVars, syncVars, faultVars>>

\* WatchCache's loop: send on what the channel holds; a closed and empty channel is the
\* end of the stream.
Send(s) ==
  /\ stream[s].end = "open"
  /\ \/ /\ stream[s].ch # << >> /\ Len(stream[s].net) < NetSize
        /\ stream' = [stream EXCEPT ![s].ch = Tail(@), ![s].net = Append(@, Head(stream[s].ch))]
     \/ /\ stream[s].ch = << >> /\ stream[s].shut
        /\ stream' = [stream EXCEPT ![s].end = "DataLoss"]
  /\ UNCHANGED <<podVars, logVars, syncVars, clients, agent, faultVars>>

\* The connection breaks; what it held is lost.
Break(s) ==
  /\ Using(s) # {} /\ stream[s].end = "open" /\ faults < MaxFaults
  /\ faults' = faults + 1
  /\ stream' = [stream EXCEPT ![s].net = << >>, ![s].end = "broken"]
  /\ UNCHANGED <<podVars, logVars, syncVars, clients, agent, period>>

\* The server's side learns of it: markClientClosed.
MarkClientClosed(s) ==
  /\ stream[s].end = "broken" /\ Active(s) /\ ~Locked
  /\ clients' = [clients EXCEPT ![s].closed = TRUE]
  /\ UNCHANGED <<podVars, logVars, syncVars, stream, agent, faultVars>>

\* Recv and ApplyIPCacheChange.
Recv(a) ==
  /\ agent[a].at = "recv" /\ stream[agent[a].stream].net # << >>
  /\ LET s == agent[a].stream  cl == Head(stream[s].net) IN
     /\ agent' = [agent EXCEPT ![a].revision = cl.rev, ![a].entries = Apply(@, cl)]
     /\ stream' = [stream EXCEPT ![s].net = Tail(@)]
  /\ UNCHANGED <<podVars, logVars, syncVars, clients, faultVars>>

\* Mutant: the agent never lists again.
RecvErrorKeepsCopy(a) ==
  /\ agent[a].at = "recv"
  /\ LET s == agent[a].stream IN
     /\ stream[s].net = << >> /\ stream[s].end # "open"
     /\ agent' = [agent EXCEPT ![a].stream = NoStream,
                    ![a].at = "watch"]
  /\ UNCHANGED <<podVars, logVars, syncVars, clients, stream, faultVars>>

\* Recv fails: DataLoss and InvalidArgument ask for a new list.
RecvError(a) ==
  /\ agent[a].at = "recv"
  /\ LET s == agent[a].stream IN
     /\ stream[s].net = << >> /\ stream[s].end # "open"
     /\ agent' = [agent EXCEPT ![a].stream = NoStream,
                    ![a].at = IF stream[s].end \in {"DataLoss", "InvalidArgument"} THEN "list" ELSE "watch"]
  /\ UNCHANGED <<podVars, logVars, syncVars, clients, stream, faultVars>>

\* The controller starts again: a new period, nothing logged, and the informers report
\* every pod afresh.
Restart ==
  /\ faults < MaxFaults
  /\ faults' = faults + 1 /\ period' = period + 1
  /\ pods' = [p \in Pods |-> NoIP] /\ handler' = << >>
  /\ revision' = 0 /\ logChan' = << >> /\ log' = << >> /\ states' = <<Empty>>
  /\ snapRev' = 0 /\ snap' = Empty /\ pending' = << >> /\ maxSynced' = 0 /\ sync' = Select
  /\ clients' = [s \in Streams |-> NoClient]
  /\ stream' = [s \in Streams |-> Drained("broken")]
  /\ UNCHANGED agent

SyncStep == \/ Receive \/ Compact \/ CompactDone \/ Tick \/ FlushDone \/ CatchUpDone
            \/ \E s \in Streams : Flush(s) \/ CatchUp(s)

AgentStep(a) == ListCache(a) \/ WatchCache(a) \/ Recv(a) \/ RecvError(a)

Next == \/ \E p \in Pods, ip \in IPs \cup {NoIP} : OnPod(p, ip)
        \/ LogChange
        \/ SyncStep
        \/ \E s \in Streams : Send(s) \/ Break(s) \/ MarkClientClosed(s)
        \/ \E a \in Agents : AgentStep(a)
        \/ Restart

Spec == Init /\ [][Next]_vars

\* Goroutines run, Go's select takes a ready case sooner or later, and a mutex is
\* handed to whoever waits for it.
Fairness ==
  /\ WF_vars(LogChange) /\ WF_vars(SyncStep) /\ SF_vars(Receive)
  /\ WF_vars(\E s \in Streams : Send(s)) /\ SF_vars(\E s \in Streams : MarkClientClosed(s))
  /\ \A a \in Agents : SF_vars(AgentStep(a))

FairSpec == Spec /\ Fairness
-----------------------------------------------------------------------------
Changes == [rev : 1..MaxRevision, op : {"Set", "Del"}, ip : IPs, pod : Pods]
Entries == [op : {"Set", "Del"}, ip : IPs, pod : Pods]
Maps == [IPs -> Pods \cup {NoPod}]

PodTypeOK ==
  /\ pods \in [Pods -> IPs \cup {NoIP}]
  /\ handler \in Seq(Entries)

LogTypeOK ==
  /\ revision \in 0..MaxRevision /\ snapRev \in 0..MaxRevision /\ maxSynced \in 0..MaxRevision
  /\ logChan \in Seq(Changes) /\ Len(logChan) <= LogBufferSize
  /\ log \in Seq(Changes) /\ pending \in Seq(Changes) /\ snap \in Maps /\ states \in Seq(Maps)

SyncTypeOK ==
  sync \in [at : {"select", "compact", "batch", "flush", "catchup"}, todo : SUBSET Streams,
            cur : Streams \cup {NoStream}, next : 1..(MaxRevision + 1), tick : BOOLEAN]

ClientTypeOK ==
  /\ clients \in [Streams -> [on : BOOLEAN, revision : 0..MaxRevision,
                              state : {"stale", "blocking", "uptodate"}, closed : BOOLEAN]]
  /\ stream \in [Streams -> [ch : Seq(Changes), shut : BOOLEAN, net : Seq(Changes),
                             end : {"open", "DataLoss", "InvalidArgument", "broken"}]]
  /\ \A s \in Streams : Len(stream[s].ch) <= ClientBufferSize /\ Len(stream[s].net) <= NetSize

AgentTypeOK ==
  /\ agent \in [Agents -> [at : {"list", "watch", "recv"}, period : 0..(MaxFaults + 1),
                           revision : 0..MaxRevision, entries : Maps, stream : Streams \cup {NoStream}]]
  /\ period \in 1..(MaxFaults + 1) /\ faults \in 0..MaxFaults /\ period <= faults + 1

\* Every variable keeps to the values its Go type and the buffers allow.
IpTypeOK == PodTypeOK /\ LogTypeOK /\ SyncTypeOK /\ ClientTypeOK /\ AgentTypeOK

\* An agent's copy is the controller's map as it was at the agent's revision: no change is
\* lost, applied twice or applied out of order, whatever mix of snapshot, log, batches,
\* full channels, broken streams and new lists (syncOne, compactLog, WatchCache and
\* syncIPCache) brought the agent there.
ReplicaIsPrefix ==
  \A a \in Agents : agent[a].period = period =>
     /\ agent[a].revision <= revision
     /\ agent[a].entries = states[agent[a].revision + 1]

\* syncUpToDateClients never meets the client it panics on: when a client's turn comes it
\* stands exactly where the last flush ended.
NoPanic ==
  sync.at = "flush" => \A s \in sync.todo : s # sync.cur => clients[s].revision = maxSynced

\* The branch of syncOne marked "impossible" is: while clients catch up, the log holds
\* nothing newer than what the up-to-date clients have.
CatchUpEndsAtSynced == sync.at = "catchup" => \A i \in 1..Len(log) : log[i].rev <= maxSynced

\* An agent's revision only goes back, and its copy only jumps, when it takes a new list.
BackOnlyByList ==
  [][\A a \in Agents : agent[a].at # "list" => agent'[a].revision \in {agent[a].revision, agent[a].revision + 1}]_vars

\* Once changes, restarts and broken connections stop, every agent ends with the
\* controller's newest revision of its current period, even one whose client was cut off.
Converges ==
  <>[](\A a \in Agents : agent[a].period = period /\ agent[a].revision = revision)

=============================================================================
