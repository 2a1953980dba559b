------------------------------ MODULE TaskPlane ------------------------------
(***************************************************************************)
(* Tasks that the controller gives to a node's agent: the pings of one     *)
(* PingMesh and the items of one Capture (pkg/controller/service agent.go, *)
(* pingmesh.go, capture.go), carried out by the agent's watchTask and      *)
(* ProcessTasks (pkg/exporter/task-agent).                                 *)
(*                                                                         *)
(* PingMesh and Capture are HTTP handlers that run at the same time.  Each *)
(* commits its tasks one by one to the channel of a task watcher of the    *)
(* node; the watcher's WatchTasks goroutine sends them to the agent.  The  *)
(* agent's connection may break and is dialled again, which leaves, for a  *)
(* while, an old watcher registered beside the new one.  The controller    *)
(* itself does not restart.                                                *)
(***************************************************************************)
EXTENDS Naturals, Sequences, FiniteSets

CONSTANTS NPings, NItems,   \* tasks of the mesh and of the capture
          MaxConns,         \* bound on the connections the agent makes
          TaskChanSize      \* 1 in the source

ASSUME TpAssumption == NPings \in Nat \ {0} /\ NItems \in Nat \ {0}

VARIABLES req,        \* [Requests -> [at, next, conn]], the two handlers
          taskIdx, id,
          watcher,    \* [1..MaxConns -> [reg, up, ch]], taskWatcher and its goroutine
          conn,       \* the agent's connection, 0 while it has none
          dialled,    \* connections made so far
          job,        \* [Tasks -> [at, to]], the agent's goroutine for a task
          resultWatchers,   \* id -> the ping whose channel it is
          chan,       \* [Pings -> [q, closed]], the result channels
          waiter,     \* [Pings -> where waitTaskResult is]
          taskGroup, expired,
          latency,    \* [Pings -> the task whose outcome the latency is]
          captureTasks,     \* the capture has a record
          status, files,    \* of the capture's items
          lost, early, stranded   \* history, see where they are set

tpVars == <<req, taskIdx, id, watcher, conn, dialled, job, resultWatchers, chan, waiter, taskGroup,
            expired, latency, captureTasks, status, files, lost, early, stranded>>

Pings == {<<"ping", n>> : n \in 1..NPings}
Items == {<<"capture", n>> : n \in 1..NItems}
Tasks == Pings \cup Items
Size == [ping |-> NPings, capture |-> NItems]
Requests == DOMAIN Size
Connections == 1..MaxConns
NoTask == <<"none", 0>>

TpInit ==
  /\ req = [r \in Requests |-> [at |-> "range", next |-> 1, conn |-> 0]]
  /\ taskIdx = 0 /\ id = [t \in Tasks |-> 0]
  /\ watcher = [c \in Connections |-> [reg |-> c = 1, up |-> c = 1, ch |-> << >>]]
  /\ conn = 1 /\ dialled = 1
  /\ job = [t \in Tasks |-> [at |-> "none", to |-> NoTask]]
  /\ resultWatchers = << >> /\ chan = [t \in Pings |-> [q |-> << >>, closed |-> FALSE]]
  /\ waiter = [t \in Pings |-> "none"] /\ taskGroup = 0 /\ expired = FALSE
  /\ latency = [t \in Pings |-> NoTask]
  /\ captureTasks = FALSE /\ status = [t \in Items |-> "none"] /\ files = {}
  /\ lost = {} /\ early = {} /\ stranded = FALSE

agentVars   == <<conn, dialled, job>>
resultVars  == <<resultWatchers, chan, waiter, expired, latency>>
captureVars == <<captureTasks, status, files>>
-----------------------------------------------------------------------------
(* commitTask *)

Current(r) == <<r, req[r].next>>

\* After a task is dealt with: the next one, or taskGroup.Wait, or captureTasks.Store.
Advanced(r) == IF req[r].next < Size[r] THEN [at |-> "range", next |-> req[r].next + 1, conn |-> 0]
               ELSE [at |-> IF r = "ping" THEN "wait" ELSE "store", next |-> req[r].next, conn |-> 0]

\* Mutant: two tasks get one number.
getTaskIdxStale(r) == taskIdx' = 1 /\ id' = [id EXCEPT ![Current(r)] = 1]

\* Every ping has a number of its own, the items of a capture share one.
getTaskIdx(r) ==
  IF r = "capture" /\ req[r].next > 1
  THEN taskIdx' = taskIdx /\ id' = [id EXCEPT ![Current(r)] = id[<<r, 1>>]]
  ELSE taskIdx' = taskIdx + 1 /\ id' = [id EXCEPT ![Current(r)] = taskIdx + 1]

\* The addresses of a ping are looked up once it has its number, those of a capture's items
\* before the first is committed; either may fail.  Range over taskWatcher stops at any one
\* watcher of the node.  Without one, PingMesh goes on to the next pair and Capture gives up.
CommitFinds(r) ==
  /\ req[r].at = "range"
  /\ getTaskIdx(r)
  /\ \/ \E c \in Connections : watcher[c].reg /\ req' = [req EXCEPT ![r] = [at |-> "push", next |-> @.next, conn |-> c]]
     \/ /\ r = "ping" \/ req[r].next = 1 \/ \A c \in Connections : ~watcher[c].reg
        /\ req' = IF r = "ping" THEN [req EXCEPT ![r] = Advanced(r)] ELSE [req EXCEPT ![r].at = "failed"]
  /\ UNCHANGED <<watcher, agentVars, resultVars, taskGroup, captureVars, lost, early, stranded>>

Committed(r) == LET t == Current(r) IN
  IF r = "ping" THEN /\ taskGroup' = taskGroup + 1 /\ waiter' = [waiter EXCEPT ![t] = "start"]
                     /\ UNCHANGED status
                ELSE /\ status' = [status EXCEPT ![t] = "running"]
                     /\ UNCHANGED <<taskGroup, waiter>>

\* The send on taskChan waits for room, whether or not anyone still reads it.
CommitPushes(r) ==
  /\ req[r].at = "push" /\ Len(watcher[req[r].conn].ch) < TaskChanSize
  /\ watcher' = [watcher EXCEPT ![req[r].conn].ch = Append(@, Current(r))]
  /\ lost' = IF watcher[req[r].conn].up THEN lost ELSE lost \cup {Current(r)}
  /\ Committed(r) /\ req' = [req EXCEPT ![r] = Advanced(r)]
  /\ UNCHANGED <<taskIdx, id, agentVars, resultWatchers, chan, expired, latency, captureTasks, files,
                 early, stranded>>
-----------------------------------------------------------------------------
(* WatchTasks, and the agent's connection *)

Holders(c) == {r \in Requests : req[r].at = "push" /\ req[r].conn = c}

\* WatchTasks returns: what is left in its channel, or is about to be put there, is lost,
\* and a commit that finds no room there waits for ever.
Leaves(c, ch) ==
  /\ watcher' = [watcher EXCEPT ![c] = [reg |-> FALSE, up |-> FALSE, ch |-> ch]]
  /\ stranded' = (stranded \/ Cardinality(Holders(c)) + Len(ch) > TaskChanSize)

\* Mutant: the watcher is not deleted.
WatchEndsKeepsEntry(c) ==
  /\ watcher[c].up /\ conn # c
  /\ watcher' = [watcher EXCEPT ![c].up = FALSE]
  /\ stranded' = (stranded \/ Cardinality(Holders(c)) + Len(watcher[c].ch) > TaskChanSize)
  /\ lost' = lost \cup {watcher[c].ch[i] : i \in 1..Len(watcher[c].ch)}
  /\ UNCHANGED <<req, taskIdx, id, agentVars, resultVars, taskGroup, captureVars, early>>

\* case <-server.Context().Done()
WatchEnds(c) ==
  /\ watcher[c].up /\ conn # c
  /\ Leaves(c, watcher[c].ch)
  /\ lost' = lost \cup {watcher[c].ch[i] : i \in 1..Len(watcher[c].ch)}
  /\ UNCHANGED <<req, taskIdx, id, agentVars, resultVars, taskGroup, captureVars, early>>

\* case task := <-w.taskChan, and the agent's Recv and ProcessTasks.  On a connection that
\* is gone the task is lost, and Send may or may not say so.
WatchSends(c) ==
  /\ watcher[c].up /\ watcher[c].ch # << >>
  /\ LET t == Head(watcher[c].ch) IN
     \/ /\ conn = c
        /\ job' = [job EXCEPT ![t].at = "run"]
        /\ watcher' = [watcher EXCEPT ![c].ch = Tail(@)]
        /\ UNCHANGED <<lost, stranded>>
     \/ /\ conn # c
        /\ lost' = lost \cup {t} /\ UNCHANGED job
        /\ \/ watcher' = [watcher EXCEPT ![c].ch = Tail(@)] /\ UNCHANGED stranded
           \/ Leaves(c, Tail(watcher[c].ch))
  /\ UNCHANGED <<req, taskIdx, id, conn, dialled, resultVars, taskGroup, captureVars, early>>

ConnBreaks == /\ conn # 0 /\ dialled < MaxConns
              /\ conn' = 0
              /\ UNCHANGED <<req, taskIdx, id, watcher, dialled, job, resultVars, taskGroup, captureVars,
                             lost, early, stranded>>

\* watchTask's reconn, and the start of WatchTasks on the new connection.
Reconnects == /\ conn = 0
              /\ conn' = dialled + 1 /\ dialled' = dialled + 1
              /\ watcher' = [watcher EXCEPT ![dialled + 1] = [@ EXCEPT !.reg = TRUE, !.up = TRUE]]
              /\ UNCHANGED <<req, taskIdx, id, job, resultVars, taskGroup, captureVars, lost, early, stranded>>
-----------------------------------------------------------------------------
(* ProcessPing and ProcessCapture, UploadTaskResult *)

\* The task is done and UploadTaskResult looks for who waits: a waiter's channel, or the
\* capture's record.  A result nobody waits for yet is thrown away.
UploadLooks(t) ==
  /\ job[t].at = "run"
  /\ \/ /\ conn # 0 /\ id[t] \in DOMAIN resultWatchers
        /\ job' = [job EXCEPT ![t] = [at |-> "push", to |-> resultWatchers[id[t]]]]
        /\ UNCHANGED <<lost, early>>
     \/ /\ conn # 0 /\ id[t] \notin DOMAIN resultWatchers /\ t \in Items /\ captureTasks
        /\ job' = [job EXCEPT ![t].at = "store"]
        /\ UNCHANGED <<lost, early>>
     \/ /\ conn # 0 /\ id[t] \notin DOMAIN resultWatchers /\ (t \in Pings \/ ~captureTasks)
        /\ job' = [job EXCEPT ![t].at = "end"]
        /\ early' = early \cup ({t} \cap Items) /\ UNCHANGED lost
     \/ /\ conn = 0
        /\ job' = [job EXCEPT ![t].at = "end"]
        /\ lost' = lost \cup {t} /\ UNCHANGED early
  /\ UNCHANGED <<req, taskIdx, id, watcher, conn, dialled, resultVars, taskGroup, captureVars, stranded>>

UploadPushes(t) ==
  /\ job[t].at = "push" /\ chan[job[t].to].q = << >> /\ ~chan[job[t].to].closed
  /\ chan' = [chan EXCEPT ![job[t].to] = [q |-> <<t>>, closed |-> TRUE]]
  /\ job' = [job EXCEPT ![t].at = "end"]
  /\ UNCHANGED <<req, taskIdx, id, watcher, conn, dialled, resultWatchers, waiter, expired, latency, taskGroup,
                 captureVars, lost, early, stranded>>

StoreLeaves == UNCHANGED <<req, taskIdx, id, watcher, conn, dialled, resultVars, taskGroup, captureTasks,
                           lost, early, stranded>>

\* Mutant: only successful captures are noted.
StoresSuccess(t) ==
  /\ job[t].at = "store" /\ job' = [job EXCEPT ![t].at = "end"]
  /\ \/ files' = files \cup {t} /\ status' = [status EXCEPT ![t] = "success"]
     \/ UNCHANGED <<files, status>>
  /\ StoreLeaves

\* storeCaptureResult with storeCaptureFile: the agent's capture worked, or it did not.  A
\* file that cannot be written leaves the capture a success.
storeCaptureResult(t) ==
  /\ job[t].at = "store" /\ job' = [job EXCEPT ![t].at = "end"]
  /\ \/ files' \in {files, files \cup {t}} /\ status' = [status EXCEPT ![t] = "success"]
     \/ status' = [status EXCEPT ![t] = "failed"] /\ UNCHANGED files
  /\ StoreLeaves
-----------------------------------------------------------------------------
(* waitTaskResult and the end of PingMesh *)

WaitRegisters(t) ==
  /\ waiter[t] = "start"
  /\ waiter' = [waiter EXCEPT ![t] = "wait"]
  /\ resultWatchers' = [i \in DOMAIN resultWatchers \cup {id[t]} |->
                          IF i = id[t] THEN t ELSE resultWatchers[i]]
  /\ UNCHANGED <<req, taskIdx, id, watcher, agentVars, chan, expired, latency, taskGroup, captureVars,
                 lost, early, stranded>>

\* The answer, good or bad, or the end of the ten seconds (9999.9 ms); each enters a latency.
WaitEnds(t) ==
  /\ waiter[t] = "wait"
  /\ \/ /\ chan[t].q # << >>
        /\ latency' = [latency EXCEPT ![t] = Head(chan[t].q)] /\ chan' = [chan EXCEPT ![t].q = << >>]
     \/ /\ expired
        /\ latency' = [latency EXCEPT ![t] = t] /\ UNCHANGED chan
  /\ waiter' = [waiter EXCEPT ![t] = "end"]
  /\ taskGroup' = taskGroup - 1
  /\ resultWatchers' = [i \in DOMAIN resultWatchers \ {id[t]} |-> resultWatchers[i]]
  /\ UNCHANGED <<req, taskIdx, id, watcher, agentVars, expired, captureVars, lost, early, stranded>>

Expires == /\ ~expired /\ req["ping"].at # "done"
           /\ expired' = TRUE
           /\ UNCHANGED <<req, taskIdx, id, watcher, agentVars, resultWatchers, chan, waiter, latency, taskGroup,
                          captureVars, lost, early, stranded>>

\* taskGroup.Wait returns and latencyResult is closed and read.
MeshReturns ==
  /\ req["ping"].at = "wait" /\ taskGroup = 0
  /\ req' = [req EXCEPT !["ping"].at = "done"]
  /\ UNCHANGED <<taskIdx, id, watcher, agentVars, resultVars, taskGroup, captureVars, lost, early, stranded>>

CaptureStores ==
  /\ req["capture"].at = "store"
  /\ req' = [req EXCEPT !["capture"].at = "done"]
  /\ captureTasks' = TRUE
  /\ UNCHANGED <<taskIdx, id, watcher, agentVars, resultVars, taskGroup, status, files,
                 lost, early, stranded>>

\* The record's hour is over: it goes with its files.
cleanupExpiredCaptureTasks ==
  /\ captureTasks /\ captureTasks' = FALSE
  /\ files' = {}
  /\ UNCHANGED <<req, taskIdx, id, watcher, agentVars, resultVars, taskGroup, status, lost, early, stranded>>
-----------------------------------------------------------------------------
HandlerStep(r) == CommitFinds(r) \/ CommitPushes(r)
WatcherStep(c) == WatchEnds(c) \/ WatchSends(c)
JobStep(t) == UploadLooks(t) \/ UploadPushes(t) \/ storeCaptureResult(t)
WaiterStep(t) == WaitRegisters(t) \/ WaitEnds(t)

\* What goes on by itself.
TpProgress == \/ \E r \in Requests : HandlerStep(r)
              \/ \E c \in Connections : WatcherStep(c)
              \/ \E t \in Tasks : JobStep(t)
              \/ \E t \in Pings : WaiterStep(t)
              \/ Reconnects \/ Expires \/ MeshReturns \/ CaptureStores

TpNext == TpProgress \/ ConnBreaks \/ cleanupExpiredCaptureTasks

TpSpec == TpInit /\ [][TpNext]_tpVars
-----------------------------------------------------------------------------
\* Handlers, watchers, jobs and waiters are in one of their states, and no task channel
\* holds more than its size.
TpTypeOK ==
  /\ \A r \in Requests : /\ req[r].at \in {"range", "push", "wait", "store", "done", "failed"}
                         /\ req[r].next \in 1..Size[r] /\ req[r].conn \in 0..MaxConns
  /\ \A c \in Connections : Len(watcher[c].ch) <= TaskChanSize
  /\ \A t \in Tasks : job[t].at \in {"none", "run", "push", "store", "end"} /\ id[t] \in 0..taskIdx
  /\ \A t \in Pings : waiter[t] \in {"none", "start", "wait", "end"}
  /\ taskGroup \in 0..NPings /\ conn \in {0, dialled}

\* A latency that PingMesh shows for a pair was measured for that pair.
LatencyIsOwn == \A t \in Pings : latency[t] \in {NoTask, t}

\* Handlers that have picked a watcher get rid of their tasks, unless more tasks were on
\* their way to a watcher that left than its channel holds: commitTask has no time-out.
CommitsReturn == []<>(stranded \/ \A r \in Requests : req[r].at # "push")

\* A capture that is listed does not stay "running": every item ends as a success or a
\* failure, unless it or its result was lost with the connection, or its result came
\* before Capture had stored the record.
CaptureSettles ==
  captureTasks ~> (~captureTasks \/ \A t \in Items : status[t] # "running" \/ t \in lost \cup early)
=============================================================================
