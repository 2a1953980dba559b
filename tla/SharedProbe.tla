----------------------------- MODULE SharedProbe -----------------------------
(***************************************************************************)
(* One BPF probe that the metrics server and the event server share, and   *)
(* the way of its events to the sinks.                                     *)
(*                                                                         *)
(* The two servers start and stop their own wrapper (proto.go simpleProbe) *)
(* of a package-level probe object that counts its users.  The object      *)
(* loads the program, opens a perf reader and starts a goroutine,          *)
(* perfLoop, that reads events and sends them on an unbuffered channel.    *)
(* The event server's fan-out goroutine takes them from there and offers   *)
(* each to the channel of every sink (eventserver.go).                     *)
(*                                                                         *)
(* The objects come in two styles, named for a package that has it:        *)
(* "socketlatency" (also virtcmdlatency, netiftxlatency) opens the reader  *)
(* with the program, "tracekernel" for the event probe only.               *)
(***************************************************************************)
EXTENDS Naturals, Sequences, FiniteSets

CONSTANTS MaxReaders,     \* bound on the readers opened
          MaxEvents,      \* bound on the events the program emits
          Sinks, SinkChanSize   \* 1024 in the source

VARIABLES style,
          wrap,       \* [Types -> state of the server's simpleProbe]
          refcnt, attached,
          reader,     \* perfReader, 0 is nil
          opened, open,   \* readers made so far, and those not closed
          ring,       \* [Readers -> events waiting in the reader's buffers]
          loop,       \* [Readers -> [at, on, evt]], the perfLoop started with a reader
          sinkSet,    \* the object's sink is not nil
          emitted, done,
          q, writing, \* [Sinks -> the sink's channel; the sink's goroutine]
          failed      \* history: a start returned an error

spVars == <<style, wrap, refcnt, attached, reader, opened, open, ring, loop, sinkSet, emitted, done, q, writing,
            failed>>
probeVars == <<wrap, refcnt, attached, reader, opened, open, sinkSet, failed>>
sinkVars == <<done, q, writing>>

Types == {"metrics", "event"}
Readers == 1..MaxReaders

SpInit ==
  /\ style \in {"socketlatency", "tracekernel"}
  /\ wrap = [ty \in Types |-> "stopped"] /\ refcnt = [ty \in Types |-> 0]
  /\ attached = FALSE /\ reader = 0 /\ opened = 0 /\ open = {}
  /\ ring = [r \in Readers |-> << >>]
  /\ loop = [r \in Readers |-> [at |-> "none", on |-> 0, evt |-> 0]]
  /\ sinkSet = FALSE /\ emitted = 0 /\ done = FALSE
  /\ q = [s \in Sinks |-> << >>] /\ writing = [s \in Sinks |-> "idle"]
  /\ failed = FALSE

\* A nil reader was read: the process is gone.
Panicked == \E r \in Readers : loop[r].at = "panic"
-----------------------------------------------------------------------------
(* start and stop of the shared object *)

Total(cnt) == cnt["metrics"] + cnt["event"]
Up(ty) == [refcnt EXCEPT ![ty] = @ + 1]
Down(ty) == [refcnt EXCEPT ![ty] = @ - 1]

\* perf.NewReader and go p.perfLoop().  The reader it replaces is not closed here.
OpenReader ==
  /\ opened' = opened + 1 /\ reader' = opened + 1 /\ open' = open \cup {opened + 1}
  /\ loop' = [loop EXCEPT ![opened + 1] = [at |-> "read", on |-> opened + 1, evt |-> 0]]

NoReader == reader' = 0 /\ UNCHANGED <<opened, open, loop>>
SameReader == UNCHANGED <<opened, reader, open, loop>>
CloseReader == open' = open \ {reader} /\ UNCHANGED <<opened, reader, loop>>

Started(ty) == /\ wrap' = [wrap EXCEPT ![ty] = "running"]
               /\ sinkSet' = (sinkSet \/ ty = "event")
               /\ UNCHANGED failed
Failed(ty) == /\ wrap' = [wrap EXCEPT ![ty] = "failed"] /\ failed' = TRUE /\ UNCHANGED sinkSet

\* Neither failure gives the reference back, and a failed reader leaves the program attached.
StartSocketlatency(ty) ==
  /\ refcnt' = Up(ty)
  /\ \/ Total(refcnt') = 1 /\ attached' = TRUE /\ OpenReader /\ Started(ty)
     \/ Total(refcnt') = 1 /\ attached' = FALSE /\ CloseReader /\ Failed(ty)
     \/ Total(refcnt') = 1 /\ attached' = TRUE /\ NoReader /\ Failed(ty)
     \/ Total(refcnt') # 1 /\ UNCHANGED attached /\ SameReader /\ Started(ty)

\* Mutant: stop looks at the caller's references only.
StopOwnSocketlatency(ty) ==
  /\ refcnt' = Down(ty)
  /\ IF refcnt'[ty] = 0 THEN attached' = FALSE /\ CloseReader ELSE UNCHANGED attached /\ SameReader

StopSocketlatency(ty) ==
  /\ refcnt' = Down(ty)
  /\ IF Total(refcnt') = 0 THEN attached' = FALSE /\ CloseReader ELSE UNCHANGED attached /\ SameReader

\* A second start of a type is refused.  A reader is made whenever the event probe has its
\* reference, for a metrics probe that starts later too.
StartTracekernel(ty) ==
  \/ /\ refcnt[ty] # 0 /\ Failed(ty) /\ SameReader /\ UNCHANGED <<refcnt, attached>>
  \/ /\ refcnt[ty] = 0 /\ Total(refcnt) = 0 /\ attached' = FALSE /\ CloseReader /\ Failed(ty) /\ UNCHANGED refcnt
  \/ /\ refcnt[ty] = 0 /\ attached' = TRUE
     /\ \/ Up(ty)["event"] # 1 /\ refcnt' = Up(ty) /\ SameReader /\ Started(ty)
        \/ Up(ty)["event"] = 1 /\ refcnt' = Up(ty) /\ OpenReader /\ Started(ty)
  \/ \* perf.NewReader fails: perfReader is nil, and stopLocked.
     /\ refcnt[ty] = 0 /\ Up(ty)["event"] = 1
     /\ UNCHANGED refcnt /\ attached' = (Total(refcnt) # 0) /\ NoReader /\ Failed(ty)

StopTracekernel(ty) ==
  /\ refcnt' = Down(ty)
  /\ attached' = (attached /\ Total(refcnt') # 0)
  /\ IF refcnt'["event"] = 0 THEN CloseReader ELSE SameReader
-----------------------------------------------------------------------------
(* simpleProbe and the managers' StartProbe and StopProbe *)

StartProbe(ty) ==
  /\ wrap[ty] = "stopped" /\ opened < MaxReaders
  /\ \/ style = "socketlatency" /\ StartSocketlatency(ty)
     \/ style = "tracekernel" /\ StartTracekernel(ty)
  /\ UNCHANGED <<style, ring, emitted, sinkVars>>

\* A probe that failed is not stopped; the server forgets it and may create a new one.
StopProbe(ty) ==
  /\ \/ /\ wrap[ty] = "running"
        /\ \/ style = "socketlatency" /\ StopSocketlatency(ty)
           \/ style = "tracekernel" /\ StopTracekernel(ty)
     \/ wrap[ty] = "failed" /\ SameReader /\ UNCHANGED <<refcnt, attached>>
  /\ wrap' = [wrap EXCEPT ![ty] = "stopped"]
  /\ UNCHANGED <<style, ring, sinkSet, emitted, sinkVars, failed>>
-----------------------------------------------------------------------------
(* perfLoop *)

\* The program's output goes to the reader opened last.
Emit == /\ attached /\ reader \in open /\ emitted < MaxEvents
        /\ emitted' = emitted + 1
        /\ ring' = [ring EXCEPT ![reader] = Append(@, emitted + 1)]
        /\ UNCHANGED <<style, probeVars, loop, sinkVars>>

\* The next round of the loop takes p.perfReader as it is then.
Again(r) == [loop EXCEPT ![r] = [at |-> IF reader = 0 THEN "panic" ELSE "read", on |-> reader, evt |-> 0]]

LoopReads(r) ==
  /\ loop[r].at = "read" /\ loop[r].on \in open /\ ring[loop[r].on] # << >>
  /\ ring' = [ring EXCEPT ![loop[r].on] = Tail(@)]
  /\ loop' = IF sinkSet THEN [loop EXCEPT ![r].at = "send", ![r].evt = Head(ring[loop[r].on])] ELSE Again(r)
  /\ UNCHANGED <<style, probeVars, emitted, sinkVars>>

LoopEnds(r) ==
  /\ loop[r].at = "read" /\ loop[r].on \notin open
  /\ loop' = [loop EXCEPT ![r].at = "gone"]
  /\ UNCHANGED <<style, probeVars, ring, emitted, sinkVars>>
-----------------------------------------------------------------------------
(* EventProbeManager *)

\* Each sink is offered the event once; a full channel discards it.
Fanned(e) == [s \in Sinks |-> IF Len(q[s]) < SinkChanSize THEN Append(q[s], e) ELSE q[s]]

Handed(r) ==
  /\ q' = Fanned(loop[r].evt)
  /\ loop' = Again(r)
  /\ UNCHANGED <<style, probeVars, ring, emitted, done, writing>>

\* Mutant: the fan-out waits for every sink.
FanOutBlocking(r) ==
  /\ loop[r].at = "send" /\ ~done /\ \A s \in Sinks : Len(q[s]) < SinkChanSize
  /\ Handed(r)

\* p.sink <- evt meets case evt := <-m.sinkChan.
FanOut(r) == /\ loop[r].at = "send" /\ ~done
             /\ Handed(r)

\* consume takes an event; Write may never return.
Consume(s) ==
  /\ writing[s] = "idle" /\ q[s] # << >>
  /\ q' = [q EXCEPT ![s] = Tail(@)]
  /\ \/ UNCHANGED writing
     \/ writing' = [writing EXCEPT ![s] = "stuck"]
  /\ UNCHANGED <<style, probeVars, ring, loop, emitted, done>>

\* EventServer.Stop, after it has stopped its probes.
ManagerStop == /\ ~done /\ wrap["event"] = "stopped"
               /\ done' = TRUE
               /\ UNCHANGED <<style, probeVars, ring, loop, emitted, q, writing>>

ConsumerEnds(s) == /\ done /\ writing[s] = "idle"
                   /\ writing' = [writing EXCEPT ![s] = "ended"]
                   /\ UNCHANGED <<style, probeVars, ring, loop, emitted, done, q>>
-----------------------------------------------------------------------------
LoopStep(r) == LoopReads(r) \/ LoopEnds(r) \/ FanOut(r)
SinkStep(s) == Consume(s) \/ ConsumerEnds(s)

SpNext == /\ ~Panicked
          /\ \/ \E ty \in Types : StartProbe(ty) /\ (ty = "event" => ~done)
             \/ \E ty \in Types : StopProbe(ty)
             \/ Emit \/ ManagerStop
             \/ \E r \in Readers : LoopStep(r)
             \/ \E s \in Sinks : SinkStep(s)

SpSpec == SpInit /\ [][SpNext]_spVars
-----------------------------------------------------------------------------
\* Counts, readers and loops stay within what has been opened, and a sink's channel holds
\* no more than its size.
SpTypeOK ==
  /\ \A ty \in Types : wrap[ty] \in {"stopped", "running", "failed"} /\ refcnt[ty] \in 0..2
  /\ opened \in 0..MaxReaders /\ reader \in 0..opened /\ open \subseteq 1..opened
  /\ \A r \in Readers : loop[r].at \in {"none", "read", "send", "gone", "panic"}
  /\ \A s \in Sinks : Len(q[s]) <= SinkChanSize

\* A server that was told its probe runs has a program attached: the other server stopping
\* its probe does not take it away.  (In the socketlatency style an earlier start that
\* failed spoils the count, and a later one returns without loading anything.)
RunningIsAttached ==
  (\E ty \in Types : wrap[ty] = "running") => attached \/ (style = "socketlatency" /\ failed)

\* One sink that never comes back from Write does not hold up the probe: the events
\* its perfLoops want to send are taken, as long as the event server is not stopped.
SlowSinkIsolated == []<>(done \/ Panicked \/ \A r \in Readers : loop[r].at # "send")

=============================================================================
