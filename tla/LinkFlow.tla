------------------------------ MODULE LinkFlow ------------------------------
(***************************************************************************)
(* The link manager (pkg/exporter/nettop/linkmanager.go), which follows    *)
(* the node's network interfaces over netlink, and its listener, the flow  *)
(* probe for a device pattern (pkg/exporter/probe/flow/flow.go), which     *)
(* keeps a TC filter on every interface whose name has the prefix.         *)
(*                                                                         *)
(* A name is "match" when it has the prefix and "other" when not; an       *)
(* interface that does not exist (any more) is "none", and its index is    *)
(* not used again.                                                         *)
(***************************************************************************)
EXTENDS Naturals, Sequences, FiniteSets

CONSTANTS Index, MaxChanges,   \* interfaces, and a bound on what happens to them
          ChanExtra            \* 1024 in the source

VARIABLES kernel, born, changes,   \* the kernel's interfaces
          nl,         \* netlink messages the manager has not handled
          manager,    \* where StartLinkManager is, "run", "deaf" once its event loop has
                      \* ended, or "stopped"
          links,      \* the cache, index -> name
          listener,   \* "none", "on", or "off": its entry is not, is, is no longer there
          ch, chCap, done,   \* the entry's channel and its done channel
          flows,      \* the helper's flows
          filter,     \* interfaces with the probe's filters
          leftover,   \* those of them that a cleanup could not remove
          probe,      \* "off", "on", then Stop's steps: "unregistered", "swept", "closed"
          crashed,
          unattached,                      \* history: the last attempt to attach failed
          missed, dropped, renamed, late   \* history, see where they are set

kernelVars == <<kernel, born, changes>>
flowVars == <<flows, filter, leftover, unattached, late, crashed>>
historyVars == <<missed, dropped, renamed>>
lfVars == <<kernelVars, nl, manager, links, listener, ch, chCap, done, flowVars, probe, historyVars>>

Names == {"match", "other"}

LfInit ==
  /\ kernel \in [Index -> Names \cup {"none"}] /\ born = {i \in Index : kernel[i] # "none"} /\ changes = 0
  /\ nl = << >> /\ manager = "list" /\ links = [i \in Index |-> "none"]
  /\ listener = "none" /\ ch = << >> /\ chCap = 0 /\ done = FALSE
  /\ flows = {} /\ filter = {} /\ leftover = {} /\ probe = "off" /\ crashed = FALSE /\ unattached = {}
  /\ missed = {} /\ dropped = {} /\ renamed = {} /\ late = {}

-----------------------------------------------------------------------------
(* The kernel *)

\* An interface comes, is renamed or goes.  The manager is told once it has subscribed; a
\* change between its list and its subscription is missed, until the interface changes again.
KernelChange(i, name) ==
  /\ changes < MaxChanges /\ changes' = changes + 1
  /\ kernel[i] # name /\ (kernel[i] = "none" => i \notin born)
  /\ kernel' = [kernel EXCEPT ![i] = name] /\ born' = born \cup {i}
  /\ IF name = "none" THEN filter' = filter \ {i} /\ leftover' = leftover \ {i} ELSE UNCHANGED <<filter, leftover>>
  /\ nl' = IF manager = "run"
           THEN Append(nl, [type |-> IF name = "none" THEN "RTM_DELLINK" ELSE "RTM_NEWLINK", index |-> i, name |-> name])
           ELSE nl
  /\ missed' = CASE manager = "subscribe" -> missed \cup {i}
                 [] manager = "run"       -> missed \ {i}
                 [] OTHER                 -> missed
  /\ renamed' = IF kernel[i] = "match" /\ name = "other" THEN renamed \cup {i} ELSE renamed
  /\ UNCHANGED <<manager, links, listener, ch, chCap, done, flows, unattached, late, crashed, probe, dropped>>
-----------------------------------------------------------------------------
(* linkManager *)

StartListsLinks == /\ manager = "list" /\ manager' = "subscribe"
                   /\ links' = kernel
                   /\ UNCHANGED <<kernelVars, nl, listener, ch, chCap, done, flowVars, probe, historyVars>>

StartSubscribes == /\ manager = "subscribe" /\ manager' = "run"
                   /\ UNCHANGED <<kernelVars, nl, links, listener, ch, chCap, done, flowVars, probe, historyVars>>

broadcast(ev) ==
  IF listener # "on" THEN UNCHANGED <<ch, dropped>>
  ELSE IF Len(ch) < chCap THEN ch' = Append(ch, ev) /\ UNCHANGED dropped
  ELSE dropped' = dropped \cup {ev.index} /\ UNCHANGED ch

\* A deletion is announced with the name in the cache, or when the cache has none with the
\* name in the message.
handleUpdate ==
  /\ manager = "run" /\ nl # << >> /\ nl' = Tail(nl)
  /\ LET u == Head(nl) IN
     IF u.type = "RTM_NEWLINK"
     THEN /\ links' = [links EXCEPT ![u.index] = u.name]
          /\ broadcast([add |-> TRUE, index |-> u.index, name |-> u.name])
     ELSE /\ links' = [links EXCEPT ![u.index] = "none"]
          /\ \E name \in IF links[u.index] = "none" THEN Names ELSE {links[u.index]} :
               broadcast([add |-> FALSE, index |-> u.index, name |-> name])
  /\ UNCHANGED <<kernelVars, manager, listener, chCap, done, flowVars, probe, missed, renamed>>

\* eventLoop returns when the netlink library has closed its channel, as it does when it
\* cannot read its socket; the messages not read yet are lost and nobody is told.
eventLoopEnds == /\ manager = "run" /\ manager' = "deaf" /\ nl' = << >>
                 /\ UNCHANGED <<kernelVars, links, listener, ch, chCap, done, flowVars, probe, historyVars>>

\* The links in the cache, in any order.
Replay == {s \in UNION {[1..n -> Index] : n \in 0..Cardinality(Index)} :
             /\ {s[k] : k \in DOMAIN s} = {i \in Index : links[i] # "none"}
             /\ \A k, l \in DOMAIN s : s[k] = s[l] => k = l}

\* Mutant: only what happens from now on is delivered.
registerNoReplay ==
  /\ listener' = "on" /\ ch' = << >> /\ chCap' = Cardinality({i \in Index : links[i] # "none"}) + ChanExtra

registerListener ==
  /\ listener' = "on"
  /\ \E s \in Replay : /\ ch' = [k \in DOMAIN s |-> [add |-> TRUE, index |-> s[k], name |-> links[s[k]]]]
                       /\ chCap' = Len(s) + ChanExtra

StopLinkManager == /\ manager \in {"run", "deaf"} /\ manager' = "stopped"
                   /\ IF listener = "on" THEN listener' = "off" /\ done' = TRUE ELSE UNCHANGED <<listener, done>>
                   /\ UNCHANGED <<kernelVars, nl, links, ch, chCap, flowVars, probe, historyVars>>
-----------------------------------------------------------------------------
(* dynamicLinkFlowHelper *)

\* cleanup of the flows in S, when the filters are those in there.  A filter that cannot be
\* listed or deleted stays.  One that is not there (whole is FALSE) is handed to FilterDel
\* as nil.
cleanup(S, there, whole) ==
  /\ \E kept \in SUBSET (S \cap there) : /\ filter' = (there \ S) \cup kept
                                       /\ leftover' = (leftover \ S) \cup kept
  /\ crashed' \in IF whole THEN {FALSE} ELSE BOOLEAN

\* A filter needs a link that is there and a program that is not closed.
Attachable(i) == kernel[i] # "none" /\ probe # "closed"

attachBPF(i) ==
  /\ Attachable(i)
  /\ flows' = flows \cup {i} /\ filter' = filter \cup {i}
  /\ leftover' = leftover \ {i} /\ unattached' = unattached \ {i}
  /\ late' = IF probe = "swept" THEN late \cup {i} ELSE late
  /\ UNCHANGED crashed

\* It may always fail, for the qdisc, the list of filters or a filter; the ingress filter
\* may be there when the egress one fails.
attachFails(i) ==
  /\ \E there \in {filter} \cup (IF Attachable(i) THEN {filter \cup {i}} ELSE {}) : cleanup({i}, there, FALSE)
  /\ unattached' = unattached \cup {i}
  /\ UNCHANGED <<flows, late>>

\* A failed attempt is not repeated before the next event about the link.
tryStartLinkFlow(i) ==
  IF i \in flows THEN UNCHANGED flowVars ELSE attachBPF(i) \/ attachFails(i)

tryStopLinkFlow(i) ==
  IF i \notin flows THEN UNCHANGED flowVars
  ELSE flows' = flows \ {i} /\ cleanup({i}, filter, i \in filter) /\ UNCHANGED <<unattached, late>>

\* The listener's goroutine: an event is taken while there is one, even when done is closed.
Dispatch ==
  /\ listener # "none" /\ ch # << >> /\ ch' = Tail(ch)
  /\ LET ev == Head(ch) IN
     IF ev.name # "match" THEN UNCHANGED flowVars
     ELSE IF ev.add THEN tryStartLinkFlow(ev.index) ELSE tryStopLinkFlow(ev.index)
  /\ UNCHANGED <<kernelVars, nl, manager, links, listener, chCap, done, probe, historyVars>>

\* ... and once done is closed it may end with events left.
DispatchEnds == /\ done /\ ch # << >> /\ ch' = << >>
                /\ UNCHANGED <<kernelVars, nl, manager, links, listener, chCap, done, flowVars, probe, historyVars>>

\* metricsProbe.Start.
ProbeStart == /\ probe = "off" /\ manager \in {"run", "deaf"} /\ probe' = "on"
              /\ registerListener
              /\ UNCHANGED <<kernelVars, nl, manager, links, done, flowVars, historyVars>>

\* metricsProbe.Stop: the listener's entry goes, then the flows, then the program.
StopUnregisters ==
  /\ probe = "on" /\ probe' = "unregistered"
  /\ IF listener = "on" THEN listener' = "off" /\ done' = TRUE ELSE UNCHANGED <<listener, done>>
  /\ UNCHANGED <<kernelVars, nl, manager, links, ch, chCap, flowVars, historyVars>>

\* Mutant: the sweep ends at the first filter that cannot be removed.
SweepGivesUp ==
  /\ probe = "unregistered" /\ probe' = "swept"
  /\ \E i \in flows \cap filter, swept \in SUBSET flows :
       filter' = (filter \ swept) \cup {i} /\ leftover' = (leftover \ swept) \cup {i}
  /\ UNCHANGED <<kernelVars, nl, manager, links, listener, ch, chCap, done, flows, unattached, late, crashed, historyVars>>

StopSweeps ==
  /\ probe = "unregistered" /\ probe' = "swept"
  /\ cleanup(flows, filter, flows \subseteq filter)
  /\ UNCHANGED <<kernelVars, nl, manager, links, listener, ch, chCap, done, flows, unattached, late, historyVars>>

StopCloses == /\ probe = "swept" /\ probe' = "closed"
              /\ UNCHANGED <<kernelVars, nl, manager, links, listener, ch, chCap, done, flowVars, historyVars>>
-----------------------------------------------------------------------------
LfNext == /\ ~crashed
          /\ \/ \E i \in Index, name \in Names \cup {"none"} : KernelChange(i, name)
             \/ StartListsLinks \/ StartSubscribes \/ handleUpdate \/ eventLoopEnds \/ StopLinkManager
             \/ ProbeStart \/ Dispatch \/ DispatchEnds
             \/ StopUnregisters \/ StopSweeps \/ StopCloses

LfSpec == LfInit /\ [][LfNext]_lfVars
-----------------------------------------------------------------------------
\* The manager, the listener and the probe are in one of their states, and the listener's
\* channel is within its capacity.
LfTypeOK ==
  /\ manager \in {"list", "subscribe", "run", "deaf", "stopped"} /\ listener \in {"none", "on", "off"}
  /\ probe \in {"off", "on", "unregistered", "swept", "closed"}
  /\ links \in [Index -> Names \cup {"none"}] /\ Len(ch) <= chCap
  /\ flows \subseteq Index /\ filter \subseteq Index /\ leftover \subseteq filter

\* When the listener has handled everything too, the probe counts exactly the interfaces
\* of the pattern that it could attach to when it last tried, and no filter is without its
\* flow but those a cleanup could not remove.  Excepted are the interfaces missed, those
\* whose event found the listener's channel full, and those renamed out of the pattern,
\* which OnLinkAdd and OnLinkDel pass over; and nothing is said once eventLoop has ended.
FlowsFollowLinks ==
  manager = "run" /\ nl = << >> /\ probe = "on" /\ ch = << >> /\ ~crashed =>
    \A i \in Index \ (missed \cup dropped \cup renamed) :
      /\ i \in flows <=> kernel[i] = "match" /\ i \notin unattached
      /\ i \in filter <=> i \in flows \cup leftover

\* After the sweep of Stop no interface keeps the probe's filters, although cleanup may
\* fail at any of them, except those it failed at and those that the listener's goroutine,
\* which Stop does not wait for, attached after the sweep.
StopRemovesFilters == probe \in {"swept", "closed"} /\ ~crashed => filter \subseteq late \cup leftover
=============================================================================
