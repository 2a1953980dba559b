----------------------------- MODULE Federation -----------------------------
(***************************************************************************)
(* The policy federation of several nodes (pkg/elitecontroller and the     *)
(* agents' endpoints).  Every runner publishes its forecasts through two   *)
(* alternating buffers and writes its own policy map; the Federator        *)
(* scrapes the runners one after the other and keeps the maxima; the       *)
(* Pusher posts an overloaded maximum to a list of addresses.  A node has  *)
(* the route only if it runs a forecaster (elsewhere the answer is 404);   *)
(* its handler writes the policy map and nothing else, so the next tick of *)
(* the node's own forecaster replaces what was pushed.  A copy of a        *)
(* buffer, on either side, takes two steps, its rho and its other fields.  *)
(* Neither side's HTTP client has a timeout; an agent here answers or is   *)
(* gone.                                                                   *)
(***************************************************************************)
EXTENDS PolicyMath, Sequences

CONSTANTS
    Runners,        \* nodes with a forecaster
    Forecasts,      \* snapshots a tick may compute
    Idle,           \* the zero snapshot
    NodeURLs,       \* sequence of runners
    NodePushURLs,   \* sequence of runners and addresses without the route
    RhoCap,
    MaxLap          \* ticks of a node while one copy of its buffer is read

VARIABLES
    snaps,          \* Runner.snaps: two buffers, [rho, rest], each part with
                    \* the forecast it was copied from
    idx,            \* Runner.idx
    ticking,        \* what a tick in progress will publish, or Idle with FALSE
    up,             \* agents that answer
    pmap,           \* elite_policy of each node
    at, copy,       \* Federator: next URL (0 between rounds), copy being read
    lap,            \* ticks begun by the node being read since the read began
    acc, fed,       \* maxima of the round, FederatedPolicy
    pushAt, body    \* Pusher: next URL (0 between rounds), the request's body

fvars == <<snaps, idx, ticking, up, pmap, at, copy, lap, acc, fed, pushAt, body>>
nodeVars == <<snaps, idx, ticking, up>>
federatorVars == <<at, copy, lap, acc, fed>>
pusherVars == <<pushAt, body>>

ASSUME FederationAssumption ==
    /\ Idle \in Forecasts
    /\ NodeURLs \in Seq(Runners)
    /\ Len(NodeURLs) > 0 /\ Len(NodePushURLs) > 0 /\ MaxLap \in Nat /\ RhoCap \in Nat \ {0}

Nothing == [rho |-> 0, overload |-> 0]
NoCopy == [st |-> "none", buf |-> 0, from |-> Idle]

FInit ==
    /\ snaps = [n \in Runners |-> [i \in 0..1 |-> [rho |-> Idle, rest |-> Idle]]]
    /\ idx = [n \in Runners |-> 0]
    /\ ticking = [n \in Runners |-> [on |-> FALSE, snap |-> Idle]]
    /\ up = Runners
    /\ pmap = [n \in Runners |-> PolicyValue(Idle)]
    /\ at = 0 /\ copy = NoCopy /\ lap = 0 /\ acc = Nothing /\ fed = Nothing
    /\ pushAt = 0 /\ body = Idle

-----------------------------------------------------------------------------
Reading(n) == copy.st = "part" /\ NodeURLs[at] = n

\* Mutant: the index is turned before the buffer is written.
BeginTickTurned(n, s) ==
    /\ n \in up /\ ~ticking[n].on
    /\ Reading(n) => lap < MaxLap
    /\ ticking' = [ticking EXCEPT ![n] = [on |-> TRUE, snap |-> s]]
    /\ snaps' = [snaps EXCEPT ![n][1 - idx[n]].rho = s]
    /\ idx' = [idx EXCEPT ![n] = 1 - @]
    /\ lap' = IF Reading(n) THEN lap + 1 ELSE lap
    /\ UNCHANGED <<up, pmap, at, copy, acc, fed, pusherVars>>

\* applySample up to the first part of the copy to snaps[next]
BeginTick(n, s) ==
    /\ n \in up /\ ~ticking[n].on
    /\ Reading(n) => lap < MaxLap
    /\ ticking' = [ticking EXCEPT ![n] = [on |-> TRUE, snap |-> s]]
    /\ snaps' = [snaps EXCEPT ![n][1 - idx[n]].rho = s]
    /\ lap' = IF Reading(n) THEN lap + 1 ELSE lap
    /\ UNCHANGED <<idx, up, pmap, at, copy, acc, fed, pusherVars>>

\* The rest of the copy, the index, SyncPolicyToBPFMap.
EndTick(n) ==
    /\ n \in up /\ ticking[n].on
    /\ snaps' = [snaps EXCEPT ![n][1 - idx[n]].rest = ticking[n].snap]
    /\ idx' = [idx EXCEPT ![n] = 1 - @]
    /\ ticking' = [ticking EXCEPT ![n] = [on |-> FALSE, snap |-> Idle]]
    /\ pmap' = [pmap EXCEPT ![n] = PolicyValue(ticking[n].snap)]
    /\ UNCHANGED <<up, federatorVars, pusherVars>>

\* The agent dies: the buffers and the answer it was writing with it, the pinned
\* map stays.
Crash(n) ==
    /\ n \in up
    /\ up' = up \ {n}
    /\ snaps' = [snaps EXCEPT ![n] = [i \in 0..1 |-> [rho |-> Idle, rest |-> Idle]]]
    /\ idx' = [idx EXCEPT ![n] = 0]
    /\ ticking' = [ticking EXCEPT ![n] = [on |-> FALSE, snap |-> Idle]]
    /\ copy' = IF Reading(n) THEN [NoCopy EXCEPT !.st = "broken"] ELSE copy
    /\ UNCHANGED <<pmap, at, lap, acc, fed, pusherVars>>

Restart(n) ==
    /\ n \notin up
    /\ up' = up \cup {n}
    /\ UNCHANGED <<snaps, idx, ticking, pmap, federatorVars, pusherVars>>

-----------------------------------------------------------------------------
\* Where the round goes after the URL at, with maxima m; the last one publishes.
Proceed(m) ==
    /\ copy' = NoCopy /\ lap' = 0
    /\ IF at = Len(NodeURLs)
       THEN /\ fed' = m
            /\ at' = 0 /\ acc' = Nothing
       ELSE /\ at' = at + 1 /\ acc' = m
            /\ UNCHANGED fed

\* Federator.Run: the ticker starts a round.
BeginRound ==
    /\ at = 0
    /\ at' = 1
    /\ UNCHANGED <<nodeVars, pmap, copy, lap, acc, fed, pusherVars>>

\* scrapeNode reaches the agent: Collect loads the index and copies rho.
BeginScrape ==
    /\ at > 0 /\ copy.st = "none"
    /\ LET n == NodeURLs[at]
       IN  /\ n \in up
           /\ copy' = [st |-> "part", buf |-> idx[n], from |-> snaps[n][idx[n]].rho]
    /\ lap' = IF ticking[NodeURLs[at]].on THEN 1 ELSE 0
    /\ UNCHANGED <<nodeVars, pmap, at, acc, fed, pusherVars>>

\* Mutant: the maxima of earlier rounds are kept.
MaximaSticky(rho, overload) ==
    [rho |-> Higher(Higher(acc.rho, fed.rho), rho),
     overload |-> Higher(Higher(acc.overload, fed.overload), overload)]

\* The comparison of one answer with the maxima so far; a node that answers
\* two zeros is skipped, which leaves the maxima as they are.
Maxima(rho, overload) ==
    [rho |-> Higher(acc.rho, rho), overload |-> Higher(acc.overload, overload)]

\* Collect copies the rest; the answer is parsed and compared.
EndScrape ==
    /\ copy.st = "part"
    /\ Proceed(Maxima(copy.from.rho, snaps[NodeURLs[at]][copy.buf].rest.overload))
    /\ UNCHANGED <<nodeVars, pmap, pusherVars>>

\* The agent was gone when the scrape began, or died during it.
ScrapeFails ==
    /\ at > 0
    /\ copy.st = "broken" \/ (copy.st = "none" /\ NodeURLs[at] \notin up)
    /\ Proceed(acc)
    /\ UNCHANGED <<nodeVars, pmap, pusherVars>>

-----------------------------------------------------------------------------
\* Pusher.Run: what a federated maximum is turned into; conn_rate is not sent.
PushBody(f) ==
    [fault |-> f.rho >= RhoCap, cause |-> "network", overload |-> f.overload,
     shed |-> (f.overload * PPM) \div One, rho |-> f.rho, conn |-> 0]

\* A tick of the pusher; nothing is pushed below both thresholds.
BeginPush ==
    /\ pushAt = 0
    /\ fed.rho >= RhoCap \/ 2 * fed.overload >= One
    /\ pushAt' = 1
    /\ body' = PushBody(fed)
    /\ UNCHANGED <<nodeVars, pmap, federatorVars>>

\* Mutant: a refused request ends the round.
NextPushStops(u) == IF u \in up /\ pushAt < Len(NodePushURLs) THEN pushAt + 1 ELSE 0

\* The next request of the round, whether this one failed or not.
NextPush(u) == IF pushAt < Len(NodePushURLs) THEN pushAt + 1 ELSE 0

\* One POST and the handler forecastPolicyPush, which writes the policy map.
Push ==
    /\ pushAt > 0
    /\ LET u == NodePushURLs[pushAt]
       IN  /\ pmap' = IF u \in up THEN [pmap EXCEPT ![u] = PolicyValue(body)] ELSE pmap
           /\ pushAt' = NextPush(u)
    /\ body' = IF pushAt' = 0 THEN Idle ELSE body
    /\ UNCHANGED <<nodeVars, federatorVars>>

-----------------------------------------------------------------------------
Tick(n) == EndTick(n) \/ \E s \in Forecasts : BeginTick(n, s)
Federate == BeginRound \/ BeginScrape \/ EndScrape \/ ScrapeFails
Pusher == BeginPush \/ Push

FNext == (\E n \in Runners : Tick(n) \/ Crash(n) \/ Restart(n)) \/ Federate \/ Pusher

FSpec ==
    /\ FInit /\ [][FNext]_fvars
    /\ \A n \in Runners : WF_fvars(Tick(n))
    /\ WF_fvars(Federate) /\ WF_fvars(Pusher)

-----------------------------------------------------------------------------
\* The state keeps its shape, and a push in flight carries an overload above one
\* of the thresholds.
FedTypeOK ==
    /\ \A n \in Runners : idx[n] \in 0..1 /\ ticking[n].snap \in Forecasts
    /\ up \subseteq Runners
    /\ at \in 0..Len(NodeURLs) /\ lap \in 0..MaxLap /\ (copy.st # "none" => at > 0)
    /\ pushAt \in 0..Len(NodePushURLs)
    /\ pushAt > 0 => body.fault \/ 2 * body.overload >= One

\* While a tick does not overtake a scrape twice, a copy of the published buffer
\* is one forecast, never the rho of one and the overload of another.
SnapshotIntact ==
    copy.st = "part" => snaps[NodeURLs[at]][copy.buf].rest = copy.from

Calm == up = Runners /\ \A n \in Runners : \A i \in 0..1 : snaps[n][i].rho = Idle /\ snaps[n][i].rest = Idle

\* Once every runner stays up and forecasts nothing, the federation lets go: no runner's map
\* keeps a pushed fault, though pushes already under way still land.
FederationReleases ==
    <>[]Calm => <>[](\A n \in Runners : ~pmap[n].fault /\ pmap[n].shed = 0)

Overloaded(n) ==
    n \in up /\ \A i \in 0..1 : snaps[n][i].rho.rho >= RhoCap /\ snaps[n][i].rest.overload > 0

\* The runners among the push addresses.
Pushed == Runners \cap {NodePushURLs[i] : i \in 1..Len(NodePushURLs)}

\* A runner that stays overloaded keeps closing the maps of the others: every
\* runner on the list that stays up has the fault in its map again and again,
\* whoever else on the list does not answer and however often its own ticks,
\* calm ones, open the map in between.
FederationReaches ==
    \A m \in Pushed :
        (\E n \in Runners : <>[]Overloaded(n)) /\ <>[](m \in up) => []<>(pmap[m].fault)
=============================================================================
