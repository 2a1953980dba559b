# Formal model of Elite eBPF telemetry

TLA+ modules for the parts of this repository that decide and act, TLC configurations that check them on small
instances, and TLAPS proofs of the most important invariants for every value of the constants. Paths are relative to the
repository's root. Every definition that models code is listed with its source lines in `PROJECT.json` under `map`.

## The system

On every node an agent (`elite-agent`, `pkg/exporter`) runs eBPF and `/proc` probes, exports metrics and events, and may
run a *forecaster* (`pkg/forecaster`) that predicts latency and load a few seconds ahead. The forecast is acted on in
four places:

1. in the kernel, where an XDP program (`bpf/xdp_mitigator.c`) admits or sheds packets by the policy map the forecaster
   writes;
2. in the agent itself, which in semi mode sheds its own event probes for a while;
3. in `elite-dcic` (`cmd/elite-dcic`, `pkg/dcic`), which squeezes best-effort work through cgroups and cache masks;
4. in `elite-controller` (`pkg/elitecontroller`), which collects the forecasts of all nodes and pushes an overload to
   others.

`elite-updater` replaces the agent's binary. Beside these are the KubeSkoop parts the repository is built on: the
probes, the `nettop` cache of pods and network namespaces, the central controller with its task agents and IP cache, the
Loki client, the `skoop` diagnosis tool and a web console. `PROJECT.json` lists every part with its status.

## Modules

| Module | Models | State and actions |
|---|---|---|
| `QuotaGovernor` | the promise of a density controller | a quota within a band, moved at most once per dwell time |
| `DcicController` | `pkg/dcic/controller.go` | the fields of `Controller`; one action per outcome of `Observe`, and `SetMode` |
| `DcicDaemon` | `cmd/elite-dcic/main.go`, `actuator.go`, `resctrl.go` | extends the controller by the process, cgroup and mask; start, probe, tick, actuation, stop, crash, bus files |
| `XdpMitigator` | `bpf/xdp_mitigator.c`, `policy_map.h` | per CPU a program counter and registers; `token_consume` in its separate memory accesses; keys, elements and buckets of the LRU, with insertions that replace or fail and eviction under a CPU that holds the element; policy changes, time |
| `ProbeServer` | `DynamicProbeServer` in `pkg/exporter/cmd/server.go`, as the event server uses it | probe objects and `lastConfig`; `Reload` with its three failure points, `Stop` |
| `EventAgent` | `WatchConfig`, `reload`, semi mode of `runner.go` | extends `ProbeServer` by the file, the timer, the reload goroutines and the cooldown |
| `Updater` | `cmd/elite-updater/main.go` | destination, previous and temporary file, the running agent; one action per system call |
| `Kinematics` | `kinematic.go`, `ring.go`, `ewma.go` | a tracker as a record, `Observe` as an operator |
| `PolicyMath` | `traffic_engine.go`, `overload.go`, `shed_controller.go`, `policy_bpf_sync.go` | pure operators from a projection to the value of the policy map |
| `Forecaster` | `runner.go`, `kernel_signal.go` | two trackers, service rate, snapshot, policy map, event ring; one action per tick, event, read |
| `MuEstimator` | `mu_estimator.go`, `ReadXDPStats`, `Run`'s ticker | the counter modulo its width, the tick waiting, the tick handled and its reading, the estimate; packets, a tick taken late, a reading later still or failing, a counter that starts again |
| `Federation` | `federate.go`, `push.go`, the double buffer, `forecastPolicyPush` | several nodes, the Federator's and the Pusher's position, agents that crash and restart |
| `IpCache` | `pkg/controller/ipcache/ipcache.go`, `nettop/ipcache.go`, `syncIPCache` of `task-agent/agent.go` | the map, its log and channel, `syncControl` as a program counter, clients with their channels, streams, the agents' copies |
| `TaskPlane` | `pkg/controller/service/agent.go`, `pingmesh.go`, `capture.go`, the agent's `watchTask` | watchers, waiters, jobs, captures; one action per step between two waits |
| `SharedProbe` | `socketlatency.go`, `tracekernel.go`, `proto.go`, `eventserver.go`, start and stop in `metricserver.go` | reference counts, readers and their loops, the fan-out, sinks with their channels |
| `LokiClient` | `pkg/exporter/loki/client.go` | the entries' channel, the batch, the timer, the goroutine |
| `LinkFlow` | `nettop/linkmanager.go`, `probe/flow/flow.go` | the kernel's interfaces, the manager's cache, an event loop that may end, the listener's channel, flows and filters with attachments and clean-ups that fail |
| `BpfMaps` | hash and per-CPU maps as the programs use them (external) | operators on functions, and the clock |
| `KernelLatency`, `TxQueueLatency`, `SoftirqLatency`, `DeviceLatency`, `SocketLatency` | `bpf/kernellatency.c`, `netiftxlatency.c`, `softirq.c`, `virtcmdlatency.c` and `tracebiolatency.c`, `socketlatency.c` with its Go collector | the program's maps, its last event, and the packets, requests or sockets of the kernel; one action per hook |
| `ConnectTrace` | `bpf/connect_trace.c` | threads in the middle of the exit hook, map elements that are used again |
| `KernelProbes` | the programs under `bpf/` loaded together, and `LinkFlow` | the modules above and below composed over one clock; the promises they share |
| `PacketTuple`, `PacketTrace` | `bpf/headers/inspector.h`, `flow.c`, `packetloss.c`, `tcpreset.c`, `tcpretrans.c` | parsing as operators with the bytes they read; the flow counters and the event programs |

`MC*` modules hold the constants for TLC, `*Proofs` modules the theorems. Definitions whose comment begins with *Mutant*
are plausible bugs; `PROJECT.json` pairs one with every property that a run lists.

How the modules fit together: `DcicDaemon` composes the controller with the host and with the files the forecaster
writes; `EventAgent` composes the probe server with the file watcher and the forecaster's semi mode; `Forecaster`
composes `Kinematics` and `PolicyMath`; `Federation` takes what `Forecaster` computes as a set of forecasts and composes
several nodes. `XdpMitigator` takes the values `PolicyMath` writes as a set of policies. `IpCache` composes the controller
with its agents, `TaskPlane` the controller's handlers with an agent, `SharedProbe` a probe with two servers and the
sinks, `LinkFlow` the link manager with the flow probe. `KernelProbes` composes the programs under `bpf/`, which share the
clock, and `MCNodeServices` parts that share nothing: a behaviour follows one of them and the others stand still.

### What is abstracted

Fractions are integers in units of `1/One` or `1/PPM` and divisions round down, where the code has floats; averages
therefore reach their limit in finitely many steps. A random draw against a rate is a choice, unless the rate is 0 or 1.
Time is relative and saturates where nothing depends on it any more. Names, arguments, addresses and release contents
are model values or small numbers. Logging, metrics and JSON are left out. A fused latency sample comes with the cause
`BlameCause` gives it. In `Forecaster` the estimator answers any rate of a set while the overload is at most a half and
keeps its estimate above, as the code does; how it comes to a rate is the subject of `MuEstimator`. The ring of the
latency tracker is not kept, because only the least-squares velocity reads it.

A kernel address, CPU, thread, request or interface is a model value. Fields named `gen`, `opened`, `own` or `since` are
history: they say for which packet or thread a time was taken, which the programs do not know. A hook is one step, except
in `ConnectTrace`, the flow program and `XdpMitigator`, where what another CPU does between two memory accesses matters.
A frame of the traffic control hooks is linear; a socket buffer has room before its data, where its offsets count from,
and fragments that its length includes, as `set_tuple` compares the one with the other. Running `tcpdump` or `ping` is an
outcome. The node handlers of the IP cache do what the pod handlers do with other entries. Attaching to an interface is
one step, and the index of an interface is not used again.

## Runs

| Run | Instance | Shows |
|---|---|---|
| `dcic_controller` | four noise levels, band 1..6, step 2 (does not divide the band), dwell 2, gaps 1..2 | slack counted since the last change; refinement of `QuotaGovernor`: band, step and dwell |
| `dcic_daemon` | two noise levels, pressure 0..1, one failing write, eight cache ways, crash and restart in any mode | the cgroup holds the controller's quota unless a write failed; a stop gives it back; the mask follows the CPU; other modes leave the host alone; calm restores the host |
| `xdp_paths` | one CPU, three packets, policies of all versions, burst of two seconds, a refused insertion or an eviction anywhere | a token spent leaves its bucket and a bucket grows only by its refill; tokens come back |
| `xdp_race` | two CPUs, one source in two tiers, two service rates, one element, burst of one second | no interleaving of loads, stores, refills and evictions leaves more in a bucket than the fastest rate allows |
| `agent` | two probes, two arguments, two overlapping reloads, failures in create, stop and start | nothing stray runs, losses have a reason, the last edit wins, shed probes return |
| `agent_restore` (violated) | the same | a restore brings back the probes of the start-up configuration |
| `updater` | five versions, one bad, one kill, I/O, network or systemctl failure | a complete binary survives, the release gets installed, a bad one is rolled back |
| `forecaster` | latency 0 or 4 with hard drop 3, connection counts 1 and 17, window 3, two service rates, a rate field of 6 bits that wraps | drop feedback takes at most half, a falling load is not projected, the map reopens under calm |
| `federation` | two runners, one bare node, one address that never answers, two forecasts | scrapes are whole, a lasting overload closes the map of every runner that is up again and again, a calm cluster lets go |
| `kernel_probes` | two addresses, CPUs, threads or interfaces; two or three packets or requests; maps of one entry (two for flows); clock 1..3 | `SpansAreOwn` and `TxSpanOfOnePacket`: a reported time belongs to the packet, request, thread or socket it is reported for; `NeverOverstated`; `CountsAreExact`; `set_tuple` reads the packet's own memory while its fragments fit in the head room; the flow program is on the interfaces it could be attached to, and a stop removes it although clean-ups fail |
| `ip_cache` | two pods, two addresses, one agent, two streams, buffers of one entry, three changes, one fault | an agent's copy is a state the controller's map had (`ReplicaIsPrefix`); `syncControl` does not panic; copies converge; the binary search `findNext` agrees with what `syncOne` needs of it (`FindNextAgrees`, an assumption of `MCIpCache` that TLC evaluates) |
| `node_services` | two pings and a capture over two connections; two servers, two readers, two sinks; five log entries in batches of three; a counter modulo 4, ticks up to seven intervals late | a latency is the answer to its own ping, handlers and captures come to an end, started probes are attached, a slow sink holds nobody up, batches are posted in time, the service rate exceeds what was measured only as far as ticks were late |

Three properties of `kernel_probes` state one promise for several programs at once and are conjunctions of a property of
each (`KernelProbes`); the mutant recorded for such a property breaks one of the conjuncts. The runs list the properties
that take several steps or actors to break; the type invariants and a few facts that only the proofs use
(`NoOrphanEntries`, `CatchUpEndsAtSynced`, `BackOnlyByList`, `LatencyFaultSheds`) are stated in the modules too. The
hazards in `PROJECT.json` are a selection: the ones these properties are about, and the most consequential others. Where
a property excepts a case that the code does not handle, the hazard's note says so.

The bounds are chosen so that every branch is taken: the step does not divide the quota band, the connection window
wraps, the samples give overloads of 0, small (whose shed rate truncates to 0), middle and 1, every fault can strike at
every step, and a scrape can be overtaken by a tick. `MaxFailures`, `MaxFaults`, `FaultPlans`, `MaxGap`, `MaxAge`,
`MaxLag`, `MaxLap` and `Reloaders` are the named bounds; in the newer modules `MaxTime`, `MaxPkts`, `TqMaxPkts`,
`MaxRequests`, `MaxSocks`, `MaxObs`, `MaxConnects`, `MaxFrames`, `MaxChanges`, `MaxRevision`, `MaxConns`, `MaxReaders`,
`MaxEvents`, `MaxEntries` and `MaxClock`. Maps and channels of one place are what makes full ones, replaced entries and
blocked clients happen. `MaxLap = 1` is an assumption about timing rather than a size: a copy of a snapshot takes well
under a microsecond and a node ticks once per interval (one second by default), so at most one tick begins during a
copy. The code does not enforce it.

### Fairness

Liveness is checked under weak fairness of what a ticker, a timer or a started goroutine drives: the control epoch, the
daemon's tick and its actuation, the watcher and the reloads, the forecaster's tick (written as infinitely many steps
that leave the event ring alone, which only ticks do), the Federator's and the Pusher's next step, a run of the updater.
Two places assume strong fairness: time passes between packets although packets keep coming (`PassTime`), and a restore
that is retried every tick succeeds in the end (`Restores`). The fairness of the Federator and the Pusher assumes that
HTTP requests end; the code sets no time-out. Edits, crashes, faults, evictions and policy changes have no fairness.

In `IpCache` the handlers, `syncControl`, senders and agents run. Go's `select` takes one of several ready cases at
random, so a case that is ready again and again is taken (`Receive`, `MarkClientClosed`: strong fairness), and an agent
retries after every broken stream until one holds (`AgentStep`). In `TaskPlane` some goroutine or timer moves while one
can, and nothing makes a connection break or a capture's hour pass. In `SharedProbe` the loops and the fan-out run but a
sink's `Write` need not return. In `LokiClient` the timer and the goroutine run; a post that hangs is excepted.

## What the violated run shows

`eventProbeShedder` restores a list copied at start, not the one a later reload configured (`agent_restore`).

Seen while modelling and not the subject of a run: a latency fault with a traffic sample is a full overload unless the
latencies are of the order of nanoseconds, because the target of 1.0 in `FuseOverload` falls back on 0.7
(`LatencyFaultSheds` states the bound that always holds); a pushed policy
sheds linearly in the overload and a local one with exponent gamma; a bare node keeps a pushed policy for ever; an agent
that restarts without reaching a tick leaves its pinned map as it was; after a rollback the next timer run downloads the
bad release again; `NewRunner` sets the fast interval on its own copy of the configuration after the runner has taken
its one, so the runner keeps ticking at `Interval`.

Also seen, from the source:

* `token_consume` loads, tests and stores tokens without atomics, so two CPUs may spend the same token and a refill may
  undo a decrement. Nothing in the repository claims more than the cap, which `xdp_race` shows to survive.
* The rate written to the policy map is a float converted to 32 bits. Divided by a small `RhoProjected` it may exceed them,
  and what it then becomes depends on the machine: it wraps, possibly to 0 (the program then takes 10000), or saturates.
* The updater compares versions before it checks health, so a rollback that was interrupted is never finished (`RollsBack`
  is stated for runs that are not cut short).
* A shed rate of 0 under a fault is replaced by the full rate, so that overloads below 0.001 shed everything with the
  default gamma of 2 (`ShedsHalfAtLeast` bounds the rate from below only).
* `decodeLambdaEvent` asks for 32 bytes of a 24-byte event.
* `insp_kerneltx_entry` may hold the entry of a dead packet when a packet is freed by a function that is not hooked, and
  the next packet at the address is then measured against it (`TxSpanOfOnePacket` excepts this; the receive side does not
  need to).
* A start of a shared probe that fails keeps its reference; the sink of an event probe is not reset when it stops; a
  `tracekernel` probe used for metrics only has no reader.
* `commitTask` has no way out when the watcher it chose leaves with its channel full; a capture answered before its record
  is stored stays running; a capture whose file cannot be written is still a success.
* The comment at `pkg/exporter/nettop/linkmanager.go:157` speaks of "no event loss", and `broadcast` drops an event when
  the listener's channel is full; changes between `LinkList` and `LinkSubscribe` are missed until the next one.
  When netlink cannot be read the event loop ends and nobody is told. An attachment that failed is tried again only when
  the link changes, and `Stop` does not wait for the listener, which may attach once more behind it.
* `set_tuple` compares offsets that count from `skb->head` with `skb->len`, which counts from `skb->data` and includes
  fragments, and keeps the transport offset in 16 bits.
* A pass counter that cannot be read is taken for 0, and the wrapped difference becomes the service rate.

## Proofs

All are for every value of the constants that satisfies the named assumptions.

* `DaemonProofs`, the controller: `TypeCorrect`, `SlackAccounting`, `ControllerObeysGovernor`. `TypeOK /\
  SlackSinceChange` is inductive (lemmas `InitInv`, `ObserveInv`, `NextInv`); the refinement adds that every step is a
  governor step or leaves its state alone. Assumes `ConfigAssumption`.
* `DaemonProofs`, the DCIC daemon: `EnforcedQuotaApplied`, `StopGivesBack`, and the action properties `MaskNeverAhead`
  and `ObserversLeaveHost`. `QuotaApplied` alone is not inductive: `DaemonInv` adds that a decision not yet written
  carries the controller's present quota and was taken in enforce mode. Assumes `DaemonAssumption` too.
* `MitigationProofs`, the XDP program: `XdpTypeCorrect`, `BucketsStayCapped` for any number of CPUs, `OneCpuConserves`
  for one. `CpuInv` says what a CPU in the middle of `token_consume` holds: a rate some policy set, an element of the map or
  one that has left it, a token count that fits; this makes the cap survive every race, including the wrap of a stale
  `now` and a store into an element that another key has. Conservation needs in addition that nobody changes a bucket
  between a CPU's load and its store.
* `DaemonProofs`, the probe server: `OnlyConfiguredProbesRun`, `LossesAreExplained`; type, `NothingStray` and
  `LossExplained` together are inductive. `AgentIsServer`: `AgentSpec` implements `ServerSpec`, as what the reload
  goroutines and the forecaster do to the probes is a whole `Reload` of a configuration that exists (`AgentInvariant`
  says that the ones read from the file and kept for the restore do). `AgentKeepsProbes` carries the two invariants
  over.
* `MitigationProofs`, the federation: `CopiesAreWhole`, under `MaxLap <= 1`. `BufferInv` adds that the published buffer
  is whole, that the other one is whole unless a tick is half-way through it, and that a copy in progress reads the
  published buffer or the one that the only tick allowed has just retired.
* `IpCacheProofs`: `IpTypes`, `ReplicasArePrefixes`, `NeverPanics`, `CatchUpNeverPasses`, `OnlyListsGoBack`, for any
  pods, agents, streams and sizes. None of them is inductive alone. `IInv` is the types with five parts: the log, the
  pending changes and the channel are consecutive runs of the map's history (`LogInv`); where `syncControl` is tells
  which of its variables mean something (`SyncInv`); a client's revision is the last flushed one, or in the middle of a
  flush the one the flush has reached (`ClientInv`); what is under way on a stream continues the agent's copy
  (`StreamInv`); and the copy is the map at its revision, unless the controller restarted (`AgentInv`).
* `DaemonProofs`, the updater: `OneFailureKeepsBinary`, under `OneFault` (no two faults in one behaviour). With two
  faults it is false: a second run that is cut short can remove the binary the first one left. `Sound` says what holds
  while all releases work, that there is no rollback, and `Spare` where the complete binary is at each system call of a
  run that was not cut short.
* `ForecasterProofs`: `ForecasterTypes`, `LatencySheds`, `HalfIsShed`, `FallingStays`. `FcInv` gives the ranges of the
  trackers between ticks, says that a load tracker with a window that does not rise projects nothing (`Falling`), and
  how the snapshot and the map value of the last tick go with its latency tracker (`PublishedOK`). What the recursive
  functions compute is shown by the least argument at which a claim fails (`Least`, `UpTo`): powers are positive
  (`PowerPositive`), which bounds the share shed, and the numerator of the least-squares slope of a window that does not
  rise is at most 0 (`FallingNumerator`) while its denominator is positive (`DenominatorPositive`), so that `Observe`
  projects nothing. This needs three samples: with `ConnCap = 2` `Observe` takes the slope of the average, and TLC has a
  counterexample. Assumes `PolicyAssumption`, `KinematicsAssumption` and `ForecasterAssumption`.
* `NodeServicesProofs`: `ServiceRateIsMeasured`, `RunningProbesAttached`, `LatenciesAreOwn`. For the estimator,
  `Accounted` bounds the distance of the counter from the last reading, modulo the counter's width, by the time since the
  tick that the reading was made for, which is older than the reading by at most `lag`.
  For shared probes, the count is right and the program attached exactly while it is not 0 (`CountsWrappers`). For the
  ping mesh the latency is the end of a chain, each link of which is a conjunct of `TpInv`: a committed ping has a
  number that no other task has, the result watcher under a number is that ping's, an upload goes to its own channel,
  and the channel holds nothing but its ping. Assume `MuAssumption` and `TpAssumption`.
* `KernelProbesProofs`, about all programs under `bpf/` and the flow probe together: `SpansOfOneSubject`,
  `TimesNotOverstated`, `TxEventsAreOwn`, `EntriesHaveOwners`, `CountsStayExact`, `TuplesReadInside`, `FlowsKeepUp`,
  `StopLeavesNoFilter`, for any addresses, CPUs, threads, interfaces and sizes of the maps. `AllInv` is the invariants
  of all programs (`ProbesInvariant`): `DevicePathProofs` and `SocketPathProofs` show that a program's steps keep its
  own, and that the clock does. Each says whom a stamp belongs to: a received packet past `ip_rcv` finds its own entry
  or none (`RxOwn`); the queue's stamp at the address of a waiting packet is its own and the driver's is no older than
  its start (`QueueStampOwn`, `DriverStampLater`); a CPU's value is of a raise it has not served or of the handler it
  runs (`StampsOfCpu`); a command that stayed on its CPU finds its own time (`CallStampOwn`); the entry at an open
  socket's address was made for it (`EntryOfSocket`); two threads never share an element and what a thread has read is
  of its own start (`StartsApart`, `StartIsOwn`). Assumes `CtAssumption` (the clock does not wrap during a run) and
  `PtAssumption` (sizes are unsigned, the CPUs are finitely many). The routes of packets through the hooks are the
  kernel's.
* `SocketPathProofs`, the counters: `CountsAreExact` speaks of sums over CPUs and keys. A sum is defined by a choice of
  the next element; that the choice does not matter, and that changing one summand changes the sum by as much, is shown
  by the smallest subset for which it fails (`LeastSubset`, from the well-foundedness of strict inclusion on finite
  sets). `SlCountInv` says that the entries a collection adds up make the spans counted so far; `CtCountInv` that a
  namespace has its own element and a thread about to add holds it, unless two CPUs inserted it; `FlInv` that what a CPU
  has looked up is there or was evicted since (`LookupsHold`), and that per tuple the CPUs' counters make the packets
  and bytes seen since it was inserted (`FlowsAddUp`).
* `DevicePathProofs`, the flow probe: `FlowsFollowLinks` speaks of the moments when nothing is pending. `LfInv` says
  what holds at all others: the last netlink message about an interface carries its present name (`CacheCatchesUp`), the
  last event of the pattern in the listener's channel says what the cache does (`FlowsCatchUp`), no message under way
  takes an interface out of the pattern unless it was renamed (`NeverOut`), and the filters are those of the flows and the
  leftovers of clean-ups (`FiltersOfFlows`). A clean-up removes what it was asked to but for what it failed at
  (`CleanupLeaves`), so the sweep of `Stop` leaves nothing else, however many of its clean-ups fail.

Every safety property of a passing run has a theorem. Only model-checked: the liveness properties (fairness and ENABLED
are out of the prover's reach), and so `LokiClient`, of which the run asks only that batches are posted in time. Four
theorems have a hypothesis on the constants, and their runs' constants satisfy it too: `OneCpuConserves` (one CPU),
`CopiesAreWhole` (`MaxLap <= 1`), `OneFailureKeepsBinary` (`OneFault`) and `FallingStays` (`ConnCap >= 3`).

## Plan

1. The `nettop` entity cache and the metric server's cache, composed with the probes that read them.
2. `skoop`: route lookup, iptables traversal, IPVS and the plugins' forwarding as functions with reference definitions;
   the collector pod's life.
3. `fuse.go`, the LLC sampler and the ECGF posture, composed with the daemon's bus.
4. Proofs: the type invariants of `Federation` and `Updater`.

Runs stay few: new parts are checked as compositions, with history variables that say which faults have struck, and not
one part at a time.

## Not modelled

Probes that only read and parse a kernel file, OTLP export, BPF loading, generated bindings and the web console have no
state whose order of changes matters. Of the C code under `bpf/`, what is left is mostly generated: `vmlinux.h` and the
libbpf helper headers declare the kernel's types and calls and hold nearly all of its lines, but no behaviour of this
program. `kprobe.c`, `nflatancy.c`, `netns.c`, `tasklatency.c`, `flowcount.c`, `rxkernel.c` and `txkernel.c`, 68 lines
together, are stubs and a sample and have no module, nor has `contrib/sched-ext`. In the XDP program the statistics
counters and the sampling of lambda events are abstracted. `Ingester.Watch` of the Loki client, the metric server's
cache, registry and HTTP handler, and the softirq probe's reload when its vectors change are not modelled: the registry
panics when a collector is entered twice and keeps the collector of a probe whose stop failed. HTTP requests of the
Federator and the Pusher end, at once or with an answer, though the code sets no time-out. The controller is not
restarted in `TaskPlane`: a restart numbers tasks from 1 again while an old job may still upload under such a number. In
`MCNodeServices` a capture has one item, so that captures whose items settle in different orders are not explored. The
remaining parts without a module are those of the plan.
