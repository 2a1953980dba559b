----------------------------- MODULE Forecaster -----------------------------
(***************************************************************************)
(* One node's forecaster (pkg/forecaster/runner.go): a tick samples the    *)
(* latency and the connection count, projects both (Kinematics), turns the *)
(* projections into an overload and a shed rate, corrects it by the drops  *)
(* the XDP program counted and writes the policy map (PolicyMath).  Beside *)
(* it a goroutine drains the kernel's ring of packet-rate events, which    *)
(* replace the scraped connection rate once one has been decoded.          *)
(***************************************************************************)
EXTENDS Kinematics, PolicyMath

CONSTANTS
    Samples,        \* fused latency samples, each with the cause BlameCause
                    \* gives it: records [raw, cause]; raw 0 is also a failed scrape
    HardDrop,
    Nano,           \* a latency of 1, in units of 1e-9
    Conns,          \* established connections a scrape may count
    Mus,            \* what MuEstimator may answer
    ConnCap,
    MaxGap,         \* ticks since the last connection sample, capped
    DropRates,      \* drop rates the XDP counters may show, in 1/PPM
    EventLen,       \* sizeof(struct elite_lambda_event)
    MinLen,         \* what decodeLambdaEvent asks for
    KernelRate      \* KernelLambdaRate of a batch

VARIABLES
    lat,            \* Engine.tracker
    traffic,        \* TrafficEngine.tracker
    prevConn,       \* TrafficEngine.prevConn; 0 before the first sample
    gap,            \* ticks since the last connection sample
    mu,             \* TrafficConfig.MuEst
    snap,           \* the snapshot published last
    pmap,           \* the value in elite_policy
    ring,           \* events in elite_lambda_ring
    last            \* KernelSignalReader.last holds an event

vars == <<lat, traffic, prevConn, gap, mu, snap, pmap, ring, last>>

ASSUME ForecasterAssumption ==
    /\ (\A x \in Samples : x.raw \in Nat) /\ HardDrop \in Nat \ {0} /\ Nano \in Nat \ {0}
    /\ Conns \subseteq Nat \ {0} /\ Mus \subseteq Nat \ {0} /\ Mus # {}
    /\ ConnCap \in 2..16 /\ MaxGap \in Nat \ {0}
    /\ DropRates \subseteq 0..PPM
    /\ EventLen \in Nat /\ MinLen \in Nat /\ KernelRate \in Nat \ {0}

Quiet == [fault |-> FALSE, cause |-> "none", overload |-> 0, shed |-> 0, rho |-> 0, conn |-> 0]

Init ==
    /\ lat = NewTracker(2, HardDrop, FALSE)
    /\ mu \in Mus
    /\ traffic = NewTracker(ConnCap, (mu * RhoTarget) \div One, TRUE)
    /\ prevConn = 0 /\ gap = 1
    /\ snap = Quiet /\ pmap = PolicyValue(Quiet)
    /\ ring = 0 /\ last = FALSE

-----------------------------------------------------------------------------
\* The scraped connection rate; NewConns is what ObserveConn divides.
NewConns(conn) == IF prevConn = 0 THEN 0 ELSE Higher(conn - prevConn, 0)

\* The snapshot of a tick whose traffic sample left tracker t: FuseOverload of
\* the latency tracker l and t, then ApplyOverload.  Adjust comes last.
Fused(l, cause, t, dropRate) ==
    LET rho == (t.projected * One) \div mu
        preFault == rho > RhoTarget /\ 10 * ((t.ewma * One) \div mu) > 3 * RhoTarget
        ratio == (l.projected * Nano * One) \div (l.ewma * Nano + 1)
        overload == FuseOverload(l.fault, ratio, ComputeOverloadFraction(rho, RhoTarget))
    IN  [fault |-> l.fault \/ preFault, cause |-> cause, overload |-> overload,
         shed |-> Adjust(ShedPPM(overload), dropRate), rho |-> rho, conn |-> t.ewma]

\* Mutant: a tick without a traffic sample keeps the overload it had.
UnsampledKeeps(l, cause) ==
    [snap EXCEPT !.fault = l.fault, !.cause = cause]

\* The snapshot of a tick without a traffic sample.
Unsampled(l, cause) ==
    [Quiet EXCEPT !.fault = l.fault, !.cause = cause]

\* Runner.tick and applySample.  conn = 0 is a failed connection scrape, which
\* counts only while no kernel event has been decoded.  MuEstimator keeps its
\* estimate while the overload is above a half; else the pass counter decides.
Tick(sample, conn, dropRate) ==
    LET l == Observe(lat, sample.raw, 1)
        cause == IF ~l.fault THEN "none" ELSE IF sample.cause = "none" THEN "network"
                 ELSE sample.cause
        sampled == last \/ conn > 0
        t == IF last THEN Observe(traffic, KernelRate, gap)
             ELSE Observe(traffic, NewConns(conn) \div gap, gap)
        s == IF sampled THEN Fused(l, cause, t, dropRate) ELSE Unsampled(l, cause)
    IN  /\ lat' = l
        /\ traffic' = IF sampled THEN t ELSE traffic
        /\ prevConn' = IF ~last /\ conn > 0 THEN conn ELSE prevConn
        /\ gap' = IF sampled THEN 1 ELSE Lower(gap + 1, MaxGap)
        /\ mu' \in IF 2 * s.overload > One THEN {mu} ELSE Mus
        /\ snap' = s
        /\ pmap' = PolicyValue(s)
        /\ UNCHANGED <<ring, last>>

\* maybe_emit_lambda: every ELITE_LAMBDA_RING_BATCH packets, if there is room.
EmitLambda ==
    /\ ring = 0
    /\ ring' = 1
    /\ UNCHANGED <<lat, traffic, prevConn, gap, mu, snap, pmap, last>>

\* KernelSignalReader.Run: one record; decodeLambdaEvent refuses a short one.
ReadLambda ==
    /\ ring > 0
    /\ ring' = ring - 1
    /\ last' = (last \/ EventLen >= MinLen)
    /\ UNCHANGED <<lat, traffic, prevConn, gap, mu, snap, pmap>>

Ticks == \E sample \in Samples, conn \in Conns \cup {0}, dropRate \in DropRates :
            Tick(sample, conn, dropRate)

Next == Ticks \/ EmitLambda \/ ReadLambda

\* The ticker never stops.  The steps that leave ring and last alone are the ticks, and
\* a tick that changes something is always possible (another sample is another lat.raw):
\* this is WF_vars(Ticks), stated without trying every tick at every step.
Spec == Init /\ [][Next]_vars /\ []<><<UNCHANGED <<ring, last>>>>_vars

-----------------------------------------------------------------------------
\* The trackers, the snapshot and the map value stay well formed: shed rate and
\* overload within their scales, a cause exactly when the latency is at fault.
FcTypeOK ==
    /\ \A k \in {lat, traffic} : /\ k.head \in 0..(k.cap - 1) /\ k.len \in 0..k.cap
                                 /\ k.ewma \in Nat /\ k.projected >= k.ewma
    /\ snap.overload \in 0..One /\ snap.shed \in 0..PPM /\ snap.rho \in Nat
    /\ (snap.cause # "none") = lat.fault
    /\ pmap.shed \in 0..PPM /\ pmap.mu \in 0..(U32 - 1)
    /\ gap \in 1..MaxGap /\ mu \in Mus /\ last \in BOOLEAN /\ ring \in 0..1

\* A latency fault together with a traffic sample is an overload of a half at least,
\* whatever the ratio of projection and average is (FuseOverload).
LatencyFaultSheds ==
    snap.cause # "none" /\ snap.overload > 0 => snap.overload >= One \div 2

\* Whatever the drop counters say, the map sheds at least half of what the
\* forecast's overload calls for (ShedController.Adjust).
ShedsHalfAtLeast == 2 * pmap.shed + 1 >= ShedPPM(pmap.overload)

\* A load that has not risen within the window is never projected upwards, at
\* whatever place of the array the window starts (Ring.VelocityLS).
FallingNotProjected ==
    LET w == [i \in 1..ConnCap |-> traffic.buf[(traffic.head + i - 1) % ConnCap]]
    IN  traffic.len = ConnCap /\ (\A i \in 2..ConnCap : w[i] <= w[i - 1])
        => traffic.projected = traffic.ewma

\* Once latency and connections stay quiet the policy map reopens for good.
QuietReopensMap ==
    <>[](lat.raw = 0 /\ traffic.raw = 0) => <>[](~pmap.fault /\ pmap.shed = 0)

=============================================================================
