------------------------- MODULE NodeServicesProofs -------------------------
(***************************************************************************)
(* Three of a node's services, for any number of tasks, readers and        *)
(* connections and any size of their counters and channels: the service    *)
(* rate is measured, a running probe is attached, and a latency belongs to *)
(* the pair it is shown for.                                               *)
(***************************************************************************)
EXTENDS MuEstimator, SharedProbe, TaskPlane, TLAPS

-----------------------------------------------------------------------------
(* MuEstimator *)

\* No packet passed that the rate does not account for, since the last reading and since
\* the one that Observe has not had yet, which was taken at most lag after its tick.
Accounted ==
  /\ lastAt # -1 => (pass - lastPass) % PassMod <= MaxRate * (clock - lastAt)
  /\ read # -1 => (pass - read) % PassMod <= MaxRate * (clock - now)
  /\ read # -1 /\ lastAt # -1 => (read - lastPass) % PassMod <= MaxRate * ((now - lastAt) + lag)

Bounded(mu, l) == mu <= Unit * MuFloor \/ mu <= Unit * (MaxRate * (1 + l))

\* Ticks are handled in the order they are sent.
Ticks == /\ clock \in Nat /\ lastAt \in -1..clock /\ now \in -1..clock /\ due \in -1..clock
         /\ now # -1 => lastAt < now
         /\ due # -1 => lastAt < due /\ now < due
         /\ read # -1 => now # -1

\* MuIsMeasured speaks of the estimate only; the next estimate depends on the counter.
MuInv == /\ Ticks /\ lag \in Nat /\ muEst \in Nat /\ sampleCount \in Nat
         /\ pass \in 0..PassMod - 1 /\ lastPass \in 0..PassMod - 1 /\ read \in -1..PassMod - 1
         /\ disturbed \/ (Bounded(muEst, lag) /\ Accounted)

\* Unsigned subtraction: what is added to the counter is at most added to its distance
\* from an earlier reading, wherever the counter wraps (the uint64 delta of mu_estimator.go).
LEMMA UnsignedDelta ==
  ASSUME NEW p \in 0..PassMod - 1, NEW l \in 0..PassMod - 1, NEW n \in Nat
  PROVE  LET r == (p + n) % PassMod IN
         /\ r \in 0..PassMod - 1
         /\ (p - l) % PassMod \in Nat /\ (r - l) % PassMod \in Nat
         /\ (r - l) % PassMod <= ((p - l) % PassMod) + n
<1>. DEFINE r == (p + n) % PassMod
<1>1. \A x \in Int : x % PassMod \in 0..PassMod - 1  BY MuAssumption
<1>2. \A x \in 0..PassMod - 1 : x % PassMod = x  BY MuAssumption
<1>3. \A x \in PassMod..2 * PassMod - 1 : x % PassMod = x - PassMod  BY MuAssumption
<1>4. \A x \in -PassMod..-1 : x % PassMod = x + PassMod  BY MuAssumption
<1>5. r \in 0..PassMod - 1 /\ (p - l) % PassMod \in 0..PassMod - 1 /\ (r - l) % PassMod \in 0..PassMod - 1
  <2>1. r \in 0..PassMod - 1  BY <1>1, MuAssumption
  <2>. HIDE DEF r
  <2>2. p - l \in Int /\ r - l \in Int  BY <2>1, MuAssumption
  <2>3. QED  BY <1>1, <2>1, <2>2, Zenon
<1>6. CASE n >= PassMod  BY <1>5, <1>6, MuAssumption
<1>7. CASE n < PassMod
  <2>1. r = IF p + n < PassMod THEN p + n ELSE p + n - PassMod
    BY <1>2, <1>3, <1>7, MuAssumption
  <2>2. (p - l) % PassMod = IF p >= l THEN p - l ELSE p - l + PassMod
    BY <1>2, <1>4, MuAssumption
  <2>3. (r - l) % PassMod = IF r >= l THEN r - l ELSE r - l + PassMod
    <3>. HIDE DEF r
    <3>. QED  BY <1>2, <1>4, <1>5, MuAssumption
  <2>4. QED  BY <1>5, <2>1, <2>2, <2>3, MuAssumption
<1>8. QED  BY <1>5, <1>6, <1>7, MuAssumption

\* A unit of time adds no more to what passed than the rate allows for it.
LEMMA Grows ==
  ASSUME NEW p \in 0..PassMod - 1, NEW l \in 0..PassMod - 1, NEW n \in 0..MaxRate, NEW d \in Nat,
         (p - l) % PassMod <= MaxRate * d
  PROVE  (((p + n) % PassMod) - l) % PassMod <= MaxRate * (d + 1)
<1>. DEFINE old == (p - l) % PassMod
            new == (((p + n) % PassMod) - l) % PassMod
<1>1. n \in Nat /\ n <= MaxRate  BY MuAssumption
<1>2. old \in Nat /\ new \in Nat /\ new <= old + n  BY <1>1, UnsignedDelta, Zenon
<1>3. old <= MaxRate * d  BY Zenon
<1>. HIDE DEF old, new
<1>4. MaxRate * (d + 1) = MaxRate * d + MaxRate /\ MaxRate * d \in Nat  BY MuAssumption
<1>5. new <= MaxRate * (d + 1)  BY <1>1, <1>2, <1>3, <1>4, MuAssumption
<1>6. QED  BY <1>5, Zenon DEF new

\* A longer lag allows more.
LEMMA LagAllows ==
  ASSUME NEW l \in Nat, NEW m \in Nat, l <= m
  PROVE  /\ \A mu \in Nat : Bounded(mu, l) => Bounded(mu, m)
         /\ \A d \in Nat : MaxRate * (d + l) \in Nat /\ MaxRate * (d + m) \in Nat
                           /\ MaxRate * (d + l) <= MaxRate * (d + m)
<1>1. ASSUME NEW d \in Nat
      PROVE  MaxRate * (d + l) \in Nat /\ MaxRate * (d + m) \in Nat /\ MaxRate * (d + l) <= MaxRate * (d + m)
  <2>1. MaxRate * (d + l) \in Nat /\ MaxRate * (d + m) \in Nat  BY MuAssumption
  <2>2. m - l \in Nat /\ MaxRate * (m - l) \in Nat  BY MuAssumption
  <2>3. MaxRate * (d + m) = MaxRate * (d + l) + MaxRate * (m - l)  BY MuAssumption
  <2>4. QED  BY <2>1, <2>2, <2>3
<1>2. ASSUME NEW mu \in Nat, Bounded(mu, l)
      PROVE  Bounded(mu, m)
  <2>. DEFINE x == MaxRate * (1 + l)
              y == MaxRate * (1 + m)
  <2>1. x \in Nat /\ y \in Nat /\ x <= y  BY <1>1
  <2>2. mu <= Unit * MuFloor \/ mu <= Unit * x  BY <1>2, Zenon DEF Bounded
  <2>. HIDE DEF x, y
  <2>3. y - x \in Nat /\ Unit * (y - x) \in Nat /\ Unit * x \in Nat /\ Unit * y \in Nat  BY <2>1, MuAssumption
  <2>4. Unit * y = Unit * x + Unit * (y - x)  BY <2>1, MuAssumption
  <2>5. mu <= Unit * MuFloor \/ mu <= Unit * y  BY <2>2, <2>3, <2>4
  <2>6. QED  BY <2>5, Zenon DEF Bounded, y
<1>3. QED  BY <1>1, <1>2, Zenon

\* The rate of a sample that is late by at most lag is within the bound.
LEMMA RateBound ==
  ASSUME NEW delta \in Nat, NEW dt \in Nat \ {0}, NEW l \in Nat, delta <= MaxRate * (dt + l)
  PROVE  (Unit * delta) \div dt \in Nat /\ (Unit * delta) \div dt <= Unit * (MaxRate * (1 + l))
<1>. DEFINE cap == MaxRate * (1 + l)
<1>1. cap \in Nat /\ cap * dt \in Nat  BY MuAssumption
<1>2. delta <= cap * dt
  <2>1. (1 + l) * dt = dt + l * dt  OBVIOUS
  <2>2. l * dt = l + l * (dt - 1) /\ l * (dt - 1) \in Nat  OBVIOUS
  <2>3. (1 + l) * dt = (dt + l) + l * (dt - 1) /\ dt + l \in Nat  BY <2>1, <2>2
  <2>. DEFINE e == l * (dt - 1)
              f == dt + l
  <2>4. cap * dt = MaxRate * ((1 + l) * dt)  BY MuAssumption
  <2>5. (1 + l) * dt = f + e /\ e \in Nat /\ f \in Nat  BY <2>2, <2>3
  <2>6. delta <= MaxRate * f  OBVIOUS
  <2>7. cap * dt = MaxRate * (f + e)  BY <2>4, <2>5, Zenon
  <2>. HIDE DEF e, f, cap
  <2>8. MaxRate * (f + e) = MaxRate * f + MaxRate * e /\ MaxRate * e \in Nat /\ MaxRate * f \in Nat
    BY <2>5, MuAssumption
  <2>9. QED  BY <2>6, <2>7, <2>8
<1>. HIDE DEF cap
<1>3. Unit * delta \in Nat /\ Unit * cap \in Nat  BY <1>1, MuAssumption
<1>4. Unit * delta <= (Unit * cap) * dt
  <2>1. cap * dt - delta \in Nat /\ Unit * (cap * dt - delta) \in Nat  BY <1>1, <1>2, MuAssumption
  <2>2. Unit * (cap * dt) = Unit * delta + Unit * (cap * dt - delta)  BY <1>1, MuAssumption
  <2>3. (Unit * cap) * dt = Unit * (cap * dt)  BY <1>1, MuAssumption
  <2>4. QED  BY <1>3, <2>1, <2>2, <2>3
<1>. DEFINE X == Unit * delta
            Y == Unit * cap
<1>5. X \in Nat /\ Y \in Nat /\ X <= Y * dt  BY <1>3, <1>4, Zenon
<1>. HIDE DEF X, Y
<1>6. X \div dt \in Nat /\ X \div dt <= Y  BY <1>5
<1>7. QED  BY <1>6, Zenon DEF X, Y, cap

\* The average of two rates within the bound is within it.
LEMMA AverageBound ==
  ASSUME NEW mu \in Nat, NEW rate \in Nat, NEW l \in Nat, Bounded(mu, l), rate <= Unit * (MaxRate * (1 + l))
  PROVE  Bounded((7 * mu + 3 * rate) \div 10, l)
<1>. DEFINE F == Unit * MuFloor
            R == Unit * (MaxRate * (1 + l))
<1>1. F \in Nat /\ R \in Nat
  <2>1. MaxRate * (1 + l) \in Nat  BY MuAssumption
  <2>2. QED  BY <2>1, MuAssumption
<1>2. (mu <= F \/ mu <= R) /\ rate <= R  BY Zenon DEF Bounded
<1>. HIDE DEF F, R
<1>3. (7 * mu + 3 * rate) \div 10 <= F \/ (7 * mu + 3 * rate) \div 10 <= R  BY <1>1, <1>2
<1>4. QED  BY <1>3, Zenon DEF Bounded, F, R

\* A call of MuEstimator.Observe.
LEMMA ObserveMu ==
  ASSUME MuInv, NEW high \in BOOLEAN, read # -1, Observe(high)
  PROVE  /\ muEst' \in Nat /\ sampleCount' \in Nat
         /\ (lastAt' = now /\ lastPass' = read) \/ (lastAt' = lastAt /\ lastPass' = lastPass)
         /\ ~disturbed => Bounded(muEst', lag)
<1>. DEFINE delta == (read - lastPass) % PassMod
            dt == now - lastAt
<1>1. /\ (lastAt' = now /\ lastPass' = read) \/ (lastAt' = lastAt /\ lastPass' = lastPass)
      /\ \/ lastAt # -1 /\ Sampled(delta, dt)
         \/ UNCHANGED <<muEst, sampleCount>>
  BY Zenon DEF Observe, estimator
<1>2. delta \in Nat  BY MuAssumption DEF MuInv
<1>3. CASE UNCHANGED <<muEst, sampleCount>>  BY <1>1, <1>3, Zenon DEF MuInv
<1>4. CASE lastAt # -1 /\ Sampled(delta, dt)
  <2>1. dt \in Nat \ {0} /\ lag \in Nat  BY DEF MuInv, Ticks
  <2>2. ~disturbed => Bounded(muEst, lag) /\ delta <= MaxRate * (dt + lag)
    BY <1>4, Zenon DEF MuInv, Accounted
  <2>. DEFINE rate == (Unit * delta) \div dt
  <2>. HIDE DEF dt, delta
  <2>3. rate \in Nat
    <3>1. Unit * delta \in Nat  BY <1>2, MuAssumption
    <3>2. QED  BY <2>1, <3>1
  <2>4. ~disturbed => rate <= Unit * (MaxRate * (1 + lag))  BY <1>2, <2>1, <2>2, RateBound, Zenon
  <2>5. /\ sampleCount' = sampleCount + 1
        /\ muEst' = muEst \/ muEst' = (7 * muEst + 3 * rate) \div 10
    BY <1>4, Zenon DEF Sampled
  <2>. HIDE DEF rate
  <2>6. muEst \in Nat /\ sampleCount \in Nat  BY Zenon DEF MuInv
  <2>7. (7 * muEst + 3 * rate) \div 10 \in Nat  BY <2>3, <2>6
  <2>8. sampleCount' \in Nat /\ muEst' \in Nat  BY <2>5, <2>6, <2>7
  <2>9. ~disturbed => Bounded(muEst', lag)  BY <2>1, <2>2, <2>3, <2>4, <2>5, <2>6, AverageBound, Zenon
  <2>10. QED  BY <1>1, <2>8, <2>9, Zenon
<1>5. QED  BY <1>1, <1>3, <1>4, Zenon

\* Each of the three accounts is kept while packets pass.
LEMMA PacketsAccounted ==
  ASSUME MuInv, NEW n \in 0..MaxRate, PacketsPass(n), Accounted
  PROVE  Accounted'
<1>1. /\ clock' = clock + 1 /\ pass' = (pass + n) % PassMod
      /\ UNCHANGED <<now, read, lastPass, lastAt, lag>>
  BY Zenon DEF PacketsPass, estimator
<1>2. /\ pass \in 0..PassMod - 1 /\ lastPass \in 0..PassMod - 1
      /\ read # -1 => read \in 0..PassMod - 1
      /\ clock - lastAt \in Nat /\ clock - now \in Nat
      /\ clock' - lastAt = (clock - lastAt) + 1 /\ clock' - now = (clock - now) + 1
  BY <1>1, MuAssumption DEF MuInv, Ticks
<1>3. lastAt # -1 => (pass' - lastPass) % PassMod <= MaxRate * (clock' - lastAt)
  BY <1>1, <1>2, Grows, Zenon DEF Accounted
<1>4. read # -1 => (pass' - read) % PassMod <= MaxRate * (clock' - now)
  BY <1>1, <1>2, Grows, Zenon DEF Accounted
<1>5. QED  BY <1>1, <1>3, <1>4, Zenon DEF Accounted

\* ReadXDPStats, when it does not fail.
LEMMA ReadingAccounted ==
  ASSUME MuInv, ReadStats, read' = pass, Bounded(muEst, lag), Accounted
  PROVE  Bounded(muEst, lag') /\ Accounted'
<1>1. /\ now # -1 /\ UNCHANGED <<clock, pass, now, lastPass, lastAt>>
      /\ lag' = IF clock - now > lag THEN clock - now ELSE lag
  BY Zenon DEF ReadStats, estimator
<1>2. /\ lag \in Nat /\ lag' \in Nat /\ lag <= lag' /\ clock - now \in Nat /\ clock - now <= lag'
      /\ lastAt # -1 => now - lastAt \in Nat
  BY <1>1 DEF MuInv, Ticks
<1>3. Bounded(muEst, lag')  BY <1>2, LagAllows, Zenon DEF MuInv
<1>4. (pass' - read') % PassMod <= MaxRate * (clock - now)
  <2>1. (pass - pass) % PassMod = 0  BY MuAssumption DEF MuInv
  <2>2. MaxRate * (clock - now) \in Nat  BY <1>2, MuAssumption
  <2>3. QED  BY <1>1, <2>1, <2>2
<1>5. ASSUME lastAt # -1
      PROVE  (pass - lastPass) % PassMod <= MaxRate * ((now - lastAt) + lag')
  <2>1. (pass - lastPass) % PassMod <= MaxRate * (clock - lastAt)  BY <1>5, Zenon DEF Accounted
  <2>2. clock - lastAt = (now - lastAt) + (clock - now)  BY DEF MuInv, Ticks
  <2>. DEFINE a == (pass - lastPass) % PassMod
              u == MaxRate * ((now - lastAt) + (clock - now))
              v == MaxRate * ((now - lastAt) + lag')
  <2>3. a \in Nat  BY MuAssumption DEF MuInv
  <2>4. u \in Nat /\ v \in Nat /\ u <= v  BY <1>2, <1>5, LagAllows, Zenon
  <2>5. a <= u  BY <2>1, <2>2, Zenon
  <2>. HIDE DEF a, u, v
  <2>6. a <= v  BY <2>3, <2>4, <2>5
  <2>7. QED  BY <2>6, Zenon DEF a, v
<1>6. QED  BY <1>1, <1>3, <1>4, <1>5, Zenon DEF Accounted

\* The estimate of the service rate exceeds the configured rate and what really passed per
\* interval by no more than one interval's packets for each interval that a tick's reading
\* was late, for every width of the counter and every rate, unless a reading failed or the
\* counter started again (Runner.Run, ReadXDPStats and MuEstimator.Observe).
THEOREM ServiceRateIsMeasured == MuSpec => []MuIsMeasured
<1>1. MuInit => MuInv
  <2>1. SUFFICES ASSUME MuInit PROVE MuInv  BY Zenon
  <2>2. muEst \in Nat /\ muEst <= Unit * MuFloor  BY <2>1, MuAssumption DEF MuInit
  <2>3. QED  BY <2>1, <2>2, MuAssumption DEF MuInit, MuInv, Ticks, Accounted, Bounded
<1>2. MuInv /\ [MuNext]_muVars => MuInv'
  <2>1. SUFFICES ASSUME MuInv, [MuNext]_muVars PROVE MuInv'
    BY Zenon
  <2>2. ASSUME NEW n \in 0..MaxRate, PacketsPass(n) PROVE MuInv'
    <3>1. /\ clock' = clock + 1 /\ pass' = (pass + n) % PassMod /\ due' = IF due = -1 THEN clock' ELSE due
          /\ UNCHANGED <<now, read, lastPass, lastAt, muEst, sampleCount, lag, disturbed>>
      BY <2>2, Zenon DEF PacketsPass, estimator
    <3>2. Ticks'  BY <2>1, <3>1 DEF MuInv, Ticks
    <3>3. pass' \in 0..PassMod - 1
      <4>1. n \in Nat  BY MuAssumption
      <4>2. QED  BY <2>1, <3>1, <4>1, UnsignedDelta, Zenon DEF MuInv
    <3>4. Accounted => Accounted'  BY <2>1, <2>2, PacketsAccounted, Zenon
    <3>5. QED  BY <2>1, <3>1, <3>2, <3>3, <3>4, Zenon DEF MuInv
  <2>3. CASE CounterRestarts
    <3>1. /\ pass' = 0 /\ disturbed'
          /\ UNCHANGED <<clock, due, now, read, lastPass, lastAt, muEst, sampleCount, lag>>
      BY <2>3, Zenon DEF CounterRestarts, estimator
    <3>2. pass' \in 0..PassMod - 1  BY <3>1, MuAssumption
    <3>3. QED  BY <2>1, <3>1, <3>2, Zenon DEF MuInv, Ticks
  <2>4. CASE TakeTick
    <3>1. /\ now = -1 /\ due # -1 /\ now' = due /\ due' = -1
          /\ UNCHANGED <<clock, pass, read, lastPass, lastAt, muEst, sampleCount, lag, disturbed>>
      BY <2>4, Zenon DEF TakeTick, estimator
    <3>2. read = -1  BY <2>1, <3>1, Zenon DEF MuInv, Ticks
    <3>3. Ticks'  BY <2>1, <3>1, <3>2 DEF MuInv, Ticks
    <3>4. Accounted => Accounted'  BY <3>1, <3>2, Zenon DEF Accounted
    <3>5. QED  BY <2>1, <3>1, <3>3, <3>4, Zenon DEF MuInv
  <2>5. CASE ReadStats
    <3>1. /\ now # -1 /\ UNCHANGED <<clock, pass, due, now, lastPass, lastAt, muEst, sampleCount>>
          /\ lag' = IF clock - now > lag THEN clock - now ELSE lag
          /\ read' = pass \/ read' = 0
      BY <2>5, Zenon DEF ReadStats, estimator
    <3>a. disturbed' \/ (read' = pass /\ ~disturbed)  BY <2>5 DEF ReadStats
    <3>2. lag' \in Nat /\ Ticks' /\ read' \in -1..PassMod - 1  BY <2>1, <3>1, MuAssumption DEF MuInv, Ticks
    <3>3. read' = pass /\ Bounded(muEst, lag) /\ Accounted => Bounded(muEst, lag') /\ Accounted'
      BY <2>1, <2>5, ReadingAccounted, Zenon
    <3>4. disturbed' \/ (Bounded(muEst, lag') /\ Accounted')  BY <2>1, <3>3, <3>a, Zenon DEF MuInv
    <3>5. disturbed' \/ (Bounded(muEst', lag') /\ Accounted')  BY <3>1, <3>4, Zenon
    <3>6. QED  BY <2>1, <3>1, <3>2, <3>5, Zenon DEF MuInv
  <2>6. ASSUME NEW high \in BOOLEAN, MuTick(high) PROVE MuInv'
    <3>1. /\ read # -1 /\ Observe(high) /\ now' = -1 /\ read' = -1
          /\ UNCHANGED <<clock, pass, due, lag, disturbed>>
      BY <2>6, Zenon DEF MuTick
    <3>2. /\ muEst' \in Nat /\ sampleCount' \in Nat
          /\ (lastAt' = now /\ lastPass' = read) \/ (lastAt' = lastAt /\ lastPass' = lastPass)
          /\ ~disturbed => Bounded(muEst', lag)
      BY <2>1, <3>1, ObserveMu, Zenon
    <3>3. Ticks' /\ lastPass' \in 0..PassMod - 1 /\ read' \in -1..PassMod - 1
      BY <2>1, <3>1, <3>2, MuAssumption DEF MuInv, Ticks
    <3>4. Accounted => Accounted'  BY <3>1, <3>2, Zenon DEF Accounted
    <3>5. QED  BY <2>1, <3>1, <3>2, <3>3, <3>4, Zenon DEF MuInv
  <2>7. CASE UNCHANGED muVars
    BY <2>1, <2>7, Zenon DEF muVars, estimator, MuInv, Ticks, Accounted
  <2>8. QED  BY <2>1, <2>2, <2>3, <2>4, <2>5, <2>6, <2>7, Zenon DEF MuNext
<1>3. MuInv => MuIsMeasured
  BY Zenon DEF MuInv, MuIsMeasured, Bounded
<1>4. QED  BY <1>1, <1>2, <1>3, PTL DEF MuSpec

-----------------------------------------------------------------------------
(* SharedProbe *)

\* The count is what the two wrappers think it is.
CountsWrappers == \A ty \in Types : refcnt[ty] = IF wrap[ty] = "running" THEN 1 ELSE 0

\* RunningIsAttached does not survive a stop of the other server's probe by itself: what
\* does is that the count is right and the program is attached exactly while it is not 0.
SpInv == /\ wrap \in [Types -> {"stopped", "running", "failed"}] /\ refcnt \in [Types -> Int]
         /\ style \in {"socketlatency", "tracekernel"} /\ failed \in BOOLEAN
         /\ (style = "tracekernel" \/ ~failed) => CountsWrappers /\ (attached <=> Total(refcnt) # 0)

\* Starting a probe, in either style.
LEMMA StartKeeps ==
  ASSUME SpInv, NEW ty \in Types, StartProbe(ty)
  PROVE  SpInv'
<1>1. wrap[ty] = "stopped" /\ style' = style  BY Zenon DEF StartProbe
<1>2. \/ Started(ty) \/ Failed(ty)
  BY Zenon DEF StartProbe, StartSocketlatency, StartTracekernel
<1>3. /\ wrap' \in [Types -> {"stopped", "running", "failed"}] /\ failed' \in BOOLEAN
      /\ failed => failed'
  BY <1>2, Zenon DEF Started, Failed, SpInv
<1>4. refcnt' \in [Types -> Int] /\ (refcnt' = refcnt \/ refcnt' = Up(ty))
  BY DEF StartProbe, StartSocketlatency, StartTracekernel, Up, SpInv
<1>5. ASSUME style = "tracekernel" \/ ~failed'
      PROVE  CountsWrappers' /\ (attached' <=> Total(refcnt') # 0)
  <2>1. CountsWrappers /\ (attached <=> Total(refcnt) # 0) /\ refcnt[ty] = 0
    BY <1>1, <1>3, <1>5, Zenon DEF SpInv, CountsWrappers
  <2>2. /\ refcnt["metrics"] \in {0, 1} /\ refcnt["event"] \in {0, 1}
    BY <2>1, Zenon DEF CountsWrappers, Types
  <2>3. CASE style = "socketlatency"
    <3>1. Started(ty) /\ refcnt' = Up(ty)
      BY <1>5, <2>3, Zenon DEF StartProbe, StartSocketlatency, Failed
    <3>2. CountsWrappers'
      BY <2>1, <3>1 DEF Started, Up, CountsWrappers, SpInv
    <3>3. Total(refcnt') = Total(refcnt) + 1
      BY <2>2, <3>1 DEF Up, Total, Types, SpInv
    <3>4. Total(refcnt) \in 0..2  BY <2>2 DEF Total
    <3>5. \/ Total(refcnt') = 1 /\ attached' = TRUE
          \/ Total(refcnt') # 1 /\ attached' = attached
      BY <1>5, <2>3, Zenon DEF StartProbe, StartSocketlatency, Failed
    <3>6. attached' /\ Total(refcnt') # 0  BY <2>1, <3>3, <3>4, <3>5
    <3>7. QED  BY <3>2, <3>6, Zenon
  <2>4. CASE style = "tracekernel"
    <3>1. \/ Started(ty) /\ refcnt' = Up(ty) /\ attached' = TRUE
          \/ Failed(ty) /\ refcnt' = refcnt /\ attached' = (Total(refcnt) # 0)
      BY <2>1, <2>4, Zenon DEF StartProbe, StartTracekernel
    <3>2. CASE Failed(ty) /\ refcnt' = refcnt /\ attached' = (Total(refcnt) # 0)
      BY <1>1, <2>1, <3>2, Zenon DEF Failed, CountsWrappers, SpInv
    <3>3. CASE Started(ty) /\ refcnt' = Up(ty) /\ attached' = TRUE
      <4>1. CountsWrappers'  BY <2>1, <3>3 DEF Started, Up, CountsWrappers, SpInv
      <4>2. Total(refcnt') = Total(refcnt) + 1  BY <2>2, <3>3 DEF Up, Total, Types, SpInv
      <4>3. Total(refcnt') # 0  BY <2>2, <4>2 DEF Total
      <4>4. QED  BY <3>3, <4>1, <4>3, Zenon
    <3>4. QED  BY <3>1, <3>2, <3>3, Zenon
  <2>5. QED  BY <2>3, <2>4, Zenon DEF SpInv
<1>6. QED  BY <1>1, <1>3, <1>4, <1>5, Zenon DEF SpInv

\* Stopping one, or forgetting one that failed.
LEMMA StopKeeps ==
  ASSUME SpInv, NEW ty \in Types, StopProbe(ty)
  PROVE  SpInv'
<1>1. /\ style' = style /\ failed' = failed /\ wrap' = [wrap EXCEPT ![ty] = "stopped"]
      /\ \/ wrap[ty] = "running" /\ (StopSocketlatency(ty) \/ StopTracekernel(ty))
         \/ wrap[ty] = "failed" /\ UNCHANGED <<refcnt, attached>>
  BY Zenon DEF StopProbe
<1>2. refcnt' \in [Types -> Int]
  BY <1>1 DEF StopSocketlatency, StopTracekernel, Down, SpInv
<1>3. ASSUME style = "tracekernel" \/ ~failed
      PROVE  CountsWrappers' /\ (attached' <=> Total(refcnt') # 0)
  <2>1. CountsWrappers /\ (attached <=> Total(refcnt) # 0)
    BY <1>3, Zenon DEF SpInv
  <2>2. CASE wrap[ty] = "failed" /\ UNCHANGED <<refcnt, attached>>
    BY <1>1, <2>1, <2>2, Zenon DEF CountsWrappers, SpInv
  <2>3. CASE wrap[ty] = "running" /\ (StopSocketlatency(ty) \/ StopTracekernel(ty))
    <3>1. refcnt' = Down(ty) /\ refcnt[ty] = 1
      BY <2>1, <2>3, Zenon DEF StopSocketlatency, StopTracekernel, CountsWrappers
    <3>2. CountsWrappers'  BY <1>1, <2>1, <3>1 DEF Down, CountsWrappers, SpInv
    <3>3. Total(refcnt) # 0
      BY <2>1, <3>1 DEF Total, CountsWrappers, Types
    <3>4. attached' <=> Total(refcnt') # 0
      BY <2>1, <2>3, <3>3, Zenon DEF StopSocketlatency, StopTracekernel
    <3>5. QED  BY <3>2, <3>4, Zenon
  <2>4. QED  BY <1>1, <2>2, <2>3, Zenon
<1>4. QED  BY <1>1, <1>2, <1>3, Zenon DEF SpInv

\* A server that was told its probe runs has a program attached, whatever the other
\* server starts, stops or fails to start, and however many readers are opened (start and
\* stop of the shared probe objects).
THEOREM RunningProbesAttached == SpSpec => []RunningIsAttached
<1>1. SpInit => SpInv
  <2>1. SUFFICES ASSUME SpInit PROVE SpInv
    BY Zenon
  <2>2. wrap = [ty \in Types |-> "stopped"] /\ refcnt = [ty \in Types |-> 0]  BY <2>1, Zenon DEF SpInit
  <2>3. Total(refcnt) = 0  BY <2>2 DEF Total, Types
  <2>4. CountsWrappers  BY <2>2, Zenon DEF CountsWrappers
  <2>5. ~attached /\ failed = FALSE /\ style \in {"socketlatency", "tracekernel"}  BY <2>1, Zenon DEF SpInit
  <2>6. wrap \in [Types -> {"stopped", "running", "failed"}] /\ refcnt \in [Types -> Int]  BY <2>2
  <2>7. QED  BY <2>3, <2>4, <2>5, <2>6, Zenon DEF SpInv
<1>2. SpInv /\ [SpNext]_spVars => SpInv'
  <2>1. SUFFICES ASSUME SpInv, [SpNext]_spVars PROVE SpInv'
    BY Zenon
  <2>2. CASE \E ty \in Types : StartProbe(ty)  BY <2>1, <2>2, StartKeeps, Zenon
  <2>3. CASE \E ty \in Types : StopProbe(ty)  BY <2>1, <2>3, StopKeeps, Zenon
  <2>4. CASE UNCHANGED <<style, wrap, refcnt, attached, failed>>
    BY <2>1, <2>4, Zenon DEF SpInv, CountsWrappers
  <2>5. \/ \E ty \in Types : StartProbe(ty)
        \/ \E ty \in Types : StopProbe(ty)
        \/ UNCHANGED <<style, wrap, refcnt, attached, failed>>
    BY <2>1, Zenon DEF SpNext, Emit, ManagerStop, LoopStep, LoopReads, LoopEnds, FanOut, Handed, SinkStep,
                Consume, ConsumerEnds, probeVars, spVars
  <2>6. QED  BY <2>2, <2>3, <2>4, <2>5, Zenon
<1>3. SpInv => RunningIsAttached
  <2>1. SUFFICES ASSUME SpInv, NEW ty \in Types, wrap[ty] = "running", style = "tracekernel" \/ ~failed
                 PROVE  attached
    BY Zenon DEF SpInv, RunningIsAttached
  <2>2. CountsWrappers /\ (attached <=> Total(refcnt) # 0)  BY <2>1, Zenon DEF SpInv
  <2>3. Total(refcnt) # 0  BY <2>1, <2>2 DEF CountsWrappers, Total, Types
  <2>4. QED  BY <2>2, <2>3, Zenon
<1>4. QED  BY <1>1, <1>2, <1>3, PTL DEF SpSpec

-----------------------------------------------------------------------------
(* TaskPlane *)

\* As much of the types as the argument needs.
Places == {"range", "push", "wait", "store", "done", "failed"}
Handlers == [at : Places, next : Nat, conn : Nat]
Jobs == [at : {"none", "run", "push", "store", "end"}, to : Tasks \cup {NoTask}]
ResultChans == [q : Seq(Tasks), closed : BOOLEAN]
TpShapes ==
  /\ taskIdx \in Nat /\ id \in [Tasks -> Nat] /\ \A t \in Tasks : id[t] <= taskIdx
  /\ req \in [Requests -> Handlers]
  /\ \A r \in Requests : req[r].next \in 1..Size[r]
  /\ job \in [Tasks -> Jobs]
  /\ chan \in [Pings -> ResultChans]
  /\ waiter \in [Pings -> {"none", "start", "wait", "end"}] /\ latency \in [Pings -> Tasks \cup {NoTask}]

\* A task is numbered once: it has no number before its turn comes.
Unnumbered == \A r \in Requests : \A n \in 1..Size[r] :
  (n > req[r].next \/ (n = req[r].next /\ req[r].at = "range")) => id[<<r, n>>] = 0

\* A ping that was committed has a number, and nothing else has the number of a ping.
PingsNumbered == /\ req["ping"].at = "push" => id[Current("ping")] # 0
                 /\ \A t \in Pings : waiter[t] = "start" => id[t] # 0
OwnNumber == \A t \in Pings : \A u \in Tasks : id[t] # 0 /\ id[u] = id[t] => u = t

\* The result watchers, the uploads and the result channels keep pings apart.
WatchersOwn == \A i \in DOMAIN resultWatchers :
  i # 0 /\ resultWatchers[i] \in Pings /\ id[resultWatchers[i]] = i
UploadsOwn == \A t \in Tasks : job[t].at = "push" => t \in Pings /\ job[t].to = t
ChannelsOwn == \A t \in Pings : chan[t].q = << >> \/ chan[t].q = <<t>>

\* LatencyIsOwn is the end of a chain: number, watcher, upload, channel, latency.
TpInv == /\ TpShapes /\ Unnumbered /\ PingsNumbered /\ OwnNumber
         /\ WatchersOwn /\ UploadsOwn /\ ChannelsOwn /\ LatencyIsOwn

\* The two handlers and their tasks.
LEMMA TaskFacts ==
  /\ Requests = {"ping", "capture"} /\ Size["ping"] = NPings /\ Size["capture"] = NItems
  /\ \A r \in Requests : Size[r] \in Nat \ {0}
  /\ \A r \in Requests : \A n \in 1..Size[r] : <<r, n>> \in Tasks /\ (r = "ping" => <<r, n>> \in Pings)
  /\ \A t \in Pings : t[1] = "ping" /\ t \in Tasks
  /\ \A t \in Items : t[1] = "capture" /\ t \notin Pings
  BY TpAssumption DEF Requests, Size, Tasks, Pings, Items

\* How a handler moves: on to its next task, or it is past numbering this one; the other
\* handler stays.
Moves(r) ==
  /\ req' \in [Requests -> Handlers]
  /\ \A o \in Requests : o # r => req'[o] = req[o]
  /\ req'[r].next \in 1..Size[r]
  /\ \/ req'[r].next = req[r].next + 1 /\ req'[r].at = "range"
     \/ req'[r].next = req[r].next /\ req'[r].at # "range"

LEMMA AdvancedMoves ==
  ASSUME TpShapes, NEW r \in Requests, req' = [req EXCEPT ![r] = Advanced(r)]
  PROVE  Moves(r) /\ req'[r].at # "push"
<1>1. CASE req[r].next < Size[r]
  <2>1. Advanced(r) = [at |-> "range", next |-> req[r].next + 1, conn |-> 0]  BY <1>1, Zenon DEF Advanced
  <2>2. QED  BY <1>1, <2>1, TaskFacts DEF TpShapes, Moves, Handlers, Places
<1>2. CASE ~(req[r].next < Size[r])
  <2>1. PICK w \in {"wait", "store"} : Advanced(r) = [at |-> w, next |-> req[r].next, conn |-> 0]
    BY <1>2, Zenon DEF Advanced
  <2>2. QED  BY <1>2, <2>1, TaskFacts DEF TpShapes, Moves, Handlers, Places
<1>3. QED  BY <1>1, <1>2, Zenon

LEMMA StaysMoves ==
  ASSUME TpShapes, NEW r \in Requests, NEW w \in Places, w # "range", NEW c \in Nat,
         \/ req' = [req EXCEPT ![r] = [at |-> w, next |-> @.next, conn |-> c]]
         \/ req' = [req EXCEPT ![r].at = w]
  PROVE  Moves(r) /\ req'[r].at = w /\ req'[r].next = req[r].next
  BY DEF TpShapes, Moves, Handlers

\* A handler's move keeps the later tasks without a number.
LEMMA NumberingKept ==
  ASSUME TpInv, NEW r \in Requests, Moves(r),
         id' \in [Tasks -> Nat], \A u \in Tasks : u # Current(r) => id'[u] = id[u]
  PROVE  Unnumbered' /\ \A o \in Requests : req'[o].next \in 1..Size[o]
<1>1. \A o \in Requests : req'[o].next \in 1..Size[o]
  BY Zenon DEF TpInv, TpShapes, Moves
<1>2. ASSUME NEW o \in Requests, NEW n \in 1..Size[o],
             n > req'[o].next \/ (n = req'[o].next /\ req'[o].at = "range")
      PROVE  id'[<<o, n>>] = 0
  <2>1. req[o].next \in Nat /\ req[r].next \in Nat /\ n \in Nat  BY TaskFacts DEF TpInv, TpShapes
  <2>2. n > req[o].next \/ (o # r /\ n = req[o].next /\ req[o].at = "range")
    BY <1>2, <2>1 DEF Moves
  <2>3. id[<<o, n>>] = 0  BY <2>2, Zenon DEF TpInv, Unnumbered
  <2>4. <<o, n>> # Current(r)  BY <2>1, <2>2 DEF Current
  <2>5. <<o, n>> \in Tasks  BY TaskFacts, Zenon
  <2>6. QED  BY <2>3, <2>4, <2>5, Zenon
<1>3. Unnumbered'  BY <1>2, Zenon DEF Unnumbered
<1>4. QED  BY <1>1, <1>3, Zenon

\* commitTask, the number: a ping's is new, and an item's is the capture's.
LEMMA FindsKeeps ==
  ASSUME TpInv, NEW r \in Requests, CommitFinds(r)
  PROVE  TpInv'
<1>. DEFINE t == Current(r)
<1>1. t \in Tasks /\ id[t] = 0 /\ (r = "ping" <=> t \in Pings)
  BY TaskFacts, Zenon DEF CommitFinds, Current, TpInv, TpShapes, Unnumbered, Tasks
<1>2. PICK v \in Nat : /\ id' = [id EXCEPT ![t] = v] /\ taskIdx' \in Nat /\ v <= taskIdx' /\ taskIdx <= taskIdx'
                       /\ \/ v = taskIdx + 1
                          \/ t \notin Pings /\ v = id[<<"capture", 1>>]
  <2>1. CASE r = "capture" /\ req[r].next > 1
    <3>1. <<"capture", 1>> \in Tasks  BY TaskFacts, TpAssumption
    <3>2. id[<<"capture", 1>>] \in Nat /\ id[<<"capture", 1>>] <= taskIdx  BY <3>1, Zenon DEF TpInv, TpShapes
    <3>3. QED  BY <1>1, <2>1, <3>2 DEF CommitFinds, getTaskIdx, TpInv, TpShapes
  <2>2. CASE ~(r = "capture" /\ req[r].next > 1)
    <3>1. id' = [id EXCEPT ![t] = taskIdx + 1] /\ taskIdx' = taskIdx + 1
      BY <2>2, Zenon DEF CommitFinds, getTaskIdx
    <3>2. taskIdx \in Nat /\ taskIdx + 1 \in Nat /\ taskIdx <= taskIdx + 1 /\ taskIdx + 1 <= taskIdx + 1
      BY DEF TpInv, TpShapes
    <3>3. QED  BY <3>1, <3>2, Zenon
  <2>3. QED  BY <2>1, <2>2, Zenon
<1>3. /\ id' \in [Tasks -> Nat] /\ id'[t] = v
      /\ \A u \in Tasks : u # t => id'[u] = id[u]
  BY <1>1, <1>2, Zenon DEF TpInv, TpShapes
<1>4. \A u \in Tasks : id'[u] <= taskIdx'
  BY <1>2, <1>3 DEF TpInv, TpShapes
<1>5. \A u \in Tasks : id[u] # 0 => u # t /\ id'[u] = id[u]
  BY <1>1, <1>3, Zenon
<1>6. OwnNumber'
  <2>1. SUFFICES ASSUME NEW p \in Pings, NEW u \in Tasks, id'[p] # 0, id'[u] = id'[p], u # p
                 PROVE  FALSE
    BY Zenon DEF OwnNumber
  <2>2. \A w \in Tasks : id[w] <= taskIdx /\ id[w] \in Nat  BY Zenon DEF TpInv, TpShapes
  <2>3. p \in Tasks  BY TaskFacts, Zenon
  <2>4. CASE p = t
    <3>1. v = taskIdx + 1 /\ id[u] = v  BY <1>2, <1>3, <2>1, <2>4, Zenon
    <3>2. QED  BY <2>2, <3>1 DEF TpInv, TpShapes
  <2>5. CASE u = t
    <3>1. id[p] = v /\ v # 0  BY <1>3, <2>1, <2>3, <2>5, Zenon
    <3>2. v # taskIdx + 1  BY <2>2, <2>3, <3>1 DEF TpInv, TpShapes
    <3>3. id[<<"capture", 1>>] = id[p]  BY <1>2, <3>1, <3>2, Zenon
    <3>4. <<"capture", 1>> \in Tasks /\ <<"capture", 1>> # p
      BY TaskFacts, TpAssumption
    <3>5. QED  BY <3>1, <3>3, <3>4, Zenon DEF TpInv, OwnNumber
  <2>6. CASE p # t /\ u # t
    BY <1>3, <2>1, <2>3, <2>6, Zenon DEF TpInv, OwnNumber
  <2>7. QED  BY <2>4, <2>5, <2>6, Zenon
<1>7. Moves(r) /\ (r = "ping" /\ req'[r].at = "push" => req'[r].next = req[r].next)
  <2>1. CASE \E c \in Connections : req' = [req EXCEPT ![r] = [at |-> "push", next |-> @.next, conn |-> c]]
    <3>1. Connections \subseteq Nat /\ "push" \in Places  BY DEF Connections, Places
    <3>2. QED  BY <2>1, <3>1, StaysMoves, Zenon DEF TpInv
  <2>2. CASE req' = [req EXCEPT ![r] = Advanced(r)]
    BY <2>2, AdvancedMoves, Zenon DEF TpInv
  <2>3. CASE r = "capture" /\ req' = [req EXCEPT ![r].at = "failed"]
    <3>1. "failed" \in Places /\ 0 \in Nat  BY ZenonT(30) DEF Places
    <3>2. QED  BY <2>3, <3>1, StaysMoves, ZenonT(30) DEF TpInv
  <2>4. QED  BY <2>1, <2>2, <2>3, TaskFacts, Zenon DEF CommitFinds
<1>8. Unnumbered' /\ \A o \in Requests : req'[o].next \in 1..Size[o]
  BY <1>3, <1>7, NumberingKept, Zenon
<1>9. UNCHANGED <<job, chan, waiter, latency, resultWatchers>>
  BY Zenon DEF CommitFinds, agentVars, resultVars
<1>10. TpShapes'  BY <1>2, <1>3, <1>4, <1>7, <1>8, <1>9, Zenon DEF TpInv, TpShapes, Moves
<1>11. PingsNumbered'
  <2>1. ASSUME req'["ping"].at = "push" PROVE id'[Current("ping")'] # 0
    <3>1. CASE r = "ping"
      <4>2. Current("ping")' = t  BY <1>7, <2>1, <3>1, Zenon DEF Current
      <4>3. v = taskIdx + 1  BY <1>1, <1>2, <3>1, Zenon
      <4>4. QED  BY <1>3, <4>2, <4>3 DEF TpInv, TpShapes
    <3>2. CASE r # "ping"
      <4>1. req'["ping"] = req["ping"]  BY <1>7, <3>2, TaskFacts, Zenon DEF Moves
      <4>2. Current("ping")' = Current("ping") /\ id[Current("ping")] # 0
        BY <2>1, <4>1, Zenon DEF Current, TpInv, PingsNumbered
      <4>3. Current("ping") \in Tasks  BY TaskFacts, ZenonT(30) DEF Current, TpInv, TpShapes
      <4>4. QED  BY <1>5, <4>2, <4>3, Zenon
    <3>3. QED  BY <3>1, <3>2, Zenon
  <2>2. \A u \in Pings : waiter'[u] = "start" => id'[u] # 0
    BY <1>5, <1>9, TaskFacts, ZenonT(30) DEF TpInv, PingsNumbered
  <2>3. QED  BY <2>1, <2>2, Zenon DEF PingsNumbered
<1>12. WatchersOwn' /\ UploadsOwn' /\ ChannelsOwn' /\ LatencyIsOwn'
  <2>1. WatchersOwn'  BY <1>5, <1>9, TaskFacts, ZenonT(30) DEF TpInv, WatchersOwn
  <2>2. QED  BY <1>9, <2>1, ZenonT(30) DEF TpInv, UploadsOwn, ChannelsOwn, LatencyIsOwn
<1>13. QED  BY <1>6, <1>8, <1>10, <1>11, <1>12, Zenon DEF TpInv

\* The send on taskChan: a ping that was numbered gets a waiter.
LEMMA PushesKeeps ==
  ASSUME TpInv, NEW r \in Requests, CommitPushes(r)
  PROVE  TpInv'
<1>1. UNCHANGED <<taskIdx, id, job, chan, latency, resultWatchers>>
  BY Zenon DEF CommitPushes, agentVars
<1>2. Moves(r) /\ req'[r].at # "push"
  BY AdvancedMoves, ZenonT(30) DEF CommitPushes, TpInv
<1>3. Unnumbered' /\ \A o \in Requests : req'[o].next \in 1..Size[o]
  BY <1>1, <1>2, NumberingKept, Zenon DEF TpInv, TpShapes
<1>4. Current(r) \in Tasks /\ (r = "ping" => Current(r) \in Pings)
  BY TaskFacts, Zenon DEF Current, TpInv, TpShapes
<1>5. /\ waiter' \in [Pings -> {"none", "start", "wait", "end"}]
      /\ \A u \in Pings : waiter'[u] = "start" => waiter[u] = "start" \/ (r = "ping" /\ u = Current(r))
  BY <1>4, Zenon DEF CommitPushes, Committed, TpInv, TpShapes
<1>6. TpShapes'  BY <1>1, <1>2, <1>3, <1>5, ZenonT(30) DEF TpInv, TpShapes, Moves
<1>7. PingsNumbered'
  <2>1. ASSUME req'["ping"].at = "push" PROVE id'[Current("ping")'] # 0
    <3>1. r # "ping"  BY <1>2, <2>1, ZenonT(30)
    <3>2. req'["ping"] = req["ping"]  BY <1>2, <3>1, TaskFacts, Zenon DEF Moves
    <3>3. QED  BY <1>1, <2>1, <3>2, Zenon DEF Current, TpInv, PingsNumbered
  <2>2. ASSUME r = "ping" PROVE id[Current(r)] # 0
    BY <2>2, Zenon DEF CommitPushes, TpInv, PingsNumbered
  <2>3. \A u \in Pings : waiter'[u] = "start" => id'[u] # 0
    BY <1>1, <1>5, <2>2, Zenon DEF TpInv, PingsNumbered
  <2>4. QED  BY <2>1, <2>3, ZenonT(30) DEF PingsNumbered
<1>8. QED
  BY <1>1, <1>3, <1>6, <1>7, Zenon DEF TpInv, OwnNumber, WatchersOwn, UploadsOwn, ChannelsOwn, LatencyIsOwn

\* The agent's goroutine for a task: what it uploads goes to the waiter of that task.
LEMMA JobKeeps ==
  ASSUME TpInv, NEW t \in Tasks, JobStep(t)
  PROVE  TpInv'
<1>1. UNCHANGED <<taskIdx, id, req, waiter, latency, resultWatchers>>
  BY Zenon DEF JobStep, UploadLooks, UploadPushes, storeCaptureResult, StoreLeaves, resultVars
<1>2. Unnumbered' /\ PingsNumbered' /\ OwnNumber' /\ WatchersOwn' /\ LatencyIsOwn'
  BY <1>1, Zenon DEF TpInv, Unnumbered, PingsNumbered, Current, OwnNumber, WatchersOwn, LatencyIsOwn
<1>3. CASE UploadLooks(t)
  <2>1. chan' = chan  BY <1>3, Zenon DEF UploadLooks, resultVars
  <2>2. CASE id[t] \in DOMAIN resultWatchers
             /\ job' = [job EXCEPT ![t] = [at |-> "push", to |-> resultWatchers[id[t]]]]
    <3>1. resultWatchers[id[t]] = t /\ t \in Pings
      BY <2>2, Zenon DEF TpInv, WatchersOwn, OwnNumber
    <3>2. job' \in [Tasks -> Jobs] /\ UploadsOwn'
      BY <2>2, <3>1 DEF TpInv, TpShapes, Jobs, UploadsOwn
    <3>3. QED  BY <1>1, <1>2, <2>1, <3>2, Zenon DEF TpInv, TpShapes, ChannelsOwn
  <2>3. CASE \E w \in {"store", "end"} : job' = [job EXCEPT ![t].at = w]
    <3>1. job' \in [Tasks -> Jobs] /\ UploadsOwn'
      BY <2>3 DEF TpInv, TpShapes, Jobs, UploadsOwn
    <3>2. QED  BY <1>1, <1>2, <2>1, <3>1, Zenon DEF TpInv, TpShapes, ChannelsOwn
  <2>4. QED  BY <1>3, <2>2, <2>3, Zenon DEF UploadLooks
<1>4. CASE UploadPushes(t)
  <2>1. t \in Pings /\ job[t].to = t  BY <1>4, Zenon DEF UploadPushes, TpInv, UploadsOwn
  <2>2. chan' = [chan EXCEPT ![t] = [q |-> <<t>>, closed |-> TRUE]]  BY <1>4, <2>1, Zenon DEF UploadPushes
  <2>3. job' \in [Tasks -> Jobs] /\ UploadsOwn'
    BY <1>4 DEF UploadPushes, TpInv, TpShapes, Jobs, UploadsOwn
  <2>4. <<t>> \in Seq(Tasks)  OBVIOUS
  <2>5. chan' \in [Pings -> ResultChans]  BY <2>2, <2>4, ZenonT(30) DEF TpInv, TpShapes, ResultChans
  <2>6. ChannelsOwn'  BY <2>1, <2>2, Zenon DEF TpInv, TpShapes, ChannelsOwn
  <2>7. QED  BY <1>1, <1>2, <2>3, <2>5, <2>6, Zenon DEF TpInv, TpShapes
<1>5. CASE storeCaptureResult(t)
  <2>1. chan' = chan  BY <1>5, Zenon DEF storeCaptureResult, StoreLeaves, resultVars
  <2>2. job' \in [Tasks -> Jobs] /\ UploadsOwn'
    BY <1>5 DEF storeCaptureResult, TpInv, TpShapes, Jobs, UploadsOwn
  <2>3. QED  BY <1>1, <1>2, <2>1, <2>2, Zenon DEF TpInv, TpShapes, ChannelsOwn
<1>6. QED  BY <1>3, <1>4, <1>5, Zenon DEF JobStep

\* waitTaskResult: it registers under its own number and reads its own channel.
LEMMA WaiterKeeps ==
  ASSUME TpInv, NEW t \in Pings, WaiterStep(t)
  PROVE  TpInv'
<1>1. UNCHANGED <<taskIdx, id, req, job>>
  BY Zenon DEF WaiterStep, WaitRegisters, WaitEnds, agentVars
<1>2. Unnumbered' /\ OwnNumber' /\ UploadsOwn' /\ t \in Tasks
  BY <1>1, TaskFacts, ZenonT(30) DEF TpInv, Unnumbered, OwnNumber, UploadsOwn
<1>3. PICK w \in {"wait", "end"} : waiter' = [waiter EXCEPT ![t] = w]
  BY Zenon DEF WaiterStep, WaitRegisters, WaitEnds
<1>4. waiter' \in [Pings -> {"none", "start", "wait", "end"}] /\ PingsNumbered'
  BY <1>1, <1>3, Zenon DEF TpInv, TpShapes, PingsNumbered, Current
<1>5. CASE WaitRegisters(t)
  <2>1. id[t] # 0 /\ chan' = chan /\ latency' = latency
    BY <1>5, Zenon DEF WaitRegisters, TpInv, PingsNumbered
  <2>2. WatchersOwn'  BY <1>1, <1>5, <2>1, ZenonT(30) DEF WaitRegisters, TpInv, WatchersOwn
  <2>3. QED  BY <1>1, <1>2, <1>4, <2>1, <2>2, Zenon DEF TpInv, TpShapes, ChannelsOwn, LatencyIsOwn
<1>6. CASE WaitEnds(t)
  <2>1. WatchersOwn'  BY <1>1, <1>6, Zenon DEF WaitEnds, TpInv, WatchersOwn
  <2>2. latency' = [latency EXCEPT ![t] = t]
    <3>1. CASE chan[t].q # << >> /\ latency' = [latency EXCEPT ![t] = Head(chan[t].q)]
      <4>1. chan[t].q = <<t>>  BY <3>1, Zenon DEF TpInv, ChannelsOwn
      <4>2. Head(<<t>>) = t  OBVIOUS
      <4>3. QED  BY <3>1, <4>1, <4>2, Zenon
    <3>2. QED  BY <1>6, <3>1, Zenon DEF WaitEnds
  <2>3. latency' \in [Pings -> Tasks \cup {NoTask}] /\ LatencyIsOwn'
    BY <1>2, <2>2, Zenon DEF TpInv, TpShapes, LatencyIsOwn
  <2>4. chan' \in [Pings -> ResultChans] /\ ChannelsOwn'
    <3>1. CASE chan' = chan  BY <3>1, Zenon DEF TpInv, TpShapes, ChannelsOwn
    <3>2. CASE chan' = [chan EXCEPT ![t].q = << >>]
      <4>1. << >> \in Seq(Tasks)  OBVIOUS
      <4>2. QED  BY <3>2, <4>1, Zenon DEF TpInv, TpShapes, ResultChans, ChannelsOwn
    <3>3. QED  BY <1>6, <3>1, <3>2, Zenon DEF WaitEnds
  <2>5. QED  BY <1>1, <1>2, <1>4, <2>1, <2>3, <2>4, Zenon DEF TpInv, TpShapes
<1>7. QED  BY <1>5, <1>6, Zenon DEF WaiterStep

\* What the argument does not look at may change, and so may a handler that is past its
\* last task and a job that starts.
LEMMA OthersKeep ==
  ASSUME TpInv, UNCHANGED <<taskIdx, id, chan, waiter, latency, resultWatchers>>,
         \/ req' = req
         \/ \E r \in Requests : req[r].at \in {"wait", "store"} /\ req' = [req EXCEPT ![r].at = "done"],
         \/ job' = job \/ \E t : job' = [job EXCEPT ![t].at = "run"]
  PROVE  TpInv'
<1>1. /\ req' \in [Requests -> Handlers] /\ \A o \in Requests : req'[o].next = req[o].next
      /\ \A o \in Requests : req'[o].at \in {"range", "push"} => req'[o].at = req[o].at
  BY DEF TpInv, TpShapes, Handlers, Places
<1>2. job' \in [Tasks -> Jobs] /\ UploadsOwn'
  <2>1. CASE job' = job  BY <2>1, Zenon DEF TpInv, TpShapes, UploadsOwn
  <2>2. ASSUME NEW t, job' = [job EXCEPT ![t].at = "run"] PROVE job' \in [Tasks -> Jobs] /\ UploadsOwn'
    <3>1. CASE t \in Tasks  BY <2>2, <3>1 DEF TpInv, TpShapes, Jobs, UploadsOwn
    <3>2. CASE t \notin Tasks  BY <2>2, <3>2, Zenon DEF TpInv, TpShapes, UploadsOwn
    <3>3. QED  BY <3>1, <3>2, Zenon
  <2>3. QED  BY <2>1, <2>2, Zenon
<1>3. TpShapes'  BY <1>1, <1>2, Zenon DEF TpInv, TpShapes
<1>4. Unnumbered'  BY <1>1 DEF TpInv, Unnumbered
<1>5. PingsNumbered'  BY <1>1, TaskFacts, Zenon DEF TpInv, PingsNumbered, Current
<1>6. OwnNumber' /\ WatchersOwn' /\ ChannelsOwn' /\ LatencyIsOwn'
  BY Zenon DEF TpInv, OwnNumber, WatchersOwn, ChannelsOwn, LatencyIsOwn
<1>7. QED  BY <1>2, <1>3, <1>4, <1>5, <1>6, Zenon DEF TpInv

\* The latency that PingMesh shows for a pair was measured for that pair or is its own
\* time-out, for any number of pings and captures at a time, through broken connections,
\* lost tasks and late results (commitTask, waitTaskResult, UploadTaskResult).
THEOREM LatenciesAreOwn == TpSpec => []LatencyIsOwn
<1>1. TpInit => TpInv
  <2>1. SUFFICES ASSUME TpInit PROVE TpInv
    BY Zenon
  <2>2. TpShapes
    <3>1. \A r \in Requests : 1 \in 1..Size[r]  BY TaskFacts
    <3>2. << >> \in Seq(Tasks)  OBVIOUS
    <3>3. QED  BY <2>1, <3>1, <3>2 DEF TpInit, TpShapes, Handlers, Places, Jobs, ResultChans
  <2>3. Unnumbered  BY <2>1, TaskFacts, Zenon DEF TpInit, Unnumbered
  <2>4. PingsNumbered /\ OwnNumber  BY <2>1, TaskFacts, ZenonT(30) DEF TpInit, PingsNumbered, OwnNumber
  <2>5. WatchersOwn  BY <2>1 DEF TpInit, WatchersOwn
  <2>6. UploadsOwn /\ ChannelsOwn /\ LatencyIsOwn
    BY <2>1, Zenon DEF TpInit, UploadsOwn, ChannelsOwn, LatencyIsOwn
  <2>7. QED  BY <2>2, <2>3, <2>4, <2>5, <2>6, ZenonT(30) DEF TpInv
<1>2. TpInv /\ [TpNext]_tpVars => TpInv'
  <2>1. SUFFICES ASSUME TpInv, [TpNext]_tpVars PROVE TpInv'
    BY Zenon
  <2>2. CASE \E r \in Requests : HandlerStep(r)
    BY <2>1, <2>2, FindsKeeps, PushesKeeps, Zenon DEF HandlerStep
  <2>3. CASE \E t \in Tasks : JobStep(t)  BY <2>1, <2>3, JobKeeps, Zenon
  <2>4. CASE \E t \in Pings : WaiterStep(t)  BY <2>1, <2>4, WaiterKeeps, Zenon
  <2>5. CASE \E c \in Connections : WatcherStep(c)
    <3>1. PICK c \in Connections : WatcherStep(c)  BY <2>5, Zenon
    <3>2. UNCHANGED <<req, taskIdx, id, chan, waiter, latency, resultWatchers>>
      BY <3>1, Zenon DEF WatcherStep, WatchEnds, WatchSends, resultVars
    <3>3. job' = job \/ \E t : job' = [job EXCEPT ![t].at = "run"]
      BY <3>1, Zenon DEF WatcherStep, WatchEnds, WatchSends, agentVars
    <3>4. QED  BY <2>1, <3>2, <3>3, OthersKeep, Zenon
  <2>6. CASE MeshReturns \/ CaptureStores
    <3>1. UNCHANGED <<taskIdx, id, job, chan, waiter, latency, resultWatchers>>
      BY <2>6, Zenon DEF MeshReturns, CaptureStores, agentVars, resultVars
    <3>2. \E r \in Requests : req[r].at \in {"wait", "store"} /\ req' = [req EXCEPT ![r].at = "done"]
      BY <2>6, TaskFacts, Zenon DEF MeshReturns, CaptureStores
    <3>3. QED  BY <2>1, <3>1, <3>2, OthersKeep, Zenon
  <2>7. CASE Reconnects \/ Expires \/ ConnBreaks \/ cleanupExpiredCaptureTasks \/ UNCHANGED tpVars
    <3>1. UNCHANGED <<req, taskIdx, id, job, chan, waiter, latency, resultWatchers>>
      BY <2>7, Zenon DEF Reconnects, Expires, ConnBreaks, cleanupExpiredCaptureTasks, tpVars, agentVars, resultVars
    <3>2. QED  BY <2>1, <3>1, OthersKeep, Zenon
  <2>8. QED  BY <2>1, <2>2, <2>3, <2>4, <2>5, <2>6, <2>7, Zenon DEF TpNext, TpProgress
<1>3. TpInv => LatencyIsOwn  BY Zenon DEF TpInv
<1>4. QED  BY <1>1, <1>2, <1>3, PTL DEF TpSpec

=============================================================================
