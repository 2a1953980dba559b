----------------------------- MODULE Kinematics -----------------------------
(***************************************************************************)
(* The predictor of pkg/forecaster/kinematic.go over its sample window     *)
(* (ring.go) and average (ewma.go): smoothed value, velocity, acceleration *)
(* and the projection s + v h + a h^2 / 2 at the horizon h.  A tracker is  *)
(* a record; Observe(k, x, dt) is the tracker after one more sample.       *)
(* Quantities are integers, so divisions round down.                       *)
(***************************************************************************)
EXTENDS Integers, Sequences

CONSTANTS
    AlphaNum, AlphaDen,     \* Config.Alpha
    Horizon,
    AccThreshold

ASSUME KinematicsAssumption ==
    /\ AlphaNum \in Nat \ {0} /\ AlphaDen \in Nat /\ AlphaNum <= AlphaDen
    /\ Horizon \in Nat /\ AccThreshold \in Nat

\* NewKinematicTracker: window capacity, hard drop, least-squares velocity.  The
\* fields raw, projected and fault hold the last answer; prevEWMA is ewma itself.
NewTracker(cap, hard, ls) ==
    [cap |-> cap, hard |-> hard, ls |-> ls,
     buf |-> [i \in 0..(cap - 1) |-> 0], head |-> 0, len |-> 0,
     ready |-> FALSE, raw |-> 0, ewma |-> 0, vel |-> 0, projected |-> 0, fault |-> FALSE]

\* EWMA.Update
Average(k, x) ==
    IF k.ready THEN (AlphaNum * x + (AlphaDen - AlphaNum) * k.ewma) \div AlphaDen ELSE x

\* Ring.Push
Push(k, x) ==
    [k EXCEPT !.buf[k.head] = x,
              !.head = (@ + 1) % k.cap,
              !.len = IF @ < k.cap THEN @ + 1 ELSE @]

\* Mutant: the window is read from the start of the array.
WindowFromZero(k) == [i \in 1..k.len |-> k.buf[i - 1]]

\* The samples, oldest first, as Ring.VelocityLS walks them.
InOrder(k) ==
    LET start == IF k.len = k.cap THEN k.head ELSE 0
    IN  [i \in 1..k.len |-> k.buf[(start + i - 1) % k.cap]]

\* What the loop of Ring.VelocityLS has added up after n samples.
Total(f, n) == LET g[i \in 0..n] == IF i = 0 THEN 0 ELSE g[i - 1] + f[i] IN g[n]

\* Ring.VelocityLS: the slope of the regression line through the window.
VelocityLS(k, dt) ==
    LET n == k.len
        s == InOrder(k)
        sumX == Total([i \in 1..n |-> i - 1], n)
        sumXX == Total([i \in 1..n |-> (i - 1) * (i - 1)], n)
        sumXY == Total([i \in 1..n |-> (i - 1) * s[i]], n)
        denom == n * sumXX - sumX * sumX
    IN  IF n < 2 \/ denom = 0 THEN 0 ELSE ((n * sumXY - sumX * Total(s, n)) \div denom) \div dt

\* A rising value is judged by its projection, any other by what it is.
Faulty(k, s, rising, projected) ==
    IF rising THEN projected >= k.hard /\ 10 * s >= 3 * k.hard ELSE s >= k.hard

\* KinematicTracker.Observe, dt being the time since the last sample.  Only the
\* least-squares velocity reads the window, so only then is it kept.
Observe(k, x, dt) ==
    LET pushed == IF k.ls THEN Push(k, x) ELSE k
        s   == Average(k, x)
        vel == IF ~k.ready THEN 0
               ELSE IF k.ls /\ pushed.len >= 3 THEN VelocityLS(pushed, dt)
               ELSE (s - k.ewma) \div dt
        acc == IF ~k.ready THEN 0 ELSE (vel - k.vel) \div dt
        rising == k.ready /\ vel > 0 /\ acc > AccThreshold
        projected == IF rising THEN s + vel * Horizon + (acc * Horizon * Horizon) \div 2 ELSE s
    IN  [pushed EXCEPT !.ready = TRUE, !.raw = x, !.ewma = s, !.vel = vel, !.projected = projected,
                       !.fault = Faulty(k, s, rising, projected)]
=============================================================================
