----------------------------- MODULE PolicyMath -----------------------------
(***************************************************************************)
(* The arithmetic between a forecast and the policy in elite_policy:       *)
(* overload and shed rate (pkg/forecaster/traffic_engine.go, overload.go), *)
(* drop feedback (shed_controller.go), the map value (policy_bpf_sync.go). *)
(* Ratios are integers in units of 1/One, probabilities in units of 1/PPM; *)
(* both are truncated, as the conversion to uint32 truncates.  A float     *)
(* outside of uint32 has no result in Go's specification: the build for    *)
(* amd64 keeps the low 32 bits, the one for arm64 the largest uint32.      *)
(***************************************************************************)
EXTENDS Integers

CONSTANTS
    One, PPM,
    RhoTarget,      \* Config.RhoTarget
    Gamma,          \* int(Config.ShedGamma)
    DefaultMu,      \* 10000
    U32,            \* 2^32
    Saturates       \* what the build does with a float of U32 or more

ASSUME PolicyAssumption ==
    /\ One \in Nat /\ One >= 10 /\ PPM \in Nat \ {0}
    /\ RhoTarget \in 1..(One - 1) /\ Gamma \in Nat \ {0}
    /\ U32 \in Nat /\ DefaultMu \in 1..(U32 - 1) /\ Saturates \in BOOLEAN

Lower(a, b) == IF a <= b THEN a ELSE b
Higher(a, b) == IF a >= b THEN a ELSE b

\* ComputeOverloadFraction; a target of one or more falls back on 0.7.
ComputeOverloadFraction(rho, target) ==
    LET t == IF target <= 0 \/ target >= One THEN (7 * One) \div 10 ELSE target
    IN  IF rho <= t THEN 0 ELSE Lower(((rho - t) * One) \div (One - t), One)

\* x^Gamma, by repeated multiplication
Power(x) == LET p[i \in 1..Gamma] == IF i = 1 THEN x ELSE p[i - 1] * x IN p[Gamma]

ShedPPM(overload) ==
    IF overload <= 0 THEN 0 ELSE Lower((Power(overload) * PPM) \div Power(One), PPM)

\* FuseOverload: a latency fault raises the traffic's overload.
FuseOverload(latFault, ratio, trafficOverload) ==
    IF latFault
    THEN Higher(Higher(trafficOverload, ComputeOverloadFraction(ratio, One)), One \div 2)
    ELSE trafficOverload

\* Mutant: the whole overshoot is taken off.
AdjustByOvershoot(target, dropRate) ==
    IF 10 * dropRate > 12 * target THEN Higher(target - (dropRate - target), 1) ELSE target

\* ShedController.Adjust: a drop rate above 1.2 times the target lowers it by a
\* tenth.  dropRate is 0 too while fewer than 100 packets have been counted.  The
\* field lastPPM is written and never read, so it is left out.
Adjust(target, dropRate) ==
    IF 10 * dropRate > 12 * target THEN Higher((9 * target) \div 10, target \div 2) ELSE target

\* uint32(x) of a float that is not negative
ToU32(x) == IF x < U32 THEN x ELSE IF Saturates THEN U32 - 1 ELSE x % U32

\* SyncPolicyToBPFMap: the value written for a snapshot.  Divided by a small rho the
\* rate may pass U32 and, where the conversion wraps, be 0.
PolicyValue(snap) ==
    LET conn == ToU32(snap.conn)
        mu == IF conn = 0 THEN DefaultMu ELSE conn
    IN  [fault |-> snap.fault, cause |-> snap.cause, overload |-> snap.overload,
         shed |-> IF snap.shed = 0 /\ snap.fault THEN PPM ELSE snap.shed,
         mu |-> IF snap.rho > 0 /\ snap.rho < One THEN ToU32((mu * One) \div snap.rho) ELSE mu,
         portFilter |-> 10 * snap.rho > 6 * One,
         synProxy |-> 100 * snap.rho > 85 * One]
=============================================================================
