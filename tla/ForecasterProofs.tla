-------------------------- MODULE ForecasterProofs --------------------------
(***************************************************************************)
(* Theorems about Forecaster for every configuration: what the recursive   *)
(* functions of PolicyMath and Kinematics compute, by induction on their   *)
(* argument, and the invariants of the tick that rest on it.               *)
(***************************************************************************)
EXTENDS Forecaster, WellFoundedInduction, TLAPS

\* A set of numbers that is not empty has a least one.
LEMMA Least ==
  ASSUME NEW T \in SUBSET Nat, T # {}
  PROVE  \E x \in T : \A y \in T : ~(y < x)
<1>1. PICK x \in T : \A y \in T : ~(<<y, x>> \in OpToRel(<, Nat))
  BY NatLessThanWellFounded, WFMin, Zenon
<1>2. ASSUME NEW y \in T, y < x PROVE FALSE
  <2>1. <<y, x>> \in Nat \X Nat /\ <<y, x>>[1] < <<y, x>>[2] BY <1>2
  <2> QED BY <1>1, <2>1 DEF OpToRel
<1> QED BY <1>2, Zenon

\* Induction up to n, with the induction hypothesis as a set.
LEMMA UpTo ==
  ASSUME NEW n \in Nat, NEW S, 0 \in S, \A k \in 0..(n - 1) : k \in S => k + 1 \in S
  PROVE  \A k \in 0..n : k \in S
<1>1. SUFFICES ASSUME NEW bad \in 0..n, bad \notin S PROVE FALSE BY Zenon
<1> DEFINE T == {k \in 0..n : k \notin S}
<1>2. PICK x \in T : \A y \in T : ~(y < x)
  <2>1. T \in SUBSET Nat OBVIOUS
  <2>2. T # {} BY <1>1, Zenon
  <2> HIDE DEF T
  <2> QED BY <2>1, <2>2, Least, Zenon
<1>3. x # 0 BY <1>2, Zenon
<1>4. x - 1 \in 0..(n - 1) /\ x - 1 \in 0..n /\ x - 1 < x BY <1>2, <1>3
<1>5. x - 1 \in S BY <1>4, <1>2, Zenon
<1>6. (x - 1) + 1 = x BY <1>2
<1> QED BY <1>5, <1>4, <1>2, <1>6

IntStep(n, step) == \A i \in 1..n, v \in Int : step[i][v] \in Int
Recurs(p, n, base, step) == p[0] = base /\ \A i \in 1..n : p[i] = step[i][p[i - 1]]

\* A function defined from its value at 0 and a step exists.
LEMMA Recurrence ==
  ASSUME NEW n \in Nat, NEW base \in Int, NEW step, IntStep(n, step)
  PROVE  \E p \in [0..n -> Int] : Recurs(p, n, base, step)
<1> DEFINE S == {k \in 0..n : \E p \in [0..k -> Int] : Recurs(p, k, base, step)}
<1>1. 0 \in S
  <2>1. [i \in 0..0 |-> base] \in [0..0 -> Int] /\ Recurs([i \in 0..0 |-> base], 0, base, step) BY DEF Recurs
  <2>2. \E p \in [0..0 -> Int] : Recurs(p, 0, base, step) BY <2>1, Zenon
  <2>3. 0 \in 0..n OBVIOUS
  <2> QED BY <2>2, <2>3, Zenon
<1>2. ASSUME NEW k \in 0..(n - 1), k \in S PROVE k + 1 \in S
  <2>1. PICK p \in [0..k -> Int] : Recurs(p, k, base, step) BY <1>2, Zenon
  <2> DEFINE q == [i \in 0..(k + 1) |-> IF i = k + 1 THEN step[k + 1][p[k]] ELSE p[i]]
  <2>2. k \in Nat /\ k + 1 \in 1..n /\ k + 1 \in 0..n /\ p[k] \in Int BY <2>1
  <2>3. q \in [0..(k + 1) -> Int] BY <2>1, <2>2 DEF IntStep
  <2>4. q[0] = base BY <2>1, <2>2 DEF Recurs
  <2>5. ASSUME NEW i \in 1..(k + 1) PROVE q[i] = step[i][q[i - 1]]
    <3>1. CASE i = k + 1 BY <3>1, <2>2
    <3>2. CASE i # k + 1
      <4>1. i \in 1..k /\ i \in 0..(k + 1) /\ i - 1 \in 0..(k + 1) /\ i - 1 # k + 1 BY <2>2, <3>2
      <4>2. q[i] = p[i] /\ q[i - 1] = p[i - 1] BY <4>1, <3>2, Zenon
      <4> QED BY <4>1, <4>2, <2>1, Zenon DEF Recurs
    <3> QED BY <3>1, <3>2, Zenon
  <2>6. Recurs(q, k + 1, base, step) BY <2>4, <2>5, Zenon DEF Recurs
  <2> HIDE DEF q
  <2> QED BY <2>2, <2>3, <2>6, Zenon
<1>3. n \in S
  <2> HIDE DEF S
  <2>1. \A k \in 0..n : k \in S BY <1>1, <1>2, UpTo, Zenon
  <2>2. n \in 0..n OBVIOUS
  <2> QED BY <2>1, <2>2, Zenon
<1> QED BY <1>3, Zenon

-----------------------------------------------------------------------------
\* The gamma-th power in ShedPPM is a positive number.
LEMMA PowerPositive ==
  ASSUME NEW x \in Nat \ {0}
  PROVE  Power(x) \in Nat \ {0}
<1> DEFINE Powers(p) == p = [i \in 1..Gamma |-> IF i = 1 THEN x ELSE p[i - 1] * x]
           q == CHOOSE p : Powers(p)
           step == [i \in 1..Gamma |-> [v \in Int |-> v * x]]
           S == {k \in Nat : k + 1 \in 1..Gamma => q[k + 1] \in Nat \ {0}}
<1>g. Gamma \in Nat \ {0} /\ Gamma - 1 \in Nat /\ x \in Int BY PolicyAssumption
<1>1. \E p : Powers(p)
  <2>1. PICK r \in [0..(Gamma - 1) -> Int] : Recurs(r, Gamma - 1, x, step)
    <3>1. IntStep(Gamma - 1, step) BY <1>g DEF IntStep
    <3> HIDE DEF step
    <3> QED BY <3>1, <1>g, Recurrence, Zenon
  <2> DEFINE p == [i \in 1..Gamma |-> r[i - 1]]
  <2>2. ASSUME NEW i \in 1..Gamma, i # 1 PROVE r[i - 1] = p[i - 1] * x
    <3>1. i - 1 \in 1..(Gamma - 1) /\ i - 1 \in 1..Gamma /\ (i - 1) - 1 \in 0..(Gamma - 1) BY <2>2, <1>g
    <3>2. r[i - 1] = step[i - 1][r[(i - 1) - 1]] BY <3>1, <2>1, Zenon DEF Recurs
    <3>3. r[(i - 1) - 1] \in Int BY <3>1, <2>1, Zenon
    <3>4. p[i - 1] = r[(i - 1) - 1] BY <3>1, Zenon
    <3>5. step[i - 1][r[(i - 1) - 1]] = r[(i - 1) - 1] * x BY <3>1, <3>3, Zenon
    <3> QED BY <3>2, <3>4, <3>5, Zenon
  <2>3. Powers(p)
    <3>1. ASSUME NEW i \in 1..Gamma PROVE r[i - 1] = IF i = 1 THEN x ELSE p[i - 1] * x
      <4>1. CASE i = 1 BY <4>1, <2>1 DEF Recurs
      <4>2. CASE i # 1 BY <4>2, <2>2, Zenon
      <4> QED BY <4>1, <4>2, Zenon
    <3> QED BY <3>1, Zenon
  <2> QED BY <2>3, Zenon
<1>2. \A i \in 1..Gamma : q[i] = IF i = 1 THEN x ELSE q[i - 1] * x
  <2>1. Powers(q) BY <1>1, Zenon
  <2> HIDE DEF q
  <2> QED BY <2>1, Zenon
<1> HIDE DEF q
<1>3. \A k \in 0..(Gamma - 1) : k \in S
  <2>1. 0 \in S
    <3>1. 0 + 1 = 1 /\ 1 \in 1..Gamma BY <1>g
    <3>2. q[1] = x BY <1>2, <3>1
    <3> QED BY <3>1, <3>2
  <2>2. ASSUME NEW k \in 0..((Gamma - 1) - 1), k \in S PROVE k + 1 \in S
    <3>1. k + 1 \in 1..Gamma /\ (k + 1) + 1 \in 1..Gamma /\ (k + 1) + 1 # 1 /\ ((k + 1) + 1) - 1 = k + 1
          /\ k \in Nat /\ k + 1 \in Nat
      BY <1>g
    <3>2. q[(k + 1) + 1] = q[k + 1] * x BY <1>2, <3>1
    <3>3. q[k + 1] \in Nat \ {0} BY <2>2, <3>1, Zenon
    <3>4. q[k + 1] * x \in Nat \ {0} BY <3>3
    <3> QED BY <3>1, <3>2, <3>4, Zenon
  <2> HIDE DEF S
  <2> QED BY <2>1, <2>2, <1>g, UpTo, Zenon
<1>4. q[Gamma] \in Nat \ {0}
  <2>1. Gamma - 1 \in S
    <3> HIDE DEF S
    <3> QED BY <1>3, <1>g
  <2> QED BY <2>1, <1>g
<1> QED BY <1>4, Zenon DEF Power, q
-----------------------------------------------------------------------------
Sums(g, f, n) == g \in [0..n -> Int] /\ g[0] = 0 /\ \A i \in 1..n : g[i] = g[i - 1] + f[i]

\* Total is the last of the partial sums, as the loop of VelocityLS has them.
LEMMA TotalIsSum ==
  ASSUME NEW n \in Nat, NEW f \in [1..n -> Int]
  PROVE  \E g : Sums(g, f, n) /\ Total(f, n) = g[n]
<1> DEFINE Adds(g) == g = [i \in 0..n |-> IF i = 0 THEN 0 ELSE g[i - 1] + f[i]]
           q == CHOOSE g : Adds(g)
           step == [i \in 1..n |-> [v \in Int |-> v + f[i]]]
           S == {k \in Nat : q[k] \in Int}
<1>1. \E g : Adds(g)
  <2>1. PICK r \in [0..n -> Int] : Recurs(r, n, 0, step)
    <3>1. IntStep(n, step) BY DEF IntStep
    <3>2. 0 \in Int OBVIOUS
    <3> HIDE DEF step
    <3> QED BY <3>1, <3>2, Recurrence, Zenon
  <2>2. ASSUME NEW i \in 1..n PROVE r[i] = r[i - 1] + f[i]
    <3>1. i - 1 \in 0..n OBVIOUS
    <3>2. r[i - 1] \in Int BY <3>1, <2>1, Zenon
    <3>3. r[i] = step[i][r[i - 1]] BY <2>1, Zenon DEF Recurs
    <3> QED BY <3>2, <3>3, Zenon
  <2>3. ASSUME NEW i \in 0..n PROVE r[i] = IF i = 0 THEN 0 ELSE r[i - 1] + f[i]
    <3>1. CASE i = 0 BY <3>1, <2>1, Zenon DEF Recurs
    <3>2. CASE i # 0
      <4>1. i \in 1..n BY <3>2
      <4> QED BY <3>2, <4>1, <2>2, Zenon
    <3> QED BY <3>1, <3>2, Zenon
  <2>4. r = [i \in 0..n |-> r[i]] BY <2>1, Zenon
  <2>5. Adds(r) BY <2>3, <2>4
  <2> QED BY <2>5, Zenon
<1>2. Adds(q) BY <1>1, Zenon
<1> HIDE DEF q
<1>3. q[0] = 0 /\ \A i \in 1..n : q[i] = q[i - 1] + f[i]
  <2>1. \A i \in 0..n : q[i] = IF i = 0 THEN 0 ELSE q[i - 1] + f[i] BY <1>2, Zenon
  <2>2. 0 \in 0..n /\ \A i \in 1..n : i \in 0..n /\ i # 0 OBVIOUS
  <2> QED BY <2>1, <2>2, Zenon
<1>4. \A k \in 0..n : k \in S
  <2>1. 0 \in S BY <1>3
  <2>2. ASSUME NEW k \in 0..(n - 1), k \in S PROVE k + 1 \in S
    <3>1. k + 1 \in 1..n /\ (k + 1) - 1 = k /\ k + 1 \in Nat OBVIOUS
    <3>2. q[k + 1] = q[k] + f[k + 1] BY <3>1, <1>3
    <3>3. q[k] \in Int /\ f[k + 1] \in Int BY <2>2, <3>1, Zenon
    <3>4. q[k] + f[k + 1] \in Int BY <3>3
    <3> QED BY <3>1, <3>2, <3>4, Zenon
  <2> HIDE DEF S
  <2> QED BY <2>1, <2>2, UpTo, Zenon
<1>5. q \in [0..n -> Int]
  <2>1. q = [i \in 0..n |-> q[i]] BY <1>2, Zenon
  <2>2. \A i \in 0..n : q[i] \in Int BY <1>4, Zenon
  <2> HIDE DEF Adds
  <2> QED BY <2>1, <2>2, Zenon
<1>6. Sums(q, f, n) BY <1>3, <1>5, Zenon DEF Sums
<1>7. Total(f, n) = q[n] BY Zenon DEF Total, q
<1> QED BY <1>6, <1>7, Zenon

\* One more sample v, no higher than the last one s, keeps what holds of the sums X, Y and
\* A of i - 1, of the samples and of their products after k samples.
LEMMA OneLower ==
  ASSUME NEW k \in Nat \ {0}, NEW X \in Int, NEW Y \in Int, NEW A \in Int, NEW s \in Int, NEW v \in Int,
         2 * X = k * (k - 1), Y >= k * s, 2 * A - 2 * (k * Y) + s * (k * (k + 1)) <= 0,
         k * A - X * Y <= 0, v <= s
  PROVE  /\ 2 * (X + k) = (k + 1) * ((k + 1) - 1)
         /\ Y + v >= (k + 1) * v
         /\ 2 * (A + k * v) - 2 * ((k + 1) * (Y + v)) + v * ((k + 1) * ((k + 1) + 1)) <= 0
         /\ (k + 1) * (A + k * v) - (X + k) * (Y + v) <= 0
<1>1. k * v <= k * s OBVIOUS
<1>2. v * (k * (k + 1)) <= s * (k * (k + 1))
  <2>1. k * (k + 1) \in Nat OBVIOUS
  <2> QED BY <2>1
<1>3. 2 * (X + k) = (k + 1) * ((k + 1) - 1) OBVIOUS
<1>4. Y + v >= (k + 1) * v BY <1>1
<1>5. 2 * (A + k * v) - 2 * ((k + 1) * (Y + v)) + v * ((k + 1) * ((k + 1) + 1)) <= 0
  <2>1. 2 * (A + k * v) - 2 * ((k + 1) * (Y + v)) + v * ((k + 1) * ((k + 1) + 1))
          = (2 * A - 2 * (k * Y) + v * (k * (k + 1))) - 2 * Y + 2 * (k * v)
    OBVIOUS
  <2> QED BY <2>1, <1>1, <1>2
<1>6. (k + 1) * (A + k * v) - (X + k) * (Y + v) <= 0
  <2>1. 2 * (X * Y) = (k * (k - 1)) * Y /\ 2 * (X * v) = (k * (k - 1)) * v OBVIOUS
  <2>2. 2 * ((k + 1) * (A + k * v) - (X + k) * (Y + v))
          = (2 * (k * A) - 2 * (X * Y)) + (2 * A - 2 * (k * Y) + v * (k * (k + 1)))
    BY <2>1
  <2> QED BY <2>2, <1>2
<1> QED BY <1>3, <1>4, <1>5, <1>6

\* The sums of i - 1 and of its square over n samples, in closed form.
LEMMA IndexSums ==
  ASSUME NEW n \in Nat, NEW gx, NEW gq,
         Sums(gx, [i \in 1..n |-> i - 1], n), Sums(gq, [i \in 1..n |-> (i - 1) * (i - 1)], n)
  PROVE  2 * gx[n] = n * (n - 1) /\ 6 * gq[n] = (n * (n - 1)) * (2 * n - 1)
<1> DEFINE S == {k \in Nat : 2 * gx[k] = k * (k - 1) /\ 6 * gq[k] = (k * (k - 1)) * (2 * k - 1)}
<1>1. 0 \in S
  <2>1. gx[0] = 0 /\ gq[0] = 0 BY Zenon DEF Sums
  <2> QED BY <2>1
<1>2. ASSUME NEW k \in 0..(n - 1), k \in S PROVE k + 1 \in S
  <2>1. k \in 0..n /\ k + 1 \in 1..n /\ (k + 1) - 1 = k /\ k + 1 \in Nat /\ k \in Nat OBVIOUS
  <2>2. gx[k] \in Int /\ gq[k] \in Int BY <2>1, Zenon DEF Sums
  <2>3. gx[k + 1] = gx[k] + k
    <3>1. gx[k + 1] = gx[(k + 1) - 1] + [i \in 1..n |-> i - 1][k + 1] BY <2>1, Zenon DEF Sums
    <3>2. [i \in 1..n |-> i - 1][k + 1] = (k + 1) - 1 BY <2>1, Zenon
    <3> QED BY <3>1, <3>2, <2>1, Zenon
  <2>4. gq[k + 1] = gq[k] + k * k
    <3>1. gq[k + 1] = gq[(k + 1) - 1] + [i \in 1..n |-> (i - 1) * (i - 1)][k + 1] BY <2>1, Zenon DEF Sums
    <3>2. [i \in 1..n |-> (i - 1) * (i - 1)][k + 1] = ((k + 1) - 1) * ((k + 1) - 1) BY <2>1, Zenon
    <3> QED BY <3>1, <3>2, <2>1, Zenon
  <2>5. 2 * gx[k] = k * (k - 1) /\ 6 * gq[k] = (k * (k - 1)) * (2 * k - 1) BY <1>2, Zenon
  <2>6. 2 * (gx[k] + k) = (k + 1) * ((k + 1) - 1) BY <2>2, <2>5, <2>1
  <2>7. 6 * (gq[k] + k * k) = ((k + 1) * ((k + 1) - 1)) * (2 * (k + 1) - 1)
    <3>1. k * k \in Int /\ 6 * (gq[k] + k * k) = 6 * gq[k] + 6 * (k * k) BY <2>1, <2>2
    <3>2. (k * (k - 1)) * (2 * k - 1) + 6 * (k * k) = ((k + 1) * ((k + 1) - 1)) * (2 * (k + 1) - 1) BY <2>1
    <3> QED BY <3>1, <3>2, <2>5, Zenon
  <2> QED BY <2>1, <2>3, <2>4, <2>6, <2>7, Zenon
<1>3. n \in S
  <2> HIDE DEF S
  <2>1. \A k \in 0..n : k \in S BY <1>1, <1>2, UpTo, Zenon
  <2>2. n \in 0..n OBVIOUS
  <2> QED BY <2>1, <2>2, Zenon
<1> QED BY <1>3, Zenon

\* The denominator of the slope is positive from two samples on.
LEMMA DenominatorPositive ==
  ASSUME NEW n \in Nat, n >= 2, NEW x \in Int, NEW q \in Int,
         2 * x = n * (n - 1), 6 * q = (n * (n - 1)) * (2 * n - 1)
  PROVE  n * q - x * x > 0
<1>1. 4 * (x * x) = (n * (n - 1)) * (n * (n - 1))
  <2>1. 4 * (x * x) = (2 * x) * (2 * x) OBVIOUS
  <2> QED BY <2>1
<1>2. 12 * (n * q) = (2 * n) * ((n * (n - 1)) * (2 * n - 1))
  <2>1. 12 * (n * q) = (2 * n) * (6 * q) OBVIOUS
  <2> QED BY <2>1
<1>3. 12 * (n * q - x * x) = ((n * n) * (n - 1)) * (n + 1)
  <2>1. 12 * (n * q - x * x) = 12 * (n * q) - 3 * (4 * (x * x)) OBVIOUS
  <2>2. (2 * n) * ((n * (n - 1)) * (2 * n - 1)) - 3 * ((n * (n - 1)) * (n * (n - 1)))
          = ((n * n) * (n - 1)) * (n + 1)
    OBVIOUS
  <2> QED BY <2>1, <2>2, <1>1, <1>2
<1>4. ((n * n) * (n - 1)) * (n + 1) > 0
  <2>1. n * n > 0 /\ n - 1 > 0 /\ n + 1 > 0 OBVIOUS
  <2>2. (n * n) * (n - 1) > 0 BY <2>1
  <2> QED BY <2>1, <2>2
<1> QED BY <1>3, <1>4

\* The numerator of the slope is not positive if no sample is higher than the one before.
LEMMA FallingNumerator ==
  ASSUME NEW n \in Nat \ {0}, NEW s \in [1..n -> Int], NEW gx, NEW gy, NEW ga,
         \A i \in 2..n : s[i] <= s[i - 1],
         Sums(gx, [i \in 1..n |-> i - 1], n), Sums(gy, s, n),
         Sums(ga, [i \in 1..n |-> (i - 1) * s[i]], n)
  PROVE  n * ga[n] - gx[n] * gy[n] <= 0
<1> DEFINE Holds(k) == /\ 2 * gx[k] = k * (k - 1) /\ gy[k] >= k * s[k]
                       /\ 2 * ga[k] - 2 * (k * gy[k]) + s[k] * (k * (k + 1)) <= 0
                       /\ k * ga[k] - gx[k] * gy[k] <= 0
           S == {k \in Nat : Holds(k + 1)}
<1>i. ASSUME NEW k \in 0..n PROVE gx[k] \in Int /\ gy[k] \in Int /\ ga[k] \in Int
  BY Zenon DEF Sums
<1>n. ASSUME NEW k \in 0..(n - 1)
      PROVE  /\ gx[k + 1] = gx[k] + k /\ gy[k + 1] = gy[k] + s[k + 1]
             /\ ga[k + 1] = ga[k] + k * s[k + 1]
  <2>1. k + 1 \in 1..n /\ (k + 1) - 1 = k OBVIOUS
  <2>2. gx[k + 1] = gx[(k + 1) - 1] + [i \in 1..n |-> i - 1][k + 1] BY <2>1, Zenon DEF Sums
  <2>3. gy[k + 1] = gy[(k + 1) - 1] + s[k + 1] BY <2>1, Zenon DEF Sums
  <2>4. ga[k + 1] = ga[(k + 1) - 1] + [i \in 1..n |-> (i - 1) * s[i]][k + 1] BY <2>1, Zenon DEF Sums
  <2>5. [i \in 1..n |-> i - 1][k + 1] = (k + 1) - 1
        /\ [i \in 1..n |-> (i - 1) * s[i]][k + 1] = ((k + 1) - 1) * s[k + 1]
    BY <2>1, Zenon
  <2> QED BY <2>1, <2>2, <2>3, <2>4, <2>5, Zenon
<1>1. 0 \in S
  <2>1. 0 \in 0..(n - 1) /\ 0 + 1 = 1 /\ 1 \in 1..n /\ s[1] \in Int OBVIOUS
  <2>2. gx[0] = 0 /\ gy[0] = 0 /\ ga[0] = 0 BY Zenon DEF Sums
  <2>3. gx[1] = 0 /\ gy[1] = s[1] /\ ga[1] = 0
    <3>1. gx[1] = 0 + 0 /\ gy[1] = 0 + s[1] /\ ga[1] = 0 + 0 * s[1] BY <2>1, <2>2, <1>n
    <3> QED BY <3>1, <2>1
  <2> QED BY <2>1, <2>3
<1>2. ASSUME NEW k \in 0..((n - 1) - 1), k \in S PROVE k + 1 \in S
  <2> DEFINE j == k + 1
  <2>1. j \in 0..(n - 1) /\ j \in 0..n /\ j \in 1..n /\ j + 1 \in 2..n /\ (j + 1) - 1 = j /\ j + 1 \in 1..n
        /\ j \in Nat \ {0} /\ k + 1 \in Nat
    OBVIOUS
  <2>2. Holds(j) BY <1>2, Zenon
  <2> HIDE DEF j
  <2>3. gx[j] \in Int /\ gy[j] \in Int /\ ga[j] \in Int BY <2>1, <1>i, Zenon
  <2>4. s[j] \in Int /\ s[j + 1] \in Int BY <2>1, Zenon
  <2>5. s[j + 1] <= s[j] BY <2>1, Zenon
  <2>6. /\ 2 * (gx[j] + j) = (j + 1) * ((j + 1) - 1)
        /\ gy[j] + s[j + 1] >= (j + 1) * s[j + 1]
        /\ 2 * (ga[j] + j * s[j + 1]) - 2 * ((j + 1) * (gy[j] + s[j + 1]))
             + s[j + 1] * ((j + 1) * ((j + 1) + 1)) <= 0
        /\ (j + 1) * (ga[j] + j * s[j + 1]) - (gx[j] + j) * (gy[j] + s[j + 1]) <= 0
    BY <2>1, <2>2, <2>3, <2>4, <2>5, OneLower, Zenon
  <2>7. gx[j + 1] = gx[j] + j /\ gy[j + 1] = gy[j] + s[j + 1] /\ ga[j + 1] = ga[j] + j * s[j + 1]
    BY <2>1, <1>n, Zenon
  <2>8. Holds(j + 1) BY <2>6, <2>7, Zenon
  <2> HIDE DEF Holds
  <2> QED BY <2>8, <2>1, Zenon DEF j
<1>3. Holds(n)
  <2>1. n - 1 \in Nat /\ n - 1 \in 0..(n - 1) /\ (n - 1) + 1 = n OBVIOUS
  <2>2. \A k \in 0..(n - 1) : k \in S
    <3> HIDE DEF S
    <3> QED BY <1>1, <1>2, <2>1, UpTo, Zenon
  <2>3. Holds((n - 1) + 1)
    <3> HIDE DEF Holds
    <3> QED BY <2>1, <2>2, Zenon
  <2> QED BY <2>1, <2>3, Zenon
<1> QED BY <1>3, Zenon

-----------------------------------------------------------------------------
\* The trackers that NewTracker(cap, hard, ls) may become.
Trackers(cap, hard, ls) ==
  [cap : {cap}, hard : {hard}, ls : {ls}, buf : [0..(cap - 1) -> Nat], head : 0..(cap - 1), len : 0..cap,
   ready : BOOLEAN, raw : Nat, ewma : Nat, vel : Int, projected : Int, fault : BOOLEAN]

LEMMA WindowInOrder ==
  ASSUME NEW cap \in Nat \ {0}, NEW hard, NEW ls, NEW k \in Trackers(cap, hard, ls)
  PROVE  InOrder(k) \in [1..k.len -> Int]
<1>1. k.cap = cap /\ k.head \in 0..(cap - 1) /\ k.buf \in [0..(cap - 1) -> Nat] /\ k.len \in 0..cap
  BY Zenon DEF Trackers
<1> DEFINE start == IF k.len = k.cap THEN k.head ELSE 0
<1>2. start \in Nat BY <1>1
<1> HIDE DEF start
<1>3. ASSUME NEW i \in 1..k.len PROVE k.buf[(start + i - 1) % k.cap] \in Int
  <2>1. start + i - 1 \in Nat BY <1>1, <1>2
  <2>2. (start + i - 1) % cap \in 0..(cap - 1) BY <2>1
  <2>3. k.buf[(start + i - 1) % k.cap] \in Nat BY <1>1, <2>2, Zenon
  <2> QED BY <2>3
<1> QED BY <1>3, Zenon DEF InOrder, start

\* The slope is a number, and not a positive one when the samples of the window do not rise.
LEMMA SlopeOfWindow ==
  ASSUME NEW cap \in Nat \ {0}, NEW hard, NEW ls, NEW k \in Trackers(cap, hard, ls), NEW dt \in Nat \ {0}
  PROVE  /\ VelocityLS(k, dt) \in Int
         /\ (\A i \in 2..k.len : InOrder(k)[i] <= InOrder(k)[i - 1]) => VelocityLS(k, dt) <= 0
<1> DEFINE n == k.len
           s == InOrder(k)
           fx == [i \in 1..n |-> i - 1]
           fq == [i \in 1..n |-> (i - 1) * (i - 1)]
           fa == [i \in 1..n |-> (i - 1) * s[i]]
           num == n * Total(fa, n) - Total(fx, n) * Total(s, n)
           denom == n * Total(fq, n) - Total(fx, n) * Total(fx, n)
<1>1. VelocityLS(k, dt) = IF n < 2 \/ denom = 0 THEN 0 ELSE (num \div denom) \div dt
  BY Zenon DEF VelocityLS
<1>2. n \in Nat /\ s \in [1..n -> Int]
  <2>1. k.len \in 0..cap BY Zenon DEF Trackers
  <2> QED BY <2>1, WindowInOrder
<1> HIDE DEF n, s
<1>3. fx \in [1..n -> Int] /\ fq \in [1..n -> Int] /\ fa \in [1..n -> Int]
  <2>1. \A i \in 1..n : i - 1 \in Int /\ (i - 1) * (i - 1) \in Int BY <1>2
  <2>2. ASSUME NEW i \in 1..n PROVE (i - 1) * s[i] \in Int
    <3>1. s[i] \in Int BY <1>2, Zenon
    <3> QED BY <3>1, <2>1
  <2> QED BY <2>1, <2>2, Zenon
<1>4. CASE n < 2
  <2>1. VelocityLS(k, dt) = 0 BY <1>1, <1>4, Zenon
  <2> QED BY <2>1
<1>5. CASE ~(n < 2)
  <2>0. n \in Nat \ {0} /\ n >= 2 /\ n \in 0..n BY <1>2, <1>5
  <2>1. PICK gx : Sums(gx, fx, n) /\ Total(fx, n) = gx[n]
    <3> HIDE DEF fx
    <3> QED BY <1>2, <1>3, TotalIsSum, Zenon
  <2>2. PICK gq : Sums(gq, fq, n) /\ Total(fq, n) = gq[n]
    <3> HIDE DEF fq
    <3> QED BY <1>2, <1>3, TotalIsSum, Zenon
  <2>3. PICK ga : Sums(ga, fa, n) /\ Total(fa, n) = ga[n]
    <3> HIDE DEF fa
    <3> QED BY <1>2, <1>3, TotalIsSum, Zenon
  <2>4. PICK gy : Sums(gy, s, n) /\ Total(s, n) = gy[n] BY <1>2, TotalIsSum, Zenon
  <2>5. gx[n] \in Int /\ gq[n] \in Int /\ ga[n] \in Int /\ gy[n] \in Int
    <3> HIDE DEF fx, fq, fa
    <3> QED BY <2>0, <2>1, <2>2, <2>3, <2>4, Zenon DEF Sums
  <2>6. denom > 0 /\ denom \in Int
    <3>1. 2 * gx[n] = n * (n - 1) /\ 6 * gq[n] = (n * (n - 1)) * (2 * n - 1)
      BY <1>2, <2>1, <2>2, IndexSums, Zenon
    <3> HIDE DEF fx, fq, fa
    <3>2. n * gq[n] - gx[n] * gx[n] > 0 BY <3>1, <1>2, <2>0, <2>5, DenominatorPositive, Zenon
    <3>3. denom = n * gq[n] - gx[n] * gx[n] BY <2>1, <2>2, Zenon
    <3> QED BY <3>2, <3>3, <2>5, <1>2
  <2>7. num \in Int
    <3> HIDE DEF fx, fq, fa
    <3>1. num = n * ga[n] - gx[n] * gy[n] BY <2>1, <2>3, <2>4, Zenon
    <3> QED BY <3>1, <2>5, <1>2
  <2>8. (\A i \in 2..n : s[i] <= s[i - 1]) => num <= 0
    <3>1. SUFFICES ASSUME \A i \in 2..n : s[i] <= s[i - 1] PROVE num <= 0 BY Zenon
    <3>2. n * ga[n] - gx[n] * gy[n] <= 0
      BY <3>1, <1>2, <2>0, <2>1, <2>3, <2>4, FallingNumerator, Zenon
    <3> HIDE DEF fx, fq, fa
    <3>3. num = n * ga[n] - gx[n] * gy[n] BY <2>1, <2>3, <2>4, Zenon
    <3> QED BY <3>2, <3>3, Zenon
  <2> HIDE DEF num, denom
  <2>9. denom # 0 BY <2>6
  <2>10. VelocityLS(k, dt) = (num \div denom) \div dt BY <1>1, <1>5, <2>9, Zenon
  <2>11. num \div denom \in Int /\ (num <= 0 => num \div denom <= 0) BY <2>6, <2>7
  <2>12. (num \div denom) \div dt \in Int /\ (num \div denom <= 0 => (num \div denom) \div dt <= 0) BY <2>11
  <2> QED BY <2>8, <2>10, <2>11, <2>12, Zenon DEF n, s
<1> QED BY <1>4, <1>5, Zenon

\* A window that is full and does not rise, oldest sample first.
Falling(k) == /\ k.len = k.cap
              /\ \A i \in 2..k.cap : k.buf[(k.head + i - 1) % k.cap] <= k.buf[(k.head + (i - 1) - 1) % k.cap]

LEMMA PushKeeps ==
  ASSUME NEW cap \in Nat \ {0}, NEW hard, NEW ls, NEW k \in Trackers(cap, hard, ls), NEW x \in Nat
  PROVE  Push(k, x) \in Trackers(cap, hard, ls)
<1>1. k.cap = cap /\ k.head \in 0..(cap - 1) /\ k.buf \in [0..(cap - 1) -> Nat] /\ k.len \in 0..cap
  BY Zenon DEF Trackers
<1>2. [k.buf EXCEPT ![k.head] = x] \in [0..(cap - 1) -> Nat] BY <1>1, Zenon
<1>3. (k.head + 1) % k.cap \in 0..(cap - 1)
  <2>1. k.head + 1 \in Nat BY <1>1
  <2> QED BY <2>1, <1>1
<1>4. (IF k.len < k.cap THEN k.len + 1 ELSE k.len) \in 0..cap BY <1>1
<1>5. Push(k, x) = [k EXCEPT !.buf = [k.buf EXCEPT ![k.head] = x], !.head = (k.head + 1) % k.cap,
                             !.len = IF k.len < k.cap THEN k.len + 1 ELSE k.len]
  BY DEF Push, Trackers
<1> QED BY <1>2, <1>3, <1>4, <1>5 DEF Trackers

LEMMA AverageKeeps ==
  ASSUME NEW cap, NEW hard, NEW ls, NEW k \in Trackers(cap, hard, ls), NEW x \in Nat
  PROVE  Average(k, x) \in Nat
<1>1. k.ewma \in Nat BY Zenon DEF Trackers
<1>2. AlphaNum * x \in Nat /\ (AlphaDen - AlphaNum) * k.ewma \in Nat /\ AlphaDen \in Nat \ {0}
  <2>1. AlphaNum \in Nat /\ AlphaDen - AlphaNum \in Nat /\ AlphaDen \in Nat \ {0} BY KinematicsAssumption
  <2> QED BY <2>1, <1>1
<1>3. (AlphaNum * x + (AlphaDen - AlphaNum) * k.ewma) \div AlphaDen \in Nat BY <1>2
<1> QED BY <1>3, Zenon DEF Average

\* A tracker stays one; its projection is not below its average; a fault means that the
\* average is not 0; and a full window that does not rise is not projected.
Observed(o, cap, hard, ls) ==
  /\ o \in Trackers(cap, hard, ls) /\ o.projected >= o.ewma
  /\ hard > 0 /\ o.fault => o.ewma > 0
  /\ ls /\ cap >= 3 /\ Falling(o) => o.projected = o.ewma

LEMMA ObserveKeeps ==
  ASSUME NEW cap \in Nat \ {0}, NEW hard \in Nat, NEW ls \in BOOLEAN,
         NEW k \in Trackers(cap, hard, ls), NEW x \in Nat, NEW dt \in Nat \ {0}
  PROVE  Observed(Observe(k, x, dt), cap, hard, ls)
<1> DEFINE pushed == IF k.ls THEN Push(k, x) ELSE k
           s == Average(k, x)
           vel == IF ~k.ready THEN 0
                  ELSE IF k.ls /\ pushed.len >= 3 THEN VelocityLS(pushed, dt)
                  ELSE (s - k.ewma) \div dt
           acc == IF ~k.ready THEN 0 ELSE (vel - k.vel) \div dt
           rising == k.ready /\ vel > 0 /\ acc > AccThreshold
           projected == IF rising THEN s + vel * Horizon + (acc * Horizon * Horizon) \div 2 ELSE s
           o == [pushed EXCEPT !.ready = TRUE, !.raw = x, !.ewma = s, !.vel = vel, !.projected = projected,
                               !.fault = Faulty(k, s, rising, projected)]
<1>1. Observe(k, x, dt) = o BY Zenon DEF Observe
<1>2. k.ls = ls /\ k.hard = hard /\ k.ready \in BOOLEAN /\ k.ewma \in Nat /\ k.vel \in Int
  BY Zenon DEF Trackers
<1>3. pushed \in Trackers(cap, hard, ls) BY PushKeeps, Zenon
<1>4. s \in Nat BY AverageKeeps, Zenon
<1> HIDE DEF s, pushed
<1>5. VelocityLS(pushed, dt) \in Int
      /\ ((\A i \in 2..pushed.len : InOrder(pushed)[i] <= InOrder(pushed)[i - 1]) => VelocityLS(pushed, dt) <= 0)
  BY <1>3, SlopeOfWindow, Zenon
<1>6. vel \in Int
  <2>1. (s - k.ewma) \div dt \in Int BY <1>2, <1>4
  <2>2. 0 \in Int OBVIOUS
  <2> QED BY <2>1, <2>2, <1>5, Zenon
<1>v. ls /\ pushed.len >= 3 /\ VelocityLS(pushed, dt) <= 0 => vel <= 0
  <2>1. 0 <= 0 OBVIOUS
  <2> QED BY <2>1, <1>2, Zenon
<1> HIDE DEF vel
<1>7. acc \in Int
  <2>1. (vel - k.vel) \div dt \in Int BY <1>2, <1>6
  <2>2. 0 \in Int OBVIOUS
  <2> QED BY <2>1, <2>2, Zenon
<1> HIDE DEF acc
<1>8. projected \in Int /\ projected >= s
  <2>1. CASE rising
    <3>1. vel > 0 /\ acc > 0 /\ Horizon \in Nat BY <2>1, <1>6, <1>7, KinematicsAssumption
    <3>2. vel * Horizon \in Nat /\ acc * Horizon \in Nat BY <3>1, <1>6, <1>7
    <3>3. acc * Horizon * Horizon \in Nat BY <3>1, <3>2
    <3>4. (acc * Horizon * Horizon) \div 2 \in Nat BY <3>3
    <3>5. projected = s + vel * Horizon + (acc * Horizon * Horizon) \div 2 BY <2>1, Zenon
    <3> HIDE DEF projected
    <3> QED BY <3>2, <3>4, <3>5, <1>4
  <2>2. CASE ~rising
    <3>1. projected = s BY <2>2, Zenon
    <3> HIDE DEF projected
    <3> QED BY <3>1, <1>4
  <2> QED BY <2>1, <2>2, Zenon
<1>9. ~(vel > 0) => projected = s BY Zenon
<1>r. rising \in BOOLEAN BY Zenon
<1> HIDE DEF projected, rising
<1>10. Faulty(k, s, rising, projected) \in BOOLEAN
  <2>1. (projected >= k.hard /\ 10 * s >= 3 * k.hard) \in BOOLEAN BY Zenon
  <2>2. (s >= k.hard) \in BOOLEAN BY <1>2, <1>4
  <2> QED BY <2>1, <2>2, Zenon DEF Faulty
<1>11. hard > 0 /\ Faulty(k, s, rising, projected) => s > 0
  <2>1. 10 * s >= 3 * hard /\ hard > 0 => s > 0 BY <1>4
  <2>2. s >= hard /\ hard > 0 => s > 0 BY <1>4
  <2> QED BY <2>1, <2>2, <1>2, Zenon DEF Faulty
<1>12. o \in Trackers(cap, hard, ls)
  <2> HIDE DEF Faulty
  <2> QED BY <1>3, <1>4, <1>6, <1>8, <1>10 DEF Trackers
<1>13. /\ o.projected = projected /\ o.ewma = s /\ o.fault = Faulty(k, s, rising, projected)
       /\ o.len = pushed.len /\ o.cap = pushed.cap /\ o.head = pushed.head /\ o.buf = pushed.buf
  <2> HIDE DEF Faulty
  <2> QED BY <1>3 DEF Trackers
<1> HIDE DEF o
<1>14. ls /\ cap >= 3 /\ Falling(o) => projected = s
  <2>1. SUFFICES ASSUME ls, cap >= 3, Falling(o) PROVE ~(vel > 0) BY <1>9, Zenon
  <2>2. pushed.cap = cap /\ pushed.len = cap BY <2>1, <1>13, <1>3, Zenon DEF Falling, Trackers
  <2>3. ASSUME NEW i \in 2..pushed.len PROVE InOrder(pushed)[i] <= InOrder(pushed)[i - 1]
    <3>1. i \in 1..cap /\ i - 1 \in 1..cap /\ i \in 2..cap BY <2>2
    <3>2. InOrder(pushed) = [j \in 1..cap |-> pushed.buf[(pushed.head + j - 1) % cap]]
      BY <2>2, Zenon DEF InOrder
    <3>3. pushed.buf[(pushed.head + i - 1) % cap] <= pushed.buf[(pushed.head + (i - 1) - 1) % cap]
      BY <2>1, <2>2, <3>1, <1>13, Zenon DEF Falling
    <3> QED BY <3>1, <3>2, <3>3, Zenon
  <2>4. vel <= 0
    <3>1. pushed.len >= 3 BY <2>1, <2>2
    <3> QED BY <3>1, <2>1, <2>3, <1>5, <1>v, Zenon
  <2> QED BY <2>4, <1>6
<1> QED BY <1>1, <1>8, <1>11, <1>12, <1>13, <1>14, Zenon DEF Observed

\* Division by a positive number.
LEMMA QuotientType ==
  ASSUME NEW a \in Nat, NEW b \in Nat \ {0}
  PROVE  a \div b \in Nat
OBVIOUS

-----------------------------------------------------------------------------
\* An overload is a fraction, also for the target 1.0 of a latency ratio.
LEMMA OverloadRange ==
  ASSUME NEW rho \in Nat
  PROVE  /\ ComputeOverloadFraction(rho, RhoTarget) \in 0..One
         /\ ComputeOverloadFraction(rho, One) \in 0..One
<1> DEFINE Fraction(t) == IF rho <= t THEN 0 ELSE Lower(((rho - t) * One) \div (One - t), One)
           seventh == (7 * One) \div 10
<1>1. One \in Nat /\ One >= 10 /\ RhoTarget \in 1..(One - 1) BY PolicyAssumption
<1>2. seventh \in 1..(One - 1) BY <1>1
<1>3. ASSUME NEW t \in 1..(One - 1) PROVE Fraction(t) \in 0..One
  <2>1. CASE rho <= t BY <2>1, <1>1
  <2>2. CASE ~(rho <= t)
    <3>1. (rho - t) * One \in Nat /\ One - t \in Nat \ {0}
      <4>1. rho - t \in Nat BY <2>2, <1>1
      <4> QED BY <4>1, <1>1
    <3>2. ((rho - t) * One) \div (One - t) \in Nat BY <3>1
    <3>3. Lower(((rho - t) * One) \div (One - t), One) \in 0..One BY <3>2, <1>1 DEF Lower
    <3> QED BY <3>3, <2>2, Zenon
  <2> QED BY <2>1, <2>2, Zenon
<1>5. ~(RhoTarget <= 0 \/ RhoTarget >= One) /\ (One <= 0 \/ One >= One) BY <1>1
<1>6. ComputeOverloadFraction(rho, RhoTarget) = Fraction(RhoTarget)
      /\ ComputeOverloadFraction(rho, One) = Fraction(seventh)
  BY <1>5, Zenon DEF ComputeOverloadFraction
<1> HIDE DEF Fraction, seventh
<1> QED BY <1>1, <1>2, <1>3, <1>6, Zenon

\* A shed rate is a probability.
LEMMA ShedRange ==
  ASSUME NEW o \in 0..One
  PROVE  ShedPPM(o) \in 0..PPM
<1>1. One \in Nat \ {0} /\ PPM \in Nat BY PolicyAssumption
<1>2. Power(One) \in Nat \ {0} BY <1>1, PowerPositive, Zenon
<1>3. CASE o <= 0
  <2>1. 0 \in 0..PPM BY <1>1
  <2> QED BY <1>3, <2>1, Zenon DEF ShedPPM
<1>4. CASE ~(o <= 0)
  <2>1. o \in Nat \ {0} BY <1>4, <1>1
  <2>2. Power(o) \in Nat \ {0} BY <2>1, PowerPositive, Zenon
  <2>3. Power(o) * PPM \in Nat BY <2>2, <1>1
  <2>4. (Power(o) * PPM) \div Power(One) \in Nat BY <2>3, <1>2
  <2>5. Lower((Power(o) * PPM) \div Power(One), PPM) \in 0..PPM BY <2>4, <1>1 DEF Lower
  <2> QED BY <1>4, <2>5, Zenon DEF ShedPPM
<1> QED BY <1>3, <1>4, Zenon

\* ShedController.Adjust takes away half at the most.
LEMMA AdjustRange ==
  ASSUME NEW target \in 0..PPM, NEW dropRate \in 0..PPM
  PROVE  /\ Adjust(target, dropRate) \in 0..PPM
         /\ 2 * Adjust(target, dropRate) + 1 >= target
<1>1. PPM \in Nat \ {0} BY PolicyAssumption
<1>3. (9 * target) \div 10 \in 0..PPM /\ target \div 2 \in 0..PPM /\ 2 * (target \div 2) + 1 >= target
      /\ target \in Nat
  BY <1>1
<1>4. Higher((9 * target) \div 10, target \div 2) \in 0..PPM
      /\ 2 * Higher((9 * target) \div 10, target \div 2) + 1 >= target
  BY <1>3, <1>1 DEF Higher
<1>5. 2 * target + 1 >= target BY <1>3
<1> QED BY <1>4, <1>5, Zenon DEF Adjust

\* What ApplyOverload makes of a fused sample.
FusedOK(f, l, cause) ==
  /\ f.cause = cause /\ f.rho \in Nat /\ f.conn \in Nat
  /\ f.overload \in 0..One /\ f.shed \in 0..PPM
  /\ 2 * f.shed + 1 >= ShedPPM(f.overload)
  /\ l.fault => f.overload >= One \div 2

LEMMA FusedRange ==
  ASSUME NEW l \in Trackers(2, HardDrop, FALSE), l.projected >= l.ewma,
         NEW hard \in Nat, NEW t \in Trackers(ConnCap, hard, TRUE), t.projected >= t.ewma,
         mu \in Nat \ {0}, NEW cause, NEW dropRate \in 0..PPM
  PROVE  FusedOK(Fused(l, cause, t, dropRate), l, cause)
<1> DEFINE rho == (t.projected * One) \div mu
           ratio == (l.projected * Nano * One) \div (l.ewma * Nano + 1)
           ownOverload == ComputeOverloadFraction(rho, RhoTarget)
           overload == FuseOverload(l.fault, ratio, ownOverload)
           f == Fused(l, cause, t, dropRate)
<1>1. /\ f.cause = cause /\ f.rho = rho /\ f.conn = t.ewma /\ f.overload = overload
      /\ f.shed = Adjust(ShedPPM(overload), dropRate)
  BY Zenon DEF Fused
<1>2. One \in Nat /\ One >= 10 /\ PPM \in Nat \ {0} BY PolicyAssumption
<1>3. l.projected \in Nat /\ l.ewma \in Nat /\ t.projected \in Nat /\ t.ewma \in Nat
  <2>1. l.projected \in Int /\ l.ewma \in Nat /\ t.projected \in Int /\ t.ewma \in Nat BY Zenon DEF Trackers
  <2> QED BY <2>1
<1>4. rho \in Nat
  <2>1. t.projected * One \in Nat BY <1>2, <1>3
  <2> QED BY <2>1
<1>5. ratio \in Nat
  <2>1. Nano \in Nat BY ForecasterAssumption
  <2>2. l.projected * Nano \in Nat /\ l.ewma * Nano \in Nat BY <1>3, <2>1
  <2>3. (l.projected * Nano) * One \in Nat /\ l.ewma * Nano + 1 \in Nat \ {0} BY <2>2, <1>2
  <2> QED BY <2>3
<1> HIDE DEF rho, ratio
<1>6. ownOverload \in 0..One /\ ComputeOverloadFraction(ratio, One) \in 0..One
  BY <1>4, <1>5, OverloadRange, Zenon
<1> HIDE DEF ownOverload
<1>7. overload \in 0..One /\ (l.fault => overload >= One \div 2)
  <2>1. CASE ~l.fault BY <2>1, <1>6, Zenon DEF FuseOverload
  <2>2. CASE l.fault
    <3> DEFINE latency == ComputeOverloadFraction(ratio, One)
    <3>1. overload = Higher(Higher(ownOverload, latency), One \div 2) BY <2>2, Zenon DEF FuseOverload
    <3> HIDE DEF latency
    <3>2. latency \in 0..One BY <1>6, Zenon DEF latency
    <3>3. /\ Higher(Higher(ownOverload, latency), One \div 2) \in 0..One
          /\ Higher(Higher(ownOverload, latency), One \div 2) >= One \div 2
      BY <1>6, <3>2, <1>2 DEF Higher
    <3> QED BY <3>1, <3>3, Zenon
  <2> QED BY <2>1, <2>2, Zenon
<1> HIDE DEF overload
<1>8. ShedPPM(overload) \in 0..PPM BY <1>7, ShedRange, Zenon
<1>9. /\ Adjust(ShedPPM(overload), dropRate) \in 0..PPM
      /\ 2 * Adjust(ShedPPM(overload), dropRate) + 1 >= ShedPPM(overload)
  BY <1>8, AdjustRange, Zenon
<1> HIDE DEF f
<1> QED BY <1>1, <1>3, <1>4, <1>7, <1>8, <1>9, Zenon DEF f, FusedOK

\* What the conversion gives fits in a uint32, on either build.
LEMMA ToU32Range ==
  ASSUME NEW x \in Nat
  PROVE  ToU32(x) \in 0..(U32 - 1)
<1>1. U32 \in Nat /\ DefaultMu \in 1..(U32 - 1) BY PolicyAssumption
<1>2. U32 \in Nat \ {0} BY <1>1
<1>3. x % U32 \in 0..(U32 - 1) /\ U32 - 1 \in 0..(U32 - 1) BY <1>2
<1>4. x < U32 => x \in 0..(U32 - 1) BY <1>2
<1> QED BY <1>3, <1>4, Zenon DEF ToU32

\* What SyncPolicyToBPFMap writes for a snapshot with these ranges.
LEMMA PolicyRange ==
  ASSUME NEW s, s.rho \in Nat, s.conn \in Nat, s.overload \in 0..One, s.shed \in 0..PPM
  PROVE  LET v == PolicyValue(s)
         IN  /\ v.overload = s.overload /\ v.shed \in 0..PPM /\ v.mu \in 0..(U32 - 1)
             /\ v.shed >= s.shed
<1> DEFINE rate == IF ToU32(s.conn) = 0 THEN DefaultMu ELSE ToU32(s.conn)
<1>1. /\ One \in Nat /\ One >= 10 /\ PPM \in Nat \ {0} /\ U32 \in Nat
      /\ DefaultMu \in 1..(U32 - 1)
  BY PolicyAssumption
<1>2. rate \in 0..(U32 - 1)
  <2>1. DefaultMu \in 0..(U32 - 1) BY <1>1
  <2> QED BY <2>1, ToU32Range, Zenon
<1> HIDE DEF rate
<1>3. /\ PolicyValue(s).overload = s.overload
      /\ PolicyValue(s).shed = IF s.shed = 0 /\ s.fault THEN PPM ELSE s.shed
      /\ PolicyValue(s).mu = IF s.rho > 0 /\ s.rho < One THEN ToU32((rate * One) \div s.rho) ELSE rate
  BY Zenon DEF PolicyValue, rate
<1>4. PolicyValue(s).shed \in 0..PPM /\ PolicyValue(s).shed >= s.shed
  <2>1. PPM \in 0..PPM /\ PPM >= s.shed /\ s.shed >= s.shed BY <1>1
  <2> QED BY <1>3, <2>1, Zenon
<1>5. ASSUME s.rho > 0, s.rho < One PROVE ToU32((rate * One) \div s.rho) \in 0..(U32 - 1)
  <2>1. rate \in Nat /\ s.rho \in Nat \ {0} BY <1>1, <1>2, <1>5
  <2>2. rate * One \in Nat BY <1>1, <2>1
  <2>3. (rate * One) \div s.rho \in Nat BY <2>1, <2>2
  <2> QED BY <2>3, ToU32Range, Zenon
<1>6. PolicyValue(s).mu \in 0..(U32 - 1) BY <1>2, <1>3, <1>5, Zenon
<1> QED BY <1>3, <1>4, <1>6, Zenon

-----------------------------------------------------------------------------
\* The trackers between two ticks.
TrackersInv ==
  /\ lat \in Trackers(2, HardDrop, FALSE) /\ lat.projected >= lat.ewma
  /\ traffic \in Trackers(ConnCap, traffic.hard, TRUE) /\ traffic.hard \in Nat
  /\ traffic.projected >= traffic.ewma
  /\ ConnCap >= 3 /\ Falling(traffic) => traffic.projected = traffic.ewma

RunnerInv == prevConn \in Nat /\ gap \in 1..MaxGap /\ mu \in Mus /\ ring \in 0..1 /\ last \in BOOLEAN

\* The snapshot and the map value of a tick that left the latency tracker l.
PublishedOK(l, s, v) ==
  /\ (s.cause # "none") = l.fault /\ s.rho \in Nat
  /\ s.overload \in 0..One /\ s.shed \in 0..PPM
  /\ v.overload = s.overload /\ v.shed \in 0..PPM /\ v.mu \in 0..(U32 - 1)
  /\ 2 * v.shed + 1 >= ShedPPM(v.overload)
  /\ l.fault /\ s.overload > 0 => s.overload >= One \div 2

FcInv == TrackersInv /\ RunnerInv /\ PublishedOK(lat, snap, pmap)

\* A snapshot with these ranges gives a map value with its own.
LEMMA Publishes ==
  ASSUME NEW l, NEW s, (s.cause # "none") = l.fault, s.rho \in Nat, s.conn \in Nat, s.overload \in 0..One,
         s.shed \in 0..PPM, 2 * s.shed + 1 >= ShedPPM(s.overload),
         l.fault /\ s.overload > 0 => s.overload >= One \div 2
  PROVE  PublishedOK(l, s, PolicyValue(s))
<1> DEFINE v == PolicyValue(s)
<1>1. v.overload = s.overload /\ v.shed \in 0..PPM /\ v.mu \in 0..(U32 - 1) /\ v.shed >= s.shed
  BY PolicyRange, Zenon
<1> HIDE DEF v
<1>2. ShedPPM(s.overload) \in 0..PPM /\ PPM \in Nat BY ShedRange, PolicyAssumption, Zenon
<1>3. 2 * v.shed + 1 >= ShedPPM(s.overload) BY <1>1, <1>2
<1> QED BY <1>1, <1>3, Zenon DEF PublishedOK, v

LEMMA NoOverloadNoShed == 0 \in 0..One /\ 0 \in 0..PPM /\ 0 \in Nat /\ ShedPPM(0) = 0 /\ 2 * 0 + 1 >= ShedPPM(0)
<1>1. 0 <= 0 /\ 2 * 0 + 1 >= 0 OBVIOUS
<1>2. ShedPPM(0) = 0 BY <1>1, Zenon DEF ShedPPM
<1>3. 0 \in 0..One /\ 0 \in 0..PPM /\ 0 \in Nat BY PolicyAssumption
<1> QED BY <1>1, <1>2, <1>3, Zenon

\* A tracker before its first sample.
Fresh(k, cap, hard, ls) ==
  k \in Trackers(cap, hard, ls) /\ k.projected = 0 /\ k.ewma = 0 /\ k.fault = FALSE /\ k.hard = hard

LEMMA NewTrackerKeeps ==
  ASSUME NEW cap \in Nat \ {0}, NEW hard, NEW ls
  PROVE  Fresh(NewTracker(cap, hard, ls), cap, hard, ls)
<1>1. 0 \in 0..(cap - 1) /\ 0 \in 0..cap /\ 0 \in Nat /\ 0 \in Int OBVIOUS
<1>2. [i \in 0..(cap - 1) |-> 0] \in [0..(cap - 1) -> Nat] BY <1>1, Zenon
<1> QED BY <1>1, <1>2 DEF Fresh, NewTracker, Trackers

LEMMA FcInit ==
  Init => FcInv
<1>a. SUFFICES ASSUME Init PROVE FcInv OBVIOUS
<1>1. HardDrop \in Nat /\ ConnCap \in Nat \ {0} /\ MaxGap \in Nat \ {0} /\ Mus \subseteq Nat \ {0}
  BY ForecasterAssumption
<1>2. (mu * RhoTarget) \div One \in Nat
  <2>1. mu \in Nat \ {0} BY <1>a, <1>1, Zenon DEF Init
  <2>2. RhoTarget \in Nat /\ One \in Nat \ {0} BY PolicyAssumption
  <2>3. mu * RhoTarget \in Nat BY <2>1, <2>2
  <2> QED BY <2>2, <2>3
<1>3. lat \in Trackers(2, HardDrop, FALSE) /\ lat.projected = 0 /\ lat.ewma = 0 /\ lat.fault = FALSE
  <2>1. 2 \in Nat \ {0} OBVIOUS
  <2>2. lat = NewTracker(2, HardDrop, FALSE) BY <1>a, Zenon DEF Init
  <2>3. Fresh(lat, 2, HardDrop, FALSE) BY <2>1, <2>2, NewTrackerKeeps, Zenon
  <2> QED BY <2>3, Zenon DEF Fresh
<1>4. traffic \in Trackers(ConnCap, traffic.hard, TRUE) /\ traffic.hard \in Nat
      /\ traffic.projected = 0 /\ traffic.ewma = 0
  <2>1. traffic = NewTracker(ConnCap, (mu * RhoTarget) \div One, TRUE) BY <1>a, Zenon DEF Init
  <2>2. Fresh(traffic, ConnCap, (mu * RhoTarget) \div One, TRUE) BY <2>1, <1>1, NewTrackerKeeps, Zenon
  <2> QED BY <2>2, <1>2, Zenon DEF Fresh
<1>5. TrackersInv
  <2>1. 0 >= 0 OBVIOUS
  <2> QED BY <1>3, <1>4, <2>1, Zenon DEF TrackersInv
<1>6. RunnerInv
  <2>1. 0 \in Nat /\ 1 \in 1..MaxGap /\ 0 \in 0..1 BY <1>1
  <2> QED BY <1>a, <2>1, Zenon DEF Init, RunnerInv
<1>7. PublishedOK(lat, snap, pmap)
  <2>1. snap = Quiet /\ pmap = PolicyValue(Quiet) BY <1>a, Zenon DEF Init
  <2>2. Quiet.cause = "none" /\ Quiet.rho = 0 /\ Quiet.conn = 0 /\ Quiet.overload = 0 /\ Quiet.shed = 0
    BY Zenon DEF Quiet
  <2>3. (Quiet.cause # "none") = lat.fault BY <2>2, <1>3, Zenon
  <2>4. PublishedOK(lat, Quiet, PolicyValue(Quiet)) BY <2>2, <2>3, <1>3, NoOverloadNoShed, Publishes, Zenon
  <2> QED BY <2>1, <2>4, Zenon
<1> QED BY <1>5, <1>6, <1>7, Zenon DEF FcInv

LEMMA TickKeeps ==
  ASSUME NEW sample \in Samples, NEW conn \in Conns \cup {0}, NEW dropRate \in DropRates
  PROVE  FcInv /\ Tick(sample, conn, dropRate) => FcInv'
<1> DEFINE l == Observe(lat, sample.raw, 1)
           cause == IF ~l.fault THEN "none" ELSE IF sample.cause = "none" THEN "network" ELSE sample.cause
           sampled == last \/ conn > 0
           t == IF last THEN Observe(traffic, KernelRate, gap)
                ELSE Observe(traffic, NewConns(conn) \div gap, gap)
           s == IF sampled THEN Fused(l, cause, t, dropRate) ELSE Unsampled(l, cause)
<1>a. SUFFICES ASSUME FcInv, Tick(sample, conn, dropRate) PROVE FcInv' BY Zenon
<1>1. /\ lat' = l /\ traffic' = IF sampled THEN t ELSE traffic
      /\ prevConn' = IF ~last /\ conn > 0 THEN conn ELSE prevConn
      /\ gap' = IF sampled THEN 1 ELSE Lower(gap + 1, MaxGap)
      /\ mu' \in IF 2 * s.overload > One THEN {mu} ELSE Mus
      /\ snap' = s /\ pmap' = PolicyValue(s) /\ ring' = ring /\ last' = last
  BY <1>a, Zenon DEF Tick
<1>2. /\ HardDrop \in Nat \ {0} /\ ConnCap \in Nat \ {0} /\ MaxGap \in Nat \ {0} /\ Mus \subseteq Nat \ {0}
      /\ sample.raw \in Nat /\ conn \in Nat /\ KernelRate \in Nat /\ dropRate \in 0..PPM
  BY ForecasterAssumption
<1>3. TrackersInv /\ RunnerInv BY <1>a, Zenon DEF FcInv
<1>4. l \in Trackers(2, HardDrop, FALSE) /\ l.projected >= l.ewma /\ (l.fault => l.ewma > 0)
  <2>1. 2 \in Nat \ {0} /\ 1 \in Nat \ {0} /\ HardDrop \in Nat /\ HardDrop > 0 BY <1>2
  <2>2. lat \in Trackers(2, HardDrop, FALSE) /\ FALSE \in BOOLEAN BY <1>3, Zenon DEF TrackersInv
  <2>3. Observed(l, 2, HardDrop, FALSE) BY <1>2, <2>1, <2>2, ObserveKeeps, Zenon
  <2> HIDE DEF l
  <2> QED BY <2>1, <2>3, Zenon DEF Observed
<1>5. /\ t \in Trackers(ConnCap, traffic.hard, TRUE) /\ t.projected >= t.ewma
      /\ ConnCap >= 3 /\ Falling(t) => t.projected = t.ewma
  <2>1. gap \in Nat \ {0} /\ prevConn \in Nat BY <1>3, <1>2 DEF RunnerInv
  <2>2. NewConns(conn) \div gap \in Nat
    <3>1. NewConns(conn) \in Nat BY <2>1, <1>2 DEF NewConns, Higher
    <3> QED BY <2>1, <3>1
  <2>3. traffic \in Trackers(ConnCap, traffic.hard, TRUE) /\ traffic.hard \in Nat /\ TRUE \in BOOLEAN
    BY <1>3, Zenon DEF TrackersInv
  <2>4. Observed(Observe(traffic, KernelRate, gap), ConnCap, traffic.hard, TRUE)
    BY <2>1, <2>3, <1>2, ObserveKeeps, Zenon
  <2>5. Observed(Observe(traffic, NewConns(conn) \div gap, gap), ConnCap, traffic.hard, TRUE)
    BY <2>1, <2>2, <2>3, <1>2, ObserveKeeps, Zenon
  <2>6. Observed(t, ConnCap, traffic.hard, TRUE) BY <2>4, <2>5, Zenon
  <2> HIDE DEF t
  <2> QED BY <2>6, Zenon DEF Observed
<1>6. (cause # "none") = l.fault
  <2>1. "network" # "none" OBVIOUS
  <2>2. l.fault \in BOOLEAN BY <1>4, Zenon DEF Trackers
  <2> HIDE DEF l
  <2> QED BY <2>1, <2>2, Zenon
<1> HIDE DEF l, t, cause
<1>7. TrackersInv'
  <2>1. lat' \in Trackers(2, HardDrop, FALSE) /\ lat'.projected >= lat'.ewma BY <1>1, <1>4, Zenon
  <2>2. t.hard = traffic.hard BY <1>5, Zenon DEF Trackers
  <2>3. /\ traffic' \in Trackers(ConnCap, traffic'.hard, TRUE) /\ traffic'.hard \in Nat
        /\ traffic'.projected >= traffic'.ewma
        /\ ConnCap >= 3 /\ Falling(traffic') => traffic'.projected = traffic'.ewma
    BY <1>1, <1>3, <1>5, <2>2, Zenon DEF TrackersInv
  <2>4. Falling(traffic)' = Falling(traffic') BY Zenon DEF Falling
  <2>5. Trackers(ConnCap, traffic.hard, TRUE)' = Trackers(ConnCap, traffic'.hard, TRUE) BY Zenon DEF Trackers
  <2>6. Trackers(2, HardDrop, FALSE)' = Trackers(2, HardDrop, FALSE) BY Zenon DEF Trackers
  <2> QED BY <2>1, <2>3, <2>4, <2>5, <2>6, Zenon DEF TrackersInv
<1>8. RunnerInv'
  <2>1. prevConn' \in Nat BY <1>1, <1>2, <1>3, Zenon DEF RunnerInv
  <2>2. gap' \in 1..MaxGap
    <3>1. 1 \in 1..MaxGap BY <1>2
    <3>2. Lower(gap + 1, MaxGap) \in 1..MaxGap BY <1>2, <1>3 DEF RunnerInv, Lower
    <3> QED BY <1>1, <3>1, <3>2, Zenon
  <2>3. mu' \in Mus BY <1>1, <1>3, Zenon DEF RunnerInv
  <2> QED BY <2>1, <2>2, <2>3, <1>1, <1>3, Zenon DEF RunnerInv
<1>9. PublishedOK(l, s, PolicyValue(s))
  <2>1. CASE sampled
    <3>1. s = Fused(l, cause, t, dropRate) BY <2>1, Zenon
    <3>2. traffic.hard \in Nat /\ mu \in Nat \ {0} BY <1>2, <1>3, Zenon DEF TrackersInv, RunnerInv
    <3> HIDE DEF s
    <3>3. FusedOK(s, l, cause) BY <3>1, <3>2, <1>2, <1>4, <1>5, FusedRange, Zenon
    <3> QED BY <3>3, <1>6, Publishes, Zenon DEF FusedOK
  <2>2. CASE ~sampled
    <3>1. s = Unsampled(l, cause) BY <2>2, Zenon
    <3> HIDE DEF s
    <3>2. s.cause = cause /\ s.rho = 0 /\ s.conn = 0 /\ s.overload = 0 /\ s.shed = 0
      BY <3>1 DEF Unsampled, Quiet
    <3>3. ~(0 > 0) OBVIOUS
    <3>4. l.fault /\ s.overload > 0 => s.overload >= One \div 2 BY <3>2, <3>3, Zenon
    <3> QED BY <3>2, <3>4, <1>6, NoOverloadNoShed, Publishes, Zenon
  <2> QED BY <2>1, <2>2, Zenon
<1> HIDE DEF s
<1>10. PublishedOK(lat, snap, pmap)'
  <2>1. PublishedOK(lat', snap', pmap') BY <1>1, <1>9, Zenon
  <2> QED BY <2>1, Zenon DEF PublishedOK
<1> QED BY <1>7, <1>8, <1>10, Zenon DEF FcInv

\* Events come and go without a change to what a tick has published.
LEMMA EventKeeps ==
  FcInv /\ (EmitLambda \/ ReadLambda) => FcInv'
<1>a. SUFFICES ASSUME FcInv, EmitLambda \/ ReadLambda PROVE FcInv' BY Zenon
<1>1. UNCHANGED <<lat, traffic, prevConn, gap, mu, snap, pmap>>
  BY <1>a, Zenon DEF EmitLambda, ReadLambda
<1>2. RunnerInv /\ TrackersInv /\ PublishedOK(lat, snap, pmap) BY <1>a, Zenon DEF FcInv
<1>3. ring' \in 0..1 /\ last' \in BOOLEAN
  <2>1. CASE EmitLambda
    <3>1. 1 \in 0..1 OBVIOUS
    <3> QED BY <2>1, <1>2, <3>1, Zenon DEF EmitLambda, RunnerInv
  <2>2. CASE ReadLambda
    <3>1. ring' \in 0..1 BY <2>2, <1>2 DEF ReadLambda, RunnerInv
    <3>2. last' \in BOOLEAN BY <2>2, Zenon DEF ReadLambda
    <3> QED BY <3>1, <3>2, Zenon
  <2> QED BY <2>1, <2>2, <1>a, Zenon
<1>4. RunnerInv' BY <1>1, <1>2, <1>3, Zenon DEF RunnerInv
<1>5. TrackersInv' BY <1>1, <1>2, Zenon DEF TrackersInv, Falling, Trackers
<1>6. PublishedOK(lat, snap, pmap)' BY <1>1, <1>2, Zenon DEF PublishedOK
<1> QED BY <1>4, <1>5, <1>6, Zenon DEF FcInv

LEMMA FcInvariant ==
  Spec => []FcInv
<1>1. FcInv /\ [Next]_vars => FcInv'
  <2>1. SUFFICES ASSUME FcInv, [Next]_vars PROVE FcInv' BY Zenon
  <2>2. CASE Ticks BY <2>1, <2>2, TickKeeps, Zenon DEF Ticks
  <2>3. CASE EmitLambda \/ ReadLambda BY <2>1, <2>3, EventKeeps, Zenon
  <2>4. CASE UNCHANGED vars
    BY <2>1, <2>4, Zenon DEF vars, FcInv, TrackersInv, RunnerInv, PublishedOK, Falling, Trackers
  <2> QED BY <2>1, <2>2, <2>3, <2>4, Zenon DEF Next
<1> QED BY FcInit, <1>1, PTL DEF Spec

\* Whatever latency, load, service rate and drop counters a node meets, the trackers, the
\* snapshot and the map value stay within their ranges, and the policy names a cause exactly
\* when the latency is at fault (applySample, ApplyOverload, SyncPolicyToBPFMap).
THEOREM ForecasterTypes == Spec => []FcTypeOK
<1>1. FcInv => FcTypeOK
  <2>1. SUFFICES ASSUME FcInv PROVE FcTypeOK BY Zenon
  <2>2. /\ lat.head \in 0..(2 - 1) /\ lat.cap = 2 /\ lat.len \in 0..2 /\ lat.ewma \in Nat
        /\ traffic.head \in 0..(ConnCap - 1) /\ traffic.cap = ConnCap /\ traffic.len \in 0..ConnCap
        /\ traffic.ewma \in Nat
    BY <2>1, Zenon DEF FcInv, TrackersInv, Trackers
  <2>3. ASSUME NEW k \in {lat, traffic}
        PROVE  k.head \in 0..(k.cap - 1) /\ k.len \in 0..k.cap /\ k.ewma \in Nat /\ k.projected >= k.ewma
    BY <2>1, <2>2, <2>3, Zenon DEF FcInv, TrackersInv
  <2> QED BY <2>1, <2>3, Zenon DEF FcTypeOK, FcInv, RunnerInv, PublishedOK
<1> QED BY FcInvariant, <1>1, PTL

\* A latency fault that comes with a traffic sample always asks for an overload of a half
\* at least, whatever the targets and the ratio of projection and average are.
THEOREM LatencySheds == Spec => []LatencyFaultSheds
<1>1. FcInv => LatencyFaultSheds BY Zenon DEF FcInv, PublishedOK, LatencyFaultSheds
<1> QED BY FcInvariant, <1>1, PTL

\* ShedController.Adjust never takes away more than half of what the overload calls for,
\* for every gamma.
THEOREM HalfIsShed == Spec => []ShedsHalfAtLeast
<1>1. FcInv => ShedsHalfAtLeast BY Zenon DEF FcInv, PublishedOK, ShedsHalfAtLeast
<1> QED BY FcInvariant, <1>1, PTL

\* A window of three samples or more that does not rise has a least-squares slope that is
\* not positive, so the load is not projected upwards, wherever the ring's head is.  With
\* two samples it can be false: Observe then takes the slope of the average.
THEOREM FallingStays == ConnCap >= 3 => (Spec => []FallingNotProjected)
<1>1. SUFFICES ASSUME ConnCap >= 3 PROVE Spec => []FallingNotProjected OBVIOUS
<1>2. FcInv => FallingNotProjected
  <2>1. SUFFICES ASSUME FcInv PROVE FallingNotProjected BY Zenon
  <2> DEFINE w == [i \in 1..ConnCap |-> traffic.buf[(traffic.head + i - 1) % ConnCap]]
  <2>2. traffic.cap = ConnCap BY <2>1, Zenon DEF FcInv, TrackersInv, Trackers
  <2>3. SUFFICES ASSUME traffic.len = ConnCap, \A i \in 2..ConnCap : w[i] <= w[i - 1]
                 PROVE  traffic.projected = traffic.ewma
    BY Zenon DEF FallingNotProjected
  <2>4. ASSUME NEW i \in 2..ConnCap
        PROVE  traffic.buf[(traffic.head + i - 1) % ConnCap]
                 <= traffic.buf[(traffic.head + (i - 1) - 1) % ConnCap]
    <3>1. i \in 1..ConnCap /\ i - 1 \in 1..ConnCap BY ForecasterAssumption
    <3>2. w[i] = traffic.buf[(traffic.head + i - 1) % ConnCap]
          /\ w[i - 1] = traffic.buf[(traffic.head + (i - 1) - 1) % ConnCap]
      BY <3>1, Zenon
    <3>3. w[i] <= w[i - 1] BY <2>3, Zenon
    <3> HIDE DEF w
    <3> QED BY <3>2, <3>3, Zenon
  <2>5. Falling(traffic) BY <2>2, <2>3, <2>4, Zenon DEF Falling
  <2> QED BY <2>1, <2>5, <1>1, Zenon DEF FcInv, TrackersInv
<1> QED BY FcInvariant, <1>2, PTL
=============================================================================
