-------------------------- MODULE SocketPathProofs --------------------------
(***************************************************************************)
(* The programs that watch sockets, connects and flows: the times they     *)
(* report are the socket's or the connect's own, what they count is        *)
(* counted once, and tuples are read from inside the packet, for any sets  *)
(* of sockets, threads, namespaces, CPUs and frames.                       *)
(*                                                                         *)
(* A program's invariants are kept by its own steps, and by those of the   *)
(* others as they move nothing of it but the clock.                        *)
(***************************************************************************)
EXTENDS SocketLatency, ConnectTrace, PacketTrace, FiniteSetTheorems, TLAPS

(* Sums over finite sets *)

\* The hypotheses of the lemmas below, by name.
Part(s, S)       == s \subseteq S
Parts(T, S)      == T \subseteq SUBSET S
Smallest(s, T)   == \A u \in T : ~(u \subseteq s /\ u # s)
Same(f, h, s)    == \A x \in s : f[x] = h[x]
Numbers(f, s)    == \A x \in s : f[x] \in Nat

\* Among subsets of a finite set there is one that contains no other.
LEMMA LeastSubset ==
  ASSUME NEW S, IsFiniteSet(S), NEW T, Parts(T, S), T # {}
  PROVE  \E s \in T : Smallest(s, T)
<1>1. T \in SUBSET FiniteSubsetsOf(S)
  BY FS_Subset, Zenon DEF FiniteSubsetsOf, Parts
<1>2. PICK s \in T : \A u \in T : ~(<<u, s>> \in StrictSubsetOrdering(S))
  BY <1>1, FS_StrictSubsetOrderingWellFounded, WFMin, Zenon
<1>3. ASSUME NEW u \in T, u \subseteq s, u # s PROVE FALSE
  <2>1. <<u, s>> \in (SUBSET S) \X (SUBSET S) /\ <<u, s>>[1] = u /\ <<u, s>>[2] = s  BY <1>3 DEF Parts
  <2>2. QED  BY <1>2, <1>3, <2>1, Zenon DEF StrictSubsetOrdering
<1>4. QED  BY <1>3, Zenon DEF Smallest

\* What MapThenSumSet computes: g[s] is the sum of f over s, taken element by element.
Pick(s) == CHOOSE x \in s : TRUE
Adds(f, S, g) == g = [s \in SUBSET S |-> IF s = {} THEN 0 ELSE f[Pick(s)] + g[s \ {Pick(s)}]]
IsSum(f, S, v) == \E g : Adds(f, S, g) /\ v = g[S]

\* The conclusions of the lemmas, by name.
AddsAt(f, g, s)     == g[s] = IF s = {} THEN 0 ELSE f[Pick(s)] + g[s \ {Pick(s)}]
SameAt(g, k, s)     == g[s] = k[s]
OneApart(f, g, s, c) == g[s] = f[c] + g[s \ {c}]
Splits(f, s, v, c)  == \E w \in Nat : IsSum(f, s \ {c}, w) /\ v = f[c] + w

LEMMA PickOne ==
  ASSUME NEW s, s # {}
  PROVE  Pick(s) \in s /\ Part(s \ {Pick(s)}, s) /\ s \ {Pick(s)} # s
<1>1. Pick(s) \in s  BY Zenon DEF Pick
<1>2. QED  BY <1>1, Zenon DEF Part

LEMMA AddsOne ==
  ASSUME NEW f, NEW S, NEW g, Adds(f, S, g), NEW s, Part(s, S)
  PROVE  AddsAt(f, g, s)
<1>1. g = [u \in SUBSET S |-> IF u = {} THEN 0 ELSE f[Pick(u)] + g[u \ {Pick(u)}]]  BY Zenon DEF Adds
<1>2. s \in SUBSET S  BY Zenon DEF Part
<1>3. QED  BY <1>1, <1>2, Zenon DEF AddsAt

\* Two functions that agree on a set have the same sum over it.
LEMMA SumsAgree ==
  ASSUME NEW f, NEW S, NEW g, Adds(f, S, g), NEW h, NEW R, NEW k, Adds(h, R, k),
         NEW s, Part(s, S), Part(s, R), IsFiniteSet(s), Same(f, h, s)
  PROVE  SameAt(g, k, s)
<1> DEFINE T == {u \in SUBSET s : g[u] # k[u]}
<1>1. SUFFICES ASSUME T # {} PROVE FALSE  BY Zenon DEF SameAt
<1>2. PICK u \in T : Smallest(u, T)
  <2>1. Parts(T, s)  BY Zenon DEF Parts
  <2> HIDE DEF T
  <2>2. QED  BY <1>1, <2>1, LeastSubset, Zenon
<1>3. Part(u, S) /\ Part(u, R) /\ u \in SUBSET s /\ g[u] # k[u]  BY <1>2, Zenon DEF Part
<1>4. AddsAt(f, g, u) /\ AddsAt(h, k, u)  BY <1>3, AddsOne, Zenon
<1>5. u # {}  BY <1>3, <1>4, Zenon DEF AddsAt
<1>6. Pick(u) \in u /\ Part(u \ {Pick(u)}, u) /\ u \ {Pick(u)} # u  BY <1>5, PickOne, Zenon
<1>7. g[u \ {Pick(u)}] = k[u \ {Pick(u)}]
  <2>1. u \ {Pick(u)} \in SUBSET s /\ u \ {Pick(u)} \subseteq u  BY <1>3, <1>6, Zenon DEF Part
  <2>2. QED  BY <1>2, <1>6, <2>1, Zenon DEF Smallest
<1>8. f[Pick(u)] = h[Pick(u)]  BY <1>3, <1>6, Zenon DEF Same
<1>9. QED  BY <1>3, <1>4, <1>5, <1>7, <1>8, Zenon DEF AddsAt

\* A function has a sum over a finite set.
LEMMA SumExists ==
  ASSUME NEW S, IsFiniteSet(S), NEW f
  PROVE  \E g : Adds(f, S, g)
<1> DEFINE T == {u \in SUBSET S : ~\E g : Adds(f, u, g)}
           G(u) == CHOOSE g : Adds(f, u, g)
<1>1. SUFFICES ASSUME T # {} PROVE FALSE  BY Zenon
<1>2. PICK s \in T : Smallest(s, T)
  <2>1. Parts(T, S)  BY Zenon DEF Parts
  <2> HIDE DEF T
  <2>2. QED  BY <1>1, <2>1, LeastSubset, Zenon
<1>3. s \in SUBSET S /\ ~\E g : Adds(f, s, g)  BY <1>2, Zenon
<1>4. ASSUME NEW w, w \subseteq s, w # s
      PROVE  Adds(f, w, G(w)) /\ IsFiniteSet(w)
  <2>1. w \in SUBSET S /\ w \notin T  BY <1>2, <1>3, <1>4, Zenon DEF Smallest
  <2>2. \E g : Adds(f, w, g)  BY <2>1, Zenon
  <2>3. QED  BY <2>1, <2>2, FS_Subset, Zenon
<1> DEFINE H == [u \in SUBSET s |-> IF u = {} THEN 0 ELSE f[Pick(u)] + G(u \ {Pick(u)})[u \ {Pick(u)}]]
<1> HIDE DEF G
<1>5. ASSUME NEW u, u \subseteq s, u # s
      PROVE  H[u] = G(u)[u]
  <2>0. Part(u, u) /\ u \in SUBSET s  BY <1>5, Zenon DEF Part
  <2>1. Adds(f, u, G(u))  BY <1>4, <1>5, Zenon
  <2>a. AddsAt(f, G(u), u)  BY <2>0, <2>1, AddsOne, Zenon
  <2>b. H[u] = IF u = {} THEN 0 ELSE f[Pick(u)] + G(u \ {Pick(u)})[u \ {Pick(u)}]  BY <2>0, Zenon
  <2>2. CASE u = {}  BY <2>a, <2>b, <2>2, Zenon DEF AddsAt
  <2>3. CASE u # {}
    <3> DEFINE w == u \ {Pick(u)}
    <3>1. Part(w, u) /\ Part(w, w) /\ w \subseteq s /\ w # s /\ Same(f, f, w)
      BY <1>5, <2>3, PickOne, Zenon DEF Part, Same
    <3> HIDE DEF H
    <3>2. Adds(f, w, G(w)) /\ IsFiniteSet(w)  BY <1>4, <3>1, Zenon
    <3>3. SameAt(G(u), G(w), w)
      <4> HIDE DEF w
      <4>1. QED  BY <2>1, <3>1, <3>2, SumsAgree, Zenon
    <3>4. QED  BY <2>a, <2>b, <2>3, <3>3, Zenon DEF AddsAt, SameAt
  <2>4. QED  BY <2>2, <2>3, Zenon
<1>6. ASSUME NEW u \in SUBSET s
      PROVE  H[u] = IF u = {} THEN 0 ELSE f[Pick(u)] + H[u \ {Pick(u)}]
  <2>1. CASE u = {}  BY <2>1, Zenon
  <2>2. CASE u # {}
    <3> DEFINE w == u \ {Pick(u)}
    <3>1. w \subseteq s /\ w # s  BY <2>2, PickOne, Zenon DEF Part
    <3>2. H[u] = f[Pick(u)] + G(w)[w]  BY <2>2, Zenon
    <3> HIDE DEF H, w
    <3>3. H[w] = G(w)[w]  BY <1>5, <3>1, Zenon
    <3>4. QED  BY <2>2, <3>2, <3>3, Zenon DEF w
  <2>3. QED  BY <2>1, <2>2, Zenon
<1>7. H = [u \in SUBSET s |-> H[u]]  BY Zenon
<1>8. Adds(f, s, H)
  <2> HIDE DEF H
  <2>1. [u \in SUBSET s |-> H[u]] = [u \in SUBSET s |-> IF u = {} THEN 0 ELSE f[Pick(u)] + H[u \ {Pick(u)}]]
    BY <1>6, Zenon
  <2>2. QED  BY <1>7, <2>1, Zenon DEF Adds
<1>9. QED  BY <1>3, <1>8, Zenon

\* It is a number.
LEMMA SumIsNumber ==
  ASSUME NEW S, IsFiniteSet(S), NEW f, NEW g, Adds(f, S, g), Numbers(f, S), NEW s, Part(s, S)
  PROVE  g[s] \in Nat
<1> DEFINE T == {u \in SUBSET S : g[u] \notin Nat}
<1>1. SUFFICES ASSUME T # {} PROVE FALSE  BY Zenon DEF Part
<1>2. PICK u \in T : Smallest(u, T)
  <2>1. Parts(T, S)  BY Zenon DEF Parts
  <2> HIDE DEF T
  <2>2. QED  BY <1>1, <2>1, LeastSubset, Zenon
<1>3. u \in SUBSET S /\ Part(u, S) /\ g[u] \notin Nat  BY <1>2, Zenon DEF Part
<1>4. AddsAt(f, g, u)  BY <1>3, AddsOne, Zenon
<1>5. u # {}  BY <1>3, <1>4 DEF AddsAt
<1>6. Pick(u) \in u /\ Part(u \ {Pick(u)}, u) /\ u \ {Pick(u)} # u  BY <1>5, PickOne, Zenon
<1>7. g[u \ {Pick(u)}] \in Nat
  <2>1. u \ {Pick(u)} \in SUBSET S /\ u \ {Pick(u)} \subseteq u  BY <1>3, <1>6, Zenon DEF Part
  <2>2. QED  BY <1>2, <1>6, <2>1, Zenon DEF Smallest
<1>8. f[Pick(u)] \in Nat  BY <1>3, <1>6, Zenon DEF Numbers
<1>9. ASSUME NEW a \in Nat, NEW b \in Nat PROVE a + b \in Nat  OBVIOUS
<1>10. QED  BY <1>3, <1>4, <1>5, <1>7, <1>8, <1>9, Zenon DEF AddsAt

\* In whatever order the elements are taken, one of them contributes its own value.
LEMMA SumWithOne ==
  ASSUME NEW S, IsFiniteSet(S), NEW f, NEW g, Adds(f, S, g), Numbers(f, S), NEW c \in S
  PROVE  OneApart(f, g, S, c)
<1> DEFINE T == {u \in SUBSET S : \E x \in u : g[u] # f[x] + g[u \ {x}]}
<1>1. SUFFICES ASSUME T # {} PROVE FALSE
  <2>1. S \in SUBSET S  BY Zenon
  <2>2. QED  BY <2>1, Zenon DEF OneApart
<1>2. PICK u \in T : Smallest(u, T)
  <2>1. Parts(T, S)  BY Zenon DEF Parts
  <2> HIDE DEF T
  <2>2. QED  BY <1>1, <2>1, LeastSubset, Zenon
<1>3. PICK x \in u : g[u] # f[x] + g[u \ {x}]  BY <1>2, Zenon
<1> DEFINE y == Pick(u)
<1>4. u \in SUBSET S /\ Part(u, S) /\ u # {} /\ y \in u  BY <1>2, <1>3, PickOne, Zenon DEF Part
<1>5. g[u] = f[y] + g[u \ {y}]
  <2>1. AddsAt(f, g, u)  BY <1>4, AddsOne, Zenon
  <2>2. QED  BY <1>4, <2>1, Zenon DEF AddsAt
<1>6. x # y  BY <1>3, <1>5, Zenon
<1> HIDE DEF y
<1>7. g[u \ {y}] = f[x] + g[(u \ {y}) \ {x}]
  <2>1. u \ {y} \in SUBSET S /\ u \ {y} \subseteq u /\ u \ {y} # u /\ x \in u \ {y}  BY <1>3, <1>4, <1>6, Zenon
  <2>2. u \ {y} \notin T  BY <1>2, <2>1, Zenon DEF Smallest
  <2>3. QED  BY <2>1, <2>2, Zenon
<1>8. g[u \ {x}] = f[y] + g[(u \ {x}) \ {y}]
  <2>1. u \ {x} \in SUBSET S /\ u \ {x} \subseteq u /\ u \ {x} # u /\ y \in u \ {x}  BY <1>3, <1>4, <1>6, Zenon
  <2>2. u \ {x} \notin T  BY <1>2, <2>1, Zenon DEF Smallest
  <2>3. QED  BY <2>1, <2>2, Zenon
<1>9. (u \ {x}) \ {y} = (u \ {y}) \ {x} /\ Part((u \ {y}) \ {x}, S)  BY <1>4, Zenon DEF Part
<1>10. f[x] \in Nat /\ f[y] \in Nat  BY <1>3, <1>4, Zenon DEF Numbers
<1>11. g[(u \ {y}) \ {x}] \in Nat  BY <1>9, SumIsNumber, Zenon
<1>12. ASSUME NEW a \in Nat, NEW b \in Nat, NEW v \in Nat PROVE a + (b + v) = b + (a + v)  OBVIOUS
<1>13. f[y] + (f[x] + g[(u \ {y}) \ {x}]) = f[x] + (f[y] + g[(u \ {y}) \ {x}])  BY <1>10, <1>11, <1>12, Zenon
<1>14. QED  BY <1>3, <1>5, <1>7, <1>8, <1>9, <1>13, Zenon

\* A sum is unique.
LEMMA SumUnique ==
  ASSUME NEW S, IsFiniteSet(S), NEW f, NEW v, IsSum(f, S, v), NEW w, IsSum(f, S, w)
  PROVE  v = w
<1>1. PICK g : Adds(f, S, g) /\ v = g[S]  BY Zenon DEF IsSum
<1>2. PICK k : Adds(f, S, k) /\ w = k[S]  BY Zenon DEF IsSum
<1>3. Part(S, S) /\ Same(f, f, S)  BY Zenon DEF Part, Same
<1>4. SameAt(g, k, S)  BY <1>1, <1>2, <1>3, SumsAgree, Zenon
<1>5. QED  BY <1>1, <1>2, <1>4, Zenon DEF SameAt

\* The sum of no elements.
LEMMA SumOfNone ==
  ASSUME NEW f
  PROVE  IsSum(f, {}, 0)
<1>1. IsFiniteSet({}) /\ Part({}, {})  BY FS_EmptySet, Zenon DEF Part
<1>2. PICK g : Adds(f, {}, g)  BY <1>1, SumExists, Zenon
<1>3. AddsAt(f, g, {})  BY <1>1, <1>2, AddsOne, Zenon
<1>4. QED  BY <1>2, <1>3, Zenon DEF IsSum, AddsAt

\* The sum of zeroes.
LEMMA SumOfZeroes ==
  ASSUME NEW S, IsFiniteSet(S), NEW f, \A x \in S : f[x] = 0
  PROVE  IsSum(f, S, 0)
<1>1. PICK g : Adds(f, S, g)  BY SumExists, Zenon
<1> DEFINE T == {u \in SUBSET S : g[u] # 0}
<1>2. SUFFICES ASSUME T # {} PROVE FALSE
  <2>1. S \in SUBSET S  BY Zenon
  <2>2. QED  BY <1>1, <2>1, Zenon DEF IsSum
<1>3. PICK u \in T : Smallest(u, T)
  <2>1. Parts(T, S)  BY Zenon DEF Parts
  <2> HIDE DEF T
  <2>2. QED  BY <1>2, <2>1, LeastSubset, Zenon
<1>4. u \in SUBSET S /\ Part(u, S) /\ g[u] # 0  BY <1>3, Zenon DEF Part
<1>5. AddsAt(f, g, u)  BY <1>1, <1>4, AddsOne, Zenon
<1>6. u # {}  BY <1>4, <1>5, Zenon DEF AddsAt
<1>7. Pick(u) \in u /\ Part(u \ {Pick(u)}, u) /\ u \ {Pick(u)} # u  BY <1>6, PickOne, Zenon
<1>8. g[u \ {Pick(u)}] = 0
  <2>1. u \ {Pick(u)} \in SUBSET S /\ u \ {Pick(u)} \subseteq u  BY <1>4, <1>7, Zenon DEF Part
  <2>2. QED  BY <1>3, <1>7, <2>1, Zenon DEF Smallest
<1>9. f[Pick(u)] = 0  BY <1>4, <1>7, Zenon
<1>10. 0 + 0 = 0  OBVIOUS
<1>11. QED  BY <1>4, <1>5, <1>6, <1>8, <1>9, <1>10, Zenon DEF AddsAt

\* An element that is not in S adds its value to the sum over S; f and h need only agree on S.
LEMMA SumGrows ==
  ASSUME NEW S, IsFiniteSet(S), NEW f, NEW v, IsSum(f, S, v), NEW c, c \notin S,
         NEW h, Same(f, h, S), Numbers(h, S \cup {c})
  PROVE  IsSum(h, S \cup {c}, h[c] + v)
<1> DEFINE R == S \cup {c}
<1>1. PICK g : Adds(f, S, g) /\ v = g[S]  BY Zenon DEF IsSum
<1>2. IsFiniteSet(R)  BY FS_AddElement, Zenon
<1>3. c \in R /\ R \ {c} = S /\ Part(S, R) /\ Part(S, S)  BY Zenon DEF Part
<1> HIDE DEF R
<1>4. PICK k : Adds(h, R, k)  BY <1>2, SumExists, Zenon
<1>5. Numbers(h, R)  BY Zenon DEF R
<1>6. OneApart(h, k, R, c)  BY <1>2, <1>3, <1>4, <1>5, SumWithOne, Zenon
<1>7. SameAt(g, k, S)  BY <1>1, <1>3, <1>4, SumsAgree, Zenon
<1>8. h[c] + v = k[R]  BY <1>1, <1>3, <1>6, <1>7, Zenon DEF OneApart, SameAt
<1>9. IsSum(h, R, h[c] + v)  BY <1>4, <1>8, Zenon DEF IsSum
<1>10. QED  BY <1>9, Zenon DEF R

\* A sum taken apart.
LEMMA SumWithout ==
  ASSUME NEW S, IsFiniteSet(S), NEW f, Numbers(f, S), NEW v, IsSum(f, S, v), NEW c \in S
  PROVE  Splits(f, S, v, c)
<1> DEFINE R == S \ {c}
<1>1. PICK g : Adds(f, S, g) /\ v = g[S]  BY Zenon DEF IsSum
<1>2. OneApart(f, g, S, c)  BY <1>1, SumWithOne, Zenon
<1>3. IsFiniteSet(R)  BY FS_RemoveElement, Zenon
<1>4. Part(R, S) /\ Part(R, R) /\ Same(f, f, R)  BY Zenon DEF Part, Same
<1> HIDE DEF R
<1>5. PICK k : Adds(f, R, k)  BY <1>3, SumExists, Zenon
<1>6. SameAt(g, k, R)  BY <1>1, <1>3, <1>4, <1>5, SumsAgree, Zenon
<1>7. g[R] \in Nat  BY <1>1, <1>4, SumIsNumber, Zenon
<1>8. IsSum(f, R, g[R])  BY <1>5, <1>6, Zenon DEF IsSum, SameAt
<1>9. QED  BY <1>1, <1>2, <1>7, <1>8, Zenon DEF R, OneApart, Splits

\* Adding d to one value adds d to the sum.
LEMMA SumBumps ==
  ASSUME NEW S, IsFiniteSet(S), NEW f, Numbers(f, S), NEW v, IsSum(f, S, v), NEW c \in S, NEW d \in Nat,
         NEW h, Same(f, h, S \ {c}), h[c] = f[c] + d
  PROVE  IsSum(h, S, v + d)
<1> DEFINE R == S \ {c}
<1>1. PICK w \in Nat : IsSum(f, R, w) /\ v = f[c] + w
  <2>1. Splits(f, S, v, c)  BY SumWithout, Zenon
  <2>2. QED  BY <2>1, Zenon DEF Splits
<1>2. IsFiniteSet(R)  BY FS_RemoveElement, Zenon
<1>3. c \notin R /\ R \cup {c} = S  BY Zenon
<1>4. f[c] \in Nat  BY Zenon DEF Numbers
<1>5. h[c] \in Nat /\ h[c] + w = v + d  BY <1>1, <1>4
<1>6. Numbers(h, R \cup {c})
  <2>1. ASSUME NEW x \in R PROVE h[x] \in Nat
    <3>1. x \in S /\ h[x] = f[x]  BY Zenon DEF Same
    <3>2. QED  BY <3>1, Zenon DEF Numbers
  <2>2. QED  BY <1>5, <2>1, Zenon DEF Numbers
<1>7. Same(f, h, R)  BY Zenon
<1> HIDE DEF R
<1>8. IsSum(h, R \cup {c}, h[c] + w)  BY <1>1, <1>2, <1>3, <1>6, <1>7, SumGrows, Zenon
<1>9. QED  BY <1>3, <1>5, <1>8, Zenon

\* Functions that agree on S have the same sums over it.
LEMMA SumSame ==
  ASSUME NEW S, IsFiniteSet(S), NEW f, NEW v, IsSum(f, S, v), NEW h, Same(f, h, S)
  PROVE  IsSum(h, S, v)
<1>1. PICK g : Adds(f, S, g) /\ v = g[S]  BY Zenon DEF IsSum
<1>2. PICK k : Adds(h, S, k)  BY SumExists, Zenon
<1>3. Part(S, S)  BY Zenon DEF Part
<1>4. SameAt(g, k, S)  BY <1>1, <1>2, <1>3, SumsAgree, Zenon
<1>5. QED  BY <1>1, <1>2, <1>4, Zenon DEF IsSum, SameAt

\* MapThenSumSet computes it.
SumOver(f, S) == MapThenSumSet(LAMBDA k : f[k], S)

LEMMA SumOfFunction ==
  ASSUME NEW S, IsFiniteSet(S), NEW f
  PROVE  IsSum(f, S, SumOver(f, S))
<1>1. \E g : Adds(f, S, g)  BY SumExists, Zenon
<1> DEFINE it == CHOOSE g : Adds(f, S, g)
<1>2. Adds(f, S, it)  BY <1>1, Zenon
<1>3. SumOver(f, S) = it[S]  BY Zenon DEF SumOver, MapThenSumSet, MapThenFoldSet, Adds, Pick
<1>4. QED  BY <1>2, <1>3, Zenon DEF IsSum

-----------------------------------------------------------------------------
(* SocketLatency *)

Sock == [gen : Nat, waiting : [Dirs -> Nat]]
SockEntry == [last : [Dirs -> Nat], gen : Nat]
SlShapes == /\ now \in Nat /\ slGen \in Nat /\ slSock \in [DOMAIN slSock -> Sock]
            /\ insp_sklat_entry \in [DOMAIN insp_sklat_entry -> SockEntry]
            /\ \A s \in DOMAIN slSock : \A d \in Dirs : slSock[s].waiting[d] <= now

\* The entry at the address of an open socket was made for it, and holds no older stamp
\* than the data that waits in it.
EntryOfSocket == \A s \in DOMAIN slSock : s \in DOMAIN insp_sklat_entry =>
  /\ insp_sklat_entry[s].gen = slSock[s].gen
  /\ \A d \in Dirs : slSock[s].waiting[d] # 0 => insp_sklat_entry[s].last[d] >= slSock[s].waiting[d]

SlInv == SlShapes /\ EntryOfSocket /\ SocketSpanOfOneLife /\ WaitingNeverOverstated

\* A new socket has a new entry, or none, whatever the LRU map evicts.
LEMMA SockCreateKeeps ==
  ASSUME SlInv, NEW s \in Socks, sock_create(s), UNCHANGED now
  PROVE  SlInv'
<1>. DEFINE m == insp_sklat_entry
            zero == [d \in Dirs |-> 0]
            sock == [gen |-> slGen + 1, waiting |-> zero]
            e == [last |-> zero, gen |-> slGen + 1]
<1>1. /\ now \in Nat /\ slGen \in Nat /\ slSock \in [DOMAIN slSock -> Sock] /\ m \in [DOMAIN m -> SockEntry]
      /\ slGen' = slGen + 1 /\ slEvent' = slEvent
  BY Zenon DEF SlInv, SlShapes, sock_create
<1>2. zero \in [Dirs -> Nat] /\ \A d \in Dirs : zero[d] = 0  BY Zenon
<1>3. sock \in Sock /\ sock.gen = slGen + 1 /\ sock.waiting = zero  BY <1>1, <1>2 DEF Sock
<1>4. e \in SockEntry /\ e.gen = slGen + 1 /\ e.last = zero  BY <1>1, <1>2 DEF SockEntry
<1>5. slSock' = Put(slSock, s, sock) /\ m' \in LruUpdates(m, s, e, SlMaxEntries)  BY Zenon DEF sock_create
<1>. HIDE DEF zero, sock, e
<1>6. /\ slSock' \in [DOMAIN slSock' -> Sock] /\ slSock'[s] = sock
      /\ \A u \in DOMAIN slSock' : u # s => u \in DOMAIN slSock /\ slSock'[u] = slSock[u]
  BY <1>1, <1>3, <1>5, Zenon DEF Put
<1>7. /\ m' \in [DOMAIN m' -> SockEntry] /\ (s \in DOMAIN m' => m'[s] = e)
      /\ \A u \in DOMAIN m' : u # s => u \in DOMAIN m /\ m'[u] = m[u]
  <2>1. \/ m' = Put(m, s, e)
        \/ s \notin DOMAIN m /\ \E old \in DOMAIN m : \/ m' = HashDelete(m, old)
                                                   \/ m' = Put(HashDelete(m, old), s, e)
    BY <1>5, Zenon DEF LruUpdates, HashUpdate
  <2>2. CASE m' = Put(m, s, e)  BY <1>1, <1>4, <2>2, Zenon DEF Put
  <2>3. ASSUME NEW old \in DOMAIN m, s \notin DOMAIN m,
               m' = HashDelete(m, old) \/ m' = Put(HashDelete(m, old), s, e)
        PROVE  /\ m' \in [DOMAIN m' -> SockEntry] /\ (s \in DOMAIN m' => m'[s] = e)
               /\ \A u \in DOMAIN m' : u # s => u \in DOMAIN m /\ m'[u] = m[u]
    <3>. DEFINE n == HashDelete(m, old)
    <3>1. n \in [DOMAIN n -> SockEntry] /\ s \notin DOMAIN n /\ \A u \in DOMAIN n : u \in DOMAIN m /\ n[u] = m[u]
      BY <1>1, <2>3, Zenon DEF HashDelete
    <3>. HIDE DEF n
    <3>2. CASE m' = n  BY <3>1, <3>2, Zenon
    <3>3. CASE m' = Put(n, s, e)  BY <1>4, <3>1, <3>3, Zenon DEF Put
    <3>4. QED  BY <2>3, <3>2, <3>3, Zenon DEF n
  <2>4. QED  BY <2>1, <2>2, <2>3, Zenon
<1>8. SlShapes'
  <2>1. \A u \in DOMAIN slSock' : \A d \in Dirs : slSock'[u].waiting[d] <= now
    BY <1>1, <1>2, <1>3, <1>6 DEF SlInv, SlShapes
  <2>2. QED  BY <1>1, <1>6, <1>7, <2>1 DEF SlShapes
<1>9. EntryOfSocket'
  BY <1>2, <1>3, <1>4, <1>6, <1>7 DEF SlInv, EntryOfSocket
<1>10. QED  BY <1>1, <1>8, <1>9, Zenon DEF SlInv, SocketSpanOfOneLife, WaitingNeverOverstated

\* An arrival is stamped now, and nothing that waits came later.
LEMMA SlArrivesKeeps ==
  ASSUME SlInv, NEW s \in Socks, NEW dir \in Dirs, SlArrives(s, dir), UNCHANGED now
  PROVE  SlInv'
<1>. DEFINE m == insp_sklat_entry
            x == IF slSock[s].waiting[dir] = 0 THEN now ELSE slSock[s].waiting[dir]
            sock == [slSock[s] EXCEPT !.waiting = [slSock[s].waiting EXCEPT ![dir] = x]]
            e == [m[s] EXCEPT !.last = [m[s].last EXCEPT ![dir] = now]]
<1>1. /\ now \in Nat /\ slSock \in [DOMAIN slSock -> Sock] /\ m \in [DOMAIN m -> SockEntry]
      /\ s \in DOMAIN slSock /\ slSock[s] \in Sock /\ slSock[s].waiting[dir] <= now
      /\ slGen' = slGen /\ slEvent' = slEvent
  BY Zenon DEF SlInv, SlShapes, SlArrives
<1>2. x \in Nat /\ x <= now  BY <1>1 DEF Sock
<1>3. /\ sock \in Sock /\ sock.gen = slSock[s].gen /\ sock.waiting[dir] = x
      /\ \A d \in Dirs : d # dir => sock.waiting[d] = slSock[s].waiting[d]
  <2>. HIDE DEF x
  <2>1. QED  BY <1>1, <1>2, Zenon DEF Sock
<1>4. slSock' = [slSock EXCEPT ![s] = sock]  BY Zenon DEF SlArrives
<1>5. s \in DOMAIN m =>
        /\ e \in SockEntry /\ e.gen = m[s].gen /\ e.last[dir] = now
        /\ \A d \in Dirs : d # dir => e.last[d] = m[s].last[d]
  <2>1. s \in DOMAIN m => m[s] \in SockEntry  BY <1>1, Zenon
  <2>2. QED  BY <1>1, <2>1, Zenon DEF SockEntry
<1>6. m' = IF s \in DOMAIN m THEN [m EXCEPT ![s] = e] ELSE m  BY Zenon DEF SlArrives
<1>. HIDE DEF x, sock, e
<1>7. /\ slSock' \in [DOMAIN slSock -> Sock] /\ slSock'[s] = sock
      /\ \A u \in DOMAIN slSock : u # s => slSock'[u] = slSock[u]
  BY <1>1, <1>3, <1>4, Zenon
<1>8. /\ m' \in [DOMAIN m -> SockEntry] /\ (s \in DOMAIN m => m'[s] = e)
      /\ \A u \in DOMAIN m : u # s => m'[u] = m[u]
  BY <1>1, <1>5, <1>6, Zenon
<1>9. SlShapes'
  <2>1. ASSUME NEW u \in DOMAIN slSock, NEW d \in Dirs
        PROVE  slSock'[u].waiting[d] <= now
    <3>1. CASE u = s /\ d = dir  BY <1>2, <1>3, <1>7, <3>1, Zenon
    <3>2. CASE ~(u = s /\ d = dir)  BY <1>3, <1>7, <3>2, Zenon DEF SlInv, SlShapes
    <3>3. QED  BY <3>1, <3>2, Zenon
  <2>2. DOMAIN slSock' = DOMAIN slSock /\ DOMAIN m' = DOMAIN m  BY <1>7, <1>8, Zenon
  <2>3. QED  BY <1>1, <1>7, <1>8, <2>1, <2>2, Zenon DEF SlInv, SlShapes
<1>10. EntryOfSocket'
  <2>1. SUFFICES ASSUME NEW u \in DOMAIN slSock, u \in DOMAIN m
                 PROVE  /\ m'[u].gen = slSock'[u].gen
                        /\ \A d \in Dirs : slSock'[u].waiting[d] # 0 => m'[u].last[d] >= slSock'[u].waiting[d]
    BY <1>7, <1>8, Zenon DEF EntryOfSocket
  <2>2. CASE u # s  BY <1>7, <1>8, <2>1, <2>2, Zenon DEF SlInv, EntryOfSocket
  <2>3. CASE u = s
    <3>1. m'[u].gen = slSock'[u].gen  BY <1>3, <1>5, <1>7, <1>8, <2>1, <2>3, Zenon DEF SlInv, EntryOfSocket
    <3>2. ASSUME NEW d \in Dirs, slSock'[u].waiting[d] # 0
          PROVE  m'[u].last[d] >= slSock'[u].waiting[d]
      <4>1. CASE d = dir  BY <1>1, <1>2, <1>3, <1>5, <1>7, <1>8, <2>1, <2>3, <4>1, Zenon
      <4>2. CASE d # dir  BY <1>3, <1>5, <1>7, <1>8, <2>1, <2>3, <3>2, <4>2, Zenon DEF SlInv, EntryOfSocket
      <4>3. QED  BY <4>1, <4>2, Zenon
    <3>3. QED  BY <3>1, <3>2, Zenon
  <2>4. QED  BY <2>2, <2>3, Zenon
<1>11. QED  BY <1>1, <1>9, <1>10, Zenon DEF SlInv, SocketSpanOfOneLife, WaitingNeverOverstated

LEMMA SlServesKeeps ==
  ASSUME SlInv, NEW s \in Socks, NEW dir \in Dirs, NEW c \in SlCpus, NEW all \in BOOLEAN,
         SlServes(s, dir, c, all), UNCHANGED now
  PROVE  SlInv'
<1>. DEFINE m == insp_sklat_entry
            x == IF all THEN 0 ELSE slSock[s].waiting[dir]
            sock == [slSock[s] EXCEPT !.waiting = [slSock[s].waiting EXCEPT ![dir] = x]]
<1>1. /\ now \in Nat /\ slSock \in [DOMAIN slSock -> Sock] /\ m \in [DOMAIN m -> SockEntry]
      /\ s \in DOMAIN slSock /\ slSock[s] \in Sock /\ slSock[s].waiting[dir] <= now
      /\ slGen' = slGen /\ m' = m
  BY Zenon DEF SlInv, SlShapes, SlServes
<1>2. x \in Nat /\ (x = 0 \/ x = slSock[s].waiting[dir])  BY <1>1, Zenon DEF Sock
<1>3. /\ sock \in Sock /\ sock.gen = slSock[s].gen /\ sock.waiting[dir] = x
      /\ \A d \in Dirs : d # dir => sock.waiting[d] = slSock[s].waiting[d]
  <2>. HIDE DEF x
  <2>1. QED  BY <1>1, <1>2, Zenon DEF Sock
<1>4. slSock' = [slSock EXCEPT ![s] = sock]  BY Zenon DEF SlServes
<1>. HIDE DEF x, sock
<1>5. /\ slSock' \in [DOMAIN slSock -> Sock] /\ slSock'[s] = sock
      /\ \A u \in DOMAIN slSock : u # s => slSock'[u] = slSock[u]
  BY <1>1, <1>3, <1>4, Zenon
<1>6. ASSUME NEW u \in DOMAIN slSock
      PROVE  /\ slSock'[u].gen = slSock[u].gen
             /\ \A d \in Dirs : slSock'[u].waiting[d] = 0 \/ slSock'[u].waiting[d] = slSock[u].waiting[d]
  BY <1>2, <1>3, <1>5, Zenon
<1>7. SlShapes'  BY <1>1, <1>5, <1>6 DEF SlInv, SlShapes
<1>8. EntryOfSocket'  BY <1>1, <1>5, <1>6, Zenon DEF SlInv, EntryOfSocket
<1>9. SocketSpanOfOneLife' /\ WaitingNeverOverstated'
  <2>. DEFINE w == slSock[s].waiting[dir]  last == m[s].last[dir]
  <2>1. CASE slEvent' = slEvent  BY <2>1, Zenon DEF SlInv, SocketSpanOfOneLife, WaitingNeverOverstated
  <2>2. CASE /\ s \in DOMAIN m
             /\ slEvent' = [latency |-> now - last, gen |-> slSock[s].gen, opened |-> m[s].gen,
                            waiting |-> IF w = 0 THEN 0 ELSE now - w]
    <3>1. m[s] \in SockEntry  BY <1>1, <2>2, Zenon
    <3>2. w \in Nat /\ last \in Nat  BY <1>1, <3>1, Zenon DEF Sock, SockEntry
    <3>3. m[s].gen = slSock[s].gen /\ (w # 0 => last >= w)  BY <1>1, <2>2, Zenon DEF SlInv, EntryOfSocket
    <3>. HIDE DEF w, last
    <3>4. QED  BY <1>1, <2>2, <3>2, <3>3 DEF SocketSpanOfOneLife, WaitingNeverOverstated
  <2>3. QED  BY <2>1, <2>2, Zenon DEF SlServes
<1>10. QED  BY <1>7, <1>8, <1>9, Zenon DEF SlInv

LEMMA SlKept ==
  ASSUME SlInv, SlNext \/ (Later /\ UNCHANGED slVars)
  PROVE  SlInv'
<1>1. ASSUME NEW s \in Socks, sock_destroy(s) \/ SockFreed(s), UNCHANGED now
      PROVE  SlInv'
  <2>1. slSock \in [DOMAIN slSock -> Sock] /\ insp_sklat_entry \in [DOMAIN insp_sklat_entry -> SockEntry]
    BY Zenon DEF SlInv, SlShapes
  <2>2. /\ slSock' \in [DOMAIN slSock' -> Sock]
        /\ \A u \in DOMAIN slSock' : u \in DOMAIN slSock /\ slSock'[u] = slSock[u]
    BY <1>1, <2>1, Zenon DEF sock_destroy, SockFreed, HashDelete
  <2>3. /\ insp_sklat_entry' \in [DOMAIN insp_sklat_entry' -> SockEntry]
        /\ \A u \in DOMAIN insp_sklat_entry' :
             u \in DOMAIN insp_sklat_entry /\ insp_sklat_entry'[u] = insp_sklat_entry[u]
    BY <1>1, <2>1, Zenon DEF sock_destroy, SockFreed, HashDelete
  <2>4. slEvent' = slEvent /\ slGen' = slGen  BY <1>1, Zenon DEF sock_destroy, SockFreed
  <2>5. QED
    BY <1>1, <2>2, <2>3, <2>4, Zenon DEF SlInv, SlShapes, EntryOfSocket, SocketSpanOfOneLife, WaitingNeverOverstated
<1>2. CASE (KernelTick \/ Later) /\ UNCHANGED slVars
  <2>1. now \in Nat /\ now' \in Nat /\ now' >= now  BY <1>2 DEF SlInv, SlShapes, KernelTick, Later
  <2>2. UNCHANGED <<slSock, slGen, insp_sklat_entry, slEvent>>  BY <1>2, Zenon DEF slVars
  <2>3. \A s \in DOMAIN slSock : \A d \in Dirs : slSock[s].waiting[d] \in Nat
    BY Zenon DEF SlInv, SlShapes, Sock
  <2>4. SlShapes'  BY <2>1, <2>2, <2>3 DEF SlInv, SlShapes
  <2>5. QED  BY <2>2, <2>4, Zenon DEF SlInv, EntryOfSocket, SocketSpanOfOneLife, WaitingNeverOverstated
<1>3. QED
  BY <1>1, <1>2, SockCreateKeeps, SlArrivesKeeps, SlServesKeeps, Zenon
  DEF SlNext, SlStep, sock_receive, sock_write, sock_read, sock_send, Dirs

LEMMA SlStarts ==
  ASSUME now = 1, SlInit
  PROVE  SlInv
<1>1. slSock = << >> /\ insp_sklat_entry = << >>  BY Zenon DEF SlInit
<1>2. DOMAIN << >> = {} /\ \A S : << >> \in [{} -> S]  OBVIOUS
<1>3. /\ slSock \in [DOMAIN slSock -> Sock] /\ insp_sklat_entry \in [DOMAIN insp_sklat_entry -> SockEntry]
      /\ DOMAIN slSock = {}
  BY <1>1, <1>2, Zenon
<1>4. QED  BY <1>3, Zenon DEF SlInv, SlShapes, EntryOfSocket, SocketSpanOfOneLife, WaitingNeverOverstated, SlInit

\* The keys that collect adds up for a direction and a bucket.
Wanted(m, d, b) == {k \in DOMAIN m : k[3] = d /\ (b = "1MS" \/ k[2] = "100MS")}

\* The spans counted so far that belong to a bucket.
SpansOver(counted, d, b) == IF b = "1MS" THEN counted[d]["1MS"] + counted[d]["100MS"] ELSE counted[d]["100MS"]

SlCountInv ==
  /\ insp_sklat_metric \in [DOMAIN insp_sklat_metric -> Nat] /\ IsFiniteSet(DOMAIN insp_sklat_metric)
  /\ slCounted \in [Dirs -> [Buckets -> Nat]]
  /\ ~slFull => \A d \in Dirs, b \in Buckets :
       IsSum(insp_sklat_metric, Wanted(insp_sklat_metric, d, b), SpansOver(slCounted, d, b))

\* One more span under key, in a map that becomes h.
OneMore(m, h, key) ==
  /\ h \in [DOMAIN m \cup {key} -> Nat] /\ \A k \in DOMAIN m : k # key => h[k] = m[k]
  /\ IF key \in DOMAIN m THEN h[key] = m[key] + 1 ELSE h[key] = 1

\* It adds one to the sums that its key belongs to, and nothing to the others.
LEMMA SumCountsKey ==
  ASSUME NEW m, m \in [DOMAIN m -> Nat], NEW h, NEW key, OneMore(m, h, key),
         NEW W, Part(W, DOMAIN m), IsFiniteSet(W), NEW v \in Nat, IsSum(m, W, v)
  PROVE  /\ key \in DOMAIN m => (key \in W => IsSum(h, W, v + 1))
         /\ key \notin DOMAIN m => IsSum(h, W \cup {key}, v + 1)
         /\ key \notin W => IsSum(h, W, v)
<1>1. Numbers(m, W)  BY Zenon DEF Numbers, Part
<1>2. \A k \in DOMAIN m \cup {key} : h[k] \in Nat  BY Zenon DEF OneMore
<1>3. \A k \in W : k \in DOMAIN m  BY Zenon DEF Part
<1>4. \A k \in W : k # key => h[k] = m[k]  BY <1>3, Zenon DEF OneMore
<1>5. ASSUME key \in DOMAIN m, key \in W
      PROVE  IsSum(h, W, v + 1)
  <2>1. h[key] = m[key] + 1  BY <1>5, Zenon DEF OneMore
  <2>2. Same(m, h, W \ {key})  BY <1>4, Zenon DEF Same
  <2>3. 1 \in Nat  OBVIOUS
  <2>4. QED  BY <1>1, <1>5, <2>1, <2>2, <2>3, SumBumps, Zenon
<1>6. ASSUME key \notin DOMAIN m
      PROVE  IsSum(h, W \cup {key}, v + 1)
  <2>1. h[key] = 1 /\ key \notin W  BY <1>3, <1>6, Zenon DEF OneMore
  <2>2. Same(m, h, W)  BY <1>4, <2>1, Zenon DEF Same
  <2>3. Numbers(h, W \cup {key})  BY <1>2, <1>3, Zenon DEF Numbers
  <2>4. IsSum(h, W \cup {key}, h[key] + v)  BY <2>1, <2>2, <2>3, SumGrows, Zenon
  <2>5. 1 + v = v + 1  OBVIOUS
  <2>6. QED  BY <2>1, <2>4, <2>5, Zenon
<1>7. ASSUME key \notin W
      PROVE  IsSum(h, W, v)
  <2>1. Same(m, h, W)  BY <1>4, <1>7, Zenon DEF Same
  <2>2. QED  BY <2>1, SumSame, Zenon
<1>8. QED  BY <1>5, <1>6, <1>7, Zenon

\* A span is counted under its CPU, its bucket and its direction.
LEMMA SlCountStep ==
  ASSUME SlCountInv, NEW c, NEW B \in Buckets, NEW dir \in Dirs,
         insp_sklat_metric' = SlCount(<<c, B, dir>>),
         slCounted' = [slCounted EXCEPT ![dir][B] = @ + 1],
         slFull' = (slFull \/ <<c, B, dir>> \notin DOMAIN SlCount(<<c, B, dir>>))
  PROVE  SlCountInv'
<1> DEFINE m == insp_sklat_metric
           key == <<c, B, dir>>
<1>1. m \in [DOMAIN m -> Nat] /\ IsFiniteSet(DOMAIN m) /\ slCounted \in [Dirs -> [Buckets -> Nat]]
  BY Zenon DEF SlCountInv
<1>2. key[2] = B /\ key[3] = dir  OBVIOUS
<1> HIDE DEF key
<1>3. m' = SlCount(key) /\ slFull' = (slFull \/ key \notin DOMAIN m')  BY Zenon DEF key
<1>4. OneMore(m, m', key) \/ (m' = m /\ key \notin DOMAIN m)
  <2>1. CASE key \in DOMAIN m
    <3>1. m' = [m EXCEPT ![key] = m[key] + 1]  BY <1>3, <2>1, Zenon DEF SlCount
    <3>2. m[key] + 1 \in Nat
      <4>1. m[key] \in Nat  BY <1>1, <2>1, Zenon
      <4>2. QED  BY <4>1
    <3>3. DOMAIN m \cup {key} = DOMAIN m  BY <2>1, Zenon
    <3>4. m' \in [DOMAIN m -> Nat] /\ m'[key] = m[key] + 1 /\ \A k \in DOMAIN m : k # key => m'[k] = m[k]
      BY <1>1, <2>1, <3>1, <3>2, Zenon
    <3>5. QED  BY <2>1, <3>3, <3>4, Zenon DEF OneMore
  <2>2. CASE key \notin DOMAIN m
    <3>1. m' = m \/ m' = Put(m, key, 1)  BY <1>3, <2>2, Zenon DEF SlCount, HashUpdate
    <3>2. 1 \in Nat  OBVIOUS
    <3>3. ASSUME m' = Put(m, key, 1)
          PROVE  /\ m' \in [DOMAIN m \cup {key} -> Nat] /\ m'[key] = 1
                 /\ \A k \in DOMAIN m : k # key => m'[k] = m[k]
      BY <1>1, <3>2, <3>3, Zenon DEF Put
    <3>4. QED  BY <2>2, <3>1, <3>3, Zenon DEF OneMore
  <2>3. QED  BY <2>1, <2>2, Zenon
<1>5. slCounted' \in [Dirs -> [Buckets -> Nat]]
      /\ \A d \in Dirs, b \in Buckets :
           slCounted'[d][b] = IF d = dir /\ b = B THEN slCounted[d][b] + 1 ELSE slCounted[d][b]
  <2> DEFINE r == [slCounted[dir] EXCEPT ![B] = slCounted[dir][B] + 1]
  <2>1. slCounted' = [slCounted EXCEPT ![dir] = r]  BY Zenon
  <2>2. slCounted[dir] \in [Buckets -> Nat] /\ slCounted[dir][B] \in Nat  BY <1>1, Zenon
  <2>3. slCounted[dir][B] + 1 \in Nat  BY <2>2
  <2>4. r \in [Buckets -> Nat] /\ r[B] = slCounted[dir][B] + 1 /\ \A b \in Buckets : b # B => r[b] = slCounted[dir][b]
    BY <2>2, <2>3, Zenon
  <2> HIDE DEF r
  <2>5. /\ slCounted' \in [Dirs -> [Buckets -> Nat]] /\ slCounted'[dir] = r
        /\ \A d \in Dirs : d # dir => slCounted'[d] = slCounted[d]
    BY <1>1, <2>1, <2>4, Zenon
  <2>6. QED  BY <2>4, <2>5, Zenon
<1>6. CASE m' = m /\ key \notin DOMAIN m
  <2>1. slFull'  BY <1>3, <1>6, Zenon
  <2>2. QED  BY <1>1, <1>5, <1>6, <2>1, Zenon DEF SlCountInv
<1>7. CASE OneMore(m, m', key)
  <2>1. DOMAIN m' = DOMAIN m \cup {key} /\ m' \in [DOMAIN m' -> Nat]  BY <1>7, Zenon DEF OneMore
  <2>2. IsFiniteSet(DOMAIN m')
    <3>1. IsFiniteSet(DOMAIN m \cup {key})  BY <1>1, FS_AddElement, Zenon
    <3>2. QED  BY <2>1, <3>1, Zenon
  <2>3. ASSUME ~slFull', NEW d \in Dirs, NEW b \in Buckets
        PROVE  IsSum(m', Wanted(m', d, b), SpansOver(slCounted', d, b))
    <3> DEFINE W == Wanted(m, d, b)
               v == SpansOver(slCounted, d, b)
    <3>1. Part(W, DOMAIN m) /\ IsFiniteSet(W)
      <4>1. W \in SUBSET DOMAIN m  BY Zenon DEF Wanted
      <4>2. QED  BY <1>1, <4>1, FS_Subset, Zenon DEF Part
    <3>2. IsSum(m, W, v)  BY <1>3, <2>3, Zenon DEF SlCountInv
    <3>3. \A x \in Dirs, y \in Buckets : slCounted[x][y] \in Nat  BY <1>1, Zenon
    <3>4. "1MS" \in Buckets /\ "100MS" \in Buckets /\ (b = "1MS" \/ b = "100MS") /\ (B = "1MS" \/ B = "100MS")
          /\ "1MS" # "100MS"
      BY DEF Buckets
    <3>5. v \in Nat
      <4>1. slCounted[d]["1MS"] \in Nat /\ slCounted[d]["100MS"] \in Nat  BY <3>3, <3>4, Zenon
      <4>2. QED  BY <4>1 DEF SpansOver
    <3> DEFINE in == dir = d /\ (b = "1MS" \/ B = "100MS")
    <3>6. /\ in => Wanted(m', d, b) = W \cup {key}
          /\ ~in => Wanted(m', d, b) = W /\ key \notin W
          /\ in /\ key \in DOMAIN m => key \in W /\ W \cup {key} = W
      BY <1>2, <2>1, Zenon DEF Wanted
    <3>7. SpansOver(slCounted', d, b) = IF in THEN v + 1 ELSE v
      <4> DEFINE x == slCounted[d]["1MS"]
                 y == slCounted[d]["100MS"]
      <4>1. x \in Nat /\ y \in Nat  BY <3>3, <3>4, Zenon
      <4>2. /\ slCounted'[d]["1MS"] = IF d = dir /\ B = "1MS" THEN x + 1 ELSE x
            /\ slCounted'[d]["100MS"] = IF d = dir /\ B = "100MS" THEN y + 1 ELSE y
        BY <1>5, <3>4, Zenon
      <4> HIDE DEF x, y
      <4>3. v = IF b = "1MS" THEN x + y ELSE y  BY Zenon DEF SpansOver, x, y
      <4> HIDE DEF v
      <4>4. QED  BY <3>4, <4>1, <4>2, <4>3 DEF SpansOver
    <3> HIDE DEF W, v, in, m
    <3>8. /\ key \in DOMAIN m => (key \in W => IsSum(m', W, v + 1))
          /\ key \notin DOMAIN m => IsSum(m', W \cup {key}, v + 1)
          /\ key \notin W => IsSum(m', W, v)
      BY <1>1, <1>7, <3>1, <3>2, <3>5, SumCountsKey, Zenon
    <3>9. QED  BY <3>6, <3>7, <3>8, Zenon
  <2>4. QED  BY <1>5, <2>1, <2>2, <2>3, Zenon DEF SlCountInv
<1>8. QED  BY <1>4, <1>6, <1>7, Zenon

LEMMA SlCountKept ==
  ASSUME SlCountInv, SlNext \/ (Later /\ UNCHANGED slVars)
  PROVE  SlCountInv'
<1>1. CASE UNCHANGED <<insp_sklat_metric, slCounted, slFull>>
  BY <1>1, Zenon DEF SlCountInv
<1>2. ASSUME NEW s, NEW dir \in Dirs, NEW c, NEW all, SlServes(s, dir, c, all)
      PROVE  SlCountInv'
  <2> DEFINE B == SlBucket(now - insp_sklat_entry[s].last[dir])
  <2>1. B \in Buckets  BY DEF SlBucket, Buckets
  <2>2. \/ UNCHANGED <<insp_sklat_metric, slCounted, slFull>>
        \/ /\ insp_sklat_metric' = SlCount(<<c, B, dir>>)
           /\ slCounted' = [slCounted EXCEPT ![dir][B] = @ + 1]
           /\ slFull' = (slFull \/ <<c, B, dir>> \notin DOMAIN SlCount(<<c, B, dir>>))
    BY <1>2, Zenon DEF SlServes
  <2> HIDE DEF B
  <2>3. QED  BY <1>1, <2>1, <2>2, SlCountStep, Zenon
<1>3. "READ" \in Dirs /\ "WRITE" \in Dirs  BY DEF Dirs
<1>4. UNCHANGED slVars => UNCHANGED <<insp_sklat_metric, slCounted, slFull>>  BY Zenon DEF slVars
<1>5. CASE SlStep
  BY <1>1, <1>2, <1>3, <1>5, Zenon
  DEF SlStep, sock_create, sock_receive, sock_write, SlArrives, sock_destroy, SockFreed, sock_read, sock_send
<1>6. QED  BY <1>1, <1>4, <1>5, Zenon DEF SlNext

LEMMA SlCountStarts ==
  ASSUME SlInit
  PROVE  SlCountInv
<1>1. insp_sklat_metric = << >> /\ DOMAIN << >> = {} /\ << >> \in [{} -> Nat]  BY DEF SlInit
<1>2. slCounted \in [Dirs -> [Buckets -> Nat]] /\ \A d \in Dirs, b \in Buckets : slCounted[d][b] = 0
  BY DEF SlInit
<1>3. \A d, b : Wanted(insp_sklat_metric, d, b) = {}  BY <1>1, Zenon DEF Wanted
<1>4. ASSUME NEW d \in Dirs, NEW b \in Buckets PROVE SpansOver(slCounted, d, b) = 0
  <2>1. slCounted[d]["1MS"] = 0 /\ slCounted[d]["100MS"] = 0  BY <1>2 DEF Buckets
  <2>2. QED  BY <2>1 DEF SpansOver
<1>5. ASSUME NEW d \in Dirs, NEW b \in Buckets
      PROVE  IsSum(insp_sklat_metric, Wanted(insp_sklat_metric, d, b), SpansOver(slCounted, d, b))
  BY <1>3, <1>4, SumOfNone, Zenon
<1>6. QED  BY <1>1, <1>2, <1>5, FS_EmptySet, Zenon DEF SlCountInv

\* What collect exports.
LEMMA SlExact ==
  ASSUME SlCountInv
  PROVE  CollectedCountsSpans
<1>1. ASSUME ~slFull, NEW d \in Dirs, NEW b \in Buckets
      PROVE  Collected(d, b) = SpansOver(slCounted, d, b)
  <2> DEFINE m == insp_sklat_metric
             W == Wanted(m, d, b)
             v == SpansOver(slCounted, d, b)
  <2>1. IsFiniteSet(W)
    <3>1. W \in SUBSET DOMAIN m /\ IsFiniteSet(DOMAIN m)  BY Zenon DEF Wanted, SlCountInv
    <3>2. QED  BY <3>1, FS_Subset, Zenon
  <2>2. IsSum(m, W, v)  BY <1>1, Zenon DEF SlCountInv
  <2>3. Collected(d, b) = SumOver(m, W)  BY Zenon DEF Collected, Wanted, SumOver
  <2> HIDE DEF m, W, v
  <2>4. IsSum(m, W, SumOver(m, W))  BY <2>1, SumOfFunction, Zenon
  <2>5. SumOver(m, W) = v  BY <2>1, <2>2, <2>4, SumUnique
  <2>6. QED  BY <2>3, <2>5, Zenon DEF v
<1>2. "1MS" \in Buckets /\ "100MS" \in Buckets /\ "1MS" # "100MS"  BY DEF Buckets
<1>3. \A d \in Dirs : /\ SpansOver(slCounted, d, "1MS") = slCounted[d]["1MS"] + slCounted[d]["100MS"]
                      /\ SpansOver(slCounted, d, "100MS") = slCounted[d]["100MS"]
  BY <1>2, Zenon DEF SpansOver
<1>4. QED  BY <1>1, <1>2, <1>3, Zenon DEF CollectedCountsSpans

-----------------------------------------------------------------------------
(* ConnectTrace *)

CtStates == {"user", "connect", "clock", "read", "lookup", "insert", "again", "total", "bucket", "submit"}
CtRecord == [at : CtStates, since : Nat, elem : StartElems \cup {"none"}, clock : Nat,
             latency : Nat, netns : Netns \cup {"none"}, mtr : MetricElems \cup {"none"}]
CtShapes == /\ now \in 0..MaxTime /\ ctReused \in BOOLEAN
            /\ ctThread \in [Threads -> CtRecord]
            /\ insp_connect_start \in [DOMAIN insp_connect_start -> StartElems]
            /\ DOMAIN insp_connect_start \subseteq Threads /\ ctStart \in [StartElems -> Nat]
            /\ insp_connect_metrics \in [DOMAIN insp_connect_metrics -> MetricElems]

\* Two threads never share an element.
StartsApart == \A t, u \in DOMAIN insp_connect_start :
  insp_connect_start[t] = insp_connect_start[u] => t = u

\* Where a thread is in connect, the element it will read, the one it holds and the latency
\* it has computed are of its own start.
StartIsOwn == \A t \in Threads : LET th == ctThread[t] IN
  /\ th.since <= now
  /\ th.at = "connect" /\ t \in DOMAIN insp_connect_start => ctStart[insp_connect_start[t]] = th.since
  /\ th.at \in {"clock", "read"} => th.elem \in StartElems /\ (~ctReused => ctStart[th.elem] = th.since)
  /\ th.at \in {"read", "lookup", "insert", "again", "total", "bucket", "submit"} =>
       th.since <= th.clock /\ th.clock <= now
  /\ th.at \in {"lookup", "insert", "again", "total", "bucket", "submit"} /\ ~ctReused =>
       th.latency = th.clock - th.since

CtInv == CtShapes /\ StartsApart /\ StartIsOwn /\ ConnectLatencyIsOwn

\* The steps of trace_sys_exit_connect by thread t, which becomes p: no element changes,
\* and t's own may leave the map.
LEMMA CtExitKeeps ==
  ASSUME CtInv, NEW t \in Threads, NEW p \in CtRecord, ctThread' = [ctThread EXCEPT ![t] = p],
         UNCHANGED <<now, ctStart, ctReused>>,
         insp_connect_metrics' \in [DOMAIN insp_connect_metrics' -> MetricElems],
         insp_connect_start' = insp_connect_start \/ insp_connect_start' = HashDelete(insp_connect_start, t),
         p.since <= now, p.at # "connect",
         p.at \in {"clock", "read"} => p.elem \in StartElems /\ (~ctReused => ctStart[p.elem] = p.since),
         p.at \in {"read", "lookup", "insert", "again", "total", "bucket", "submit"} =>
           p.since <= p.clock /\ p.clock <= now,
         p.at \in {"lookup", "insert", "again", "total", "bucket", "submit"} /\ ~ctReused =>
           p.latency = p.clock - p.since
  PROVE  CtShapes' /\ StartsApart' /\ StartIsOwn'
<1>1. ctThread \in [Threads -> CtRecord] /\ insp_connect_start \in [DOMAIN insp_connect_start -> StartElems]
  BY Zenon DEF CtInv, CtShapes
<1>2. /\ ctThread' \in [Threads -> CtRecord] /\ ctThread'[t] = p
      /\ \A u \in Threads : u # t => ctThread'[u] = ctThread[u]
  BY <1>1, Zenon
<1>3. /\ insp_connect_start' \in [DOMAIN insp_connect_start' -> StartElems]
      /\ \A u \in DOMAIN insp_connect_start' :
           u \in DOMAIN insp_connect_start /\ insp_connect_start'[u] = insp_connect_start[u]
  BY <1>1, Zenon DEF HashDelete
<1>4. CtShapes'  BY <1>2, <1>3, Zenon DEF CtInv, CtShapes
<1>5. StartsApart'  BY <1>3, Zenon DEF CtInv, StartsApart
<1>6. StartIsOwn'
  <2>1. SUFFICES ASSUME NEW u \in Threads
                 PROVE  LET th == ctThread'[u] IN
                        /\ th.since <= now
                        /\ th.at = "connect" /\ u \in DOMAIN insp_connect_start' =>
                             ctStart[insp_connect_start'[u]] = th.since
                        /\ th.at \in {"clock", "read"} =>
                             th.elem \in StartElems /\ (~ctReused => ctStart[th.elem] = th.since)
                        /\ th.at \in {"read", "lookup", "insert", "again", "total", "bucket", "submit"} =>
                             th.since <= th.clock /\ th.clock <= now
                        /\ th.at \in {"lookup", "insert", "again", "total", "bucket", "submit"} /\ ~ctReused =>
                             th.latency = th.clock - th.since
    BY Zenon DEF StartIsOwn
  <2>2. CASE u = t  BY <1>2, <2>2, Zenon
  <2>3. CASE u # t  BY <1>2, <1>3, <2>3 DEF CtInv, StartIsOwn
  <2>4. QED  BY <2>2, <2>3, Zenon
<1>7. QED  BY <1>4, <1>5, <1>6, Zenon

\* A connect begins with an element that no thread has in the map; a thread that still reads
\* it is what ctReused records.
LEMMA CtEnterKeeps ==
  ASSUME CtInv, NEW t \in Threads, trace_sys_enter_connect(t), UNCHANGED now
  PROVE  CtInv'
<1>. DEFINE p == [ctThread[t] EXCEPT !.at = "connect", !.since = now]  m == insp_connect_start
<1>1. /\ now \in Nat /\ ctThread \in [Threads -> CtRecord] /\ m \in [DOMAIN m -> StartElems]
      /\ ctStart \in [StartElems -> Nat] /\ ctReused \in BOOLEAN
      /\ ctEvent' = ctEvent /\ insp_connect_metrics' = insp_connect_metrics
  BY CtAssumption DEF CtInv, CtShapes, trace_sys_enter_connect
<1>2. p \in CtRecord /\ p.at = "connect" /\ p.since = now  BY <1>1, Zenon DEF CtRecord, CtStates
<1>3. ctThread' = [ctThread EXCEPT ![t] = p]  BY Zenon DEF trace_sys_enter_connect
<1>. HIDE DEF p
<1>4. /\ ctThread' \in [Threads -> CtRecord] /\ ctThread'[t] = p
      /\ \A u \in Threads : u # t => ctThread'[u] = ctThread[u]
  BY <1>1, <1>2, <1>3, Zenon
<1>5. ASSUME NEW e \in FreeElems(StartElems, m), Fits(m, t, CtMaxStart),
             m' = HashUpdate(m, t, e, CtMaxStart), ctStart' = [ctStart EXCEPT ![e] = now],
             ctReused' = (ctReused \/ \E u \in Threads : ctThread[u].at \in {"clock", "read"}
                                                         /\ ctThread[u].elem = e)
      PROVE  CtInv'
  <2>1. e \in StartElems /\ \A u \in DOMAIN m : m[u] # e  BY <1>5, Zenon DEF FreeElems, Range
  <2>2. m' = Put(m, t, e)  BY <1>5, Zenon DEF Fits, HashUpdate
  <2>3. /\ m' \in [DOMAIN m' -> StartElems] /\ DOMAIN m' = DOMAIN m \cup {t} /\ m'[t] = e
        /\ \A u \in DOMAIN m' : u # t => u \in DOMAIN m /\ m'[u] = m[u]
    BY <1>1, <2>1, <2>2, Zenon DEF Put
  <2>4. ctStart' \in [StartElems -> Nat] /\ ctStart'[e] = now /\ \A f \in StartElems : f # e => ctStart'[f] = ctStart[f]
    BY <1>1, <1>5, <2>1, Zenon
  <2>5. /\ ctReused' \in BOOLEAN /\ (~ctReused' => ~ctReused)
        /\ ~ctReused' => \A u \in Threads : ctThread[u].at \in {"clock", "read"} => ctThread[u].elem # e
    BY <1>1, <1>5, ZenonT(30)
  <2>6. CtShapes'  BY <1>1, <1>4, <2>3, <2>4, <2>5, Zenon DEF CtInv, CtShapes
  <2>7. StartsApart'
    <3>1. ASSUME NEW u \in DOMAIN m', NEW w \in DOMAIN m', m'[u] = m'[w]
          PROVE  u = w
      <4>1. CASE u # t /\ w # t  BY <2>3, <3>1, <4>1, Zenon DEF CtInv, StartsApart
      <4>2. CASE u = t \/ w = t  BY <2>1, <2>3, <3>1, <4>2, Zenon
      <4>3. QED  BY <4>1, <4>2, Zenon
    <3>2. QED  BY <3>1, Zenon DEF StartsApart
  <2>8. StartIsOwn'
    <3>1. SUFFICES ASSUME NEW u \in Threads
                   PROVE  LET th == ctThread'[u] IN
                          /\ th.since <= now
                          /\ th.at = "connect" /\ u \in DOMAIN m' => ctStart'[m'[u]] = th.since
                          /\ th.at \in {"clock", "read"} =>
                               th.elem \in StartElems /\ (~ctReused' => ctStart'[th.elem] = th.since)
                          /\ th.at \in {"read", "lookup", "insert", "again", "total", "bucket", "submit"} =>
                               th.since <= th.clock /\ th.clock <= now
                          /\ th.at \in {"lookup", "insert", "again", "total", "bucket", "submit"} /\ ~ctReused' =>
                               th.latency = th.clock - th.since
      BY Zenon DEF StartIsOwn
    <3>2. CASE u = t  BY <1>1, <1>2, <1>4, <2>3, <2>4, <3>2
    <3>3. CASE u # t
      <4>1. ctThread'[u] = ctThread[u]  BY <1>4, <3>3, Zenon
      <4>2. ctThread[u].at = "connect" /\ u \in DOMAIN m' => ctStart'[m'[u]] = ctThread[u].since
        BY <1>1, <2>1, <2>3, <2>4, <3>3 DEF CtInv, StartIsOwn
      <4>3. ctThread[u].at \in {"clock", "read"} =>
              ctThread[u].elem \in StartElems /\ (~ctReused' => ctStart'[ctThread[u].elem] = ctThread[u].since)
        BY <2>4, <2>5, Zenon DEF CtInv, StartIsOwn
      <4>4. QED  BY <2>5, <4>1, <4>2, <4>3, Zenon DEF CtInv, StartIsOwn
    <3>4. QED  BY <3>2, <3>3, Zenon
  <2>9. QED  BY <1>1, <2>5, <2>6, <2>7, <2>8, Zenon DEF CtInv, ConnectLatencyIsOwn
<1>6. CASE ~Fits(m, t, CtMaxStart) /\ UNCHANGED <<insp_connect_start, ctStart, ctReused>>
  <2>1. t \notin DOMAIN m  BY <1>6, Zenon DEF Fits
  <2>2. CtShapes' /\ StartsApart'  BY <1>1, <1>4, <1>6, Zenon DEF CtInv, CtShapes, StartsApart
  <2>3. StartIsOwn'  BY <1>1, <1>2, <1>4, <1>6, <2>1 DEF CtInv, StartIsOwn
  <2>4. QED  BY <1>1, <1>6, <2>2, <2>3, Zenon DEF CtInv, ConnectLatencyIsOwn
<1>7. QED  BY <1>5, <1>6, Zenon DEF trace_sys_enter_connect

\* The thread leaves, with or without its entry, or goes on with the element it found.
LEMMA CtDeleteKeeps ==
  ASSUME CtInv, NEW t \in Threads, NEW ret \in {0, -1}, ExitDeletes(t, ret), UNCHANGED now
  PROVE  CtInv'
<1>. DEFINE p == [ctThread[t] EXCEPT !.at = "clock", !.elem = insp_connect_start[t]]
<1>1. /\ now \in Nat /\ ctThread[t] \in CtRecord /\ insp_connect_start \in [DOMAIN insp_connect_start -> StartElems]
      /\ insp_connect_metrics \in [DOMAIN insp_connect_metrics -> MetricElems] /\ ctThread[t].at = "connect"
      /\ UNCHANGED <<ctStart, insp_connect_metrics, ctReused, ctEvent>>
  BY CtAssumption DEF CtInv, CtShapes, ExitDeletes, At
<1>2. Outside \in CtRecord /\ Outside.at = "user" /\ Outside.since <= now
  BY <1>1 DEF Outside, CtRecord, CtStates
<1>3. insp_connect_start' = insp_connect_start \/ insp_connect_start' = HashDelete(insp_connect_start, t)
  BY Zenon DEF ExitDeletes
<1>4. CASE ctThread' = [ctThread EXCEPT ![t] = Outside]
  <2>1. CtShapes' /\ StartsApart' /\ StartIsOwn'
    <3>. HIDE DEF Outside
    <3>. QED  BY <1>1, <1>2, <1>3, <1>4, CtExitKeeps, Zenon
  <2>2. QED  BY <1>1, <2>1, Zenon DEF CtInv, ConnectLatencyIsOwn
<1>5. CASE t \in DOMAIN insp_connect_start /\ ctThread' = [ctThread EXCEPT ![t] = p]
  <2>1. p \in CtRecord /\ p.at = "clock" /\ p.elem = insp_connect_start[t] /\ p.since = ctThread[t].since
    BY <1>1, <1>5, Zenon DEF CtRecord, CtStates
  <2>2. p.since <= now /\ p.elem \in StartElems /\ ctStart[p.elem] = p.since
    BY <1>1, <1>5, <2>1, Zenon DEF CtInv, StartIsOwn
  <2>. HIDE DEF p
  <2>3. CtShapes' /\ StartsApart' /\ StartIsOwn'  BY <1>1, <1>3, <1>5, <2>1, <2>2, CtExitKeeps, Zenon
  <2>4. QED  BY <1>1, <2>3, Zenon DEF CtInv, ConnectLatencyIsOwn
<1>6. QED  BY <1>4, <1>5, Zenon DEF ExitDeletes, Leaves

LEMMA CtReadKeeps ==
  ASSUME CtInv, NEW t \in Threads, ExitReadsClock(t) \/ (\E netns \in Netns : ExitReadsStart(t, netns)), UNCHANGED now
  PROVE  CtInv'
<1>1. /\ now \in Nat /\ now <= MaxTime /\ ctThread[t] \in CtRecord /\ ctStart \in [StartElems -> Nat]
      /\ insp_connect_metrics \in [DOMAIN insp_connect_metrics -> MetricElems]
      /\ UNCHANGED <<insp_connect_start, ctStart, insp_connect_metrics, ctReused, ctEvent>>
      /\ ctThread[t].since <= now /\ ctThread[t].at \in {"clock", "read"} /\ ctThread[t].elem \in StartElems
      /\ ~ctReused => ctStart[ctThread[t].elem] = ctThread[t].since
  <2>1. /\ ctThread[t].at \in {"clock", "read"}
        /\ UNCHANGED <<insp_connect_start, ctStart, insp_connect_metrics, ctReused, ctEvent>>
    BY Zenon DEF ExitReadsClock, ExitReadsStart, At
  <2>2. /\ now \in Nat /\ now <= MaxTime /\ ctThread[t] \in CtRecord /\ ctStart \in [StartElems -> Nat]
        /\ insp_connect_metrics \in [DOMAIN insp_connect_metrics -> MetricElems]
    BY CtAssumption DEF CtInv, CtShapes
  <2>3. /\ ctThread[t].since <= now /\ ctThread[t].elem \in StartElems
        /\ ~ctReused => ctStart[ctThread[t].elem] = ctThread[t].since
    BY <2>1, Zenon DEF CtInv, StartIsOwn
  <2>4. QED  BY <2>1, <2>2, <2>3, Zenon
<1>2. CASE ExitReadsClock(t)
  <2>. DEFINE p == [ctThread[t] EXCEPT !.at = "read", !.clock = now]
  <2>1. /\ p \in CtRecord /\ p.at = "read" /\ p.elem = ctThread[t].elem /\ p.since = ctThread[t].since
        /\ p.clock = now
    BY <1>1, Zenon DEF CtRecord, CtStates
  <2>2. ctThread' = [ctThread EXCEPT ![t] = p]  BY <1>2, Zenon DEF ExitReadsClock
  <2>. HIDE DEF p
  <2>3. /\ p.at # "connect" /\ p.elem \in StartElems /\ (~ctReused => ctStart[p.elem] = p.since)
        /\ p.since <= p.clock /\ p.clock <= now /\ p.since <= now
        /\ p.at \notin {"lookup", "insert", "again", "total", "bucket", "submit"}
    BY <1>1, <2>1
  <2>4. CtShapes' /\ StartsApart' /\ StartIsOwn'  BY <1>1, <2>1, <2>2, <2>3, CtExitKeeps, Zenon
  <2>5. QED  BY <1>1, <2>4, Zenon DEF CtInv, ConnectLatencyIsOwn
<1>3. ASSUME NEW netns \in Netns, ExitReadsStart(t, netns)
      PROVE  CtInv'
  <2>. DEFINE span == (ctThread[t].clock - ctStart[ctThread[t].elem]) % WordMod
              p == [ctThread[t] EXCEPT !.at = "lookup", !.netns = netns, !.latency = span]
  <2>1. /\ ctThread[t].clock \in Nat /\ ctStart[ctThread[t].elem] \in Nat
        /\ ctThread[t].since \in Nat /\ ctThread[t].since <= ctThread[t].clock /\ ctThread[t].clock <= now
    BY <1>1, <1>3, Zenon DEF CtInv, StartIsOwn, CtRecord, ExitReadsStart, At
  <2>2. span \in Nat  BY <2>1, CtAssumption
  <2>3. ~ctReused => span = ctThread[t].clock - ctThread[t].since  BY <1>1, <2>1, CtAssumption
  <2>4. ctThread' = [ctThread EXCEPT ![t] = p]  BY <1>3, Zenon DEF ExitReadsStart
  <2>. HIDE DEF span
  <2>5. /\ p \in CtRecord /\ p.at = "lookup" /\ p.since = ctThread[t].since
        /\ p.clock = ctThread[t].clock /\ p.latency = span
    BY <1>1, <2>2, Zenon DEF CtRecord, CtStates
  <2>. HIDE DEF p
  <2>6. CtShapes' /\ StartsApart' /\ StartIsOwn'  BY <1>1, <2>1, <2>3, <2>4, <2>5, CtExitKeeps, Zenon
  <2>7. QED  BY <1>1, <2>6, Zenon DEF CtInv, ConnectLatencyIsOwn
<1>4. QED  BY <1>2, <1>3, Zenon

\* record_latency moves on with the latency it was given.
LEMMA CtRecordKeeps ==
  ASSUME CtInv, NEW t \in Threads, UNCHANGED now,
         RecordLooksUp(t) \/ RecordInserts(t) \/ RecordTotal(t) \/ RecordBucket(t)
  PROVE  CtInv'
<1>. DEFINE Onwards == {"insert", "again", "total", "bucket", "submit"}
<1>1. /\ now \in Nat /\ ctThread[t] \in CtRecord
      /\ insp_connect_metrics \in [DOMAIN insp_connect_metrics -> MetricElems]
      /\ UNCHANGED <<insp_connect_start, ctStart, ctReused, ctEvent>>
      /\ ctThread[t].at \in {"lookup", "insert", "again", "total", "bucket"}
      /\ ctThread[t].since <= now /\ ctThread[t].since <= ctThread[t].clock /\ ctThread[t].clock <= now
      /\ ~ctReused => ctThread[t].latency = ctThread[t].clock - ctThread[t].since
  BY CtAssumption
  DEF CtInv, CtShapes, StartIsOwn, RecordLooksUp, RecordInserts, RecordTotal, RecordBucket, At
<1>2. insp_connect_metrics' \in [DOMAIN insp_connect_metrics' -> MetricElems]
  <2>1. CASE insp_connect_metrics' = insp_connect_metrics  BY <1>1, <2>1, Zenon
  <2>2. ASSUME NEW e \in MetricElems,
               insp_connect_metrics' = HashUpdate(insp_connect_metrics, ctThread[t].netns, e, CtMaxMetrics)
        PROVE  insp_connect_metrics' \in [DOMAIN insp_connect_metrics' -> MetricElems]
    BY <1>1, <2>2, Zenon DEF HashUpdate, Put
  <2>3. QED  BY <2>1, <2>2, Zenon DEF RecordLooksUp, RecordInserts, RecordTotal, RecordBucket, FreeElems
<1>3. ASSUME NEW p \in CtRecord, ctThread' = [ctThread EXCEPT ![t] = p], p.at \in Onwards,
             p.since = ctThread[t].since, p.clock = ctThread[t].clock, p.latency = ctThread[t].latency
      PROVE  CtInv'
  <2>1. p.at # "connect" /\ p.at \notin {"clock", "read"}  BY <1>3, Zenon
  <2>2. CtShapes' /\ StartsApart' /\ StartIsOwn'  BY <1>1, <1>2, <1>3, <2>1, CtExitKeeps, Zenon
  <2>3. QED  BY <1>1, <2>2, Zenon DEF CtInv, ConnectLatencyIsOwn
<1>4. ASSUME NEW pc \in Onwards, Goes(t, pc)
      PROVE  CtInv'
  <2>. DEFINE p == [ctThread[t] EXCEPT !.at = pc]
  <2>1. /\ p \in CtRecord /\ p.at = pc /\ p.since = ctThread[t].since /\ p.clock = ctThread[t].clock
        /\ p.latency = ctThread[t].latency
    BY <1>1, Zenon DEF CtRecord, CtStates
  <2>2. ctThread' = [ctThread EXCEPT ![t] = p]  BY <1>4, Zenon DEF Goes
  <2>. HIDE DEF p
  <2>3. QED  BY <1>3, <2>1, <2>2, Zenon
<1>5. ASSUME NEW e \in MetricElems, ctThread' = [ctThread EXCEPT ![t].at = "total", ![t].mtr = e]
      PROVE  CtInv'
  <2>. DEFINE p == [ctThread[t] EXCEPT !.at = "total", !.mtr = e]
  <2>1. /\ p \in CtRecord /\ p.at = "total" /\ p.since = ctThread[t].since /\ p.clock = ctThread[t].clock
        /\ p.latency = ctThread[t].latency
    BY <1>1, Zenon DEF CtRecord, CtStates
  <2>2. ctThread' = [ctThread EXCEPT ![t] = p]  BY <1>5, Zenon
  <2>. HIDE DEF p
  <2>3. QED  BY <1>3, <2>1, <2>2, Zenon
<1>6. CASE RecordLooksUp(t)  BY <1>1, <1>4, <1>5, <1>6, Zenon DEF RecordLooksUp
<1>7. QED  BY <1>4, <1>6, Zenon DEF RecordInserts, RecordTotal, RecordBucket

LEMMA CtSubmitKeeps ==
  ASSUME CtInv, NEW t \in Threads, NEW full \in BOOLEAN, ExitSubmits(t, full), UNCHANGED now
  PROVE  CtInv'
<1>1. /\ now \in Nat /\ UNCHANGED <<insp_connect_start, ctStart, insp_connect_metrics, ctReused>>
      /\ insp_connect_metrics \in [DOMAIN insp_connect_metrics -> MetricElems]
      /\ ctThread' = [ctThread EXCEPT ![t] = Outside]
      /\ ~ctReused => ctThread[t].latency = ctThread[t].clock - ctThread[t].since
  BY CtAssumption DEF CtInv, CtShapes, StartIsOwn, ExitSubmits, At, Leaves
<1>2. Outside \in CtRecord /\ Outside.at = "user" /\ Outside.since <= now
  BY <1>1 DEF Outside, CtRecord, CtStates
<1>3. CtShapes' /\ StartsApart' /\ StartIsOwn'
  <2>. HIDE DEF Outside
  <2>. QED  BY <1>1, <1>2, CtExitKeeps, Zenon
<1>4. ConnectLatencyIsOwn'  BY <1>1 DEF CtInv, ConnectLatencyIsOwn, ExitSubmits
<1>5. QED  BY <1>3, <1>4, Zenon DEF CtInv

LEMMA CtKept ==
  ASSUME CtInv, CtNext \/ (Later /\ UNCHANGED ctVars)
  PROVE  CtInv'
<1>1. CASE CtStep /\ UNCHANGED now
  BY <1>1, CtEnterKeeps, CtDeleteKeeps, CtReadKeeps, CtRecordKeeps, CtSubmitKeeps, Zenon DEF CtStep
<1>2. CASE (KernelTick \/ Later) /\ UNCHANGED ctVars
  <2>1. now \in Nat /\ now' \in 0..MaxTime /\ now' >= now
    BY <1>2, CtAssumption DEF CtInv, CtShapes, KernelTick, Later
  <2>2. UNCHANGED <<ctThread, insp_connect_start, ctStart, insp_connect_metrics, ctEvent, ctReused>>
    BY <1>2, Zenon DEF ctVars
  <2>3. \A t \in Threads : ctThread[t].since \in Nat /\ ctThread[t].clock \in Nat
    BY Zenon DEF CtInv, CtShapes, CtRecord
  <2>4. CtShapes'  BY <2>1, <2>2, Zenon DEF CtInv, CtShapes
  <2>5. StartIsOwn'  BY <2>1, <2>2, <2>3 DEF CtInv, StartIsOwn
  <2>6. QED  BY <2>2, <2>4, <2>5, Zenon DEF CtInv, StartsApart, ConnectLatencyIsOwn
<1>3. QED  BY <1>1, <1>2, Zenon DEF CtNext

LEMMA CtStarts ==
  ASSUME now = 1, CtInit
  PROVE  CtInv
<1>1. insp_connect_start = << >> /\ insp_connect_metrics = << >>  BY Zenon DEF CtInit
<1>2. DOMAIN << >> = {} /\ \A S : << >> \in [{} -> S]  OBVIOUS
<1>3. /\ insp_connect_start \in [DOMAIN insp_connect_start -> StartElems] /\ DOMAIN insp_connect_start = {}
      /\ insp_connect_metrics \in [DOMAIN insp_connect_metrics -> MetricElems]
  BY <1>1, <1>2, Zenon
<1>4. Outside \in CtRecord /\ Outside.at = "user" /\ Outside.since = 0  BY Zenon DEF Outside, CtRecord, CtStates
<1>5. CtShapes
  <2>. HIDE DEF Outside
  <2>1. ctThread = [t \in Threads |-> Outside] /\ ctStart = [e \in StartElems |-> 0] /\ ctReused = FALSE
    BY Zenon DEF CtInit
  <2>2. ctThread \in [Threads -> CtRecord] /\ ctStart \in [StartElems -> Nat]  BY <1>4, <2>1, Zenon
  <2>3. DOMAIN insp_connect_start \subseteq Threads  BY <1>3, Zenon
  <2>4. now \in 0..MaxTime  BY CtAssumption
  <2>5. QED  BY <1>3, <2>1, <2>2, <2>3, <2>4, Zenon DEF CtShapes
<1>6. StartIsOwn /\ StartsApart
  <2>. HIDE DEF Outside
  <2>. QED  BY <1>3, <1>4 DEF StartIsOwn, StartsApart, CtInit
<1>7. QED  BY <1>5, <1>6, Zenon DEF CtInv, ConnectLatencyIsOwn, CtInit

\* What record_latency counts, and where: a namespace has its own element; as long as none
\* was replaced, a thread that is about to add holds its own namespace's element, and every
\* connect counted is in the total.
CtCountInv ==
  /\ ctMetric \in [MetricElems -> [connect_total : Nat, lat_1ms : Nat, lat_10ms : Nat, lat_100ms : Nat]]
  /\ ctCounted \in [Netns -> Nat] /\ DOMAIN insp_connect_metrics \subseteq Netns
  /\ \A n, k \in DOMAIN insp_connect_metrics : insp_connect_metrics[n] = insp_connect_metrics[k] => n = k
  /\ \A t \in Threads : ctThread[t].at \in {"lookup", "insert", "again", "total", "bucket"} =>
       ctThread[t].netns \in Netns
  /\ \A t \in Threads : ctThread[t].at \in {"total", "bucket"} =>
       /\ ctThread[t].mtr \in MetricElems /\ ctThread[t].netns \in DOMAIN insp_connect_metrics
       /\ ~ctReplaced => ctThread[t].mtr = insp_connect_metrics[ctThread[t].netns]
  /\ ConnectsAllCounted

\* A step of t that touches no counter, t becoming p.
LEMMA CtNoCount ==
  ASSUME CtInv, CtCountInv, NEW t \in Threads, NEW p, ctThread' = [ctThread EXCEPT ![t] = p],
         UNCHANGED <<insp_connect_metrics, ctMetric, ctCounted, ctReplaced>>,
         p.at \in {"lookup", "insert", "again", "total", "bucket"} => p.netns \in Netns,
         p.at \in {"total", "bucket"} =>
           p.netns \in DOMAIN insp_connect_metrics /\ p.mtr = insp_connect_metrics[p.netns]
  PROVE  CtCountInv'
<1>1. ctThread \in [Threads -> CtRecord] /\ insp_connect_metrics \in [DOMAIN insp_connect_metrics -> MetricElems]
  BY Zenon DEF CtInv, CtShapes
<1>2. ctThread'[t] = p /\ \A u \in Threads : u # t => ctThread'[u] = ctThread[u]  BY <1>1, Zenon
<1>3. p.at \in {"total", "bucket"} => p.mtr \in MetricElems  BY <1>1, Zenon
<1>4. ASSUME NEW u \in Threads
      PROVE  /\ ctThread'[u].at \in {"lookup", "insert", "again", "total", "bucket"} => ctThread'[u].netns \in Netns
             /\ ctThread'[u].at \in {"total", "bucket"} =>
                  /\ ctThread'[u].mtr \in MetricElems /\ ctThread'[u].netns \in DOMAIN insp_connect_metrics
                  /\ ~ctReplaced => ctThread'[u].mtr = insp_connect_metrics[ctThread'[u].netns]
  <2>1. CASE u = t  BY <1>2, <1>3, <2>1, Zenon
  <2>2. CASE u # t  BY <1>2, <2>2, Zenon DEF CtCountInv
  <2>3. QED  BY <2>1, <2>2, Zenon
<1>5. ConnectsAllCounted'  BY Zenon DEF CtCountInv, ConnectsAllCounted
<1>6. QED  BY <1>4, <1>5, Zenon DEF CtCountInv

\* Zeroes are inserted in an element that no namespace has, for a namespace that had none or
\* is recorded in ctReplaced.
LEMMA CtInsertCounts ==
  ASSUME CtInv, CtCountInv, NEW t \in Threads, RecordInserts(t)
  PROVE  CtCountInv'
<1> DEFINE n == ctThread[t].netns
           m == insp_connect_metrics
           p == [ctThread[t] EXCEPT !.at = "again"]
<1>1. ctThread \in [Threads -> CtRecord] /\ m \in [DOMAIN m -> MetricElems]
  BY Zenon DEF CtInv, CtShapes
<1>2. ctThread' = [ctThread EXCEPT ![t] = p] /\ p \in CtRecord /\ p.at = "again" /\ p.netns = n /\ n \in Netns
  <2>1. ctThread[t] \in CtRecord /\ "again" \in CtStates  BY <1>1, Zenon DEF CtStates
  <2>2. p \in CtRecord /\ p.at = "again" /\ p.netns = n  BY <2>1 DEF CtRecord
  <2>3. ctThread' = [ctThread EXCEPT ![t] = p]  BY <1>1 DEF RecordInserts, Goes
  <2>4. n \in Netns  BY Zenon DEF RecordInserts, At, CtCountInv
  <2>5. QED  BY <2>2, <2>3, <2>4, Zenon
<1>3. CASE UNCHANGED <<insp_connect_metrics, ctMetric, ctReplaced>>
  <2>1. UNCHANGED ctCounted  BY Zenon DEF RecordInserts
  <2>2. ~(p.at \in {"total", "bucket"})  BY <1>2, Zenon
  <2> HIDE DEF p, n
  <2>3. QED  BY <1>2, <1>3, <2>1, <2>2, CtNoCount, Zenon
<1>4. ASSUME NEW e \in FreeElems(MetricElems, m), Fits(m, n, CtMaxMetrics),
             m' = HashUpdate(m, n, e, CtMaxMetrics), ctMetric' = [ctMetric EXCEPT ![e] = ZeroMetric],
             ctReplaced' = (ctReplaced \/ n \in DOMAIN m), ctCounted' = ctCounted
      PROVE  CtCountInv'
  <2>1. m' = Put(m, n, e)  BY <1>4, Zenon DEF HashUpdate, Fits
  <2>2. /\ DOMAIN m' = DOMAIN m \cup {n} /\ m'[n] = e
        /\ \A k \in DOMAIN m : k # n => m'[k] = m[k]
    BY <2>1, Zenon DEF Put
  <2>3. e \in MetricElems /\ \A k \in DOMAIN m : m[k] # e  BY <1>4, Zenon DEF FreeElems, Range
  <2>4. DOMAIN m' \subseteq Netns  BY <2>2, <1>2, Zenon DEF CtCountInv
  <2>5. ASSUME NEW j \in DOMAIN m', NEW k \in DOMAIN m', m'[j] = m'[k]
        PROVE  j = k
    <3>1. \A a, b \in DOMAIN m : m[a] = m[b] => a = b  BY Zenon DEF CtCountInv
    <3> HIDE DEF m, n
    <3>2. CASE j = n /\ k # n  BY <2>2, <2>3, <2>5, <3>2, Zenon
    <3>3. CASE k = n /\ j # n  BY <2>2, <2>3, <2>5, <3>3, Zenon
    <3>4. CASE j # n /\ k # n  BY <2>2, <2>5, <3>1, <3>4, Zenon
    <3>5. QED  BY <3>2, <3>3, <3>4, Zenon
  <2>6. ctMetric' \in [MetricElems -> [connect_total : Nat, lat_1ms : Nat, lat_10ms : Nat, lat_100ms : Nat]]
        /\ ctMetric'[e].connect_total = 0 /\ \A x \in MetricElems : x # e => ctMetric'[x] = ctMetric[x]
    <3>1. ZeroMetric \in [connect_total : Nat, lat_1ms : Nat, lat_10ms : Nat, lat_100ms : Nat]
          /\ ZeroMetric.connect_total = 0
      BY DEF ZeroMetric
    <3>2. QED  BY <3>1, <1>4, <2>3, Zenon DEF CtCountInv
  <2>7. ctThread'[t].at = "again" /\ ctThread'[t].netns = n
        /\ \A u \in Threads : u # t => ctThread'[u] = ctThread[u]
    <3> HIDE DEF p
    <3> QED  BY <1>1, <1>2, Zenon
  <2>8. ASSUME NEW u \in Threads
        PROVE  /\ ctThread'[u].at \in {"lookup", "insert", "again", "total", "bucket"} => ctThread'[u].netns \in Netns
               /\ ctThread'[u].at \in {"total", "bucket"} =>
                    /\ ctThread'[u].mtr \in MetricElems /\ ctThread'[u].netns \in DOMAIN m'
                    /\ ~ctReplaced' => ctThread'[u].mtr = m'[ctThread'[u].netns]
    <3>1. CASE u = t
      <4>1. ~(ctThread'[u].at \in {"total", "bucket"})  BY <3>1, <2>7, Zenon
      <4>2. QED  BY <3>1, <2>7, <1>2, <4>1, Zenon
    <3>2. CASE u # t
      <4>1. ctThread'[u] = ctThread[u]  BY <2>7, <3>2, Zenon
      <4>2. ASSUME ctThread[u].at \in {"total", "bucket"}
            PROVE  /\ ctThread[u].mtr \in MetricElems /\ ctThread[u].netns \in DOMAIN m'
                   /\ ~ctReplaced' => ctThread[u].mtr = m'[ctThread[u].netns]
        <5>1. ctThread[u].mtr \in MetricElems /\ ctThread[u].netns \in DOMAIN m
              /\ (~ctReplaced => ctThread[u].mtr = m[ctThread[u].netns])
          BY <4>2, Zenon DEF CtCountInv
        <5>2. ~ctReplaced' => ~ctReplaced /\ n \notin DOMAIN m  BY <1>4, Zenon
        <5> HIDE DEF m, n
        <5>3. QED  BY <5>1, <5>2, <2>2, Zenon
      <4>3. ctThread[u].at \in {"lookup", "insert", "again", "total", "bucket"} => ctThread[u].netns \in Netns
        BY Zenon DEF CtCountInv
      <4>4. QED  BY <4>1, <4>2, <4>3, Zenon
    <3>3. QED  BY <3>1, <3>2, Zenon
  <2>9. ASSUME ~ctReplaced', NEW k \in Netns
        PROVE  ctCounted'[k] = IF k \in DOMAIN m' THEN ctMetric'[m'[k]].connect_total ELSE 0
    <3>1. ~ctReplaced /\ n \notin DOMAIN m  BY <1>4, <2>9, Zenon
    <3>2. ctCounted[k] = IF k \in DOMAIN m THEN ctMetric[m[k]].connect_total ELSE 0
      BY <3>1, Zenon DEF CtCountInv, ConnectsAllCounted
    <3>3. CASE k = n  BY <3>1, <3>2, <3>3, <2>2, <2>6, <1>4, Zenon
    <3>4. CASE k # n
      <4>1. k \in DOMAIN m => m[k] \in MetricElems /\ m[k] # e /\ m'[k] = m[k]  BY <1>1, <2>2, <2>3, <3>4, Zenon
      <4>2. k \in DOMAIN m' <=> k \in DOMAIN m  BY <2>2, <3>4, Zenon
      <4> HIDE DEF m, n
      <4>3. QED  BY <4>1, <4>2, <3>2, <2>6, <1>4, Zenon
    <3>5. QED  BY <3>3, <3>4, Zenon
  <2>10. ConnectsAllCounted'  BY <2>9, Zenon DEF ConnectsAllCounted
  <2>11. QED  BY <1>4, <2>4, <2>5, <2>6, <2>8, <2>10, Zenon DEF CtCountInv
<1>5. QED  BY <1>3, <1>4, Zenon DEF RecordInserts

\* The total goes up together with the connects counted, in the namespace's own element.
LEMMA CtTotalCounts ==
  ASSUME CtInv, CtCountInv, NEW t \in Threads, RecordTotal(t)
  PROVE  CtCountInv'
<1> DEFINE n == ctThread[t].netns
           e == ctThread[t].mtr
           m == insp_connect_metrics
           p == [ctThread[t] EXCEPT !.at = "bucket"]
<1>1. ctThread \in [Threads -> CtRecord] /\ m \in [DOMAIN m -> MetricElems]
  BY Zenon DEF CtInv, CtShapes
<1>2. e \in MetricElems /\ n \in DOMAIN m /\ n \in Netns /\ (~ctReplaced => e = m[n])
  BY Zenon DEF RecordTotal, At, CtCountInv
<1>3. ctThread'[t].at = "bucket" /\ ctThread'[t].netns = n /\ ctThread'[t].mtr = e
      /\ \A u \in Threads : u # t => ctThread'[u] = ctThread[u]
  <2>1. ctThread[t] \in CtRecord  BY <1>1, Zenon
  <2>2. ctThread' = [ctThread EXCEPT ![t] = p]  BY <1>1 DEF RecordTotal, Goes
  <2>3. p.at = "bucket" /\ p.netns = n /\ p.mtr = e  BY <2>1 DEF CtRecord
  <2> HIDE DEF p, n, e
  <2>4. QED  BY <1>1, <2>2, <2>3, Zenon
<1>4. m' = m /\ ctReplaced' = ctReplaced  BY Zenon DEF RecordTotal
<1>5. ctCounted' \in [Netns -> Nat] /\ ctCounted'[n] = ctCounted[n] + 1
      /\ \A k \in Netns : k # n => ctCounted'[k] = ctCounted[k]
  <2>1. ctCounted \in [Netns -> Nat] /\ ctCounted' = [ctCounted EXCEPT ![n] = @ + 1]
    BY Zenon DEF CtCountInv, RecordTotal
  <2>2. ctCounted[n] + 1 \in Nat
    <3>1. ctCounted[n] \in Nat  BY <2>1, <1>2, Zenon
    <3>2. QED  BY <3>1
  <2> HIDE DEF n
  <2>3. QED  BY <2>1, <2>2, <1>2, Zenon
<1>6. /\ ctMetric' \in [MetricElems -> [connect_total : Nat, lat_1ms : Nat, lat_10ms : Nat, lat_100ms : Nat]]
      /\ ctMetric'[e].connect_total = ctMetric[e].connect_total + 1
      /\ \A x \in MetricElems : x # e => ctMetric'[x] = ctMetric[x]
  <2>1. ctMetric \in [MetricElems -> [connect_total : Nat, lat_1ms : Nat, lat_10ms : Nat, lat_100ms : Nat]]
        /\ ctMetric' = [ctMetric EXCEPT ![e].connect_total = @ + 1]
    BY Zenon DEF CtCountInv, RecordTotal
  <2> HIDE DEF e
  <2>2. QED  BY <2>1, <1>2
<1> HIDE DEF p
<1>7. ASSUME NEW u \in Threads
      PROVE  /\ ctThread'[u].at \in {"lookup", "insert", "again", "total", "bucket"} => ctThread'[u].netns \in Netns
             /\ ctThread'[u].at \in {"total", "bucket"} =>
                  /\ ctThread'[u].mtr \in MetricElems /\ ctThread'[u].netns \in DOMAIN m
                  /\ ~ctReplaced => ctThread'[u].mtr = m[ctThread'[u].netns]
  <2>1. CASE u = t
    <3> HIDE DEF n, e, m
    <3> QED  BY <1>2, <1>3, <2>1, Zenon
  <2>2. CASE u # t  BY <1>3, <2>2, Zenon DEF CtCountInv
  <2>3. QED  BY <2>1, <2>2, Zenon
<1>8. ASSUME ~ctReplaced, NEW k \in Netns
      PROVE  ctCounted'[k] = IF k \in DOMAIN m THEN ctMetric'[m[k]].connect_total ELSE 0
  <2>1. ctCounted[k] = IF k \in DOMAIN m THEN ctMetric[m[k]].connect_total ELSE 0
    BY <1>8, Zenon DEF CtCountInv, ConnectsAllCounted
  <2>2. CASE k = n
    <3> HIDE DEF n, e, m
    <3> QED  BY <2>1, <2>2, <1>2, <1>5, <1>6, <1>8, Zenon
  <2>3. CASE k # n
    <3>1. k \in DOMAIN m => m[k] # m[n]  BY <2>3, <1>2, Zenon DEF CtCountInv
    <3>2. k \in DOMAIN m => m[k] \in MetricElems  BY <1>1, Zenon
    <3> HIDE DEF n, e, m
    <3>3. QED  BY <2>1, <2>3, <1>2, <1>5, <1>6, <1>8, <3>1, <3>2, Zenon
  <2>4. QED  BY <2>2, <2>3, Zenon
<1>9. ConnectsAllCounted'  BY <1>4, <1>8, Zenon DEF ConnectsAllCounted
<1>10. QED  BY <1>4, <1>5, <1>6, <1>7, <1>9, Zenon DEF CtCountInv

\* The buckets are not the total.
LEMMA CtBucketCounts ==
  ASSUME CtInv, CtCountInv, NEW t \in Threads, RecordBucket(t)
  PROVE  CtCountInv'
<1> DEFINE e == ctThread[t].mtr
           m == insp_connect_metrics
           p == [ctThread[t] EXCEPT !.at = "submit"]
           M == [connect_total : Nat, lat_1ms : Nat, lat_10ms : Nat, lat_100ms : Nat]
<1>1. ctThread \in [Threads -> CtRecord] /\ m \in [DOMAIN m -> MetricElems] /\ ctMetric \in [MetricElems -> M]
  BY Zenon DEF CtInv, CtShapes, CtCountInv
<1>2. e \in MetricElems  BY Zenon DEF RecordBucket, At, CtCountInv
<1>3. ctThread'[t].at = "submit" /\ \A u \in Threads : u # t => ctThread'[u] = ctThread[u]
  <2>1. ctThread[t] \in CtRecord  BY <1>1, Zenon
  <2>2. ctThread' = [ctThread EXCEPT ![t] = p]  BY <1>1 DEF RecordBucket, Goes
  <2>3. p.at = "submit"  BY <2>1 DEF CtRecord
  <2> HIDE DEF p
  <2>4. QED  BY <1>1, <2>2, <2>3, Zenon
<1>4. m' = m /\ ctReplaced' = ctReplaced /\ ctCounted' = ctCounted  BY Zenon DEF RecordBucket
<1>5. ctMetric' \in [MetricElems -> M] /\ \A x \in MetricElems : ctMetric'[x].connect_total = ctMetric[x].connect_total
  <2>1. ASSUME NEW v \in M, NEW lat
        PROVE  AddLatency(v, lat) \in M /\ AddLatency(v, lat).connect_total = v.connect_total
    BY DEF AddLatency
  <2> DEFINE v == AddLatency(ctMetric[e], ctThread[t].latency)
  <2>2. v \in M /\ v.connect_total = ctMetric[e].connect_total
    <3>1. ctMetric[e] \in M  BY <1>1, <1>2, Zenon
    <3>2. QED  BY <2>1, <3>1, Zenon
  <2>3. ctMetric' = [ctMetric EXCEPT ![e] = v]  BY Zenon DEF RecordBucket
  <2> HIDE DEF v, M, e
  <2>4. QED  BY <1>1, <1>2, <2>2, <2>3, Zenon
<1> HIDE DEF p
<1>6. ASSUME NEW u \in Threads
      PROVE  /\ ctThread'[u].at \in {"lookup", "insert", "again", "total", "bucket"} => ctThread'[u].netns \in Netns
             /\ ctThread'[u].at \in {"total", "bucket"} =>
                  /\ ctThread'[u].mtr \in MetricElems /\ ctThread'[u].netns \in DOMAIN m
                  /\ ~ctReplaced => ctThread'[u].mtr = m[ctThread'[u].netns]
  <2>1. CASE u = t
    <3>1. ~(ctThread'[u].at \in {"lookup", "insert", "again", "total", "bucket"})  BY <1>3, <2>1
    <3>2. QED  BY <3>1, Zenon
  <2>2. CASE u # t  BY <1>3, <2>2, Zenon DEF CtCountInv
  <2>3. QED  BY <2>1, <2>2, Zenon
<1>7. ConnectsAllCounted'
  <2>1. ASSUME ~ctReplaced, NEW k \in Netns
        PROVE  ctCounted[k] = IF k \in DOMAIN m THEN ctMetric'[m[k]].connect_total ELSE 0
    <3>1. ctCounted[k] = IF k \in DOMAIN m THEN ctMetric[m[k]].connect_total ELSE 0
      BY <2>1, Zenon DEF CtCountInv, ConnectsAllCounted
    <3>2. k \in DOMAIN m => m[k] \in MetricElems  BY <1>1, Zenon
    <3>3. QED  BY <1>5, <3>1, <3>2, Zenon
  <2>2. QED  BY <1>4, <2>1, Zenon DEF ConnectsAllCounted
<1>8. QED  BY <1>4, <1>5, <1>6, <1>7, Zenon DEF CtCountInv

\* Every step of the program, and of another one, keeps the counts.
LEMMA CtCountKept ==
  ASSUME CtInv, CtCountInv, CtNext \/ (Later /\ UNCHANGED ctVars)
  PROVE  CtCountInv'
<1>1. CASE UNCHANGED ctVars
  BY <1>1, Zenon DEF ctVars, CtCountInv, ConnectsAllCounted
<1>2. ASSUME NEW t \in Threads, \/ trace_sys_enter_connect(t)
                                \/ \E ret \in {0, -1} : ExitDeletes(t, ret)
                                \/ ExitReadsClock(t)
                                \/ \E netns \in Netns : ExitReadsStart(t, netns)
                                \/ RecordLooksUp(t)
                                \/ \E full \in BOOLEAN : ExitSubmits(t, full)
      PROVE  CtCountInv'
  <2>1. ctThread[t] \in CtRecord  BY Zenon DEF CtInv, CtShapes
  <2> DEFINE Quiet(p) == ctThread' = [ctThread EXCEPT ![t] = p]
                         /\ ~(p.at \in {"lookup", "insert", "again", "total", "bucket"})
  <2>2. ASSUME NEW p, Quiet(p), UNCHANGED <<insp_connect_metrics, ctMetric, ctCounted, ctReplaced>>
        PROVE  CtCountInv'
    BY <2>2, CtNoCount, Zenon
  <2>3. CASE trace_sys_enter_connect(t)
    <3>1. Quiet([ctThread[t] EXCEPT !.at = "connect", !.since = now])
      BY <2>1, <2>3 DEF trace_sys_enter_connect, CtRecord
    <3> HIDE DEF Quiet
    <3>2. QED  BY <2>2, <2>3, <3>1, Zenon DEF trace_sys_enter_connect
  <2>4. ASSUME NEW ret, ExitDeletes(t, ret)
        PROVE  CtCountInv'
    <3>1. \/ Quiet([ctThread[t] EXCEPT !.at = "clock", !.elem = insp_connect_start[t]])
          \/ Quiet(Outside)
      BY <2>1, <2>4 DEF ExitDeletes, Leaves, Outside, CtRecord
    <3> HIDE DEF Quiet
    <3>2. QED  BY <2>2, <2>4, <3>1, Zenon DEF ExitDeletes
  <2>5. CASE ExitReadsClock(t)
    <3>1. Quiet([ctThread[t] EXCEPT !.at = "read", !.clock = now])
      BY <2>1, <2>5 DEF ExitReadsClock, CtRecord
    <3> HIDE DEF Quiet
    <3>2. QED  BY <2>2, <2>5, <3>1, Zenon DEF ExitReadsClock
  <2>6. ASSUME NEW n \in Netns, ExitReadsStart(t, n)
        PROVE  CtCountInv'
    <3> DEFINE p == [ctThread[t] EXCEPT !.at = "lookup", !.netns = n,
                       !.latency = (ctThread[t].clock - ctStart[ctThread[t].elem]) % WordMod]
    <3>1. ctThread' = [ctThread EXCEPT ![t] = p]  BY <2>6, Zenon DEF ExitReadsStart
    <3>2. p.at = "lookup" /\ p.netns = n  BY <2>1 DEF CtRecord
    <3>3. ~(p.at \in {"total", "bucket"})  BY <3>2
    <3> HIDE DEF p
    <3>4. QED  BY <2>6, <3>1, <3>2, <3>3, CtNoCount, Zenon DEF ExitReadsStart
  <2>7. CASE RecordLooksUp(t)
    <3> DEFINE m == insp_connect_metrics
    <3>1. ctThread[t].netns \in Netns  BY <2>7, Zenon DEF RecordLooksUp, At, CtCountInv
    <3>2. UNCHANGED <<insp_connect_metrics, ctMetric, ctCounted, ctReplaced>>  BY <2>7, Zenon DEF RecordLooksUp
    <3>3. CASE ctThread[t].netns \in DOMAIN m
      <4> DEFINE p == [ctThread[t] EXCEPT !.at = "total", !.mtr = m[ctThread[t].netns]]
      <4>1. ctThread' = [ctThread EXCEPT ![t] = p]  BY <2>7, <3>3, Zenon DEF RecordLooksUp
      <4>2. p.netns = ctThread[t].netns /\ p.mtr = m[ctThread[t].netns]  BY <2>1 DEF CtRecord
      <4> HIDE DEF p
      <4>3. QED  BY <3>1, <3>2, <3>3, <4>1, <4>2, CtNoCount, Zenon
    <3>4. CASE ctThread[t].netns \notin DOMAIN m
      <4> DEFINE p == [ctThread[t] EXCEPT !.at = IF At(t, "lookup") THEN "insert" ELSE "submit"]
      <4>1. ctThread' = [ctThread EXCEPT ![t] = p]  BY <2>7, <3>4, Zenon DEF RecordLooksUp, Goes
      <4>2. p.netns = ctThread[t].netns /\ p.at \in {"insert", "submit"}  BY <2>1 DEF CtRecord
      <4>3. ~(p.at \in {"total", "bucket"})  BY <4>2
      <4> HIDE DEF p
      <4>4. QED  BY <3>1, <3>2, <4>1, <4>2, <4>3, CtNoCount, Zenon
    <3>5. QED  BY <3>3, <3>4, Zenon
  <2>8. ASSUME NEW full, ExitSubmits(t, full)
        PROVE  CtCountInv'
    <3>1. Quiet(Outside)  BY <2>8 DEF ExitSubmits, Leaves, Outside
    <3> HIDE DEF Quiet
    <3>2. QED  BY <2>2, <2>8, <3>1, Zenon DEF ExitSubmits
  <2>9. QED  BY <1>2, <2>3, <2>4, <2>5, <2>6, <2>7, <2>8, Zenon
<1>3. CASE CtStep
  BY <1>2, <1>3, CtInsertCounts, CtTotalCounts, CtBucketCounts, Zenon DEF CtStep
<1>4. QED  BY <1>1, <1>3, Zenon DEF CtNext

LEMMA CtCountStarts ==
  ASSUME CtInit
  PROVE  CtCountInv
<1>1. \A t \in Threads : ~(ctThread[t].at \in {"lookup", "insert", "again", "total", "bucket"})
  BY DEF CtInit, Outside
<1>2. ctMetric \in [MetricElems -> [connect_total : Nat, lat_1ms : Nat, lat_10ms : Nat, lat_100ms : Nat]]
  BY DEF CtInit, ZeroMetric
<1>3. DOMAIN insp_connect_metrics = {}  BY DEF CtInit
<1>4. ctCounted \in [Netns -> Nat] /\ \A n \in Netns : ctCounted[n] = 0  BY DEF CtInit
<1>5. QED  BY <1>1, <1>2, <1>3, <1>4, Zenon DEF CtCountInv, ConnectsAllCounted

-----------------------------------------------------------------------------
(* PacketTrace *)

FlCount == [packets : Nat, bytes : Nat]
FlTuples == {set_flow_tuple4(f, port) : f \in Frames, port \in BOOLEAN} \cup {Refused}
FlRecord == [hit : BOOLEAN, gone : BOOLEAN, tuple : FlTuples, len : Nat]

Packets(r) == [c \in FlCpus |-> r[c].packets]
Bytes(r)   == [c \in FlCpus |-> r[c].bytes]

\* The values of the CPUs add up to q.
AddUpTo(r, q) == IsSum(Packets(r), FlCpus, q.packets) /\ IsSum(Bytes(r), FlCpus, q.bytes)

FlShapes ==
  /\ flEnablePort \in BOOLEAN /\ flCpu \in [FlCpus -> FlRecord]
  /\ insp_flow4_metrics \in [DOMAIN insp_flow4_metrics -> [FlCpus -> FlCount]]
  /\ IsFiniteSet(DOMAIN insp_flow4_metrics) /\ Cardinality(DOMAIN insp_flow4_metrics) <= FlMaxEntries
  /\ flSeen \in [DOMAIN insp_flow4_metrics -> FlCount]

\* A CPU that missed a tuple has counted nothing in an entry that another CPU inserted for it
\* since, and one that found it has it still, unless it was evicted.
LookupsHold == \A c \in FlCpus : LET f == flCpu[c] IN
  /\ f # Idle /\ ~f.hit /\ f.tuple \in DOMAIN insp_flow4_metrics => insp_flow4_metrics[f.tuple][c] = NoCount
  /\ f.hit /\ ~f.gone => f.tuple \in DOMAIN insp_flow4_metrics

FlowsAddUp == ~flStale => \A t \in DOMAIN insp_flow4_metrics : AddUpTo(insp_flow4_metrics[t], flSeen[t])

FlInv == FlShapes /\ LookupsHold /\ FlowsAddUp

\* One more packet on CPU c.
LEMMA CountsOneMore ==
  ASSUME NEW r \in [FlCpus -> FlCount], NEW q \in FlCount, AddUpTo(r, q), NEW c \in FlCpus, NEW len \in Nat
  PROVE  AddUpTo([r EXCEPT ![c] = Count(r[c], len)], Count(q, len))
<1> DEFINE s == [r EXCEPT ![c] = Count(r[c], len)]
<1>1. r[c] \in FlCount /\ IsFiniteSet(FlCpus) /\ 1 \in Nat  BY PtAssumption
<1>2. /\ Count(r[c], len).packets = r[c].packets + 1 /\ Count(r[c], len).bytes = r[c].bytes + len
      /\ Count(q, len).packets = q.packets + 1 /\ Count(q, len).bytes = q.bytes + len
  BY Zenon DEF Count
<1>3. s[c] = Count(r[c], len) /\ \A d \in FlCpus : d # c => s[d] = r[d]  BY Zenon
<1>n. \A d \in FlCpus : r[d].packets \in Nat /\ r[d].bytes \in Nat  BY DEF FlCount
<1> HIDE DEF s
<1>4. IsSum(Packets(s), FlCpus, q.packets + 1)
  <2>1. Numbers(Packets(r), FlCpus)  BY <1>n, Zenon DEF Numbers, Packets
  <2>2. Same(Packets(r), Packets(s), FlCpus \ {c})  BY <1>3, Zenon DEF Same, Packets
  <2>3. Packets(s)[c] = Packets(r)[c] + 1  BY <1>2, <1>3, Zenon DEF Packets
  <2>4. IsSum(Packets(r), FlCpus, q.packets)  BY Zenon DEF AddUpTo
  <2>5. QED  BY <1>1, <2>1, <2>2, <2>3, <2>4, SumBumps, Zenon
<1>5. IsSum(Bytes(s), FlCpus, q.bytes + len)
  <2>1. Numbers(Bytes(r), FlCpus)  BY <1>n, Zenon DEF Numbers, Bytes
  <2>2. Same(Bytes(r), Bytes(s), FlCpus \ {c})  BY <1>3, Zenon DEF Same, Bytes
  <2>3. Bytes(s)[c] = Bytes(r)[c] + len  BY <1>2, <1>3, Zenon DEF Bytes
  <2>4. IsSum(Bytes(r), FlCpus, q.bytes)  BY Zenon DEF AddUpTo
  <2>5. QED  BY <1>1, <2>1, <2>2, <2>3, <2>4, SumBumps, Zenon
<1>6. AddUpTo(s, Count(q, len))  BY <1>2, <1>4, <1>5, Zenon DEF AddUpTo
<1>7. QED  BY <1>6, Zenon DEF s

\* The first packet, on CPU c.
LEMMA CountsFirst ==
  ASSUME NEW c \in FlCpus, NEW len \in Nat, NEW fresh,
         fresh = [d \in FlCpus |-> IF d = c THEN [packets |-> 1, bytes |-> len] ELSE NoCount]
  PROVE  /\ AddUpTo(fresh, [packets |-> 1, bytes |-> len])
         /\ fresh \in [FlCpus -> FlCount] /\ [packets |-> 1, bytes |-> len] \in FlCount
         /\ [packets |-> 1, bytes |-> len] = Count(NoCount, len)
<1> DEFINE r == [d \in FlCpus |-> NoCount]
           value == [packets |-> 1, bytes |-> len]
<1>1. NoCount \in FlCount /\ value \in FlCount /\ value = Count(NoCount, len)  BY DEF NoCount, FlCount, Count
<1>2. r \in [FlCpus -> FlCount] /\ r[c] = NoCount  BY <1>1, Zenon
<1>3. fresh = [r EXCEPT ![c] = Count(r[c], len)] /\ fresh \in [FlCpus -> FlCount]
  <2> HIDE DEF value
  <2>1. fresh = [d \in FlCpus |-> IF d = c THEN value ELSE NoCount]  BY Zenon DEF value
  <2>2. [r EXCEPT ![c] = Count(r[c], len)] = [d \in FlCpus |-> IF d = c THEN value ELSE NoCount]
    BY <1>1, <1>2, Zenon
  <2>3. QED  BY <1>1, <2>1, <2>2, Zenon
<1>4. AddUpTo(r, NoCount)
  <2>1. NoCount.packets = 0 /\ NoCount.bytes = 0 /\ IsFiniteSet(FlCpus)  BY PtAssumption DEF NoCount
  <2>2. \A d \in FlCpus : Packets(r)[d] = 0 /\ Bytes(r)[d] = 0  BY <2>1, Zenon DEF Packets, Bytes
  <2> HIDE DEF r
  <2>3. IsSum(Packets(r), FlCpus, 0) /\ IsSum(Bytes(r), FlCpus, 0)  BY <2>1, <2>2, SumOfZeroes, Zenon
  <2>4. QED  BY <2>1, <2>3, Zenon DEF AddUpTo
<1> HIDE DEF r, value
<1>5. AddUpTo([r EXCEPT ![c] = Count(r[c], len)], Count(NoCount, len))
  BY <1>1, <1>2, <1>4, CountsOneMore, Zenon
<1>6. QED  BY <1>1, <1>3, <1>5, Zenon DEF value

\* CPU c is done, and only its own value of an entry may have changed.
LEMMA FlCpuDone ==
  ASSUME FlInv, NEW c \in FlCpus, flCpu' = [flCpu EXCEPT ![c] = Idle],
         \/ insp_flow4_metrics' = insp_flow4_metrics
         \/ \E t \in DOMAIN insp_flow4_metrics, v \in FlCount :
              insp_flow4_metrics' = [insp_flow4_metrics EXCEPT ![t] = [insp_flow4_metrics[t] EXCEPT ![c] = v]],
         flSeen' \in [DOMAIN insp_flow4_metrics -> FlCount], UNCHANGED flEnablePort
  PROVE  FlShapes' /\ LookupsHold'
<1> DEFINE m == insp_flow4_metrics
<1>1. flCpu \in [FlCpus -> FlRecord] /\ m \in [DOMAIN m -> [FlCpus -> FlCount]]  BY Zenon DEF FlInv, FlShapes
<1>2. /\ m' \in [DOMAIN m -> [FlCpus -> FlCount]] /\ DOMAIN m' = DOMAIN m
      /\ \A t \in DOMAIN m, d \in FlCpus : d # c => m'[t][d] = m[t][d]
  <2>1. CASE m' = m  BY <1>1, <2>1, Zenon
  <2>2. ASSUME NEW t \in DOMAIN m, NEW v \in FlCount, m' = [m EXCEPT ![t] = [m[t] EXCEPT ![c] = v]]
        PROVE  /\ m' \in [DOMAIN m -> [FlCpus -> FlCount]] /\ DOMAIN m' = DOMAIN m
               /\ \A u \in DOMAIN m, d \in FlCpus : d # c => m'[u][d] = m[u][d]
    <3> DEFINE r == [m[t] EXCEPT ![c] = v]
    <3>1. m[t] \in [FlCpus -> FlCount]  BY <1>1, Zenon
    <3>2. r \in [FlCpus -> FlCount] /\ \A d \in FlCpus : d # c => r[d] = m[t][d]  BY <3>1, Zenon
    <3>3. m' = [m EXCEPT ![t] = r]  BY <2>2, Zenon
    <3> HIDE DEF r, m
    <3>4. m' \in [DOMAIN m -> [FlCpus -> FlCount]] /\ m'[t] = r /\ \A u \in DOMAIN m : u # t => m'[u] = m[u]
      BY <1>1, <3>2, <3>3, Zenon
    <3>5. QED  BY <3>2, <3>4, Zenon
  <2>3. QED  BY <2>1, <2>2, Zenon
<1>3. Idle \in FlRecord /\ ~Idle.hit  BY DEF Idle, FlRecord, FlTuples
<1>4. /\ flCpu' \in [FlCpus -> FlRecord] /\ flCpu'[c] = Idle
      /\ \A d \in FlCpus : d # c => flCpu'[d] = flCpu[d]
  BY <1>1, <1>3, Zenon
<1>5. FlShapes'  BY <1>2, <1>4, Zenon DEF FlInv, FlShapes
<1>6. ASSUME NEW d \in FlCpus
      PROVE  /\ flCpu'[d] # Idle /\ ~flCpu'[d].hit /\ flCpu'[d].tuple \in DOMAIN m => m'[flCpu'[d].tuple][d] = NoCount
             /\ flCpu'[d].hit /\ ~flCpu'[d].gone => flCpu'[d].tuple \in DOMAIN m
  <2>1. CASE d = c  BY <1>3, <1>4, <2>1, Zenon
  <2>2. CASE d # c
    <3>1. /\ flCpu[d] # Idle /\ ~flCpu[d].hit /\ flCpu[d].tuple \in DOMAIN m => m[flCpu[d].tuple][d] = NoCount
          /\ flCpu[d].hit /\ ~flCpu[d].gone => flCpu[d].tuple \in DOMAIN m
      BY Zenon DEF FlInv, LookupsHold
    <3> HIDE DEF m
    <3>2. QED  BY <1>2, <1>4, <2>2, <3>1, Zenon
  <2>3. QED  BY <2>1, <2>2, Zenon
<1>7. LookupsHold'  BY <1>2, <1>6, Zenon DEF LookupsHold
<1>8. QED  BY <1>5, <1>7, Zenon

\* A packet is added to an entry that is in the map.
LEMMA FlCountsIn ==
  ASSUME FlInv, NEW c \in FlCpus, flCpu' = [flCpu EXCEPT ![c] = Idle],
         NEW t \in DOMAIN insp_flow4_metrics, NEW len \in Nat,
         insp_flow4_metrics' = [insp_flow4_metrics EXCEPT ![t] =
           [insp_flow4_metrics[t] EXCEPT ![c] = Count(insp_flow4_metrics[t][c], len)]],
         flSeen' = Seen(t, len), UNCHANGED <<flEnablePort, flStale>>
  PROVE  FlInv'
<1> DEFINE m == insp_flow4_metrics
           r == [m[t] EXCEPT ![c] = Count(m[t][c], len)]
           q == Count(flSeen[t], len)
<1>1. m \in [DOMAIN m -> [FlCpus -> FlCount]] /\ flSeen \in [DOMAIN m -> FlCount]  BY Zenon DEF FlInv, FlShapes
<1>2. m[t] \in [FlCpus -> FlCount] /\ m[t][c] \in FlCount /\ flSeen[t] \in FlCount  BY <1>1, Zenon
<1>3. \A v \in FlCount : Count(v, len) \in FlCount  BY DEF FlCount, Count
<1>4. Count(m[t][c], len) \in FlCount /\ q \in FlCount  BY <1>2, <1>3, Zenon
<1>5. flSeen' = Put(flSeen, t, q)  BY <1>1, Zenon DEF Seen
<1> HIDE DEF q
<1>6. flSeen' \in [DOMAIN m -> FlCount] /\ flSeen'[t] = q /\ \A u \in DOMAIN m : u # t => flSeen'[u] = flSeen[u]
  BY <1>1, <1>4, <1>5, Zenon DEF Put
<1>7. FlShapes' /\ LookupsHold'  BY <1>4, <1>6, FlCpuDone, Zenon
<1>8. m' = [m EXCEPT ![t] = r]  BY Zenon
<1>9. ~flStale => AddUpTo(r, q)
  <2>1. ~flStale => AddUpTo(m[t], flSeen[t])  BY Zenon DEF FlInv, FlowsAddUp
  <2> HIDE DEF m
  <2>2. ~flStale => AddUpTo([m[t] EXCEPT ![c] = Count(m[t][c], len)], Count(flSeen[t], len))
    BY <1>2, <2>1, CountsOneMore, Zenon
  <2>3. QED  BY <2>2, Zenon DEF q
<1> HIDE DEF r
<1>10. DOMAIN m' = DOMAIN m /\ m'[t] = r /\ \A u \in DOMAIN m : u # t => m'[u] = m[u]  BY <1>1, <1>8, Zenon
<1>11. ASSUME ~flStale, NEW u \in DOMAIN m
       PROVE  AddUpTo(m'[u], flSeen'[u])
  <2>1. CASE u = t  BY <1>6, <1>9, <1>10, <1>11, <2>1, Zenon
  <2>2. CASE u # t
    <3>1. AddUpTo(m[u], flSeen[u])  BY <1>11, Zenon DEF FlInv, FlowsAddUp
    <3>2. m'[u] = m[u] /\ flSeen'[u] = flSeen[u]  BY <1>6, <1>10, <2>2, Zenon
    <3>3. QED  BY <3>1, <3>2, Zenon
  <2>3. QED  BY <2>1, <2>2, Zenon
<1>12. FlowsAddUp'  BY <1>10, <1>11, Zenon DEF FlowsAddUp
<1>13. QED  BY <1>7, <1>12, Zenon DEF FlInv

\* An entry is made for t with c's first packet; of the others those in D stay.
FirstOn(c, len) == [d \in FlCpus |-> IF d = c THEN [packets |-> 1, bytes |-> len] ELSE NoCount]
MadeFor(c, t, len, D) ==
  /\ insp_flow4_metrics' = Put([x \in D |-> insp_flow4_metrics[x]], t, FirstOn(c, len))
  /\ flSeen' = Put([x \in D |-> flSeen[x]], t, [packets |-> 1, bytes |-> len])
  /\ flCpu' \in [FlCpus -> FlRecord] /\ flCpu'[c] = Idle
  /\ \A d \in FlCpus : d # c =>
       /\ flCpu'[d] # Idle => flCpu[d] # Idle
       /\ flCpu'[d].hit = flCpu[d].hit /\ flCpu'[d].tuple = flCpu[d].tuple
       /\ flCpu'[d].hit /\ ~flCpu'[d].gone => flCpu'[d].tuple \in D

LEMMA FlCountsNew ==
  ASSUME FlInv, NEW c \in FlCpus, NEW t, t \notin DOMAIN insp_flow4_metrics, NEW len \in Nat,
         NEW D, Part(D, DOMAIN insp_flow4_metrics), IsFiniteSet(D), Cardinality(D) < FlMaxEntries,
         MadeFor(c, t, len, D), UNCHANGED <<flEnablePort, flStale>>
  PROVE  FlInv'
<1> DEFINE m == insp_flow4_metrics
           q == [packets |-> 1, bytes |-> len]
           fresh == FirstOn(c, len)
<1>a. /\ D \subseteq DOMAIN m /\ m' = Put([x \in D |-> m[x]], t, fresh)
      /\ flSeen' = Put([x \in D |-> flSeen[x]], t, q)
      /\ flCpu' \in [FlCpus -> FlRecord] /\ flCpu'[c] = Idle
  BY Zenon DEF MadeFor, Part
<1>b. ASSUME NEW d \in FlCpus, d # c
      PROVE  /\ flCpu'[d] # Idle => flCpu[d] # Idle
             /\ flCpu'[d].hit = flCpu[d].hit /\ flCpu'[d].tuple = flCpu[d].tuple
             /\ flCpu'[d].hit /\ ~flCpu'[d].gone => flCpu'[d].tuple \in D
  BY <1>b, Zenon DEF MadeFor
<1>1. m \in [DOMAIN m -> [FlCpus -> FlCount]] /\ flSeen \in [DOMAIN m -> FlCount]  BY Zenon DEF FlInv, FlShapes
<1>2. AddUpTo(fresh, q) /\ fresh \in [FlCpus -> FlCount] /\ q \in FlCount  BY CountsFirst, Zenon DEF FirstOn
<1>3. \A d \in FlCpus : d # c => fresh[d] = NoCount  BY Zenon DEF FirstOn
<1> HIDE DEF q, fresh
<1>5. /\ DOMAIN m' = D \cup {t} /\ m' \in [D \cup {t} -> [FlCpus -> FlCount]] /\ m'[t] = fresh
      /\ \A u \in D : u # t /\ u \in DOMAIN m /\ m'[u] = m[u]
  BY <1>1, <1>2, <1>a, Zenon DEF Put
<1>6. /\ flSeen' \in [D \cup {t} -> FlCount] /\ flSeen'[t] = q
      /\ \A u \in D : flSeen'[u] = flSeen[u]
  BY <1>1, <1>2, <1>a, Zenon DEF Put
<1>7. IsFiniteSet(D \cup {t}) /\ Cardinality(D \cup {t}) <= FlMaxEntries
  <2>1. t \notin D  BY <1>a, Zenon
  <2>2. IsFiniteSet(D \cup {t}) /\ Cardinality(D \cup {t}) = Cardinality(D) + 1  BY <2>1, FS_AddElement, Zenon
  <2>3. Cardinality(D) \in Nat /\ FlMaxEntries \in Nat  BY FS_CardinalityType, PtAssumption, Zenon
  <2>4. QED  BY <2>2, <2>3
<1>8. FlShapes'  BY <1>a, <1>5, <1>6, <1>7, Zenon DEF FlInv, FlShapes
<1>9. ASSUME NEW d \in FlCpus
      PROVE  /\ flCpu'[d] # Idle /\ ~flCpu'[d].hit /\ flCpu'[d].tuple \in DOMAIN m' =>
                  m'[flCpu'[d].tuple][d] = NoCount
             /\ flCpu'[d].hit /\ ~flCpu'[d].gone => flCpu'[d].tuple \in DOMAIN m'
  <2>1. CASE d = c
    <3>1. ~Idle.hit  BY DEF Idle
    <3>2. QED  BY <1>a, <2>1, <3>1, Zenon
  <2>2. CASE d # c
    <3>1. flCpu[d] # Idle /\ ~flCpu[d].hit /\ flCpu[d].tuple \in DOMAIN m => m[flCpu[d].tuple][d] = NoCount
      BY Zenon DEF FlInv, LookupsHold
    <3> HIDE DEF m
    <3>2. ASSUME flCpu'[d] # Idle, ~flCpu'[d].hit, flCpu'[d].tuple \in DOMAIN m'
          PROVE  m'[flCpu'[d].tuple][d] = NoCount
      <4>1. CASE flCpu'[d].tuple = t  BY <1>3, <1>5, <2>2, <4>1, Zenon
      <4>2. CASE flCpu'[d].tuple # t
        <5>1. flCpu'[d].tuple \in D  BY <1>5, <3>2, <4>2, Zenon
        <5>2. QED  BY <1>5, <1>b, <2>2, <3>1, <3>2, <5>1, Zenon
      <4>3. QED  BY <4>1, <4>2, Zenon
    <3>3. flCpu'[d].hit /\ ~flCpu'[d].gone => flCpu'[d].tuple \in DOMAIN m'  BY <1>5, <1>b, <2>2, Zenon
    <3>4. QED  BY <3>2, <3>3, Zenon
  <2>3. QED  BY <2>1, <2>2, Zenon
<1>10. LookupsHold'  BY <1>9, Zenon DEF LookupsHold
<1>11. ASSUME ~flStale, NEW u \in D \cup {t}
       PROVE  AddUpTo(m'[u], flSeen'[u])
  <2>1. CASE u = t  BY <1>2, <1>5, <1>6, <2>1, Zenon
  <2>2. CASE u # t
    <3>1. u \in D  BY <2>2, Zenon
    <3>2. AddUpTo(m[u], flSeen[u])  BY <1>5, <1>11, <3>1, Zenon DEF FlInv, FlowsAddUp
    <3>3. m'[u] = m[u] /\ flSeen'[u] = flSeen[u]  BY <1>5, <1>6, <3>1, Zenon
    <3>4. QED  BY <3>2, <3>3, Zenon
  <2>3. QED  BY <2>1, <2>2, Zenon
<1>12. FlowsAddUp'  BY <1>5, <1>11, Zenon DEF FlowsAddUp
<1>13. QED  BY <1>8, <1>10, <1>12, Zenon DEF FlInv

\* A lookup finds the tuple in the map, or does not.
LEMMA FlLookupKeeps ==
  ASSUME FlInv, NEW c \in FlCpus, NEW frame \in Frames, FlowLooksUp(c, frame)
  PROVE  FlInv'
<1> DEFINE m == insp_flow4_metrics
           t == set_flow_tuple4(frame, flEnablePort)
           p == [hit |-> t \in DOMAIN m, gone |-> FALSE, tuple |-> t, len |-> frame.bytes]
<1>1. flEnablePort \in BOOLEAN /\ flCpu \in [FlCpus -> FlRecord]  BY Zenon DEF FlInv, FlShapes
<1>2. UNCHANGED <<flEnablePort, insp_flow4_metrics, flSeen, flStale>>  BY Zenon DEF FlowLooksUp
<1>3. FlowsAddUp'  BY <1>2, Zenon DEF FlInv, FlowsAddUp
<1>4. CASE flCpu' = flCpu  BY <1>2, <1>3, <1>4, Zenon DEF FlInv, FlShapes, LookupsHold
<1>5. CASE flCpu' = [flCpu EXCEPT ![c] = p]
  <2>1. t \in FlTuples  BY <1>1 DEF FlTuples
  <2>2. frame.bytes \in Nat  BY PtAssumption, Zenon
  <2> HIDE DEF t
  <2>3. p \in FlRecord /\ p.tuple = t /\ (p.hit <=> t \in DOMAIN m)
    <3>1. ASSUME NEW b \in BOOLEAN, NEW len \in Nat, NEW u \in FlTuples
          PROVE  [hit |-> b, gone |-> FALSE, tuple |-> u, len |-> len] \in FlRecord
      BY DEF FlRecord
    <3>2. (t \in DOMAIN m) \in BOOLEAN  OBVIOUS
    <3>3. p \in FlRecord  BY <2>1, <2>2, <3>1, <3>2, Zenon
    <3>4. p.tuple = t /\ (p.hit <=> t \in DOMAIN m)  BY Zenon
    <3>5. QED  BY <3>3, <3>4, Zenon
  <2> HIDE DEF p
  <2>4. flCpu' \in [FlCpus -> FlRecord] /\ flCpu'[c] = p /\ \A d \in FlCpus : d # c => flCpu'[d] = flCpu[d]
    BY <1>1, <1>5, <2>3, Zenon
  <2>5. FlShapes'  BY <1>2, <2>4, Zenon DEF FlInv, FlShapes
  <2>6. ASSUME NEW d \in FlCpus
        PROVE  /\ flCpu'[d] # Idle /\ ~flCpu'[d].hit /\ flCpu'[d].tuple \in DOMAIN m => m[flCpu'[d].tuple][d] = NoCount
               /\ flCpu'[d].hit /\ ~flCpu'[d].gone => flCpu'[d].tuple \in DOMAIN m
    <3>1. CASE d = c  BY <2>3, <2>4, <3>1, Zenon
    <3>2. CASE d # c  BY <2>4, <3>2, Zenon DEF FlInv, LookupsHold
    <3>3. QED  BY <3>1, <3>2, Zenon
  <2>7. LookupsHold'  BY <1>2, <2>6, Zenon DEF LookupsHold
  <2>8. QED  BY <1>3, <2>5, <2>7, Zenon DEF FlInv
<1>6. flCpu' = IF t = Refused THEN flCpu ELSE [flCpu EXCEPT ![c] = p]  BY Zenon DEF FlowLooksUp
<1>7. QED  BY <1>4, <1>5, <1>6, Zenon

\* An addition goes to the entry found, or sets flStale.
LEMMA FlAddKeeps ==
  ASSUME FlInv, NEW c \in FlCpus, FlowAdds(c)
  PROVE  FlInv'
<1> DEFINE m == insp_flow4_metrics
           f == flCpu[c]
<1>1. /\ flCpu \in [FlCpus -> FlRecord] /\ m \in [DOMAIN m -> [FlCpus -> FlCount]]
      /\ flSeen \in [DOMAIN m -> FlCount]
  BY Zenon DEF FlInv, FlShapes
<1>2. f \in FlRecord /\ f.len \in Nat
  <2>1. f \in FlRecord  BY <1>1, Zenon
  <2>2. QED  BY <2>1 DEF FlRecord
<1>3. flCpu' = [flCpu EXCEPT ![c] = Idle] /\ UNCHANGED flEnablePort  BY Zenon DEF FlowAdds
<1>4. CASE ~f.gone
  <2>1. f.tuple \in DOMAIN m  BY <1>4, Zenon DEF FlowAdds, FlInv, LookupsHold
  <2>2. /\ m' = [m EXCEPT ![f.tuple] = [m[f.tuple] EXCEPT ![c] = Count(m[f.tuple][c], f.len)]]
        /\ flSeen' = Seen(f.tuple, f.len) /\ UNCHANGED flStale
    BY <1>4, Zenon DEF FlowAdds
  <2> HIDE DEF f
  <2>3. QED  BY <1>2, <1>3, <2>1, <2>2, FlCountsIn, Zenon
<1>5. CASE f.gone
  <2>1. flStale' /\ flSeen' = flSeen  BY <1>5, Zenon DEF FlowAdds
  <2>2. \/ m' = m
        \/ \E t \in DOMAIN m, v \in FlCount : m' = [m EXCEPT ![t] = [m[t] EXCEPT ![c] = v]]
    <3>1. \/ m' = m
          \/ \E t \in DOMAIN m : m' = [m EXCEPT ![t] = [m[t] EXCEPT ![c] = Count(m[t][c], f.len)]]
      BY <1>5, Zenon DEF FlowAdds
    <3>2. ASSUME NEW t \in DOMAIN m PROVE Count(m[t][c], f.len) \in FlCount
      <4>1. m[t][c] \in FlCount  BY <1>1, Zenon
      <4>2. QED  BY <1>2, <4>1 DEF FlCount, Count
    <3> HIDE DEF m, f
    <3>3. QED  BY <3>1, <3>2, Zenon
  <2>3. FlShapes' /\ LookupsHold'  BY <1>1, <1>3, <2>1, <2>2, FlCpuDone, Zenon
  <2>4. FlowsAddUp'  BY <2>1, Zenon DEF FlowsAddUp
  <2>5. QED  BY <2>3, <2>4, Zenon DEF FlInv
<1>6. QED  BY <1>4, <1>5, Zenon

\* An insertion finds the tuple inserted meanwhile, has room, or evicts another entry.
LEMMA FlInsertKeeps ==
  ASSUME FlInv, NEW c \in FlCpus, FlowInserts(c)
  PROVE  FlInv'
<1> DEFINE m == insp_flow4_metrics
           f == flCpu[c]
           t == flCpu[c].tuple
           len == flCpu[c].len
           value == [packets |-> 1, bytes |-> len]
           fresh == FirstOn(c, len)
<1>1. /\ flCpu \in [FlCpus -> FlRecord] /\ m \in [DOMAIN m -> [FlCpus -> FlCount]]
      /\ flSeen \in [DOMAIN m -> FlCount] /\ IsFiniteSet(DOMAIN m) /\ Cardinality(DOMAIN m) <= FlMaxEntries
  BY Zenon DEF FlInv, FlShapes
<1>2. len \in Nat
  <2>1. f \in FlRecord  BY <1>1, Zenon
  <2>2. QED  BY <2>1 DEF FlRecord
<1>3. f # Idle /\ ~f.hit /\ UNCHANGED <<flEnablePort, flStale>>  BY Zenon DEF FlowInserts
<1>i. Idle \in FlRecord /\ ~Idle.hit /\ Idle.gone = FALSE  BY DEF Idle, FlRecord, FlTuples
<1>c. Cardinality(DOMAIN m) \in Nat /\ FlMaxEntries \in Nat  BY <1>1, FS_CardinalityType, PtAssumption, Zenon
<1>4. CASE /\ t \in DOMAIN m
           /\ m' = [m EXCEPT ![t][c] = value]
           /\ flSeen' = Seen(t, len)
           /\ flCpu' = [flCpu EXCEPT ![c] = Idle]
  <2>1. m[t][c] = NoCount  BY <1>3, <1>4, Zenon DEF FlInv, LookupsHold
  <2>2. value = Count(m[t][c], len)  BY <1>2, <2>1, CountsFirst, Zenon
  <2> HIDE DEF value, len, t
  <2>3. m' = [m EXCEPT ![t] = [m[t] EXCEPT ![c] = Count(m[t][c], len)]]  BY <1>4, <2>2, Zenon
  <2>4. QED  BY <1>2, <1>3, <1>4, <2>3, FlCountsIn, Zenon
<1>5. CASE /\ t \notin DOMAIN m /\ Cardinality(DOMAIN m) < FlMaxEntries
           /\ m' = HashUpdate(m, t, fresh, FlMaxEntries)
           /\ flSeen' = Seen(t, len)
           /\ flCpu' = [flCpu EXCEPT ![c] = Idle]
  <2> DEFINE D == DOMAIN m
  <2>1. m = [x \in D |-> m[x]] /\ flSeen = [x \in D |-> flSeen[x]]  BY <1>1, Zenon
  <2>2. m' = Put([x \in D |-> m[x]], t, fresh)  BY <1>5, <2>1, Zenon DEF HashUpdate
  <2>3. flSeen' = Put([x \in D |-> flSeen[x]], t, value)
    <3>1. t \notin DOMAIN flSeen  BY <1>1, <1>5, Zenon
    <3>2. value = Count(NoCount, len)  BY <1>2, CountsFirst, Zenon
    <3>3. flSeen' = Put(flSeen, t, Count(NoCount, len))  BY <1>5, <3>1, Zenon DEF Seen
    <3> HIDE DEF value
    <3>4. QED  BY <2>1, <3>2, <3>3, Zenon
  <2>4. /\ flCpu' \in [FlCpus -> FlRecord] /\ flCpu'[c] = Idle
        /\ \A d \in FlCpus : d # c => flCpu'[d] = flCpu[d]
    BY <1>1, <1>5, <1>i, Zenon
  <2>5. \A d \in FlCpus : d # c =>
          /\ flCpu'[d] # Idle => flCpu[d] # Idle
          /\ flCpu'[d].hit = flCpu[d].hit /\ flCpu'[d].tuple = flCpu[d].tuple
          /\ flCpu'[d].hit /\ ~flCpu'[d].gone => flCpu'[d].tuple \in D
    BY <2>4, Zenon DEF FlInv, LookupsHold
  <2>6. Part(D, DOMAIN m) /\ IsFiniteSet(D) /\ Cardinality(D) < FlMaxEntries  BY <1>1, <1>5, Zenon DEF Part
  <2>7. MadeFor(c, t, len, D)  BY <2>2, <2>3, <2>4, <2>5, Zenon DEF MadeFor
  <2> HIDE DEF D, t, len
  <2>8. QED  BY <1>2, <1>3, <1>5, <2>6, <2>7, FlCountsNew, Zenon
<1>6. ASSUME t \notin DOMAIN m, Cardinality(DOMAIN m) >= FlMaxEntries, NEW old \in DOMAIN m,
             m' = HashUpdate(HashDelete(m, old), t, fresh, FlMaxEntries),
             flSeen' = Put(HashDelete(flSeen, old), t, value),
             flCpu' = [d \in FlCpus |-> IF d = c THEN Idle
                         ELSE [flCpu[d] EXCEPT !.gone = @ \/ (flCpu[d].hit /\ flCpu[d].tuple = old)]]
      PROVE  FlInv'
  <2> DEFINE D == DOMAIN m \ {old}
  <2>1. IsFiniteSet(D) /\ Cardinality(D) < FlMaxEntries /\ Part(D, DOMAIN m)
    <3>1. IsFiniteSet(D) /\ Cardinality(D) = Cardinality(DOMAIN m) - 1  BY <1>1, <1>6, FS_RemoveElement, Zenon
    <3>2. Cardinality(D) < FlMaxEntries  BY <1>1, <1>c, <3>1
    <3>3. QED  BY <3>1, <3>2, Zenon DEF Part
  <2>2. HashDelete(m, old) = [x \in D |-> m[x]] /\ HashDelete(flSeen, old) = [x \in D |-> flSeen[x]]
    BY <1>1, Zenon DEF HashDelete
  <2>3. DOMAIN [x \in D |-> m[x]] = D  BY Zenon
  <2>4. m' = Put([x \in D |-> m[x]], t, fresh)
    <3> HIDE DEF D
    <3>1. QED  BY <1>6, <2>1, <2>2, <2>3, Zenon DEF HashUpdate
  <2>5. flSeen' = Put([x \in D |-> flSeen[x]], t, value)  BY <1>6, <2>2, Zenon
  <2>6. ASSUME NEW d \in FlCpus, d # c
        PROVE  /\ flCpu'[d] \in FlRecord
               /\ flCpu'[d] # Idle => flCpu[d] # Idle
               /\ flCpu'[d].hit = flCpu[d].hit /\ flCpu'[d].tuple = flCpu[d].tuple
               /\ flCpu'[d].hit /\ ~flCpu'[d].gone => flCpu'[d].tuple \in D
    <3> DEFINE g == flCpu[d]
               b == g.gone \/ (g.hit /\ g.tuple = old)
    <3>1. flCpu'[d] = [g EXCEPT !.gone = b]  BY <1>6, <2>6, Zenon
    <3>2. g \in FlRecord /\ b \in BOOLEAN /\ (b <=> (g.gone \/ (g.hit /\ g.tuple = old)))
      <4>1. g \in FlRecord  BY <1>1, Zenon
      <4>2. g.gone \in BOOLEAN  BY <4>1, Zenon DEF FlRecord
      <4>3. QED  BY <4>1, <4>2, Zenon
    <3>3. g.hit /\ ~g.gone => g.tuple \in DOMAIN m  BY Zenon DEF FlInv, LookupsHold
    <3>4. ASSUME g = Idle PROVE b = g.gone
      <4>1. ~b /\ g.gone = FALSE  BY <1>i, <3>4, Zenon
      <4>2. QED  BY <4>1, Zenon
    <3> HIDE DEF g, b
    <3>5. /\ [g EXCEPT !.gone = b] \in FlRecord /\ [g EXCEPT !.gone = b].hit = g.hit
          /\ [g EXCEPT !.gone = b].tuple = g.tuple /\ [g EXCEPT !.gone = b].gone = b
          /\ b = g.gone => [g EXCEPT !.gone = b] = g
      BY <3>2 DEF FlRecord
    <3>6. flCpu'[d] # Idle => g # Idle  BY <3>1, <3>4, <3>5, Zenon
    <3>7. g.hit /\ ~b => g.tuple \in D  BY <3>2, <3>3, Zenon
    <3> HIDE DEF D
    <3>8. QED  BY <3>1, <3>5, <3>6, <3>7, Zenon DEF g
  <2>7. flCpu'[c] = Idle  BY <1>6, Zenon
  <2>8. flCpu' \in [FlCpus -> FlRecord]
    <3>1. flCpu' = [d \in FlCpus |-> flCpu'[d]]  BY <1>6, Zenon
    <3>2. \A d \in FlCpus : flCpu'[d] \in FlRecord  BY <1>i, <2>6, <2>7, Zenon
    <3>3. QED  BY <3>1, <3>2, Zenon
  <2>9. MadeFor(c, t, len, D)  BY <2>4, <2>5, <2>6, <2>7, <2>8, Zenon DEF MadeFor
  <2> HIDE DEF D, t, len
  <2>10. QED  BY <1>2, <1>3, <1>6, <2>1, <2>9, FlCountsNew, Zenon
<1>7. QED  BY <1>4, <1>5, <1>6, Zenon DEF FlowInserts, FirstOn

LEMMA FlKept ==
  ASSUME FlInv, FlNext \/ UNCHANGED flVars
  PROVE  FlInv'
<1>1. CASE FlNext  BY <1>1, FlLookupKeeps, FlAddKeeps, FlInsertKeeps, Zenon DEF FlNext
<1>2. CASE UNCHANGED flVars
  BY <1>2, Zenon DEF flVars, FlInv, FlShapes, LookupsHold, FlowsAddUp
<1>3. QED  BY <1>1, <1>2, Zenon

LEMMA FlStarts ==
  ASSUME FlInit
  PROVE  FlInv
<1>1. Idle \in FlRecord /\ ~Idle.hit  BY DEF Idle, FlRecord, FlTuples
<1>2. insp_flow4_metrics = << >> /\ flSeen = << >> /\ DOMAIN << >> = {} /\ \A S : << >> \in [{} -> S]
  BY DEF FlInit
<1>3. IsFiniteSet({}) /\ Cardinality({}) <= FlMaxEntries  BY FS_EmptySet, PtAssumption
<1>4. flCpu \in [FlCpus -> FlRecord] /\ \A c \in FlCpus : flCpu[c] = Idle  BY <1>1, Zenon DEF FlInit
<1>5. FlShapes  BY <1>2, <1>3, <1>4, Zenon DEF FlInit, FlShapes
<1>6. LookupsHold  BY <1>1, <1>4, Zenon DEF LookupsHold
<1>7. FlowsAddUp  BY <1>2, Zenon DEF FlowsAddUp
<1>8. QED  BY <1>5, <1>6, <1>7, Zenon DEF FlInv

\* What the exporter adds up for a flow.
LEMMA FlSums ==
  ASSUME NEW r, NEW q, AddUpTo(r, q)
  PROVE  /\ MapThenSumSet(LAMBDA c : r[c].packets, FlCpus) = q.packets
         /\ MapThenSumSet(LAMBDA c : r[c].bytes, FlCpus) = q.bytes
<1>1. IsFiniteSet(FlCpus)  BY PtAssumption, Zenon
<1> DEFINE P(g) == g = [s \in SUBSET FlCpus |-> IF s = {} THEN 0
                          ELSE r[CHOOSE x \in s : TRUE].packets + g[s \ {CHOOSE x \in s : TRUE}]]
           B(g) == g = [s \in SUBSET FlCpus |-> IF s = {} THEN 0
                          ELSE r[CHOOSE x \in s : TRUE].bytes + g[s \ {CHOOSE x \in s : TRUE}]]
<1>2. ASSUME NEW s \in SUBSET FlCpus, s # {}
      PROVE  Packets(r)[Pick(s)] = r[Pick(s)].packets /\ Bytes(r)[Pick(s)] = r[Pick(s)].bytes
  <2>1. Pick(s) \in FlCpus  BY <1>2, PickOne, Zenon
  <2>2. QED  BY <2>1, Zenon DEF Packets, Bytes
<1>3. ASSUME NEW g
      PROVE  (P(g) <=> Adds(Packets(r), FlCpus, g)) /\ (B(g) <=> Adds(Bytes(r), FlCpus, g))
  <2>1. [s \in SUBSET FlCpus |-> IF s = {} THEN 0 ELSE r[Pick(s)].packets + g[s \ {Pick(s)}]]
        = [s \in SUBSET FlCpus |-> IF s = {} THEN 0 ELSE Packets(r)[Pick(s)] + g[s \ {Pick(s)}]]
    BY <1>2, Zenon
  <2>2. [s \in SUBSET FlCpus |-> IF s = {} THEN 0 ELSE r[Pick(s)].bytes + g[s \ {Pick(s)}]]
        = [s \in SUBSET FlCpus |-> IF s = {} THEN 0 ELSE Bytes(r)[Pick(s)] + g[s \ {Pick(s)}]]
    BY <1>2, Zenon
  <2>3. P(g) <=> g = [s \in SUBSET FlCpus |-> IF s = {} THEN 0 ELSE r[Pick(s)].packets + g[s \ {Pick(s)}]]
    BY Zenon DEF Pick
  <2>4. B(g) <=> g = [s \in SUBSET FlCpus |-> IF s = {} THEN 0 ELSE r[Pick(s)].bytes + g[s \ {Pick(s)}]]
    BY Zenon DEF Pick
  <2> HIDE DEF P, B
  <2>5. QED  BY <2>1, <2>2, <2>3, <2>4, Zenon DEF Adds
<1>4. MapThenSumSet(LAMBDA c : r[c].packets, FlCpus) = (CHOOSE g : P(g))[FlCpus]
  BY Zenon DEF MapThenSumSet, MapThenFoldSet
<1>5. MapThenSumSet(LAMBDA c : r[c].bytes, FlCpus) = (CHOOSE g : B(g))[FlCpus]
  BY Zenon DEF MapThenSumSet, MapThenFoldSet
<1> HIDE DEF P, B
<1>6. (\E g : P(g)) /\ (\E g : B(g))
  <2>1. PICK g : Adds(Packets(r), FlCpus, g)  BY <1>1, SumExists, Zenon
  <2>2. PICK h : Adds(Bytes(r), FlCpus, h)  BY <1>1, SumExists, Zenon
  <2>3. QED  BY <1>3, <2>1, <2>2, Zenon
<1>7. P(CHOOSE g : P(g)) /\ B(CHOOSE g : B(g))  BY <1>6, Zenon
<1>8. /\ IsSum(Packets(r), FlCpus, (CHOOSE g : P(g))[FlCpus])
      /\ IsSum(Bytes(r), FlCpus, (CHOOSE g : B(g))[FlCpus])
  BY <1>3, <1>7, Zenon DEF IsSum
<1>9. IsSum(Packets(r), FlCpus, q.packets) /\ IsSum(Bytes(r), FlCpus, q.bytes)  BY Zenon DEF AddUpTo
<1>10. (CHOOSE g : P(g))[FlCpus] = q.packets  BY <1>1, <1>8, <1>9, SumUnique
<1>11. (CHOOSE g : B(g))[FlCpus] = q.bytes  BY <1>1, <1>8, <1>9, SumUnique
<1>12. QED  BY <1>4, <1>5, <1>10, <1>11, Zenon

LEMMA FlExact ==
  ASSUME FlInv
  PROVE  FlowCountsExact
<1>1. ASSUME ~flStale, NEW t \in DOMAIN insp_flow4_metrics
      PROVE  /\ MapThenSumSet(LAMBDA c : insp_flow4_metrics[t][c].packets, FlCpus) = flSeen[t].packets
             /\ MapThenSumSet(LAMBDA c : insp_flow4_metrics[t][c].bytes, FlCpus) = flSeen[t].bytes
  <2>1. AddUpTo(insp_flow4_metrics[t], flSeen[t])  BY <1>1, Zenon DEF FlInv, FlowsAddUp
  <2>2. QED  BY <2>1, FlSums, Zenon
<1>2. QED  BY <1>1, Zenon DEF FlowCountsExact


PtInv == TupleReadsInside

\* A tuple that set_tuple accepts ends before skb->len bytes from head.
LEMMA TupleInside ==
  ASSUME NEW skb0 \in Skbs, set_tuple(skb0) >= 0
  PROVE  ReadInside(skb0)
<1>1. /\ skb0.headroom \in Nat /\ skb0.network_header \in 0..(U16 - 1) /\ skb0.len \in Nat /\ skb0.ihl \in Nat
      /\ skb0.paged \in 0..skb0.len /\ U16 \in Nat \ {0}
  BY PtAssumption, Zenon
<1>2. L3End(skb0) \in Nat /\ L4Hdr(skb0.proto) \in Nat  BY <1>1 DEF L3End, L4Hdr, Ip6Hdr
<1>3. L4Off(skb0) \in Nat /\ (L3End(skb0) < U16 => L4Off(skb0) = L3End(skb0))  BY <1>1, <1>2 DEF L4Off
<1>4. ~(L3End(skb0) > skb0.len) /\ ~(L4Off(skb0) + L4Hdr(skb0.proto) > skb0.len)
  <2>1. ~(-1 >= 0)  OBVIOUS
  <2>2. QED  BY <2>1, Zenon DEF set_tuple
<1>5. ReadsEnd(skb0) <= skb0.len  BY <1>1, <1>2, <1>3, <1>4 DEF ReadsEnd
<1>6. ReadsEnd(skb0) \in Nat  BY <1>2, <1>3 DEF ReadsEnd
<1>7. skb0.paged <= skb0.headroom => ReadsEnd(skb0) <= LinearEnd(skb0)  BY <1>1, <1>5, <1>6 DEF LinearEnd
<1>8. skb0.len < U16 => L4Off(skb0) = L3End(skb0)  BY <1>1, <1>2, <1>3, <1>4
<1>9. QED  BY <1>7, <1>8, Zenon DEF ReadInside

LEMMA PtKept ==
  ASSUME PtInv, PtNext \/ UNCHANGED ptVars
  PROVE  PtInv'
<1>1. CASE ptEvent' = ptEvent  BY <1>1, Zenon DEF PtInv, TupleReadsInside
<1>2. ASSUME NEW skb0 \in Skbs, kfree_skb(skb0)
      PROVE  PtInv'
  <2>1. CASE set_tuple(skb0) < 0  BY <1>1, <1>2, <2>1, Zenon DEF kfree_skb
  <2>2. CASE ~(set_tuple(skb0) < 0)
    <3>1. ReadInside(skb0)
      <4>1. set_tuple(skb0) >= 0  BY <2>2 DEF set_tuple
      <4>2. QED  BY <4>1, TupleInside, Zenon
    <3>2. ptEvent'.skb = skb0  BY <1>2, <2>2, Zenon DEF kfree_skb
    <3>3. QED  BY <3>1, <3>2, Zenon DEF PtInv, TupleReadsInside, ReadInside, ReadsEnd, LinearEnd, L4Off, L3End
  <2>3. QED  BY <2>1, <2>2, Zenon
<1>3. ASSUME NEW skb0 \in Skbs, NEW hasSock \in BOOLEAN, trace_sendreset(skb0, hasSock)
      PROVE  PtInv'
  <2>1. ptEvent'.skb = skb0 /\ ptEvent'.status = set_tuple(skb0)  BY <1>3, Zenon DEF trace_sendreset
  <2>2. set_tuple(skb0) = 0 => ReadInside(skb0)  BY TupleInside
  <2>3. QED  BY <2>1, <2>2, Zenon DEF PtInv, TupleReadsInside
<1>4. ASSUME NEW id \in {0, -17}, NEW hasSock \in BOOLEAN,
             insp_rstrx(id, hasSock) \/ trace_sendactive(hasSock) \/ tcpretrans
      PROVE  PtInv'
  <2>1. \/ ptEvent' = ptEvent
        \/ ptEvent'.skb = << >> /\ ptEvent'.prog \in {"tcpreset", "tcpretrans"}
    BY <1>4 DEF insp_rstrx, trace_sendactive, tcpretrans
  <2>2. QED  BY <1>1, <2>1, Zenon DEF PtInv, TupleReadsInside
<1>5. QED  BY <1>1, <1>2, <1>3, <1>4, Zenon DEF PtNext, ptVars
=============================================================================
