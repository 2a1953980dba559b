-------------------------- MODULE MitigationProofs --------------------------
(***************************************************************************)
(* The program that sheds packets and the forecasts it sheds by.           *)
(*                                                                         *)
(* token_consume keeps the cap of a bucket on any number of CPUs, though   *)
(* the LRU reuses elements that CPUs point at, and the count of its tokens *)
(* when one CPU runs it at a time.                                         *)
(*                                                                         *)
(* The two alternating buffers of Runner.snaps need no lock, for any       *)
(* number of nodes: a copy is one forecast as long as its node begins at   *)
(* most one tick while the copy is made.                                   *)
(***************************************************************************)
EXTENDS XdpMitigator, Federation, TLAPS

-----------------------------------------------------------------------------
(* XdpMitigator *)

\* n tokens are at most ten seconds of a rate configured for some tier.
AnyHoldable(n) == \E t \in Tiers : Holdable(n, t)

\* No element is in the place of two keys.
SlotsApart == \A j, k \in Keys : slot[j] = slot[k] /\ slot[j] # NoElem => j = k

\* Every element is within the cap of some tier, and one that is in the map and
\* no CPU went astray in is within the cap of its own.
BucketInv ==
    /\ \A e \in Elems : AnyHoldable(tokens[e])
    /\ \A k \in Keys : slot[k] \in Elems /\ slot[k] \notin astray => Holdable(tokens[slot[k]], k[2])

Busy == {"last", "tokens", "store"}

\* What CPU c knows: the element it holds is the one of its key unless it has
\* lost it, and so was what it loaded from it.
CpuOK(c) ==
    /\ pc[c] \notin Busy => held[c] = NoElem /\ lost[c] = FALSE
    /\ pc[c] \in Busy => held[c] \in Elems
    /\ pc[c] \in Busy /\ lost[c] = FALSE => slot[Key(c)] = held[c]
    /\ pc[c] = "store" => AnyHoldable(reg[c])
    /\ pc[c] = "store" /\ lost[c] = FALSE /\ held[c] \notin astray => Holdable(reg[c], Tier(pkt[c]))

CpuInv == \A c \in Cpus : CpuOK(c)

XdpInv == XdpTypeOK /\ SlotsApart /\ BucketInv /\ CpuInv

\* The tier of a packet is a tier of the tables, so its bucket is a key.
LEMMA PacketKey ==
    ASSUME NEW p \in Packets
    PROVE  /\ Tier(p) \in Tiers /\ Tier(p) \in Nat
           /\ <<p.src, Tier(p)>> \in Keys
  BY XdpAssumption, Zenon DEF Tier, Tiers, Keys, Sources

LEMMA CpuKey ==
    ASSUME XdpTypeOK, NEW c \in Cpus
    PROVE  /\ Key(c) \in Keys /\ Key(c)[2] = Tier(pkt[c])
           /\ Tier(pkt[c]) \in Tiers /\ pkt[c] \in Packets /\ val[c] \in Policies
<1>1. pkt[c] \in Packets /\ val[c] \in Policies
  BY Zenon DEF XdpTypeOK, CpusTyped
<1> QED
  BY <1>1, PacketKey, Zenon DEF Key

\* Every configured rate is a positive number.
LEMMA RatePositive ==
    ASSUME NEW v \in Policies, NEW t \in Nat
    PROVE  RefillRate(v, t) \in Nat \ {0}
<1>1. v.mu \in Nat /\ v.refill \in [0..3 -> Nat]
  BY XdpAssumption, Zenon
<1> DEFINE mu == IF v.mu = 0 THEN NoMuRate ELSE v.mu
           ppm == IF t < 4 THEN v.refill[t] ELSE PPM_SCALE
           p2 == IF ppm = 0 THEN PPM_SCALE \div 2 ELSE ppm
<1>2. mu \in Nat /\ ppm \in Nat /\ PPM_SCALE \in Nat \ {0}
  BY <1>1, XdpAssumption
<1>3. p2 \in Nat
  BY <1>2
<1> HIDE DEF mu, p2
<1>4. mu * p2 \in Nat
  BY <1>2, <1>3
<1>5. (mu * p2) \div PPM_SCALE \in Nat
  BY <1>4, <1>2
<1> QED
  BY <1>5 DEF RefillRate, mu, p2

\* A CPU fills a bucket at a rate configured for the tier of its packet.
LEMMA CpuRate ==
    ASSUME XdpTypeOK, NEW c \in Cpus
    PROVE  Rate(c) \in Nat \ {0} /\ Rate(c) \in Rates(Tier(pkt[c]))
<1>1. val[c] \in Policies /\ Tier(pkt[c]) \in Nat
  BY CpuKey, PacketKey, Zenon
<1> QED
  BY <1>1, RatePositive, Zenon DEF Rate, Rates

\* Fewer tokens than a holdable number are holdable.
LEMMA FewerHoldable ==
    ASSUME NEW n \in Nat, NEW m \in Nat, m <= n, NEW t \in Tiers, Holdable(n, t)
    PROVE  Holdable(m, t)
<1>1. PICK r \in Rates(t) : n <= Burst * r
  BY Zenon DEF Holdable
<1>2. t \in Nat
  BY XdpAssumption
<1>3. r \in Nat /\ Burst \in Nat
  BY <1>2, RatePositive, XdpAssumption, Zenon DEF Rates
<1>4. m <= Burst * r
  BY <1>1, <1>3
<1> QED
  BY <1>4, Zenon DEF Holdable

\* An empty bucket is holdable, as there is a packet, which has a tier.
LEMMA ZeroHoldable == AnyHoldable(0)
<1>1. PICK p \in Packets : TRUE
  BY XdpAssumption, Zenon
<1>2. PICK v \in Policies : TRUE
  BY XdpAssumption, Zenon
<1>3. Tier(p) \in Tiers /\ Tier(p) \in Nat
  BY PacketKey, Zenon
<1>4. RefillRate(v, Tier(p)) \in Nat /\ Burst \in Nat
  BY <1>3, RatePositive, XdpAssumption
<1>5. 0 <= Burst * RefillRate(v, Tier(p))
  BY <1>4
<1> QED
  BY <1>3, <1>5, Zenon DEF AnyHoldable, Holdable, Rates

LEMMA XdpInitInv == XdpInit => XdpInv
<1>a. SUFFICES ASSUME XdpInit PROVE XdpInv
  BY Zenon
<1>1. NoPacket \in Packets /\ NoVal \in Policies
  BY XdpAssumption, Zenon DEF NoPacket, NoVal
<1>2. 0 \in 0..MaxAge /\ 0 \in 0..MaxLag
  BY XdpAssumption
<1>3. XdpTypeOK
  BY <1>a, <1>1, <1>2 DEF XdpInit, XdpTypeOK, MapsTyped, CpusTyped
<1>4. SlotsApart
  BY <1>a, Zenon DEF XdpInit, SlotsApart
<1>5. BucketInv
  BY <1>a, ZeroHoldable, XdpAssumption, Zenon DEF XdpInit, BucketInv
<1>6. CpuInv
  BY <1>a DEF XdpInit, CpuInv, CpuOK, Busy
<1> QED
  BY <1>3, <1>4, <1>5, <1>6, Zenon DEF XdpInv

-----------------------------------------------------------------------------
(* A step of CPU c leaves the other CPUs alone.  `Leaves': c has left          *)
(* token_consume, for good or to enter it again.                               *)

Keeps(d) ==
    /\ pc'[d] = pc[d] /\ pkt'[d] = pkt[d] /\ held'[d] = held[d]
    /\ reg'[d] = reg[d] /\ lost'[d] = lost[d]

OthersKeep(c) == \A d \in Cpus \ {c} : Keeps(d)

Leaves(c) ==
    /\ CpusTyped' /\ OthersKeep(c)
    /\ pc'[c] \in {"idle", "lookup"} /\ held'[c] = NoElem /\ lost'[c] = FALSE

Verdicts == {"pass", "drop", "redirect"}
Reasons == {"blocked", "flat", "syn", "token", "shed"}

LEMMA UnheldTyped ==
    ASSUME CpusTyped, NEW c \in Cpus, Unheld(c)
    PROVE  /\ held' \in [Cpus -> Elems \cup {NoElem}] /\ lost' \in [Cpus -> BOOLEAN]
           /\ lag' \in [Cpus -> 0..MaxLag] /\ elapsed' \in [Cpus -> Int] /\ reg' \in [Cpus -> Nat]
<1>1. 0 \in 0..MaxLag /\ 0 \in Nat /\ 0 \in Int
  BY XdpAssumption
<1> QED
  BY <1>1, Zenon DEF Unheld, CpusTyped

LEMMA FinishLeaves ==
    ASSUME CpusTyped, NEW c \in Cpus, NEW v \in Verdicts, NEW why \in Reasons, Finish(c, v, why)
    PROVE  Leaves(c)
<1>1. NoPacket \in Packets /\ NoVal \in Policies
  BY XdpAssumption, Zenon DEF NoPacket, NoVal
<1>2. [is |-> v, why |-> why] \in [is : {"pass", "drop", "redirect"},
        why : {"bypass", "blocked", "flat", "syn", "token", "shed"}]
  BY Zenon DEF Verdicts, Reasons
<1>3. Unheld(c)
  BY Zenon DEF Finish
<1>4. CpusTyped'
  BY <1>1, <1>2, <1>3, UnheldTyped, Zenon DEF Finish, CpusTyped
<1>5. OthersKeep(c) /\ pc'[c] \in {"idle", "lookup"} /\ held'[c] = NoElem /\ lost'[c] = FALSE
  BY Zenon DEF Finish, Unheld, CpusTyped, OthersKeep, Keeps
<1> QED
  BY <1>4, <1>5, Zenon DEF Leaves

LEMMA ConsumeLeaves ==
    ASSUME CpusTyped, NEW c \in Cpus, NEW p \in Packets, NEW v \in Policies,
           NEW g \in {"syn", "admit"}, Consume(c, p, v, g)
    PROVE  Leaves(c)
<1>1. Unheld(c)
  BY Zenon DEF Consume
<1>2. CpusTyped'
  BY <1>1, UnheldTyped, Zenon DEF Consume, CpusTyped
<1>5. OthersKeep(c) /\ pc'[c] \in {"idle", "lookup"} /\ held'[c] = NoElem /\ lost'[c] = FALSE
  BY Zenon DEF Consume, Unheld, CpusTyped, OthersKeep, Keeps
<1> QED
  BY <1>2, <1>5, Zenon DEF Leaves

LEMMA VerdictSets ==
    ASSUME NEW v \in Policies, NEW t \in Nat
    PROVE  FlatVerdicts(v) \subseteq Verdicts /\ TierVerdicts(v, t) \subseteq Verdicts
  BY Zenon DEF FlatVerdicts, TierVerdicts, Verdicts

LEMMA AfterSynLeaves ==
    ASSUME CpusTyped, NEW c \in Cpus, NEW p \in Packets, NEW v \in Policies, AfterSynProxy(c, p, v)
    PROVE  Leaves(c)
<1>1. CASE Consume(c, p, v, "admit")
  BY <1>1, ConsumeLeaves, Zenon
<1>2. CASE \E r \in FlatVerdicts(v) : Finish(c, r, "flat")
  <2>1. PICK r \in FlatVerdicts(v) : Finish(c, r, "flat")
    BY <1>2, Zenon
  <2> QED
    BY <2>1, FinishLeaves, VerdictSets, PacketKey, Zenon DEF Reasons
<1> QED
  BY <1>1, <1>2, Zenon DEF AfterSynProxy

LEMMA ConsumedLeaves ==
    ASSUME XdpTypeOK, NEW c \in Cpus, NEW ok \in BOOLEAN, Consumed(c, ok)
    PROVE  Leaves(c)
<1>1. CpusTyped /\ val[c] \in Policies /\ pkt[c] \in Packets /\ Tier(pkt[c]) \in Nat
  BY CpuKey, PacketKey, Zenon DEF XdpTypeOK
<1>2. CASE Finish(c, "drop", "syn")
  BY <1>1, <1>2, FinishLeaves, Zenon DEF Verdicts, Reasons
<1>3. CASE AfterSynProxy(c, pkt[c], val[c])
  BY <1>1, <1>3, AfterSynLeaves, Zenon
<1>4. CASE Finish(c, "pass", "token")
  BY <1>1, <1>4, FinishLeaves, Zenon DEF Verdicts, Reasons
<1>5. CASE \E r \in TierVerdicts(val[c], Tier(pkt[c])) : Finish(c, r, "shed")
  <2>1. PICK r \in TierVerdicts(val[c], Tier(pkt[c])) : Finish(c, r, "shed")
    BY <1>5, Zenon
  <2>2. r \in Verdicts
    BY <1>1, VerdictSets, ZenonT(30)
  <2> QED
    BY <1>1, <2>1, <2>2, FinishLeaves, Zenon DEF Reasons
<1> QED
  BY <1>2, <1>3, <1>4, <1>5, Zenon DEF Consumed

\* A CPU that a step leaves alone knows as much after it, if the elements in the
\* map stay and more of them may be astray.
LEMMA KeptOK ==
    ASSUME NEW d \in Cpus, CpuOK(d), Keeps(d), slot' = slot, astray \subseteq astray'
    PROVE  CpuOK(d)'
<1>1. Key(d)' = Key(d) /\ Tier(pkt'[d]) = Tier(pkt[d])
  BY Zenon DEF Keeps, Key
<1> QED
  BY <1>1, Zenon DEF CpuOK, Keeps

\* Leaving token_consume disturbs nobody else's part of the invariant.
LEMMA LeavesOK ==
    ASSUME CpuInv, NEW c \in Cpus, Leaves(c), slot' = slot, astray \subseteq astray'
    PROVE  CpuInv'
<1>1. CpuOK(c)'
  <2>1. pc'[c] \notin Busy /\ pc'[c] # "store"
    BY Zenon DEF Leaves, Busy
  <2> QED
    BY <2>1, Zenon DEF Leaves, CpuOK
<1>2. ASSUME NEW d \in Cpus \ {c} PROVE CpuOK(d)'
  BY <1>2, KeptOK, Zenon DEF Leaves, OthersKeep, CpuInv
<1> QED
  BY <1>1, <1>2, Zenon DEF CpuInv

-----------------------------------------------------------------------------
(* One lemma per action *)

LEMMA ReceiveLeaves ==
    ASSUME XdpTypeOK, NEW c \in Cpus, NEW p \in Packets, Receive(c, p)
    PROVE  Leaves(c)
<1>1. PICK v \in policy :
        \/ Finish(c, "drop", "blocked")
        \/ Consume(c, p, v, "syn")
        \/ AfterSynProxy(c, p, v)
  BY Zenon DEF Receive
<1>2. v \in Policies /\ CpusTyped
  BY Zenon DEF XdpTypeOK, MapsTyped
<1> QED
  BY <1>1, <1>2, FinishLeaves, ConsumeLeaves, AfterSynLeaves, Zenon DEF Verdicts, Reasons

\* A step that leaves the maps alone keeps what they promise.
LEMMA MapsKept ==
    ASSUME XdpInv, UNCHANGED mapVars
    PROVE  SlotsApart' /\ BucketInv' /\ (UNCHANGED policy => MapsTyped')
<1>1. slot' = slot /\ tokens' = tokens /\ age' = age /\ astray' = astray
  BY Zenon DEF mapVars
<1> QED
  BY <1>1, Zenon DEF XdpInv, XdpTypeOK, MapsTyped, SlotsApart, BucketInv

LEMMA ReceiveInv ==
    ASSUME XdpInv, NEW c \in Cpus, NEW p \in Packets, Receive(c, p)
    PROVE  XdpInv'
<1>1. UNCHANGED mapVars /\ UNCHANGED policy /\ slot' = slot /\ astray' = astray
  BY Zenon DEF Receive, mapVars
<1>2. Leaves(c)
  BY ReceiveLeaves, Zenon DEF XdpInv
<1>3. CpuInv'
  BY <1>1, <1>2, LeavesOK, Zenon DEF XdpInv
<1>4. CpusTyped'
  BY <1>2, Zenon DEF Leaves
<1> QED
  BY <1>1, <1>3, <1>4, MapsKept, Zenon DEF XdpInv, XdpTypeOK

LEMMA BypassInv ==
    ASSUME XdpInv, NEW c \in Cpus, Bypass(c)
    PROVE  XdpInv'
<1>1. UNCHANGED mapVars /\ UNCHANGED policy /\ slot' = slot /\ astray' = astray
  BY Zenon DEF Bypass, mapVars
<1>2. CpusTyped' /\ \A d \in Cpus : Keeps(d)
  BY Zenon DEF Bypass, scratchVars, bucketVars, XdpInv, XdpTypeOK, CpusTyped, Keeps
<1>3. CpuInv'
  BY <1>1, <1>2, KeptOK, Zenon DEF XdpInv, CpuInv
<1> QED
  BY <1>1, <1>2, <1>3, MapsKept, Zenon DEF XdpInv, XdpTypeOK

\* The first lookup, and the second one when it finds the bucket.
LEMMA LookupInv ==
    ASSUME XdpInv, NEW c \in Cpus, Lookup(c)
    PROVE  XdpInv'
<1>1. UNCHANGED mapVars /\ UNCHANGED policy /\ slot' = slot /\ astray' = astray
  BY Zenon DEF Lookup, mapVars
<1>2. slot[Key(c)] \in Elems \cup {NoElem}
  BY CpuKey, Zenon DEF XdpInv, XdpTypeOK, MapsTyped
<1>3. CpusTyped' /\ OthersKeep(c)
  BY <1>2, Zenon DEF Lookup, scratchVars, XdpInv, XdpTypeOK, CpusTyped, OthersKeep, Keeps
<1>4. CpuOK(c)'
  <2>1. pc[c] \notin Busy /\ lost[c] = FALSE
    BY Zenon DEF Lookup, Busy, XdpInv, CpuInv, CpuOK
  <2>2. lost' = lost /\ Key(c)' = Key(c) /\ held'[c] = slot[Key(c)]
        /\ pc'[c] = (IF slot[Key(c)] = NoElem THEN "insert" ELSE "last")
    BY Zenon DEF Lookup, scratchVars, XdpInv, XdpTypeOK, CpusTyped, Key
  <2>3. pc'[c] # "store" /\ (pc'[c] \in Busy <=> slot[Key(c)] # NoElem)
    BY <2>2 DEF Busy
  <2> QED
    BY <1>1, <1>2, <2>1, <2>2, <2>3, Zenon DEF CpuOK
<1>5. CpuInv'
  <2>1. ASSUME NEW d \in Cpus \ {c} PROVE CpuOK(d)'
    BY <1>1, <1>3, KeptOK, Zenon DEF OthersKeep, XdpInv, CpuInv
  <2> QED
    BY <1>4, <2>1, Zenon DEF CpuInv
<1> QED
  BY <1>1, <1>3, <1>5, MapsKept, Zenon DEF XdpInv, XdpTypeOK

LEMMA LookupAgainInv ==
    ASSUME XdpInv, NEW c \in Cpus, LookupAgain(c)
    PROVE  XdpInv'
<1>1. UNCHANGED mapVars /\ UNCHANGED policy /\ slot' = slot /\ astray' = astray
  BY Zenon DEF LookupAgain, mapVars
<1>2. CASE /\ slot[Key(c)] # NoElem
           /\ held' = [held EXCEPT ![c] = slot[Key(c)]]
           /\ pc' = [pc EXCEPT ![c] = "last"]
           /\ UNCHANGED <<scratchVars, lag, elapsed, reg, lost, verdict>>
  <2>1. slot[Key(c)] \in Elems
    BY <1>2, CpuKey, Zenon DEF XdpInv, XdpTypeOK, MapsTyped
  <2>2. CpusTyped' /\ OthersKeep(c)
    BY <1>2, <2>1, Zenon DEF scratchVars, XdpInv, XdpTypeOK, CpusTyped, OthersKeep, Keeps
  <2>3. CpuOK(c)'
    <3>1. Key(c)' = Key(c) /\ held'[c] = slot[Key(c)] /\ pc'[c] = "last"
      BY <1>2, Zenon DEF scratchVars, XdpInv, XdpTypeOK, CpusTyped, Key
    <3>2. pc'[c] # "store" /\ pc'[c] \in Busy
      BY <3>1 DEF Busy
    <3> QED
      BY <1>1, <2>1, <3>1, <3>2, Zenon DEF CpuOK
  <2>4. CpuInv'
    <3>1. ASSUME NEW d \in Cpus \ {c} PROVE CpuOK(d)'
      BY <1>1, <2>2, KeptOK, Zenon DEF OthersKeep, XdpInv, CpuInv
    <3> QED
      BY <2>3, <3>1, Zenon DEF CpuInv
  <2> QED
    BY <1>1, <2>2, <2>4, MapsKept, Zenon DEF XdpInv, XdpTypeOK
<1>3. CASE Consumed(c, TRUE)
  <2>1. Leaves(c)
    BY <1>3, ConsumedLeaves, Zenon DEF XdpInv
  <2>2. CpuInv' /\ CpusTyped'
    BY <1>1, <2>1, LeavesOK, Zenon DEF XdpInv, Leaves
  <2> QED
    BY <1>1, <2>2, MapsKept, Zenon DEF XdpInv, XdpTypeOK
<1> QED
  BY <1>2, <1>3, Zenon DEF LookupAgain

LEMMA RefusedInv ==
    ASSUME XdpInv, NEW c \in Cpus, InsertRefused(c)
    PROVE  XdpInv'
<1>1. UNCHANGED mapVars /\ UNCHANGED policy /\ slot' = slot /\ astray' = astray
  BY Zenon DEF InsertRefused, mapVars
<1>2. CpusTyped' /\ OthersKeep(c)
  BY Zenon DEF InsertRefused, scratchVars, bucketVars, XdpInv, XdpTypeOK, CpusTyped, OthersKeep, Keeps
<1>3. CpuOK(c)'
  <2>1. pc[c] \notin Busy /\ pc'[c] \notin Busy /\ pc'[c] # "store" /\ held' = held /\ lost' = lost
    BY DEF InsertRefused, bucketVars, Busy, XdpInv, XdpTypeOK, CpusTyped
  <2> QED
    BY <2>1, Zenon DEF CpuOK, XdpInv, CpuInv
<1>4. CpuInv'
  <2>1. ASSUME NEW d \in Cpus \ {c} PROVE CpuOK(d)'
    BY <1>1, <1>2, KeptOK, Zenon DEF OthersKeep, XdpInv, CpuInv
  <2> QED
    BY <1>3, <2>1, Zenon DEF CpuInv
<1> QED
  BY <1>1, <1>2, <1>4, MapsKept, Zenon DEF XdpInv, XdpTypeOK

\* `now' of a packet in token_consume is no older than an age may be.
LEMMA LagIsAge ==
    ASSUME XdpTypeOK, NEW c \in Cpus
    PROVE  lag[c] \in 0..MaxAge /\ 0 \in 0..MaxAge
<1>1. lag[c] \in 0..MaxLag
  BY Zenon DEF XdpTypeOK, CpusTyped
<1>2. (Burst + 1) * Sec \in Nat
  BY XdpAssumption
<1> QED
  BY <1>1, <1>2, XdpAssumption

\* The contents of the other elements are kept when e is unlinked.
LEMMA UnlinkedKeeps ==
    ASSUME NEW S, NEW f \in [Elems -> S], NEW e, 0 \in S
    PROVE  /\ Unlinked(f, e) \in [Elems -> S]
           /\ \A x \in Elems : Unlinked(f, e)[x] \in {f[x], 0}
           /\ \A x \in Elems \ {e} : Unlinked(f, e)[x] = f[x]
  BY Zenon DEF Unlinked

\* A bucket inserted is that of its key, and what was in its place is lost to
\* the CPUs that hold it.
LEMMA InsertInv ==
    ASSUME XdpInv, NEW c \in Cpus, Insert(c)
    PROVE  XdpInv'
<1> DEFINE k == Key(c)
           old == slot[k]
<1>0. /\ XdpTypeOK /\ k \in Keys /\ k[2] = Tier(pkt[c]) /\ k[2] \in Tiers
      /\ pc[c] = "insert" /\ old \in Elems \cup {NoElem}
  BY CpuKey, Zenon DEF XdpInv, Insert, XdpTypeOK, MapsTyped
<1>1. PICK e \in Elems :
          /\ ~Linked(e)
          /\ tokens' = [Unlinked(tokens, old) EXCEPT ![e] = Rate(c)]
          /\ age' = [Unlinked(age, old) EXCEPT ![e] = lag[c]]
          /\ slot' = [slot EXCEPT ![k] = e]
          /\ astray' = astray \ {e}
  BY Zenon DEF Insert
<1>2. /\ lost' = Losers(old) /\ pc' = [pc EXCEPT ![c] = "again"]
      /\ UNCHANGED <<policy, scratchVars, held, lag, elapsed, reg, verdict>>
  BY Zenon DEF Insert
<1>3. /\ tokens \in [Elems -> Nat] /\ age \in [Elems -> 0..MaxAge] /\ slot \in [Keys -> Elems \cup {NoElem}]
      /\ 0 \in Nat /\ 0 \in 0..MaxAge /\ lag[c] \in 0..MaxAge /\ Rate(c) \in Nat
  <2>1. /\ tokens \in [Elems -> Nat] /\ age \in [Elems -> 0..MaxAge] /\ slot \in [Keys -> Elems \cup {NoElem}]
    BY <1>0, Zenon DEF XdpTypeOK, MapsTyped
  <2>2. lag[c] \in 0..MaxAge /\ 0 \in 0..MaxAge
    BY <1>0, LagIsAge, Zenon
  <2>3. Rate(c) \in Nat
    BY <1>0, CpuRate
  <2> QED
    BY <2>1, <2>2, <2>3
<1>4. /\ Unlinked(tokens, old) \in [Elems -> Nat]
      /\ \A x \in Elems : Unlinked(tokens, old)[x] \in {tokens[x], 0}
      /\ \A x \in Elems \ {old} : Unlinked(tokens, old)[x] = tokens[x]
      /\ Unlinked(age, old) \in [Elems -> 0..MaxAge]
  BY <1>3, UnlinkedKeeps
<1> HIDE DEF k, old
<1>5. XdpTypeOK'
  <2>1. MapsTyped'
    BY <1>0, <1>1, <1>2, <1>3, <1>4, Zenon DEF XdpTypeOK, MapsTyped
  <2>2. lost' \in [Cpus -> BOOLEAN]
    BY <1>2, <1>0 DEF Losers, XdpTypeOK, CpusTyped
  <2>3. CpusTyped'
    BY <1>0, <1>2, <2>2, Zenon DEF XdpTypeOK, CpusTyped, scratchVars
  <2> QED
    BY <2>1, <2>3, Zenon DEF XdpTypeOK
<1>6. \A j \in Keys : slot[j] # e
  BY <1>1, Zenon DEF Linked
<1>7. SlotsApart'
  BY <1>0, <1>1, <1>3, <1>6, Zenon DEF XdpInv, SlotsApart
<1>8. AnyHoldable(Rate(c)) /\ Holdable(Rate(c), k[2])
  <2>1. Rate(c) \in Nat \ {0} /\ Rate(c) \in Rates(k[2])
    BY <1>0, CpuRate, Zenon
  <2>2. Rate(c) <= Burst * Rate(c)
    BY <2>1, XdpAssumption
  <2> QED
    BY <1>0, <2>1, <2>2, Zenon DEF AnyHoldable, Holdable
<1>9. BucketInv'
  <2>1. ASSUME NEW x \in Elems PROVE AnyHoldable(tokens'[x])
    BY <1>1, <1>4, <1>8, ZeroHoldable, Zenon DEF XdpInv, BucketInv
  <2>2. ASSUME NEW j \in Keys, slot'[j] \in Elems, slot'[j] \notin astray'
        PROVE  Holdable(tokens'[slot'[j]], j[2])
    <3>1. CASE j = k
      <4>1. slot'[j] = e /\ tokens'[e] = Rate(c)
        BY <3>1, <1>0, <1>1, <1>3, <1>4, Zenon
      <4> QED
        BY <3>1, <4>1, <1>8, Zenon
    <3>2. CASE j # k
      <4>1. slot'[j] = slot[j] /\ slot[j] # e /\ slot[j] # old
        <5>1. slot'[j] = slot[j] /\ slot[j] # e
          BY <3>2, <1>1, <1>3, <1>6, Zenon
        <5>2. slot[j] # NoElem
          BY <5>1, <2>2, XdpAssumption, Zenon
        <5> QED
          BY <5>1, <5>2, <3>2, <1>0, Zenon DEF XdpInv, SlotsApart, old
      <4>2. tokens'[slot[j]] = tokens[slot[j]] /\ slot[j] \notin astray
        BY <4>1, <2>2, <1>1, <1>4
      <4> QED
        BY <4>1, <4>2, <2>2, Zenon DEF XdpInv, BucketInv
    <3> QED
      BY <3>1, <3>2, Zenon
  <2> QED
    BY <2>1, <2>2, Zenon DEF BucketInv
<1>10. ASSUME NEW d \in Cpus PROVE CpuOK(d)'
  <2>1. /\ CpuOK(d) /\ Key(d)' = Key(d) /\ Tier(pkt'[d]) = Tier(pkt[d])
        /\ held' = held /\ reg' = reg /\ Key(d) \in Keys
    BY <1>0, <1>2, CpuKey, Zenon DEF XdpInv, CpuInv, scratchVars, Key
  <2>2. lost'[d] = (lost[d] \/ (held[d] = old /\ old # NoElem)) /\ lost[d] \in BOOLEAN
    BY <1>0, <1>2, Zenon DEF Losers, XdpTypeOK, CpusTyped
  <2>3. (pc'[d] \in Busy <=> pc[d] \in Busy) /\ (pc'[d] = "store" <=> pc[d] = "store")
    <3>1. pc' = [pc EXCEPT ![c] = "again"] /\ pc[c] = "insert" /\ pc \in [Cpus -> {"idle", "lookup", "insert", "again", "last", "tokens", "store"}]
      BY <1>0, <1>2, Zenon DEF XdpTypeOK, CpusTyped
    <3> QED
      BY <3>1 DEF Busy
  <2>4. CASE pc[d] \notin Busy
    BY <2>1, <2>2, <2>3, <2>4, Zenon DEF CpuOK, Busy
  <2>5. CASE pc[d] \in Busy
    <3>1. held[d] \in Elems /\ held[d] # NoElem
      BY <2>1, <2>5, XdpAssumption, Zenon DEF CpuOK
    <3>2. CASE lost'[d] = FALSE
      <4>1. lost[d] = FALSE /\ held[d] # old
        BY <2>2, <3>1, <3>2, Zenon
      <4>2. slot[Key(d)] = held[d] /\ Key(d) # k
        BY <2>1, <2>5, <4>1, Zenon DEF CpuOK, old
      <4>3. slot'[Key(d)] = held[d] /\ held[d] # e
        BY <4>2, <2>1, <1>1, <1>3, <1>6, Zenon
      <4>4. held[d] \notin astray' => held[d] \notin astray
        BY <4>3, <1>1, Zenon
      <4> QED
        BY <2>1, <2>3, <2>5, <3>1, <4>1, <4>3, <4>4, Zenon DEF CpuOK
    <3>3. CASE lost'[d] # FALSE
      BY <2>1, <2>3, <2>5, <3>1, <3>3, Zenon DEF CpuOK
    <3> QED
      BY <3>2, <3>3, Zenon
  <2> QED
    BY <2>4, <2>5, Zenon
<1> QED
  BY <1>5, <1>7, <1>9, <1>10, Zenon DEF XdpInv, CpuInv

LEMMA LoadLastInv ==
    ASSUME XdpInv, NEW c \in Cpus, LoadLast(c)
    PROVE  XdpInv'
<1>1. UNCHANGED mapVars /\ UNCHANGED policy /\ slot' = slot /\ astray' = astray
  BY Zenon DEF LoadLast, mapVars
<1>2. age[held[c]] - lag[c] \in Int
  <2>1. held[c] \in Elems
    BY Zenon DEF LoadLast, Busy, XdpInv, CpuInv, CpuOK
  <2> QED
    BY <2>1, XdpAssumption DEF XdpInv, XdpTypeOK, MapsTyped, CpusTyped
<1>3. CpusTyped' /\ OthersKeep(c)
  BY <1>2, Zenon DEF LoadLast, scratchVars, XdpInv, XdpTypeOK, CpusTyped, OthersKeep, Keeps
<1>4. CpuOK(c)'
  <2>1. pc[c] \in Busy /\ pc'[c] \in Busy /\ pc'[c] # "store" /\ held' = held /\ lost' = lost /\ Key(c)' = Key(c)
    BY DEF LoadLast, scratchVars, Busy, XdpInv, XdpTypeOK, CpusTyped, Key
  <2> QED
    BY <1>1, <2>1, Zenon DEF CpuOK, XdpInv, CpuInv
<1>5. CpuInv'
  <2>1. ASSUME NEW d \in Cpus \ {c} PROVE CpuOK(d)'
    BY <1>1, <1>3, KeptOK, Zenon DEF OthersKeep, XdpInv, CpuInv
  <2> QED
    BY <1>4, <2>1, Zenon DEF CpuInv
<1> QED
  BY <1>1, <1>3, <1>5, MapsKept, Zenon DEF XdpInv, XdpTypeOK

LEMMA LoadTokensInv ==
    ASSUME XdpInv, NEW c \in Cpus, LoadTokens(c)
    PROVE  XdpInv'
<1>1. UNCHANGED mapVars /\ UNCHANGED policy /\ slot' = slot /\ astray' = astray
  BY Zenon DEF LoadTokens, mapVars
<1>2. held[c] \in Elems /\ tokens[held[c]] \in Nat
  BY Zenon DEF LoadTokens, Busy, XdpInv, XdpTypeOK, MapsTyped, CpuInv, CpuOK
<1>3. CpusTyped' /\ OthersKeep(c)
  BY <1>2, Zenon DEF LoadTokens, scratchVars, XdpInv, XdpTypeOK, CpusTyped, OthersKeep, Keeps
<1>4. CpuOK(c)'
  <2>1. /\ pc[c] \in Busy /\ pc'[c] \in Busy /\ held' = held /\ lost' = lost /\ Key(c)' = Key(c)
        /\ reg'[c] = tokens[held[c]] /\ Tier(pkt'[c]) = Tier(pkt[c])
    BY DEF LoadTokens, scratchVars, Busy, XdpInv, XdpTypeOK, CpusTyped, Key
  <2>2. CpuOK(c) /\ AnyHoldable(tokens[held[c]])
    BY <1>2, Zenon DEF XdpInv, CpuInv, BucketInv
  <2>3. lost[c] = FALSE /\ held[c] \notin astray => Holdable(tokens[held[c]], Tier(pkt[c]))
    <3>1. Key(c) \in Keys /\ Key(c)[2] = Tier(pkt[c])
      BY CpuKey, Zenon DEF XdpInv
    <3> QED
      BY <3>1, <1>2, <2>1, <2>2, Zenon DEF XdpInv, BucketInv, CpuOK
  <2> QED
    BY <1>1, <2>1, <2>2, <2>3, Zenon DEF CpuOK
<1>5. CpuInv'
  <2>1. ASSUME NEW d \in Cpus \ {c} PROVE CpuOK(d)'
    BY <1>1, <1>3, KeptOK, Zenon DEF OthersKeep, XdpInv, CpuInv
  <2> QED
    BY <1>4, <2>1, Zenon DEF CpuInv
<1> QED
  BY <1>1, <1>3, <1>5, MapsKept, Zenon DEF XdpInv, XdpTypeOK

\* The refill step keeps the tokens within the cap of the tier what was loaded
\* was within.
LEMMA RefilledHoldable ==
    ASSUME XdpTypeOK, NEW c \in Cpus, NEW t \in Tiers, Holdable(reg[c], t)
    PROVE  Refilled(c) \in Nat /\ (Holdable(Refilled(c), t) \/ Holdable(Refilled(c), Tier(pkt[c])))
<1>1. /\ Rate(c) \in Rates(Tier(pkt[c])) /\ Rate(c) \in Nat /\ reg[c] \in Nat /\ elapsed[c] \in Int
      /\ Sec \in Nat \ {0} /\ Burst \in Nat
  <2>1. Rate(c) \in Rates(Tier(pkt[c])) /\ Rate(c) \in Nat
    BY CpuRate
  <2> QED
    BY <2>1, XdpAssumption DEF XdpTypeOK, CpusTyped
<1>2. Cap(c) \in Nat /\ Holdable(Cap(c), Tier(pkt[c]))
  BY <1>1 DEF Cap, Holdable
<1>3. CASE ~Refills(c)
  BY <1>1, <1>3, Zenon DEF Refilled
<1>4. CASE Refills(c) /\ elapsed[c] < 0
  BY <1>2, <1>4, Zenon DEF Refilled
<1>5. CASE Refills(c) /\ ~(elapsed[c] < 0)
  <2>1. (elapsed[c] \div Sec) \in Nat
    BY <1>1, <1>5
  <2> DEFINE q == elapsed[c] \div Sec
  <2> HIDE DEF q
  <2>2. reg[c] + q * Rate(c) \in Nat
    BY <1>1, <2>1 DEF q
  <2>3. Refilled(c) = AtMost(reg[c] + q * Rate(c), Cap(c))
    BY <1>5, Zenon DEF Refilled, q
  <2>4. Refilled(c) \in Nat /\ Refilled(c) <= Cap(c)
    BY <2>2, <2>3, <1>2 DEF AtMost
  <2> QED
    BY <1>1, <2>4, Zenon DEF Holdable, Cap
<1> QED
  BY <1>3, <1>4, <1>5, Zenon

\* A store by a CPU that holds the element of its key keeps it within the cap of
\* its tier; any other one leaves the element astray, within the cap of some.
LEMMA StoreInv ==
    ASSUME XdpInv, NEW c \in Cpus, Store(c)
    PROVE  XdpInv'
<1> DEFINE e == held[c]
           n == Refilled(c) - Spent(c)
<1>0. XdpTypeOK /\ SlotsApart /\ BucketInv /\ CpuInv /\ CpuOK(c)
  BY Zenon DEF XdpInv, CpuInv
<1>1. /\ pc[c] = "store" /\ pc[c] \in Busy /\ e \in Elems /\ Key(c) \in Keys /\ Key(c)[2] = Tier(pkt[c])
      /\ Tier(pkt[c]) \in Tiers
  BY <1>0, CpuKey, Zenon DEF Store, CpuOK, Busy
<1>2. /\ tokens \in [Elems -> Nat] /\ age \in [Elems -> 0..MaxAge] /\ slot \in [Keys -> Elems \cup {NoElem}]
      /\ astray \subseteq Elems /\ lag[c] \in 0..MaxAge /\ 0 \in 0..MaxAge /\ lost[c] \in BOOLEAN
  BY <1>0, LagIsAge, Zenon DEF XdpTypeOK, MapsTyped, CpusTyped
<1>3. n \in Nat /\ n <= Refilled(c) /\ Refilled(c) \in Nat /\ AnyHoldable(Refilled(c)) /\ (Spent(c) = 1) \in BOOLEAN
  <2>1. PICK t \in Tiers : Holdable(reg[c], t)
    BY <1>0, <1>1, Zenon DEF CpuOK, AnyHoldable
  <2>2. Refilled(c) \in Nat /\ (Holdable(Refilled(c), t) \/ Holdable(Refilled(c), Tier(pkt[c])))
    BY <1>0, <2>1, RefilledHoldable, Zenon
  <2>3. AnyHoldable(Refilled(c))
    BY <1>1, <2>1, <2>2, Zenon DEF AnyHoldable
  <2>4. n \in Nat /\ n <= Refilled(c) /\ (Spent(c) = 1) \in BOOLEAN
    BY <2>2 DEF Spent
  <2> QED
    BY <2>2, <2>3, <2>4, Zenon
<1>4. AnyHoldable(n)
  <2>1. PICK t \in Tiers : Holdable(Refilled(c), t)
    BY <1>3, Zenon DEF AnyHoldable
  <2> QED
    BY <1>3, <2>1, FewerHoldable, Zenon DEF AnyHoldable
<1>5. lost[c] = FALSE /\ e \notin astray => Holdable(n, Tier(pkt[c]))
  <2> SUFFICES ASSUME lost[c] = FALSE, e \notin astray PROVE Holdable(n, Tier(pkt[c]))
    BY Zenon
  <2>1. Holdable(reg[c], Tier(pkt[c]))
    BY <1>0, <1>1, Zenon DEF CpuOK
  <2>2. Holdable(Refilled(c), Tier(pkt[c]))
    BY <1>0, <1>1, <2>1, RefilledHoldable, Zenon
  <2> QED
    BY <1>1, <1>3, <2>2, FewerHoldable, Zenon
<1>6. Leaves(c)
  BY <1>0, <1>3, ConsumedLeaves, Zenon DEF Store
<1> HIDE DEF n
<1>7. ASSUME MapsTyped', BucketInv', slot' = slot, astray \subseteq astray'
      PROVE  XdpInv'
  <2>1. CpuInv' /\ CpusTyped'
    BY <1>0, <1>6, <1>7, LeavesOK, Zenon DEF Leaves
  <2>2. SlotsApart'
    BY <1>0, <1>7, Zenon DEF SlotsApart
  <2> QED
    BY <1>7, <2>1, <2>2, Zenon DEF XdpInv, XdpTypeOK
<1>8. CASE WriteBack(c, n, Refills(c))
  <2>1. /\ tokens' = [tokens EXCEPT ![e] = n]
        /\ age' = IF Refills(c) THEN [age EXCEPT ![e] = lag[c]] ELSE age
        /\ astray' = IF lost[c] THEN astray \cup {e} ELSE astray
        /\ policy' = policy /\ slot' = slot
    BY <1>8, Zenon DEF WriteBack
  <2>2. MapsTyped' /\ astray \subseteq astray'
    BY <1>0, <1>1, <1>2, <1>3, <2>1, Zenon DEF XdpTypeOK, MapsTyped
  <2>3. ASSUME NEW x \in Elems PROVE AnyHoldable(tokens'[x])
    BY <1>0, <1>2, <1>4, <2>1, Zenon DEF BucketInv
  <2>4. ASSUME NEW j \in Keys, slot'[j] \in Elems, slot'[j] \notin astray'
        PROVE  Holdable(tokens'[slot'[j]], j[2])
    <3>1. CASE slot[j] # e
      BY <1>0, <1>2, <2>1, <2>2, <2>4, <3>1, Zenon DEF BucketInv
    <3>2. CASE slot[j] = e
      <4>1. lost[c] = FALSE /\ e \notin astray
        BY <1>2, <2>1, <2>2, <2>4, <3>2, Zenon
      <4>2. slot[Key(c)] = e /\ e # NoElem
        BY <1>0, <1>1, <4>1, XdpAssumption, Zenon DEF CpuOK
      <4>3. j = Key(c)
        BY <1>0, <1>1, <3>2, <4>2, Zenon DEF SlotsApart
      <4>4. tokens'[slot'[j]] = n
        BY <1>1, <1>2, <2>1, <3>2, Zenon
      <4> QED
        BY <1>1, <1>5, <4>1, <4>3, <4>4, Zenon
    <3> QED
      BY <3>1, <3>2, Zenon
  <2> QED
    BY <1>7, <2>1, <2>2, <2>3, <2>4, Zenon DEF BucketInv
<1>9. CASE UNCHANGED <<policy, mapVars>>
  <2>1. slot' = slot /\ astray' = astray /\ UNCHANGED mapVars /\ UNCHANGED policy
    BY <1>9, Zenon DEF mapVars
  <2> QED
    BY <1>7, <2>1, MapsKept, Zenon
<1>10. CASE /\ StoresNowhere(c)
            /\ tokens' = [tokens EXCEPT ![e] = 0] /\ age' = [age EXCEPT ![e] = 0]
            /\ UNCHANGED <<policy, slot, astray>>
  <2>1. MapsTyped' /\ slot' = slot /\ astray' = astray
    BY <1>0, <1>1, <1>2, <1>10 DEF XdpTypeOK, MapsTyped
  <2>2. ASSUME NEW x \in Elems PROVE AnyHoldable(tokens'[x])
    BY <1>0, <1>2, <1>10, ZeroHoldable, Zenon DEF BucketInv
  <2>3. ASSUME NEW j \in Keys, slot'[j] \in Elems, slot'[j] \notin astray'
        PROVE  Holdable(tokens'[slot'[j]], j[2])
    <3>1. slot[j] # e
      BY <1>10, Zenon DEF StoresNowhere, Linked
    <3>2. tokens'[slot[j]] = tokens[slot[j]]
      BY <1>2, <1>10, <2>1, <2>3, <3>1, Zenon
    <3> QED
      BY <1>0, <2>1, <2>3, <3>2, Zenon DEF BucketInv
  <2> QED
    BY <1>7, <2>1, <2>2, <2>3, Zenon DEF BucketInv
<1> QED
  BY <1>8, <1>9, <1>10, Zenon DEF Store, n

\* The LRU takes a bucket from the CPUs that hold it too.
LEMMA EvictInv ==
    ASSUME XdpInv, NEW k \in Keys, Evict(k)
    PROVE  XdpInv'
<1> DEFINE old == slot[k]
<1>0. XdpTypeOK /\ SlotsApart /\ BucketInv /\ CpuInv
  BY Zenon DEF XdpInv
<1>1. /\ old # NoElem /\ slot' = [slot EXCEPT ![k] = NoElem] /\ lost' = Losers(old)
      /\ tokens' = Unlinked(tokens, old) /\ age' = Unlinked(age, old)
      /\ UNCHANGED <<policy, astray, pc, scratchVars, held, lag, elapsed, reg, verdict>>
  BY Zenon DEF Evict
<1>2. /\ tokens \in [Elems -> Nat] /\ age \in [Elems -> 0..MaxAge] /\ slot \in [Keys -> Elems \cup {NoElem}]
      /\ 0 \in Nat /\ 0 \in 0..MaxAge
  BY <1>0, XdpAssumption DEF XdpTypeOK, MapsTyped
<1> HIDE DEF old
<1>3. /\ Unlinked(tokens, old) \in [Elems -> Nat]
      /\ \A x \in Elems : Unlinked(tokens, old)[x] \in {tokens[x], 0}
      /\ \A x \in Elems \ {old} : Unlinked(tokens, old)[x] = tokens[x]
      /\ Unlinked(age, old) \in [Elems -> 0..MaxAge]
  <2>1. Unlinked(age, old) \in [Elems -> 0..MaxAge]
    BY <1>2, UnlinkedKeeps
  <2>2. /\ Unlinked(tokens, old) \in [Elems -> Nat]
        /\ \A x \in Elems : Unlinked(tokens, old)[x] \in {tokens[x], 0}
        /\ \A x \in Elems \ {old} : Unlinked(tokens, old)[x] = tokens[x]
    BY <1>2, Zenon DEF Unlinked
  <2> QED
    BY <2>1, <2>2, Zenon
<1>4. XdpTypeOK'
  <2>1. MapsTyped'
    BY <1>0, <1>1, <1>2, <1>3, Zenon DEF XdpTypeOK, MapsTyped
  <2>2. lost' \in [Cpus -> BOOLEAN]
    BY <1>1, <1>0 DEF Losers, XdpTypeOK, CpusTyped
  <2>3. CpusTyped'
    BY <1>0, <1>1, <2>2, Zenon DEF XdpTypeOK, CpusTyped, scratchVars
  <2> QED
    BY <2>1, <2>3, Zenon DEF XdpTypeOK
<1>5. \A j \in Keys : slot'[j] # NoElem => j # k /\ slot'[j] = slot[j] /\ slot[j] # old
  BY <1>0, <1>1, <1>2, Zenon DEF SlotsApart, old
<1>6. SlotsApart'
  BY <1>0, <1>5, Zenon DEF SlotsApart
<1>7. BucketInv'
  <2>1. ASSUME NEW x \in Elems PROVE AnyHoldable(tokens'[x])
    BY <1>0, <1>1, <1>3, ZeroHoldable, Zenon DEF BucketInv
  <2>2. ASSUME NEW j \in Keys, slot'[j] \in Elems, slot'[j] \notin astray'
        PROVE  Holdable(tokens'[slot'[j]], j[2])
    <3>1. slot'[j] = slot[j] /\ slot[j] # old
      BY <1>5, <2>2, XdpAssumption, Zenon
    <3>2. tokens'[slot[j]] = tokens[slot[j]] /\ astray' = astray
      BY <1>1, <1>3, <2>2, <3>1, Zenon
    <3> QED
      BY <1>0, <2>2, <3>1, <3>2, Zenon DEF BucketInv
  <2> QED
    BY <2>1, <2>2, Zenon DEF BucketInv
<1>8. ASSUME NEW d \in Cpus PROVE CpuOK(d)'
  <2>1. /\ CpuOK(d) /\ Key(d)' = Key(d) /\ Tier(pkt'[d]) = Tier(pkt[d]) /\ pc' = pc
        /\ held' = held /\ reg' = reg /\ Key(d) \in Keys /\ astray' = astray
    BY <1>0, <1>1, CpuKey, Zenon DEF CpuInv, scratchVars, Key
  <2>2. lost'[d] = (lost[d] \/ (held[d] = old /\ old # NoElem)) /\ lost[d] \in BOOLEAN
    BY <1>0, <1>1, Zenon DEF Losers, XdpTypeOK, CpusTyped
  <2>3. CASE pc[d] \notin Busy
    BY <2>1, <2>2, <2>3, Zenon DEF CpuOK, Busy
  <2>4. CASE pc[d] \in Busy /\ lost'[d] = FALSE
    <3>1. lost[d] = FALSE /\ held[d] # old
      BY <1>1, <2>2, <2>4, Zenon
    <3>2. slot[Key(d)] = held[d] /\ Key(d) # k
      BY <2>1, <2>4, <3>1, Zenon DEF CpuOK, old
    <3>3. slot'[Key(d)] = held[d]
      BY <1>1, <1>2, <2>1, <3>2, Zenon
    <3> QED
      BY <2>1, <2>4, <3>1, <3>3, Zenon DEF CpuOK
  <2>5. CASE pc[d] \in Busy /\ lost'[d] # FALSE
    BY <2>1, <2>5, Zenon DEF CpuOK
  <2> QED
    BY <2>3, <2>4, <2>5, Zenon
<1> QED
  BY <1>4, <1>6, <1>7, <1>8, Zenon DEF XdpInv, CpuInv

LEMMA ClockInv ==
    ASSUME XdpInv, (\E v \in Policies : UpdatePolicy(v)) \/ PassTime \/ UNCHANGED xdpVars
    PROVE  XdpInv'
<1>0. XdpTypeOK /\ SlotsApart /\ BucketInv /\ CpuInv
  BY Zenon DEF XdpInv
<1>1. /\ slot' = slot /\ tokens' = tokens /\ astray' = astray /\ UNCHANGED <<pc, scratchVars, held, elapsed, reg, lost, verdict>>
  BY Zenon DEF UpdatePolicy, PassTime, mapVars, bucketVars, xdpVars
<1>2. age' \in [Elems -> 0..MaxAge] /\ lag' \in [Cpus -> 0..MaxLag]
  <2>1. CASE PassTime
    <3>1. age' \in [Elems -> 0..MaxAge]
      BY <1>0, <2>1, XdpAssumption DEF PassTime, AtMost, XdpTypeOK, MapsTyped
    <3>2. lag' \in [Cpus -> 0..MaxLag]
      BY <1>0, <2>1, XdpAssumption DEF PassTime, XdpTypeOK, CpusTyped
    <3> QED
      BY <3>1, <3>2, Zenon
  <2>2. CASE (\E v \in Policies : UpdatePolicy(v)) \/ UNCHANGED xdpVars
    BY <1>0, <2>2, Zenon DEF UpdatePolicy, mapVars, bucketVars, xdpVars, XdpTypeOK, MapsTyped, CpusTyped
  <2> QED
    BY <2>1, <2>2, Zenon
<1>3. policy' \subseteq Policies /\ (\A v, w \in policy' : v = w)
  BY <1>0, Zenon DEF UpdatePolicy, PassTime, xdpVars, XdpTypeOK, MapsTyped
<1>4. XdpTypeOK'
  BY <1>0, <1>1, <1>2, <1>3, Zenon DEF XdpTypeOK, MapsTyped, CpusTyped, scratchVars
<1>5. SlotsApart' /\ BucketInv'
  BY <1>0, <1>1, Zenon DEF SlotsApart, BucketInv
<1>6. CpuInv'
  <2>1. ASSUME NEW d \in Cpus PROVE CpuOK(d)'
    BY <1>0, <1>1, KeptOK, Zenon DEF CpuInv, Keeps, scratchVars
  <2> QED
    BY <2>1, Zenon DEF CpuInv
<1> QED
  BY <1>4, <1>5, <1>6, Zenon DEF XdpInv

LEMMA XdpNextInv == XdpInv /\ [XdpNext]_xdpVars => XdpInv'
<1>a. SUFFICES ASSUME XdpInv, [XdpNext]_xdpVars PROVE XdpInv'
  BY Zenon
<1>1. ASSUME NEW c \in Cpus, Bypass(c) \/ (\E p \in Packets : Receive(c, p)) \/ TokenStep(c)
      PROVE  XdpInv'
  BY <1>a, <1>1, BypassInv, ReceiveInv, LookupInv, InsertInv, RefusedInv, LookupAgainInv, LoadLastInv,
     LoadTokensInv, StoreInv, Zenon DEF TokenStep
<1> QED
  BY <1>a, <1>1, EvictInv, ClockInv, Zenon DEF XdpNext

\* For any number of CPUs, elements, packets, tiers and policies, a bucket never
\* holds more than ten seconds of a rate configured for its tier: racing loads
\* and stores in token_consume lose updates but never break the cap, and where
\* the LRU hands an element on under a CPU that still stores into it, the cap of
\* some tier still holds.
THEOREM BucketsStayCapped == XdpSpec => []BucketCapped
<1>1. XdpInv => BucketCapped
  <2>a. SUFFICES ASSUME XdpInv, NEW k \in Keys, slot[k] # NoElem
        PROVE  \/ Holdable(tokens[slot[k]], k[2])
               \/ slot[k] \in astray /\ \E t \in Tiers : Holdable(tokens[slot[k]], t)
    BY Zenon DEF BucketCapped
  <2>1. slot[k] \in Elems
    BY <2>a, Zenon DEF XdpInv, XdpTypeOK, MapsTyped
  <2> QED
    BY <2>a, <2>1, Zenon DEF XdpInv, BucketInv, AnyHoldable
<1> QED
  BY <1>1, XdpInitInv, XdpNextInv, PTL DEF XdpSpec

\* Token counts stay natural numbers: token_consume never decrements an empty
\* bucket, on any number of CPUs.
THEOREM XdpTypeCorrect == XdpSpec => []XdpTypeOK
<1>1. XdpInv => XdpTypeOK
  BY Zenon DEF XdpInv
<1> QED
  BY <1>1, XdpInitInv, XdpNextInv, PTL DEF XdpSpec

-----------------------------------------------------------------------------
(* One CPU *)

OneCpu == \A c, d \in Cpus : c = d

\* With nobody to race with, what a CPU has found out about its bucket stays
\* true, and nobody puts an element it has lost back in the map.
Undisturbed ==
    \A c \in Cpus :
        /\ pc[c] = "insert" => slot[Key(c)] = NoElem
        /\ pc[c] \in Busy /\ Linked(held[c]) => lost[c] = FALSE
        /\ pc[c] = "store" /\ lost[c] = FALSE => reg[c] = tokens[held[c]]

\* A step that leaves the buckets alone conserves their tokens.
LEMMA QuietConserves ==
    ASSUME UNCHANGED tokens, \A k \in Keys : slot'[k] \in {slot[k], NoElem}
    PROVE  Conserves
  BY Zenon DEF Conserves

LEMMA UndisturbedNext == XdpInv /\ OneCpu /\ Undisturbed /\ [XdpNext]_xdpVars => Undisturbed' /\ [Conserves]_xdpVars
<1>a. SUFFICES ASSUME XdpInv, OneCpu, Undisturbed, [XdpNext]_xdpVars
      PROVE  Undisturbed' /\ [Conserves]_xdpVars
  BY Zenon
<1>0. XdpTypeOK /\ CpuInv /\ SlotsApart
  BY <1>a, Zenon DEF XdpInv
<1>1. ASSUME NEW c \in Cpus, pc'[c] \notin Busy, pc'[c] # "insert" PROVE Undisturbed'
  BY <1>a, <1>1, Zenon DEF Undisturbed, OneCpu, Busy
<1>2. ASSUME NEW c \in Cpus, Leaves(c) PROVE Undisturbed'
  <2>1. pc'[c] \notin Busy /\ pc'[c] # "insert"
    BY <1>2, Zenon DEF Leaves, Busy
  <2> QED
    BY <1>1, <2>1, Zenon
<1>3. ASSUME UNCHANGED <<slot, tokens>> PROVE Conserves
  BY <1>3, QuietConserves, Zenon
<1>4. ASSUME UNCHANGED <<pc, pkt, held, reg, lost, slot, tokens>> PROVE Undisturbed' /\ Conserves
  BY <1>a, <1>3, <1>4, Zenon DEF Undisturbed, Key, Linked
<1>5. CASE (\E v \in Policies : UpdatePolicy(v)) \/ PassTime \/ UNCHANGED xdpVars
  BY <1>4, <1>5, Zenon DEF UpdatePolicy, PassTime, xdpVars, mapVars, scratchVars, bucketVars
<1>6. ASSUME NEW c \in Cpus, Bypass(c) PROVE Undisturbed' /\ Conserves
  BY <1>4, <1>6, Zenon DEF Bypass, mapVars, scratchVars, bucketVars
<1>7. ASSUME NEW c \in Cpus, NEW p \in Packets, Receive(c, p) PROVE Undisturbed' /\ Conserves
  BY <1>0, <1>2, <1>3, <1>7, ReceiveLeaves, Zenon DEF Receive, mapVars
<1>8. ASSUME NEW c \in Cpus, Lookup(c) PROVE Undisturbed' /\ Conserves
  <2>1. UNCHANGED <<slot, tokens, lost, pkt, reg>>
    BY <1>8, Zenon DEF Lookup, mapVars, scratchVars
  <2>2. pc'[c] = (IF slot[Key(c)] = NoElem THEN "insert" ELSE "last") /\ lost[c] = FALSE
    BY <1>0, <1>8, Zenon DEF Lookup, XdpTypeOK, CpusTyped, CpuInv, CpuOK, Busy
  <2>3. Key(c)' = Key(c) /\ pc'[c] # "store" /\ (pc'[c] = "insert" => slot[Key(c)] = NoElem)
    BY <2>1, <2>2 DEF Key
  <2>4. Undisturbed'
    BY <1>a, <2>1, <2>2, <2>3, Zenon DEF Undisturbed, OneCpu
  <2> QED
    BY <1>3, <2>1, <2>4, Zenon
<1>9. ASSUME NEW c \in Cpus, Insert(c) PROVE Undisturbed' /\ Conserves
  <2>1. PICK e \in Elems :
          /\ ~Linked(e)
          /\ tokens' = [Unlinked(tokens, slot[Key(c)]) EXCEPT ![e] = Rate(c)]
          /\ slot' = [slot EXCEPT ![Key(c)] = e]
    BY <1>9, Zenon DEF Insert
  <2>2. slot[Key(c)] = NoElem /\ Key(c) \in Keys /\ Unlinked(tokens, slot[Key(c)]) = tokens
    BY <1>a, <1>0, <1>9, CpuKey, Zenon DEF Undisturbed, Insert, Unlinked
  <2>3. slot \in [Keys -> Elems \cup {NoElem}] /\ tokens \in [Elems -> Nat]
    BY <1>0, Zenon DEF XdpTypeOK, MapsTyped
  <2>4. \A k \in Keys : slot[k] # NoElem => slot[k] # e /\ slot[k] \in Elems /\ k # Key(c)
    BY <2>1, <2>2, <2>3, Zenon DEF Linked
  <2>5. Conserves
    BY <2>1, <2>2, <2>3, <2>4, Zenon DEF Conserves
  <2>6. pc'[c] \notin Busy /\ pc'[c] # "insert"
    <3>1. pc'[c] = "again"
      BY <1>0, <1>9, Zenon DEF Insert, XdpTypeOK, CpusTyped
    <3> QED
      BY <3>1 DEF Busy
  <2> QED
    BY <1>1, <2>5, <2>6, Zenon
<1>10. ASSUME NEW c \in Cpus, InsertRefused(c) PROVE Undisturbed' /\ Conserves
  <2>1. pc'[c] \notin Busy /\ pc'[c] # "insert"
    <3>1. pc'[c] = "again"
      BY <1>0, <1>10, Zenon DEF InsertRefused, XdpTypeOK, CpusTyped
    <3> QED
      BY <3>1 DEF Busy
  <2> QED
    BY <1>1, <1>3, <1>10, <2>1, Zenon DEF InsertRefused, mapVars
<1>11. ASSUME NEW c \in Cpus, LookupAgain(c) PROVE Undisturbed' /\ Conserves
  <2>1. UNCHANGED <<slot, tokens>>
    BY <1>11, Zenon DEF LookupAgain, mapVars
  <2>2. CASE pc' = [pc EXCEPT ![c] = "last"] /\ UNCHANGED lost
    <3>1. pc'[c] = "last" /\ lost'[c] = FALSE
      BY <1>0, <1>11, <2>2, Zenon DEF LookupAgain, XdpTypeOK, CpusTyped, CpuInv, CpuOK, Busy
    <3>2. pc'[c] # "store" /\ pc'[c] # "insert"
      BY <3>1
    <3> QED
      BY <1>a, <1>3, <2>1, <3>1, <3>2, Zenon DEF Undisturbed, OneCpu
  <2>3. CASE Consumed(c, TRUE)
    BY <1>0, <1>2, <1>3, <2>1, <2>3, ConsumedLeaves, Zenon
  <2> QED
    BY <1>11, <2>2, <2>3, Zenon DEF LookupAgain
<1>12. ASSUME NEW c \in Cpus, LoadLast(c) \/ LoadTokens(c) PROVE Undisturbed' /\ Conserves
  <2>1. UNCHANGED <<slot, tokens, held, lost>>
    BY <1>12, Zenon DEF LoadLast, LoadTokens, mapVars
  <2>2. pc[c] \in Busy /\ pc'[c] # "insert" /\ (pc'[c] = "store" => reg'[c] = tokens[held[c]])
    BY <1>0, <1>12 DEF LoadLast, LoadTokens, XdpTypeOK, CpusTyped, Busy
  <2>3. Undisturbed'
    BY <1>a, <2>1, <2>2, Zenon DEF Undisturbed, OneCpu, Linked
  <2> QED
    BY <1>3, <2>1, <2>3, Zenon
<1>13. ASSUME NEW c \in Cpus, Store(c) PROVE Undisturbed' /\ Conserves
  <2>1. pc[c] = "store" /\ pc[c] \in Busy /\ held[c] \in Elems
    BY <1>0, <1>13, Zenon DEF Store, Busy, CpuInv, CpuOK
  <2>2. reg[c] \in Nat /\ tokens[held[c]] \in Nat /\ tokens \in [Elems -> Nat] /\ slot' = slot
    BY <1>0, <1>13, <2>1, Zenon DEF Store, WriteBack, mapVars, XdpTypeOK, MapsTyped, CpusTyped
  <2>3. Refilled(c) \in Nat /\ Spent(c) \in Nat /\ (Spent(c) = 1) \in BOOLEAN
    <3>1. PICK t \in Tiers : Holdable(reg[c], t)
      BY <1>0, <2>1, Zenon DEF CpuInv, CpuOK, AnyHoldable
    <3>2. Refilled(c) \in Nat
      BY <1>0, <3>1, RefilledHoldable, Zenon
    <3> QED
      BY <3>2 DEF Spent
  <2>4. Undisturbed'
    BY <1>0, <1>2, <1>13, <2>3, ConsumedLeaves, Zenon DEF Store
  <2>5. ASSUME NEW k \in Keys, slot[k] # NoElem
        PROVE  \/ tokens'[slot[k]] = tokens[slot[k]]
               \/ \E d \in Cpus : pc[d] = "store" /\ Key(d) = k /\ tokens'[slot[k]] = Due(d)
    <3>1. slot[k] \in Elems
      BY <1>0, <2>5, Zenon DEF XdpTypeOK, MapsTyped
    <3>2. CASE slot[k] # held[c]
      BY <1>13, <2>2, <3>1, <3>2, Zenon DEF Store, WriteBack, mapVars
    <3>3. CASE slot[k] = held[c]
      <4>1. Linked(held[c]) /\ lost[c] = FALSE /\ reg[c] = tokens[held[c]] /\ ~StoresNowhere(c)
        BY <1>a, <2>1, <3>3, Zenon DEF Undisturbed, Linked, StoresNowhere
      <4>2. Key(c) = k
        <5>1. slot[Key(c)] = held[c] /\ Key(c) \in Keys
          BY <1>0, <2>1, <4>1, CpuKey, Zenon DEF CpuInv, CpuOK
        <5> QED
          BY <1>0, <2>5, <3>3, <5>1, Zenon DEF SlotsApart
      <4>3. CASE WriteBack(c, Refilled(c) - Spent(c), Refills(c))
        <5>1. tokens'[slot[k]] = Refilled(c) - Spent(c)
          BY <2>1, <2>2, <3>3, <4>3, Zenon DEF WriteBack
        <5>2. Due(c) = Refilled(c) - Spent(c)
          BY <2>2, <2>3, <4>1 DEF Due
        <5> QED
          BY <2>1, <4>2, <5>1, <5>2, Zenon
      <4>4. CASE UNCHANGED <<policy, mapVars>>
        BY <4>4, Zenon DEF mapVars
      <4> QED
        BY <1>13, <4>1, <4>3, <4>4, Zenon DEF Store
    <3> QED
      BY <3>2, <3>3, Zenon
  <2>6. Conserves
    BY <2>2, <2>5, Zenon DEF Conserves
  <2> QED
    BY <2>4, <2>6, Zenon
<1>14. ASSUME NEW k \in Keys, Evict(k) PROVE Undisturbed' /\ Conserves
  <2>1. /\ slot[k] # NoElem /\ slot' = [slot EXCEPT ![k] = NoElem] /\ lost' = Losers(slot[k])
        /\ tokens' = Unlinked(tokens, slot[k]) /\ UNCHANGED <<pc, pkt, held, reg>>
    BY <1>14, Zenon DEF Evict, scratchVars
  <2>2. slot \in [Keys -> Elems \cup {NoElem}] /\ tokens \in [Elems -> Nat] /\ 0 \in Nat
    BY <1>0 DEF XdpTypeOK, MapsTyped
  <2>3. \A x \in Elems \ {slot[k]} : tokens'[x] = tokens[x]
    BY <2>1, <2>2, UnlinkedKeeps
  <2>4. \A j \in Keys : slot'[j] # NoElem => slot'[j] = slot[j] /\ slot[j] # slot[k] /\ slot[j] \in Elems
    BY <1>0, <2>1, <2>2, Zenon DEF SlotsApart
  <2>5. Conserves
    BY <2>3, <2>4, Zenon DEF Conserves
  <2>6. ASSUME NEW c \in Cpus
        PROVE  /\ pc'[c] = "insert" => slot'[Key(c)'] = NoElem
               /\ pc'[c] \in Busy /\ Linked(held[c])' => lost'[c] = FALSE
               /\ pc'[c] = "store" /\ lost'[c] = FALSE => reg'[c] = tokens'[held'[c]]
    <3>1. Key(c)' = Key(c) /\ Key(c) \in Keys /\ lost[c] \in BOOLEAN
          /\ lost'[c] = (lost[c] \/ (held[c] = slot[k] /\ slot[k] # NoElem))
      BY <1>0, <2>1, CpuKey, Zenon DEF Key, XdpTypeOK, CpusTyped, Losers
    <3>2. pc[c] \in Busy => held[c] \in Elems /\ held[c] # NoElem
      BY <1>0, XdpAssumption, Zenon DEF CpuInv, CpuOK
    <3>3. pc'[c] = "insert" => slot'[Key(c)'] = NoElem
      BY <1>a, <2>1, <2>2, <3>1, Zenon DEF Undisturbed
    <3>4. ASSUME pc[c] \in Busy, Linked(held[c])' PROVE lost'[c] = FALSE
      <4>1. PICK j \in Keys : slot'[j] = held[c]
        BY <2>1, <3>4, Zenon DEF Linked
      <4>2. slot[j] = held[c] /\ held[c] # slot[k]
        BY <2>4, <3>2, <3>4, <4>1, Zenon
      <4>3. lost[c] = FALSE
        BY <1>a, <3>4, <4>2, Zenon DEF Undisturbed, Linked
      <4> QED
        BY <3>1, <4>2, <4>3, Zenon
    <3>5. ASSUME pc[c] = "store", lost'[c] = FALSE PROVE reg[c] = tokens'[held[c]]
      <4>1. lost[c] = FALSE /\ held[c] # slot[k] /\ held[c] \in Elems
        BY <2>1, <3>1, <3>2, <3>5, Zenon DEF Busy
      <4> QED
        BY <1>a, <2>3, <3>5, <4>1, Zenon DEF Undisturbed
    <3> QED
      BY <2>1, <3>3, <3>4, <3>5, Zenon
  <2>7. Undisturbed'
    BY <2>6, Zenon DEF Undisturbed
  <2> QED
    BY <2>5, <2>7, Zenon
<1> QED
  BY <1>a, <1>5, <1>6, <1>7, <1>8, <1>9, <1>10, <1>11, <1>12, <1>13, <1>14, Zenon DEF XdpNext, TokenStep

\* On one CPU the bucket is exact for every packet, rate and policy, and whenever
\* the LRU takes a bucket away: its tokens change by what token_consume gives
\* and takes, and by nothing else.
THEOREM OneCpuConserves == OneCpu /\ XdpSpec => TokensConserved
<1>1. XdpInit => Undisturbed
  BY DEF XdpInit, Undisturbed, Busy
<1>2. SUFFICES ASSUME OneCpu PROVE XdpSpec => TokensConserved
  BY Zenon
<1>3. XdpInv /\ Undisturbed /\ [XdpNext]_xdpVars => XdpInv' /\ Undisturbed' /\ [Conserves]_xdpVars
  BY <1>2, XdpNextInv, UndisturbedNext, Zenon
<1> QED
  BY <1>1, <1>3, XdpInitInv, PTL DEF XdpSpec, TokensConserved

-----------------------------------------------------------------------------
(* Federation *)

BufferType ==
    /\ snaps \in [Runners -> [0..1 -> [rho : Forecasts, rest : Forecasts]]]
    /\ idx \in [Runners -> 0..1]
    /\ ticking \in [Runners -> [on : BOOLEAN, snap : Forecasts]]
    /\ at \in 0..Len(NodeURLs)
    /\ lap \in 0..1
    /\ copy \in [st : {"none", "part", "broken"}, buf : 0..1, from : Forecasts]
    /\ copy.st # "none" => at > 0

\* The published buffer holds one forecast; the other one too unless a tick is
\* half way through it.
BuffersWhole ==
    \A n \in Runners :
        /\ snaps[n][idx[n]].rho = snaps[n][idx[n]].rest
        /\ ticking[n].on \/ snaps[n][1 - idx[n]].rho = snaps[n][1 - idx[n]].rest
        /\ ticking[n].on => snaps[n][1 - idx[n]].rho = ticking[n].snap

\* What is being read is whole.  It is the published buffer, with the only tick
\* allowed perhaps in progress, or the one that this tick has just retired.
CopyWhole ==
    copy.st = "part" =>
        LET n == NodeURLs[at]
        IN  /\ snaps[n][copy.buf].rho = copy.from
            /\ snaps[n][copy.buf].rest = copy.from
            /\ copy.buf = idx[n] => (ticking[n].on => lap = 1)
            /\ copy.buf # idx[n] => (~ticking[n].on /\ lap = 1)

BufferInv == BufferType /\ BuffersWhole /\ CopyWhole

\* The node at the current URL is a runner.
LEMMA UrlIsRunner ==
    ASSUME NEW i \in 1..Len(NodeURLs)
    PROVE  NodeURLs[i] \in Runners
BY FederationAssumption

\* Initially both buffers of every runner hold the zero snapshot.
LEMMA BufferInit == FInit => BufferInv
BY FederationAssumption DEF FInit, BufferInv, BufferType, BuffersWhole, CopyWhole, NoCopy

\* The first half of a tick writes the buffer that no copy is reading.
LEMMA BeginTickKeeps ==
    ASSUME MaxLap <= 1, BufferInv, NEW n \in Runners, NEW s \in Forecasts, BeginTick(n, s)
    PROVE  BufferInv'
<1>1. BufferType'
  <2>1. snaps' \in [Runners -> [0..1 -> [rho : Forecasts, rest : Forecasts]]]
    <3> DEFINE b == [snaps[n] EXCEPT ![1 - idx[n]].rho = s]
    <3>1. b \in [0..1 -> [rho : Forecasts, rest : Forecasts]]
      BY DEF BufferInv, BufferType
    <3>2. snaps' = [snaps EXCEPT ![n] = b]
      BY Zenon DEF BeginTick, BufferInv, BufferType
    <3> QED BY <3>1, <3>2, Zenon DEF BufferInv, BufferType
  <2>2. lap' \in 0..1
    BY FederationAssumption DEF BufferInv, BufferType, BeginTick
  <2>3. ticking' \in [Runners -> [on : BOOLEAN, snap : Forecasts]]
    BY Zenon DEF BufferInv, BufferType, BeginTick
  <2> QED BY <2>1, <2>2, <2>3, Zenon DEF BufferInv, BufferType, BeginTick
<1>2. BuffersWhole'
  BY SMTT(30) DEF BufferInv, BufferType, BuffersWhole, BeginTick
<1>3. CopyWhole'
  <2> SUFFICES ASSUME copy.st = "part"
               PROVE  CopyWhole'
    BY Zenon DEF CopyWhole, BeginTick
  <2>1. at \in 1..Len(NodeURLs) /\ NodeURLs[at] \in Runners
    BY UrlIsRunner, FederationAssumption DEF BufferInv, BufferType
  <2>2. CASE NodeURLs[at] = n
    <3>1. lap = 0 /\ copy.buf = idx[n]
      BY <2>2, FederationAssumption DEF BufferInv, BufferType, CopyWhole, BeginTick, Reading
    <3> QED BY <2>1, <2>2, <3>1 DEF BufferInv, BufferType, CopyWhole, BeginTick, Reading
  <2>3. CASE NodeURLs[at] # n
    BY <2>1, <2>3, Zenon DEF BufferInv, BufferType, CopyWhole, BeginTick, Reading
  <2> QED BY <2>2, <2>3, Zenon
<1> QED BY <1>1, <1>2, <1>3, Zenon DEF BufferInv

\* The second half completes that buffer and publishes it; a copy under way goes
\* on with the buffer just retired.
LEMMA EndTickKeeps ==
    ASSUME BufferInv, NEW n \in Runners, EndTick(n)
    PROVE  BufferInv'
<1>1. BufferType'
  <2>1. snaps' \in [Runners -> [0..1 -> [rho : Forecasts, rest : Forecasts]]]
    <3> DEFINE b == [snaps[n] EXCEPT ![1 - idx[n]].rest = ticking[n].snap]
    <3>1. b \in [0..1 -> [rho : Forecasts, rest : Forecasts]]
      BY DEF BufferInv, BufferType
    <3>2. snaps' = [snaps EXCEPT ![n] = b]
      BY Zenon DEF EndTick, BufferInv, BufferType
    <3> QED BY <3>1, <3>2, Zenon DEF BufferInv, BufferType
  <2>2. idx' \in [Runners -> 0..1]
    BY SMTT(30) DEF BufferInv, BufferType, EndTick
  <2>3. ticking' \in [Runners -> [on : BOOLEAN, snap : Forecasts]]
    BY FederationAssumption, Zenon DEF BufferInv, BufferType, EndTick
  <2> QED BY <2>1, <2>2, <2>3, Zenon DEF BufferInv, BufferType, EndTick, federatorVars
<1>2. BuffersWhole'
  BY DEF BufferInv, BufferType, BuffersWhole, EndTick
<1>3. CopyWhole'
  <2> SUFFICES ASSUME copy.st = "part"
               PROVE  CopyWhole'
    BY Zenon DEF CopyWhole, EndTick, federatorVars
  <2>1. at \in 1..Len(NodeURLs) /\ NodeURLs[at] \in Runners
    BY UrlIsRunner, FederationAssumption DEF BufferInv, BufferType
  <2>2. CASE NodeURLs[at] = n
    <3>1. copy.buf = idx[n] /\ lap = 1
      BY <2>2, Zenon DEF BufferInv, CopyWhole, EndTick
    <3> QED BY <2>1, <2>2, <3>1 DEF BufferInv, BufferType, CopyWhole, EndTick, federatorVars
  <2>3. CASE NodeURLs[at] # n
    BY <2>1, <2>3, Zenon DEF BufferInv, BufferType, CopyWhole, EndTick, federatorVars
  <2> QED BY <2>2, <2>3, Zenon
<1> QED BY <1>1, <1>2, <1>3, Zenon DEF BufferInv

\* A crash empties the buffers and breaks the copy that was read from them.
LEMMA CrashKeeps ==
    ASSUME BufferInv, NEW n \in Runners, Crash(n)
    PROVE  BufferInv'
<1>1. BufferType'
  <2>1. snaps' \in [Runners -> [0..1 -> [rho : Forecasts, rest : Forecasts]]]
    BY FederationAssumption, Zenon DEF BufferInv, BufferType, Crash
  <2>2. idx' \in [Runners -> 0..1]
    BY DEF BufferInv, BufferType, Crash
  <2>3. ticking' \in [Runners -> [on : BOOLEAN, snap : Forecasts]]
    BY FederationAssumption, Zenon DEF BufferInv, BufferType, Crash
  <2>4. copy' \in [st : {"none", "part", "broken"}, buf : 0..1, from : Forecasts]
    <3>1. CASE Reading(n)
      <4>1. copy' = [st |-> "broken", buf |-> 0, from |-> Idle]
        BY <3>1, Zenon DEF Crash, NoCopy
      <4> QED BY <4>1, FederationAssumption
    <3>2. CASE ~Reading(n)
      BY <3>2, Zenon DEF BufferInv, BufferType, Crash
    <3> QED BY <3>1, <3>2, Zenon
  <2>5. copy'.st # "none" => at' > 0
    BY Zenon DEF BufferInv, BufferType, Crash, NoCopy, Reading
  <2> QED BY <2>1, <2>2, <2>3, <2>4, <2>5, Zenon DEF BufferInv, BufferType, Crash
<1>2. BuffersWhole'
  BY DEF BufferInv, BufferType, BuffersWhole, Crash
<1>3. CopyWhole'
  <2> SUFFICES ASSUME copy'.st = "part"
               PROVE  CopyWhole'
    BY Zenon DEF CopyWhole
  <2>1. ~Reading(n) /\ copy' = copy /\ copy.st = "part"
    BY Zenon DEF Crash, NoCopy
  <2>2. at \in 1..Len(NodeURLs) /\ NodeURLs[at] \in Runners /\ NodeURLs[at] # n
    BY <2>1, UrlIsRunner, FederationAssumption DEF BufferInv, BufferType, Reading
  <2> QED BY <2>1, <2>2, ZenonT(30) DEF BufferInv, BufferType, CopyWhole, Crash
<1> QED BY <1>1, <1>2, <1>3, Zenon DEF BufferInv

\* A scrape starts on the published buffer; every other step of the federator
\* drops the copy or leaves everything as it is.
LEMMA FederateKeeps ==
    ASSUME BufferInv, Federate
    PROVE  BufferInv'
<1>1. CASE BeginRound
  BY <1>1, FederationAssumption
  DEF BufferInv, BufferType, BuffersWhole, CopyWhole, BeginRound, nodeVars
<1>2. CASE BeginScrape
  <2>1. at \in 1..Len(NodeURLs) /\ NodeURLs[at] \in Runners
    BY <1>2, UrlIsRunner, FederationAssumption DEF BufferInv, BufferType, BeginScrape
  <2>2. BufferType'
    BY <1>2, <2>1 DEF BufferInv, BufferType, BeginScrape, nodeVars
  <2>3. BuffersWhole'
    BY <1>2, Zenon DEF BufferInv, BuffersWhole, BeginScrape, nodeVars
  <2>4. CopyWhole'
    BY <1>2, <2>1, Zenon DEF BufferInv, BufferType, BuffersWhole, CopyWhole, BeginScrape, nodeVars
  <2> QED BY <2>2, <2>3, <2>4, ZenonT(30) DEF BufferInv
<1>3. CASE EndScrape \/ ScrapeFails
  <2>1. copy' = NoCopy /\ lap' = 0 /\ (at' = 0 \/ (at < Len(NodeURLs) /\ at' = at + 1))
    BY <1>3, FederationAssumption DEF EndScrape, ScrapeFails, Proceed, BufferInv, BufferType
  <2>2. UNCHANGED nodeVars
    BY <1>3, Zenon DEF EndScrape, ScrapeFails
  <2> QED BY <2>1, <2>2, FederationAssumption
       DEF BufferInv, BufferType, BuffersWhole, CopyWhole, NoCopy, nodeVars
<1> QED BY <1>1, <1>2, <1>3, ZenonT(30) DEF Federate

\* Every step keeps the buffers and the copy whole.
LEMMA BufferStep ==
    ASSUME MaxLap <= 1, BufferInv, [FNext]_fvars
    PROVE  BufferInv'
<1>1. CASE UNCHANGED fvars
  BY <1>1, Zenon DEF BufferInv, BufferType, BuffersWhole, CopyWhole, fvars
<1>2. ASSUME NEW n \in Runners, Tick(n) \/ Crash(n) \/ Restart(n)
      PROVE  BufferInv'
  <2>1. CASE Restart(n)
    BY <2>1, Zenon DEF BufferInv, BufferType, BuffersWhole, CopyWhole, Restart, federatorVars
  <2> QED BY <1>2, <2>1, BeginTickKeeps, EndTickKeeps, CrashKeeps, ZenonT(30) DEF Tick
<1>3. CASE Pusher
  BY <1>3, Zenon DEF BufferInv, BufferType, BuffersWhole, CopyWhole, Pusher, BeginPush, Push,
              nodeVars, federatorVars
<1> QED BY <1>1, <1>2, <1>3, FederateKeeps, Zenon DEF FNext

\* Collect never mixes two forecasts while at most one tick begins during a copy.
THEOREM CopiesAreWhole ==
    ASSUME MaxLap <= 1
    PROVE  FSpec => []SnapshotIntact
<1>1. FInit => BufferInv
  BY BufferInit, Zenon
<1>2. BufferInv /\ [FNext]_fvars => BufferInv'
  BY BufferStep, Zenon
<1>3. BufferInv => SnapshotIntact
  BY Zenon DEF BufferInv, CopyWhole, SnapshotIntact
<1> QED BY <1>1, <1>2, <1>3, PTL DEF FSpec

=============================================================================
