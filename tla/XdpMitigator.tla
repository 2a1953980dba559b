---------------------------- MODULE XdpMitigator ----------------------------
(***************************************************************************)
(* Packet admission in the kernel, bpf/xdp_mitigator.c over the maps of    *)
(* bpf/policy_map.h.  Every CPU runs the program on its own packets; the   *)
(* policy and the token buckets are shared and updated without atomics.    *)
(*                                                                         *)
(* A packet is a record [tcp, syn, src, port]: what parse_ipv4_tcp leaves  *)
(* of it (tcp is FALSE when it returns -1).  Random draws against a rate   *)
(* in ppm become choices: below the rate if it is positive, not below if   *)
(* it is less than the scale.  Time is relative: age[e] is the time since  *)
(* the element's last_refill_ns and lag[c] the time since CPU c read `now', *)
(* so now - last_refill_ns is age - lag, which is negative when another    *)
(* CPU has refilled the bucket since, and then wraps to a huge u64.  Ages  *)
(* saturate at MaxAge, where a refill is already capped.                   *)
(*                                                                         *)
(* A CPU evaluates token_consume in the memory accesses the compiled code  *)
(* makes: look the bucket up, insert a missing one and look it up again,   *)
(* load last_refill_ns, load the tokens, store.  The tokens are loaded     *)
(* once (no reload between the test and the decrement).                    *)
(*                                                                         *)
(* A CPU holds pointers into two maps.  `val' is the policy's element: an  *)
(* update of the hash map puts another element in its place, and the old   *)
(* one is written again by the second update at the earliest, which a      *)
(* packet is not in the program long enough to see, so val is the value    *)
(* found at the start.  `held' is a bucket's element, one of the           *)
(* preallocated Elems of the LRU map, which is unlinked and reused for     *)
(* another key whether a CPU holds it or not.                              *)
(***************************************************************************)
EXTENDS Integers

CONSTANTS
    Cpus, Packets,
    Policies,       \* values userspace may write to elite_policy[0]
    Blocked,        \* sources in elite_src_block
    PortTier,       \* elite_port_tier: port -> tier
    VipTier,        \* elite_vip_lpm: source -> tier
    DevMap,         \* elite_devmap[0] is set
    PPM_SCALE,      \* ELITE_PPM_SCALE
    Sec,            \* 10^9 ns in model time units
    Burst,          \* 10: seconds of refill a bucket may hold
    NoMuRate,       \* 10000, when the policy has no service rate
    Elems, NoElem,  \* elements of elite_src_buckets, and the null pointer
    MaxLag,         \* bound: time a packet may take between `now' and its store
    MaxAge          \* bound: where ages saturate

CRITICAL == 0
STANDARD == 1
BACKGROUND == 2
TIER_COUNT == 3

Sources == {p.src : p \in Packets}
Tiers == {STANDARD} \cup {PortTier[x] : x \in DOMAIN PortTier} \cup {VipTier[s] : s \in DOMAIN VipTier}
Keys == Sources \X Tiers

ASSUME XdpAssumption ==
    /\ DevMap \in BOOLEAN /\ Packets # {} /\ Policies # {} /\ NoElem \notin Elems
    /\ PPM_SCALE \in Nat \ {0} /\ Sec \in Nat \ {0} /\ Burst \in Nat \ {0}
    /\ NoMuRate \in Nat \ {0} /\ MaxLag \in Nat
    /\ MaxAge \in Nat /\ MaxAge >= (Burst + 1) * Sec + MaxLag
    /\ Tiers \subseteq Nat
    /\ \A v \in Policies :
          v \in [version : Nat, actuate : BOOLEAN, fault : BOOLEAN, netCause : BOOLEAN,
                 shed : 0..PPM_SCALE, redirect : BOOLEAN, refill : [0..3 -> Nat], mu : Nat,
                 synProxy : BOOLEAN, sourceBlock : BOOLEAN]

VARIABLES
    policy,         \* {} or {the value of elite_policy[0]}
    slot,           \* elite_src_buckets: the element of a key, NoElem if it has none
    tokens, age,    \* the bucket in an element
    pc, pkt,        \* where each CPU is, and its packet
    val,            \* the policy it works with
    goal,           \* what the token being consumed is for: "syn" or "admit"
    held,           \* the element b points at
    lag, elapsed, reg,  \* its `now', now - last_refill_ns, and the tokens it loaded
    verdict,        \* of the last packet to leave the program, and why
    lost,           \* history: held was unlinked since the CPU looked it up
    astray          \* history: elements stored into by a CPU that had lost them

mapVars == <<slot, tokens, age, astray>>
scratchVars == <<pkt, val, goal>>
bucketVars == <<held, lag, elapsed, reg, lost>>
xdpVars == <<policy, mapVars, pc, scratchVars, bucketVars, verdict>>

-----------------------------------------------------------------------------
(* Pure parts *)

AtMost(a, b) == IF a <= b THEN a ELSE b

\* port_tier, then vip_tier when it is a known tier
Tier(p) ==
    IF p.src \in DOMAIN VipTier /\ VipTier[p.src] < TIER_COUNT THEN VipTier[p.src]
    ELSE IF p.port \in DOMAIN PortTier THEN PortTier[p.port] ELSE STANDARD

\* tier_drop_ppm
TierDropPPM(v, t) ==
    IF v.version < 2 THEN 0
    ELSE IF t = CRITICAL THEN v.shed \div 20
    ELSE IF t = STANDARD THEN v.shed \div 4
    ELSE v.shed

\* tokens per second of a tier (head of token_consume)
RefillRate(v, t) ==
    LET mu   == IF v.mu = 0 THEN NoMuRate ELSE v.mu
        ppm  == IF t < 4 THEN v.refill[t] ELSE PPM_SCALE
        r    == (mu * (IF ppm = 0 THEN PPM_SCALE \div 2 ELSE ppm)) \div PPM_SCALE
    IN  IF r = 0 THEN 1 ELSE r

\* v3 without a token: shed by tier; critical traffic is redirected if it can be
TierVerdicts(v, t) ==
    LET ppm == TierDropPPM(v, t) IN
    (IF ppm < PPM_SCALE THEN {"pass"} ELSE {})
      \cup (IF ppm = 0 THEN {}
            ELSE IF t = CRITICAL /\ (DevMap \/ v.redirect) THEN {"redirect"} ELSE {"drop"})

\* v2 graduated shed, or the legacy binary drop
FlatVerdicts(v) ==
    IF v.version >= 2 /\ v.shed > 0
    THEN {"drop"} \cup (IF v.shed = PPM_SCALE THEN {} ELSE IF v.redirect THEN {"redirect"} ELSE {"pass"})
    ELSE IF v.fault /\ v.netCause THEN {"drop"} ELSE {"pass"}

-----------------------------------------------------------------------------
NoPacket == CHOOSE p \in Packets : TRUE
NoVal == CHOOSE v \in Policies : TRUE

XdpInit ==
    /\ policy = {}
    /\ slot = [k \in Keys |-> NoElem]
    /\ tokens = [e \in Elems |-> 0] /\ age = [e \in Elems |-> 0]
    /\ astray = {}
    /\ pc = [c \in Cpus |-> "idle"] /\ goal = [c \in Cpus |-> "admit"]
    /\ pkt = [c \in Cpus |-> NoPacket] /\ val = [c \in Cpus |-> NoVal]
    /\ held = [c \in Cpus |-> NoElem] /\ lost = [c \in Cpus |-> FALSE]
    /\ lag = [c \in Cpus |-> 0] /\ elapsed = [c \in Cpus |-> 0] /\ reg = [c \in Cpus |-> 0]
    /\ verdict = [is |-> "pass", why |-> "bypass"]

Key(c) == <<pkt[c].src, Tier(pkt[c])>>
Rate(c) == RefillRate(val[c], Tier(pkt[c]))
Cap(c) == Burst * Rate(c)

\* The CPU holds no bucket, or not yet.
Unheld(c) ==
    /\ held' = [held EXCEPT ![c] = NoElem]
    /\ lost' = [lost EXCEPT ![c] = FALSE]
    /\ lag' = [lag EXCEPT ![c] = 0]
    /\ elapsed' = [elapsed EXCEPT ![c] = 0]
    /\ reg' = [reg EXCEPT ![c] = 0]

\* Every return of the program: the verdict, and the CPU's scratch is gone.
Finish(c, v, why) ==
    /\ verdict' = [is |-> v, why |-> why]
    /\ pc' = [pc EXCEPT ![c] = "idle"]
    /\ goal' = [goal EXCEPT ![c] = "admit"]
    /\ pkt' = [pkt EXCEPT ![c] = NoPacket]
    /\ val' = [val EXCEPT ![c] = NoVal]
    /\ Unheld(c)

\* Into token_consume, up to its map lookup, under policy v.
Consume(c, p, v, g) ==
    /\ pc' = [pc EXCEPT ![c] = "lookup"]
    /\ goal' = [goal EXCEPT ![c] = g]
    /\ pkt' = [pkt EXCEPT ![c] = p]
    /\ val' = [val EXCEPT ![c] = v]
    /\ Unheld(c)
    /\ UNCHANGED verdict

\* No policy, or one that does not actuate: pass, uncounted.
Bypass(c) ==
    /\ pc[c] = "idle"
    /\ \A v \in policy : ~v.actuate
    /\ verdict' = [is |-> "pass", why |-> "bypass"]
    /\ UNCHANGED <<policy, mapVars, pc, scratchVars, bucketVars>>

\* From the SYN proxy on: the v3 path takes a token, the older ones do not.
AfterSynProxy(c, p, v) ==
    \/ /\ p.tcp /\ v.version >= 3
       /\ Consume(c, p, v, "admit")
    \/ /\ ~(p.tcp /\ v.version >= 3)
       /\ \E r \in FlatVerdicts(v) : Finish(c, r, "flat")

\* The program up to its first token_consume, or to a verdict that needs none.
Receive(c, p) ==
    /\ pc[c] = "idle"
    /\ \E v \in policy :
        LET blocked == p.tcp /\ v.sourceBlock /\ p.src \in Blocked
            proxied == p.tcp /\ v.synProxy /\ p.syn
        IN  /\ v.actuate
            /\ \/ blocked /\ Finish(c, "drop", "blocked")
               \/ ~blocked /\ proxied /\ Consume(c, p, v, "syn")
               \/ ~blocked /\ ~proxied /\ AfterSynProxy(c, p, v)
    /\ UNCHANGED <<policy, mapVars>>

\* What the program does with the answer of token_consume, reading through val.
Consumed(c, ok) ==
    \/ goal[c] = "syn" /\ ~ok /\ Finish(c, "drop", "syn")
    \/ goal[c] = "syn" /\ ok /\ AfterSynProxy(c, pkt[c], val[c])
    \/ goal[c] = "admit" /\ ok /\ Finish(c, "pass", "token")
    \/ /\ goal[c] = "admit" /\ ~ok
       /\ \E r \in TierVerdicts(val[c], Tier(pkt[c])) : Finish(c, r, "shed")

\* Find the bucket, then read the clock.
Lookup(c) ==
    /\ pc[c] = "lookup"
    /\ held' = [held EXCEPT ![c] = slot[Key(c)]]
    /\ pc' = [pc EXCEPT ![c] = IF slot[Key(c)] = NoElem THEN "insert" ELSE "last"]
    /\ UNCHANGED <<policy, mapVars, scratchVars, lag, elapsed, reg, lost, verdict>>

Linked(e) == \E k \in Keys : slot[k] = e

\* The CPUs whose pointer to e, an element being unlinked, outlives the link.
Losers(e) == [c \in Cpus |-> lost[c] \/ (held[c] = e /\ e # NoElem)]

\* Contents f of the elements when e is unlinked; those of an element nothing
\* points at are not kept.
Unlinked(f, e) == IF e = NoElem \/ \E c \in Cpus : held[c] = e THEN f ELSE [f EXCEPT ![e] = 0]

\* Insert a full bucket, in an element taken from the free ones.  With BPF_ANY
\* it replaces one another CPU has inserted since the lookup.
Insert(c) ==
    /\ pc[c] = "insert"
    /\ \E e \in Elems :
          /\ ~Linked(e)
          /\ tokens' = [Unlinked(tokens, slot[Key(c)]) EXCEPT ![e] = Rate(c)]
          /\ age' = [Unlinked(age, slot[Key(c)]) EXCEPT ![e] = lag[c]]
          /\ slot' = [slot EXCEPT ![Key(c)] = e]
          /\ astray' = astray \ {e}
    /\ lost' = Losers(slot[Key(c)])
    /\ pc' = [pc EXCEPT ![c] = "again"]
    /\ UNCHANGED <<policy, scratchVars, held, lag, elapsed, reg, verdict>>

\* The LRU finds no element to give, and the update's error is not looked at.
InsertRefused(c) ==
    /\ pc[c] = "insert"
    /\ pc' = [pc EXCEPT ![c] = "again"]
    /\ UNCHANGED <<policy, mapVars, scratchVars, bucketVars, verdict>>

\* The second lookup.  Without a bucket the packet is let through.
LookupAgain(c) ==
    /\ pc[c] = "again"
    /\ \/ /\ slot[Key(c)] # NoElem
          /\ held' = [held EXCEPT ![c] = slot[Key(c)]]
          /\ pc' = [pc EXCEPT ![c] = "last"]
          /\ UNCHANGED <<scratchVars, lag, elapsed, reg, lost, verdict>>
       \/ slot[Key(c)] = NoElem /\ Consumed(c, TRUE)
    /\ UNCHANGED <<policy, mapVars>>

LoadLast(c) ==
    /\ pc[c] = "last"
    /\ pc' = [pc EXCEPT ![c] = "tokens"]
    /\ elapsed' = [elapsed EXCEPT ![c] = age[held[c]] - lag[c]]
    /\ UNCHANGED <<policy, mapVars, scratchVars, held, lag, reg, lost, verdict>>

LoadTokens(c) ==
    /\ pc[c] = "tokens"
    /\ pc' = [pc EXCEPT ![c] = "store"]
    /\ reg' = [reg EXCEPT ![c] = tokens[held[c]]]
    /\ UNCHANGED <<policy, mapVars, scratchVars, held, lag, elapsed, lost, verdict>>

\* A negative elapsed time is a huge one.
Refills(c) == elapsed[c] > Sec \/ elapsed[c] < 0

\* Mutant: the sum is not capped.
RefilledUncapped(c) ==
    IF ~Refills(c) THEN reg[c]
    ELSE IF elapsed[c] < 0 THEN Cap(c) + 1
    ELSE reg[c] + (elapsed[c] \div Sec) * Rate(c)

\* The tokens after the refill step.
Refilled(c) ==
    IF ~Refills(c) THEN reg[c]
    ELSE IF elapsed[c] < 0 THEN Cap(c)
    ELSE AtMost(reg[c] + (elapsed[c] \div Sec) * Rate(c), Cap(c))

\* Writing n tokens back, and the time of the refill if there was one.
WriteBack(c, n, stamps) ==
    LET e == held[c]
    IN  /\ tokens' = [tokens EXCEPT ![e] = n]
        /\ age' = IF stamps THEN [age EXCEPT ![e] = lag[c]] ELSE age
        /\ astray' = IF lost[c] THEN astray \cup {e} ELSE astray
        /\ UNCHANGED <<policy, slot>>

Spent(c) == IF Refilled(c) >= 1 THEN 1 ELSE 0

\* The bucket was unlinked and nobody else points at it: the store goes nowhere.
StoresNowhere(c) == ~Linked(held[c]) /\ \A d \in Cpus \ {c} : held[d] # held[c]

\* Mutant: the refill time moves with every packet.
StoreAlwaysStamps(c) ==
    /\ pc[c] = "store"
    /\ WriteBack(c, Refilled(c) - Spent(c), TRUE)
    /\ Consumed(c, Spent(c) = 1)

\* Mutant: the decrement is forgotten when the bucket was refilled.
StoreRefillIsFree(c) ==
    /\ pc[c] = "store"
    /\ WriteBack(c, IF Refills(c) THEN Refilled(c) ELSE Refilled(c) - Spent(c), Refills(c))
    /\ Consumed(c, Spent(c) = 1)

\* Refill, take one token if there is one, write back what changed.
Store(c) ==
    /\ pc[c] = "store"
    /\ \/ /\ ~StoresNowhere(c) /\ (Refills(c) \/ Spent(c) = 1)
          /\ WriteBack(c, Refilled(c) - Spent(c), Refills(c))
       \/ /\ ~StoresNowhere(c) /\ ~(Refills(c) \/ Spent(c) = 1)
          /\ UNCHANGED <<policy, mapVars>>
       \/ /\ StoresNowhere(c)
          /\ tokens' = [tokens EXCEPT ![held[c]] = 0]
          /\ age' = [age EXCEPT ![held[c]] = 0]
          /\ UNCHANGED <<policy, slot, astray>>
    /\ Consumed(c, Spent(c) = 1)

-----------------------------------------------------------------------------
(* The environment *)

\* Userspace writes elite_policy[0] (SyncPolicyToBPFMap); nothing deletes it.
UpdatePolicy(v) ==
    /\ {v} # policy
    /\ policy' = {v}
    /\ UNCHANGED <<mapVars, pc, scratchVars, bucketVars, verdict>>

\* The LRU takes the element of a key away, also while CPUs point at it.
Evict(k) ==
    /\ slot[k] # NoElem
    /\ slot' = [slot EXCEPT ![k] = NoElem]
    /\ lost' = Losers(slot[k])
    /\ tokens' = Unlinked(tokens, slot[k])
    /\ age' = Unlinked(age, slot[k])
    /\ UNCHANGED <<policy, astray, pc, scratchVars, held, lag, elapsed, reg, verdict>>

\* CPUs whose `now' is being left behind.
Timed == {c \in Cpus : pc[c] \in {"insert", "again", "last", "tokens", "store"}}

PassTime ==
    /\ \A c \in Timed : lag[c] < MaxLag
    /\ age' = [e \in Elems |->
                IF Linked(e) \/ \E c \in Cpus : held[c] = e THEN AtMost(age[e] + 1, MaxAge) ELSE age[e]]
    /\ lag' = [c \in Cpus |-> IF c \in Timed THEN lag[c] + 1 ELSE lag[c]]
    /\ UNCHANGED <<policy, slot, tokens, astray, pc, scratchVars, held, elapsed, reg, lost, verdict>>

TokenStep(c) ==
    \/ Lookup(c) \/ Insert(c) \/ InsertRefused(c) \/ LookupAgain(c)
    \/ LoadLast(c) \/ LoadTokens(c) \/ Store(c)

XdpNext ==
    \/ \E c \in Cpus : Bypass(c) \/ (\E p \in Packets : Receive(c, p)) \/ TokenStep(c)
    \/ \E v \in Policies : UpdatePolicy(v)
    \/ \E k \in Keys : Evict(k)
    \/ PassTime

XdpSpec == XdpInit /\ [][XdpNext]_xdpVars

\* A started program runs to its end, time passes, and packets keep arriving.
XdpFairSpec ==
    /\ XdpSpec
    /\ \A c \in Cpus : WF_xdpVars(TokenStep(c)) /\ WF_xdpVars(Bypass(c) \/ \E p \in Packets : Receive(c, p))
    /\ SF_xdpVars(PassTime)

-----------------------------------------------------------------------------
(* Properties *)

\* The most tokens per second any policy gives tier t.
Rates(t) == {RefillRate(v, t) : v \in Policies}

\* n tokens are at most ten seconds of a rate configured for tier t.
Holdable(n, t) == \E r \in Rates(t) : n <= Burst * r

MapsTyped ==
    /\ policy \subseteq Policies /\ (\A v, w \in policy : v = w)
    /\ slot \in [Keys -> Elems \cup {NoElem}]
    /\ tokens \in [Elems -> Nat] /\ age \in [Elems -> 0..MaxAge]
    /\ astray \subseteq Elems

CpusTyped ==
    /\ pc \in [Cpus -> {"idle", "lookup", "insert", "again", "last", "tokens", "store"}]
    /\ pkt \in [Cpus -> Packets] /\ goal \in [Cpus -> {"syn", "admit"}]
    /\ val \in [Cpus -> Policies] /\ lag \in [Cpus -> 0..MaxLag]
    /\ held \in [Cpus -> Elems \cup {NoElem}] /\ lost \in [Cpus -> BOOLEAN]
    /\ elapsed \in [Cpus -> Int] /\ reg \in [Cpus -> Nat]
    /\ verdict \in [is : {"pass", "drop", "redirect"},
                   why : {"bypass", "blocked", "flat", "syn", "token", "shed"}]

\* Types of the shared maps (token counts stay natural: no decrement of an
\* empty bucket) and of every CPU's scratch.
XdpTypeOK == MapsTyped /\ CpusTyped

\* A bucket never holds more than ten seconds of a rate userspace has configured
\* for its tier, whatever the CPUs racing in token_consume overwrite, however
\* far back a stale `now' wraps the elapsed time and whichever policy each of
\* them reads.  The one exception is an element the LRU gave to another key
\* under a CPU that then stored into it: its cap is that of some tier.
BucketCapped ==
    \A k \in Keys : slot[k] # NoElem =>
        \/ Holdable(tokens[slot[k]], k[2])
        \/ slot[k] \in astray /\ \E t \in Tiers : Holdable(tokens[slot[k]], t)

\* The tokens a bucket should hold after a store: what it holds, the refill and
\* less the token spent.
Due(c) == tokens[held[c]] + (Refilled(c) - reg[c]) - Spent(c)

\* A bucket that stays in the map keeps its tokens, or a CPU stores its due.
Conserves ==
    \A k \in Keys : slot[k] # NoElem /\ slot'[k] # NoElem =>
        /\ slot'[k] = slot[k]
        /\ \/ tokens'[slot[k]] = tokens[slot[k]]
           \/ \E c \in Cpus : pc[c] = "store" /\ Key(c) = k /\ tokens'[slot[k]] = Due(c)

\* Every token spent leaves its bucket, and a bucket in the map grows only by its
\* refill: no store undoes another, none lands in the bucket of another key and
\* no insert puts a full bucket in the place of a used one.  True when one CPU
\* runs token_consume at a time, though the LRU may take the bucket away.
TokensConserved == [][Conserves]_xdpVars

\* Every policy in force gives every TCP packet the v3 token path.
Metered == policy # {} /\ \A v \in policy : v.actuate /\ v.version >= 3 /\ ~v.synProxy /\ ~v.sourceBlock

\* Under constant traffic an empty bucket fills again: while the v3 path stays
\* in force, packets are admitted on a token again and again, whatever the
\* tier's rate rounds to.
TokensComeBack == <>[]Metered => []<>(verdict.why = "token")

=============================================================================
