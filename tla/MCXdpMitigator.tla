--------------------------- MODULE MCXdpMitigator ---------------------------
(* Small instances of XdpMitigator. *)
EXTENDS XdpMitigator, TLC

Pkt(tcp, syn, src, port) == [tcp |-> tcp, syn |-> syn, src |-> src, port |-> port]

V(ver, act, fault, shed, redir, mu, syn, block) ==
    [version |-> ver, actuate |-> act, fault |-> fault, netCause |-> fault, shed |-> shed,
     redirect |-> redir, refill |-> [t \in 0..3 |-> CASE t = 0 -> 100 [] t = 1 -> 50 [] t = 2 -> 10 [] OTHER -> 0],
     mu |-> mu, synProxy |-> syn, sourceBlock |-> block]

\* Every path: one CPU, tiers by port and by source, all policy versions.
PathPackets == {Pkt(FALSE, FALSE, "a", 0), Pkt(TRUE, TRUE, "a", 443), Pkt(TRUE, FALSE, "b", 9)}
PathPolicies == {V(3, FALSE, FALSE, 0, FALSE, 2, FALSE, FALSE),
                 V(1, TRUE, TRUE, 0, FALSE, 0, FALSE, TRUE),
                 V(2, TRUE, FALSE, 50, TRUE, 0, TRUE, FALSE),
                 V(3, TRUE, FALSE, 0, FALSE, 2, FALSE, FALSE),
                 V(3, TRUE, TRUE, 100, TRUE, 2, TRUE, TRUE)}
PathPorts == [x \in {443} |-> 0]
PathVips == [x \in {"b"} |-> 2]
PathBlocked == {"b"}

\* Contention: two CPUs, one source with a bucket in two tiers, two service
\* rates; the rate of a tier changes with the policy and differs between tiers.
RacePackets == {Pkt(TRUE, FALSE, "a", 443), Pkt(TRUE, FALSE, "a", 9)}
RacePolicies == {V(3, TRUE, FALSE, 0, FALSE, 1, FALSE, FALSE), V(3, TRUE, FALSE, 0, FALSE, 3, FALSE, FALSE)}
RaceSymmetry == Permutations(Cpus) \cup Permutations(Elems)
NoTable == [x \in {} |-> 0]
=============================================================================
