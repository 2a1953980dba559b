--------------------------- MODULE MCKernelProbes ---------------------------
(***************************************************************************)
(* KernelProbes on small sets: two model values, the frames and packets    *)
(* that tell the branches of the header parsers apart.                     *)
(***************************************************************************)
EXTENDS KernelProbes, TLC

CONSTANTS x1, x2

MCFrames ==
  {[bytes |-> 10, ethertype |-> "IP", proto |-> "TCP", ihl |-> 5, flow |-> 1],
   [bytes |-> 30, ethertype |-> "IP", proto |-> "TCP", ihl |-> 5, flow |-> 1],
   [bytes |-> 42, ethertype |-> "IP", proto |-> "TCP", ihl |-> 5, flow |-> 1],
   [bytes |-> 54, ethertype |-> "IP", proto |-> "TCP", ihl |-> 5, flow |-> 1],
   [bytes |-> 42, ethertype |-> "IP", proto |-> "UDP", ihl |-> 5, flow |-> 2],
   [bytes |-> 60, ethertype |-> "IPV6", proto |-> "TCP", ihl |-> 5, flow |-> 3]}

\* Short packets, linear and paged, and long ones whose l4_off wraps or does not.
MCSkbs ==
  [headroom : {0, 64}, network_header : {0, 14, 64}, len : {60, 120}, paged : {0, 40}, vsn : {4, 6, 9},
   ihl : {4, 5}, proto : {"TCP", "ICMP"}]
  \cup [headroom : {64}, network_header : {64, 65530}, len : {66000}, paged : {0, 65900}, vsn : {4, 6},
        ihl : {5}, proto : {"TCP"}]

\* One pair of model values serves as addresses, CPUs, threads, elements and interfaces.
Symmetry == Permutations({x1, x2})
=============================================================================
