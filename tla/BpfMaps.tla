------------------------------ MODULE BpfMaps ------------------------------
(***************************************************************************)
(* The kernel's BPF hash maps, as the programs under bpf/ use them through *)
(* bpf_map_lookup_elem, bpf_map_update_elem and bpf_map_delete_elem, and   *)
(* the clock they read with bpf_ktime_get_ns.  A map is a function whose   *)
(* domain is the set of keys it holds.                                     *)
(*                                                                         *)
(* In a BPF_MAP_TYPE_PERCPU_HASH a key has one value per CPU, but is       *)
(* present or absent for all CPUs at once: inserting it zeroes the values  *)
(* of the other CPUs, and deleting it deletes it for all of them.          *)
(***************************************************************************)
EXTENDS Naturals, FiniteSets

CONSTANT MaxTime    \* bound on the clock

VARIABLE now        \* bpf_ktime_get_ns(), in units of the model's thresholds

\* Time passes.
KernelTick == now < MaxTime /\ now' = now + 1

\* What a program sees of the clock while another one steps.
Later == UNCHANGED now \/ KernelTick

Put(m, k, v) == [x \in DOMAIN m \cup {k} |-> IF x = k THEN v ELSE m[x]]

\* update_elem with BPF_ANY: fails, leaving the map alone, when a new key does not fit.
HashUpdate(m, k, v, maxEntries) ==
  IF k \in DOMAIN m \/ Cardinality(DOMAIN m) < maxEntries THEN Put(m, k, v) ELSE m

HashDelete(m, k) == [x \in DOMAIN m \ {k} |-> m[x]]

\* update_elem on a per-CPU map, run on cpu c: only c's value of an existing key changes.
PercpuUpdate(m, k, c, v, cpus, maxEntries) ==
  IF k \in DOMAIN m THEN [m EXCEPT ![k][c] = v]
  ELSE HashUpdate(m, k, [d \in cpus |-> IF d = c THEN v ELSE 0], maxEntries)

\* The same with BPF_NOEXIST: a key that is present, whoever inserted it, is left alone.
PercpuInsert(m, k, c, v, cpus, maxEntries) ==
  IF k \in DOMAIN m THEN m ELSE PercpuUpdate(m, k, c, v, cpus, maxEntries)
=============================================================================
