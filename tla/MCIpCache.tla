----------------------------- MODULE MCIpCache ------------------------------
(* IpCache on a pod that moves between two addresses and a second pod that      *)
(* takes one of them, one agent, two streams and buffers of one entry, so that  *)
(* a client is blocked, cut off and lists again.                                *)
EXTENDS IpCache

CONSTANTS p1, p2, i1, i2
\* findNext's binary search finds the first change above a revision in every log of
\* consecutive revisions, so that syncOne neither skips nor repeats a change.
ASSUME FindNextAgrees ==
  \A from \in 1..3, len \in 0..6 : \A target \in 0..9 :
    LET slice == [i \in 1..len |-> [rev |-> from + i - 1]]
    IN  findNext(slice, target) = FindNext(slice, target)

MCHomes == {<<p1, i1>>, <<p1, i2>>, <<p2, i1>>}
=============================================================================
