------------------------------- MODULE MCXHash -------------------------------
(* Instances of XHash for TLC. *)
EXTENDS XHash, TLC

CONSTANTS k1, k2, k3, d1, d2, d3, d4, d5  \* keys and items

\* d1 and d2 have one key and differ, d2 and d3 do not.
MCItemKey == d1 :> k1 @@ d2 :> k1 @@ d3 :> k1 @@ d4 :> k2 @@ d5 :> k3
MCItemOther == d1 :> 0 @@ d2 :> 1 @@ d3 :> 1 @@ d4 :> 0 @@ d5 :> 0

\* k1 and k2 collide, k3 is in their chain.
MCHashKey == k1 :> 3 @@ k2 :> 3 @@ k3 :> 1

MCHashSymmetry == Permutations(Buckets) \cup Permutations(Threads)
=============================================================================
