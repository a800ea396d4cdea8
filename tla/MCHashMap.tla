----------------------------- MODULE MCHashMap -----------------------------
(* HashMap on six keys, whose hashes collide in the table of 8 slots (k1, k2
   and k3 all start at slot 0), part in the table of 16, and for k5 and k6
   perturb the walk through several shifts. *)
EXTENDS HashMap

CONSTANTS k1, k2, k3, k4, k5, k6

MCHash == (k1 :> 0) @@ (k2 :> 8) @@ (k3 :> 16) @@ (k4 :> 1)
            @@ (k5 :> 2147483640) @@ (k6 :> 1000007) @@ (NoKey :> 2147483647)
=============================================================================
