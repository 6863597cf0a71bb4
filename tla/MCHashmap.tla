------------------------------ MODULE MCHashmap ------------------------------
(* Four keys whose entries collide: two share their full hash, one shares    *)
(* their slot at every capacity reached, and they wrap around the end of the *)
(* table onto the preferred slot of the fourth, whose hash code is 0.        *)
EXTENDS Hashmap, TLC

CONSTANTS k1, k2, k3, k4

MCKey == {k1, k2, k3, k4}

MCPower2 == {2^i : i \in 0..4}

MCHashCode == (k1 :> 7) @@ (k2 :> 7) @@ (k3 :> 15) @@ (k4 :> 0)
==============================================================================
