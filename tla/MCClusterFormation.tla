------------------------- MODULE MCClusterFormation -------------------------
(* r1 and r2 add the same node, r3 another one.                             *)
EXTENDS ClusterFormation

CONSTANTS n2, n3, r3

MCJoiner == [r \in Runner |-> IF r = r3 THEN n3 ELSE n2]
=============================================================================
