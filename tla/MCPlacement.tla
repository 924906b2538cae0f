---------------------------- MODULE MCPlacement ----------------------------
(* Three nodes of different shapes and three instances, so that nodes fill  *)
(* up in different dimensions and exact ties of the score occur.            *)
EXTENDS Placement, TLC

Shape(c, mem, disk) == [d \in Dim |-> CASE d = "cpu" -> c [] d = "memory" -> mem [] OTHER -> disk]

MCCapacity == (1 :> Shape(2, 2, 2)) @@ (2 :> Shape(2, 4, 1)) @@ (3 :> Shape(4, 4, 4))
MCLimit    == ("a" :> Shape(1, 1, 1)) @@ ("b" :> Shape(2, 1, 0)) @@ ("c" :> Shape(1, 3, 1))
=============================================================================
