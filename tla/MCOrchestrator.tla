--------------------------- MODULE MCOrchestrator ---------------------------
(* Every node has the same capacity; "a" and "b" together fill one node.    *)
EXTENDS Orchestrator

MCCapacity == [n \in Name |-> [d \in Dim |-> 2]]
MCLimit    == [i \in Inst |-> [d \in Dim |-> IF i = "c" THEN 2 ELSE 1]]
=============================================================================
