--------------------------- MODULE SchemaVersion ---------------------------
(***************************************************************************)
(* What migrations are for: the database has a version, from none to the    *)
(* last, and it moves one version at a time.  At version n exactly the      *)
(* first n versions are recorded, and the content of each is there once;    *)
(* no other state is ever committed.                                        *)
(***************************************************************************)
EXTENDS Integers

CONSTANT LastVersion

VARIABLES applied, schema

At(n) ==
  /\ applied = 1 .. n
  /\ schema = [v \in 1 .. LastVersion |-> IF v <= n THEN 1 ELSE 0]

Init == At(0)

Upgrade(n)  == At(n) /\ At(n + 1)'
Rollback(n) == At(n + 1) /\ At(n)'

Next == \E n \in 0 .. LastVersion - 1 : Upgrade(n) \/ Rollback(n)

Spec == Init /\ [][Next]_<<applied, schema>>
=============================================================================
