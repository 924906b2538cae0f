----------------------------- MODULE Scheduler -----------------------------
(***************************************************************************)
(* scheduler.BinPacking.Schedule: the fullest node that still has room.     *)
(*                                                                         *)
(* table is a node table and insts an instance table.  The score of a node, *)
(* the average of its three utilisation ratios, is kept as an exact         *)
(* fraction: the float64 rounding of the code, which may order two scores   *)
(* that differ by less than an ulp the other way, is abstracted.            *)
(***************************************************************************)
EXTENDS InstanceState, FiniteSetsExt

CONSTANTS
  Capacity,  \* Capacity[n][d], the figures of node n once they are known
  Limit      \* Limit[i][d], what instance i requests once its limits are set

Dim == {"cpu", "memory", "disk"}

ASSUME CapacityAssumption == Capacity \in [Name -> [Dim -> Nat]]
ASSUME LimitAssumption    == Limit \in [Inst -> [Dim -> Nat]]

CapacityOf(table, n, d) == IF table[n].sized THEN Capacity[n][d] ELSE 0
LimitOf(insts, i, d)    == IF insts[i].limited THEN Limit[i][d] ELSE 0

\* Step 1: what the placed instances of the list have committed.
Allocated(insts, n, d) ==
  MapThenSumSet(LAMBDA i : LimitOf(insts, i, d), {i \in Inst : insts[i].node = n})

\* Step 2: an online node with capacity and headroom in every dimension.
Eligible(table, insts, i) ==
  {n \in Name :
    /\ table[n].status = "online"
    /\ \A d \in Dim :
         /\ CapacityOf(table, n, d) > 0
         /\ CapacityOf(table, n, d) - Allocated(insts, n, d) >= LimitOf(insts, i, d)}

\* Step 3: a node's score over its capacities, times their product.
Score(insts, n) ==
  LET used(d) == Allocated(insts, n, d)
      cap(d)  == Capacity[n][d]
  IN  used("cpu") * cap("memory") * cap("disk")
      + used("memory") * cap("cpu") * cap("disk")
      + used("disk") * cap("cpu") * cap("memory")

Volume(n) == Capacity[n]["cpu"] * Capacity[n]["memory"] * Capacity[n]["disk"]

\* Mutant: the emptiest node first.
Spread(insts, a, b) ==
  LET left  == Score(insts, a) * Volume(b)
      right == Score(insts, b) * Volume(a)
  IN  left < right \/ (left = right /\ a < b)

\* The order of the sort: score descending, then ID ascending.
Precedes(insts, a, b) ==
  LET left  == Score(insts, a) * Volume(b)
      right == Score(insts, b) * Volume(a)
  IN  left > right \/ (left = right /\ a < b)

\* The head of the sorted candidates, or NoName for ErrNoCapacity.
Schedule(table, insts, i) ==
  LET eligible == Eligible(table, insts, i)
  IN  IF eligible = {} THEN NoName
      ELSE CHOOSE a \in eligible : \A b \in eligible \ {a} : Precedes(insts, a, b)
=============================================================================
