----------------------------- MODULE Membership -----------------------------
(***************************************************************************)
(* What the bootstrap workflow promises whoever runs it: the seed founds    *)
(* one cluster, nodes are admitted to it one by one and only because a run  *)
(* asked for them, none is ever put out, and a run reports that it is ready *)
(* only while its joiner is a member.                                       *)
(***************************************************************************)
CONSTANTS Runner, Node, Seed, Joiner

VARIABLES
  members,  \* the cluster of the seed
  ready     \* the runs whose last report is that they are ready

Found    == members = {} /\ members' = {Seed} /\ UNCHANGED ready
Admit(n) == Seed \in members /\ members' = members \cup {n} /\ UNCHANGED ready

Report(r) ==
  /\ {Seed, Joiner[r]} \subseteq members
  /\ ready' = ready \cup {r}
  /\ UNCHANGED members

RunAgain(r) == ready' = ready \ {r} /\ UNCHANGED members

Init ==
  /\ members \subseteq Node
  /\ members # {} => Seed \in members
  /\ ready = {}

Next == Found \/ \E r \in Runner : Admit(Joiner[r]) \/ Report(r) \/ RunAgain(r)

Spec == Init /\ [][Next]_<<members, ready>>
=============================================================================
