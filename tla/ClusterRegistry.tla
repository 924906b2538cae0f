-------------------------- MODULE ClusterRegistry --------------------------
(***************************************************************************)
(* What the cluster repository promises its users, whoever calls it and     *)
(* whatever fails: an ID is given to one cluster, which is registered,      *)
(* renamed any number of times and removed for good; and at no time do two  *)
(* registered clusters share a name.                                        *)
(***************************************************************************)
CONSTANTS ID, ClusterName, Unused, Removed

VARIABLE registry  \* the name of each cluster, Unused before and Removed after

Registered == {id \in ID : registry[id] \in ClusterName}

Free(name, id) == \A k \in Registered \ {id} : registry[k] # name

Register(id, name) ==
  /\ registry[id] = Unused /\ Free(name, id)
  /\ registry' = [registry EXCEPT ![id] = name]

Rename(id, name) ==
  /\ id \in Registered /\ Free(name, id)
  /\ registry' = [registry EXCEPT ![id] = name]

Remove(id) ==
  /\ id \in Registered
  /\ registry' = [registry EXCEPT ![id] = Removed]

Init == registry = [id \in ID |-> Unused]
Next == \E id \in ID : Remove(id) \/ \E name \in ClusterName : Register(id, name) \/ Rename(id, name)
Spec == Init /\ [][Next]_registry
=============================================================================
