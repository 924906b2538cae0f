----------------------------- MODULE ClusterAPI -----------------------------
(***************************************************************************)
(* The handlers of /v1/clusters (internal/api/clusters.go) over the cluster *)
(* repository (memory.ClusterStore, postgres.ClusterRepo).  Handlers run    *)
(* concurrently, each of their repository calls is atomic, and PUT makes    *)
(* two: it reads the row, merges the fields the body gives, and writes the  *)
(* whole row back.                                                          *)
(*                                                                         *)
(* `config' stands for every field but the name: "empty" when it lacks what *)
(* serverSpecFromCluster needs, "full" when it has it, "bogus" when it has  *)
(* a status outside the CHECK of the schema, which a PUT may ask for.       *)
(***************************************************************************)
EXTENDS Integers, FiniteSets

CONSTANTS
  Client,       \* who may each have one request in flight
  ID,           \* the UUIDs the repository hands out, in this order
  ClusterName,
  Body,         \* the request bodies clients send
  SQLStore,     \* TRUE: postgres.ClusterRepo; FALSE: memory.ClusterStore
  MaxFaults     \* bound on failing calls and crashes

Absent == "absent"  \* a field the body does not have
Blank  == "blank"   \* a string that is empty once trimmed
NoID   == 0

Config == {"empty", "full", "bogus"}

ASSUME IDAssumption     == ID \subseteq Nat \ {NoID} /\ IsFiniteSet(ID)
ASSUME ClientAssumption == IsFiniteSet(Client)
ASSUME NameAssumption   == Absent \notin ClusterName /\ Blank \notin ClusterName
ASSUME BodyAssumption   ==
  Body \subseteq [name : ClusterName \cup {Absent, Blank}, config : Config \cup {Absent}]
ASSUME StoreAssumption  == SQLStore \in BOOLEAN /\ MaxFaults \in Nat

VARIABLES
  clusters,  \* the rows of the repository by ID
  issued,    \* IDs the repository has handed out
  requests,  \* the handler of each client: the repository call it is about to make
  faults     \* faults so far

apiVars == <<clusters, issued, requests, faults>>

Row       == [name : ClusterName, config : Config]
NoCluster == [name |-> Absent, config |-> Absent]
NoBody    == [name |-> Absent, config |-> Absent]
Live      == {id \in ID : clusters[id] # NoCluster}

Call      == {"none", "create", "get", "update", "delete"}
Code      == {200, 201, 204, 404, 409, 422, 500}
NoRequest == [call |-> "none", id |-> NoID, body |-> NoBody, copy |-> NoCluster, code |-> 0]
InFlight  == {c \in Client : requests[c].call # "none"}
Calling(call) == {c \in Client : requests[c].call = call}

Receive(c, call, id, body) ==
  requests' = [requests EXCEPT ![c] =
                 [call |-> call, id |-> id, body |-> body, copy |-> NoCluster, code |-> 0]]

Answer(c, code) == requests' = [requests EXCEPT ![c] = [NoRequest EXCEPT !.code = code]]

-----------------------------------------------------------------------------
(* The repository.                                                          *)

\* A name that another row has: a loop over the rows under the mutex in memory,
\* UNIQUE in SQL.
Taken(name, id) == \E k \in Live \ {id} : clusters[k].name = name

\* The CHECK of the schema on the status.
Refused(row) == SQLStore /\ row.config = "bogus"

\* What a POST stores: status "active", defaults for what is not given.
Created(c) ==
  LET body == requests[c].body
  IN  [name |-> body.name, config |-> IF body.config = Absent THEN "empty" ELSE body.config]

\* Mutant: what the body does not give gets its default.
MergeAnew(c) == [Created(c) EXCEPT !.name = IF @ = Absent THEN requests[c].copy.name ELSE @]

\* What a PUT stores: its copy of the row with the fields the body gives.
Merged(c) ==
  [f \in {"name", "config"} |->
     IF requests[c].body[f] = Absent THEN requests[c].copy[f] ELSE requests[c].body[f]]

\* CreateCluster: a new row under a new ID.
Insert(c, id) ==
  /\ id \in ID \ issued /\ \A k \in ID \ issued : id <= k
  /\ ~Taken(Created(c).name, NoID)
  /\ clusters' = [clusters EXCEPT ![id] = Created(c)]
  /\ issued' = issued \cup {id}

\* Mutant: an upsert.
Upsert(c) ==
  /\ ~Taken(Merged(c).name, requests[c].id) /\ ~Refused(Merged(c))
  /\ clusters' = [clusters EXCEPT ![requests[c].id] = Merged(c)]
  /\ UNCHANGED issued

CanReplace(c) ==
  LET id == requests[c].id
  IN  id \in Live /\ ~Taken(Merged(c).name, id) /\ ~Refused(Merged(c))

\* UpdateCluster: the whole row is replaced, if it is still there.
Replace(c) ==
  /\ CanReplace(c)
  /\ clusters' = [clusters EXCEPT ![requests[c].id] = Merged(c)]
  /\ UNCHANGED issued

\* DeleteCluster.
Remove(c) ==
  /\ requests[c].id \in Live
  /\ clusters' = [clusters EXCEPT ![requests[c].id] = NoCluster]
  /\ UNCHANGED issued

-----------------------------------------------------------------------------
(* The handlers.  Validation comes before the first repository call of a    *)
(* POST, and between the two of a PUT.                                      *)

\* The bound on clusters: as many as there are IDs.
RoomForCluster == Cardinality(issued) + Cardinality(Calling("create")) < Cardinality(ID)

\* Mutant: the name is looked at before it is trimmed.
PostUntrimmed(c, body) ==
  /\ requests[c].call = "none" /\ RoomForCluster /\ body.config # "bogus"
  /\ IF body.name = Absent THEN Answer(c, 422) ELSE Receive(c, "create", NoID, body)
  /\ UNCHANGED <<clusters, issued, faults>>

ReceivePost(c, body) ==
  /\ requests[c].call = "none" /\ RoomForCluster /\ body.config # "bogus"
  /\ IF body.name \in {Absent, Blank} THEN Answer(c, 422) ELSE Receive(c, "create", NoID, body)
  /\ UNCHANGED <<clusters, issued, faults>>

ReceivePut(c, id, body) ==
  /\ requests[c].call = "none"
  /\ Receive(c, "get", id, body)
  /\ UNCHANGED <<clusters, issued, faults>>

ReceiveDelete(c, id) ==
  /\ requests[c].call = "none"
  /\ Receive(c, "delete", id, NoBody)
  /\ UNCHANGED <<clusters, issued, faults>>

CreateCluster(c) ==
  /\ requests[c].call = "create"
  /\ \/ (\E id \in ID : Insert(c, id)) /\ Answer(c, 201)
     \/ Taken(Created(c).name, NoID) /\ Answer(c, 409) /\ UNCHANGED <<clusters, issued>>
  /\ UNCHANGED faults

\* The first half of a PUT.
GetExisting(c) ==
  LET id == requests[c].id
  IN  /\ requests[c].call = "get"
      /\ IF id \notin Live THEN Answer(c, 404)
         ELSE IF requests[c].body.name = Blank THEN Answer(c, 422)
         ELSE requests' = [requests EXCEPT ![c].call = "update", ![c].copy = clusters[id]]
      /\ UNCHANGED <<clusters, issued, faults>>

\* Why a whole-row update is refused: a CHECK violation is no case of the handler.
UpdateRefusal(c) ==
  LET id == requests[c].id
  IN  IF id \notin Live THEN 404 ELSE IF Refused(Merged(c)) THEN 500 ELSE 409

UpdateCluster(c) ==
  /\ requests[c].call = "update"
  /\ \/ Replace(c) /\ Answer(c, 200)
     \/ ~CanReplace(c) /\ Answer(c, UpdateRefusal(c)) /\ UNCHANGED <<clusters, issued>>
  /\ UNCHANGED faults

DeleteCluster(c) ==
  /\ requests[c].call = "delete"
  /\ \/ Remove(c) /\ Answer(c, 204)
     \/ requests[c].id \notin Live /\ Answer(c, 404) /\ UNCHANGED <<clusters, issued>>
  /\ UNCHANGED faults

Failing(k) == faults + k <= MaxFaults /\ faults' = faults + k

\* What the repository call of a handler does when it succeeds.
Effect(c) ==
  \/ requests[c].call = "create" /\ \E id \in ID : Insert(c, id)
  \/ requests[c].call = "update" /\ Replace(c)
  \/ requests[c].call = "delete" /\ Remove(c)

\* A call returns an error, or the client leaves and its context is cancelled; a
\* database may have committed.
CallFails(c) ==
  /\ c \in InFlight /\ Failing(1)
  /\ UNCHANGED <<clusters, issued>> \/ (SQLStore /\ Effect(c))
  /\ Answer(c, 500)

Accept(c) ==
  \/ \E body \in Body : ReceivePost(c, body)
  \/ \E id \in issued : ReceiveDelete(c, id) \/ \E body \in Body : ReceivePut(c, id, body)

HandlerStep(c) ==
  CreateCluster(c) \/ GetExisting(c) \/ UpdateCluster(c) \/ DeleteCluster(c) \/ CallFails(c)

APIInit ==
  /\ clusters = [id \in ID |-> NoCluster]
  /\ issued = {}
  /\ requests = [c \in Client |-> NoRequest]
  /\ faults = 0

APITypeOK ==
  /\ clusters \in [ID -> Row \cup {NoCluster}]
  /\ issued \subseteq ID
  /\ requests \in [Client -> [call : Call, id : ID \cup {NoID}, body : Body \cup {NoBody},
                              copy : Row \cup {NoCluster}, code : Code \cup {0}]]
  /\ faults \in 0 .. MaxFaults
=============================================================================
