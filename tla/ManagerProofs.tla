---------------------------- MODULE ManagerProofs ----------------------------
(***************************************************************************)
(* For any clients, clusters, bodies, store and faults: the cluster table   *)
(* keeps what ClusterRegistry promises, a deleted cluster gets at most one  *)
(* server from a pass that listed it before, a PUT leaves alone what its    *)
(* body does not give, and only the deadline and a crash cut a request off. *)
(***************************************************************************)
EXTENDS Manager, TLAPS

\* What the request of a client may be.
RequestType == [call : Call, id : ID \cup {NoID}, body : Body \cup {NoBody},
                copy : Row \cup {NoCluster}, code : Code \cup {0}]

\* The table: typed, with IDs that were handed out, and no name twice.
TableOK ==
  /\ clusters \in [ID -> Row \cup {NoCluster}] /\ issued \subseteq ID
  /\ Live \subseteq issued
  /\ \A i, j \in Live : clusters[i].name = clusters[j].name => i = j

\* What the handlers have validated before they make their last call.
RequestsOK ==
  /\ requests \in [Client -> RequestType]
  /\ \A c \in Client :
       /\ requests[c].call = "create" => requests[c].body \in Body /\ requests[c].body.name \in ClusterName
       /\ requests[c].call = "get" => requests[c].body \in Body /\ requests[c].id \in ID
       /\ requests[c].call = "update" => /\ requests[c].body \in Body /\ requests[c].body.name # Blank
                                         /\ requests[c].id \in ID /\ requests[c].copy \in Row
       /\ requests[c].call = "delete" => requests[c].id \in ID

\* A pass walks through clusters that were registered, and leaves each behind.
PassOK ==
  /\ pass.todo \subseteq issued
  /\ pass.step = "provision" => pass.current \in issued \ pass.todo

\* A cluster that got a server after its deletion is behind the pass.
OrphansBehind ==
  \A id \in ID : orphans[id] > 0 =>
    /\ orphans[id] = 1
    /\ id \in issued /\ id \notin Live /\ id \notin pass.todo
    /\ pass.step = "provision" => pass.current # id

\* The inductive invariant.
IInv == TypeOK /\ TableOK /\ RequestsOK /\ PassOK /\ OrphansBehind

-----------------------------------------------------------------------------
(* The repository.                                                          *)

\* A row is told from no row.
LEMMA RowIsNoMarker == NoCluster \notin Row /\ \A row \in Row : row.name \in ClusterName
BY NameAssumption DEF NoCluster, Row

\* What a POST stores is a row.
LEMMA CreatedIsRow ==
  ASSUME RequestsOK, NEW c \in Client, requests[c].call = "create"
  PROVE  Created(c) \in Row
<1>1. requests[c].body \in [name : ClusterName \cup {Absent, Blank}, config : Config \cup {Absent}]
      /\ requests[c].body.name \in ClusterName
  BY BodyAssumption DEF RequestsOK
<1>2. QED
  BY <1>1 DEF Created, Row, Config

\* What a PUT stores is a row.
LEMMA MergedIsRow ==
  ASSUME RequestsOK, NEW c \in Client, requests[c].call = "update"
  PROVE  Merged(c) \in Row
<1>1. /\ requests[c].body \in [name : ClusterName \cup {Absent, Blank}, config : Config \cup {Absent}]
      /\ requests[c].body.name # Blank /\ requests[c].copy \in Row
  BY BodyAssumption DEF RequestsOK
<1>2. /\ requests[c].copy.name \in ClusterName /\ requests[c].copy.config \in Config
      /\ requests[c].body.name \in ClusterName \cup {Absent}
      /\ requests[c].body.config \in Config \cup {Absent}
  BY <1>1 DEF Row
<1>3. Merged(c) = [name   |-> IF requests[c].body.name = Absent THEN requests[c].copy.name
                                                                  ELSE requests[c].body.name,
                   config |-> IF requests[c].body.config = Absent THEN requests[c].copy.config
                                                                  ELSE requests[c].body.config]
  BY DEF Merged
<1>4. QED
  BY <1>2, <1>3 DEF Row

\* A step of the repository: one row comes in, is replaced or goes.
Writes(id, row) ==
  /\ clusters' = [clusters EXCEPT ![id] = row]
  /\ ~Taken(row.name, id)

Registers(id, row) == id \in ID \ issued /\ Writes(id, row) /\ issued' = issued \cup {id}
Renames(id, row)   == id \in Live /\ Writes(id, row) /\ issued' = issued
Removes(id)        == id \in Live /\ clusters' = [clusters EXCEPT ![id] = NoCluster] /\ issued' = issued

RepoStep ==
  \/ \E id \in ID, row \in Row : Registers(id, row) \/ Renames(id, row)
  \/ \E id \in ID : Removes(id)
  \/ clusters' = clusters /\ issued' = issued

\* The rows after a write.
LEMMA WriteRows ==
  ASSUME TableOK, NEW id \in ID, NEW row \in Row, clusters' = [clusters EXCEPT ![id] = row]
  PROVE  /\ clusters' \in [ID -> Row \cup {NoCluster}]
         /\ Live' = Live \cup {id}
         /\ \A k \in ID : clusters'[k] = IF k = id THEN row ELSE clusters[k]
<1>1. \A k \in ID : clusters'[k] = IF k = id THEN row ELSE clusters[k]
  BY DEF TableOK
<1>2. clusters' \in [ID -> Row \cup {NoCluster}]
  BY DEF TableOK
<1>3. Live' = Live \cup {id}
  BY <1>1, RowIsNoMarker DEF Live
<1>4. QED
  BY <1>1, <1>2, <1>3

\* The rows after a removal.
LEMMA RemoveRows ==
  ASSUME TableOK, NEW id \in ID, Removes(id)
  PROVE  /\ clusters' \in [ID -> Row \cup {NoCluster}] /\ Live' = Live \ {id}
         /\ \A k \in ID : clusters'[k] = IF k = id THEN NoCluster ELSE clusters[k]
<1>1. \A k \in ID : clusters'[k] = IF k = id THEN NoCluster ELSE clusters[k]
  BY DEF TableOK, Removes
<1>2. clusters' \in [ID -> Row \cup {NoCluster}]
  BY DEF TableOK, Removes
<1>3. Live' = Live \ {id}
  BY <1>1 DEF Live
<1>4. QED
  BY <1>1, <1>2, <1>3

\* UNIQUE (name), the foreign IDs and the types survive every call.
LEMMA TableKept ==
  ASSUME TableOK, RepoStep
  PROVE  /\ TableOK' /\ issued \subseteq issued'
         /\ \A id \in issued : id \in Live' => id \in Live
<1>1. CASE \E id \in ID, row \in Row : Registers(id, row) \/ Renames(id, row)
  <2>1. PICK id \in ID, row \in Row : Registers(id, row) \/ Renames(id, row)
    BY <1>1
  <2>2. clusters' = [clusters EXCEPT ![id] = row] /\ ~Taken(row.name, id)
    BY <2>1 DEF Registers, Renames, Writes
  <2>3. /\ clusters' \in [ID -> Row \cup {NoCluster}] /\ Live' = Live \cup {id}
        /\ \A k \in ID : clusters'[k] = IF k = id THEN row ELSE clusters[k]
    BY <2>2, WriteRows
  <2>4. issued' \subseteq ID /\ issued \subseteq issued' /\ id \in issued' /\ Live' \subseteq issued'
    BY <2>1, <2>3 DEF Registers, Renames, TableOK
  <2>5. \A i, j \in Live' : clusters'[i].name = clusters'[j].name => i = j
    <3>1. \A k \in Live \ {id} : clusters[k].name # row.name
      BY <2>2 DEF Taken
    <3>2. QED
      BY <2>3, <3>1 DEF TableOK, Live
  <2>6. \A k \in issued : k \in Live' => k \in Live
    BY <2>1, <2>3 DEF Registers, Renames
  <2>7. QED
    BY <2>3, <2>4, <2>5, <2>6 DEF TableOK
<1>2. CASE \E id \in ID : Removes(id)
  <2>1. PICK id \in ID : Removes(id)
    BY <1>2
  <2>2. /\ clusters' \in [ID -> Row \cup {NoCluster}] /\ Live' = Live \ {id} /\ issued' = issued
        /\ \A k \in ID : clusters'[k] = IF k = id THEN NoCluster ELSE clusters[k]
    BY <2>1, RemoveRows DEF Removes
  <2>3. \A i, j \in Live' : clusters'[i].name = clusters'[j].name => i = j
    BY <2>2 DEF TableOK, Live
  <2>4. QED
    BY <2>2, <2>3 DEF TableOK
<1>3. CASE clusters' = clusters /\ issued' = issued
  BY <1>3 DEF TableOK, Live
<1>4. QED
  BY <1>1, <1>2, <1>3 DEF RepoStep
-----------------------------------------------------------------------------
(* The handlers.                                                            *)

\* The repository call of a handler is one step of the repository.
LEMMA EffectIsRepoStep ==
  ASSUME TableOK, RequestsOK, NEW c \in Client
  PROVE  /\ requests[c].call = "create" /\ (\E id \in ID : Insert(c, id)) => RepoStep
         /\ requests[c].call = "update" /\ Replace(c) => RepoStep
         /\ requests[c].call = "delete" /\ Remove(c) => RepoStep
<1>1. ASSUME requests[c].call = "create", NEW id \in ID, Insert(c, id) PROVE RepoStep
  <2>1. Created(c) \in Row
    BY <1>1, CreatedIsRow
  <2>2. NoID \notin ID
    BY IDAssumption
  <2>3. ~Taken(Created(c).name, id)
    BY <1>1, <2>2 DEF Insert, Taken, Live
  <2>4. Registers(id, Created(c))
    BY <1>1, <2>3 DEF Insert, Registers, Writes
  <2>5. QED
    BY <2>1, <2>4 DEF RepoStep
<1>2. ASSUME requests[c].call = "update", Replace(c) PROVE RepoStep
  <2>1. Merged(c) \in Row /\ requests[c].id \in ID
    BY <1>2, MergedIsRow DEF RequestsOK
  <2>2. Renames(requests[c].id, Merged(c))
    BY <1>2 DEF Replace, CanReplace, Renames, Writes
  <2>3. QED
    BY <2>1, <2>2 DEF RepoStep
<1>3. ASSUME requests[c].call = "delete", Remove(c) PROVE RepoStep
  BY <1>3 DEF Remove, Removes, RepoStep, RequestsOK
<1>4. QED
  BY <1>1, <1>2, <1>3

\* An answered request asks for nothing.
LEMMA AnswerKeeps ==
  ASSUME RequestsOK, NEW c \in Client, NEW code \in Code, Answer(c, code)
  PROVE  RequestsOK'
<1> DEFINE q == [NoRequest EXCEPT !.code = code]
<1>1. q \in RequestType /\ q.call = "none"
  BY DEF NoRequest, RequestType, Call, Code
<1>2. requests' = [requests EXCEPT ![c] = q]
  BY DEF Answer
<1> HIDE DEF q
<1>3. requests' \in [Client -> RequestType]
  BY <1>1, <1>2 DEF RequestsOK
<1>4. \A k \in Client : requests'[k] = IF k = c THEN q ELSE requests[k]
  BY <1>2 DEF RequestsOK
<1>5. QED
  BY <1>1, <1>3, <1>4 DEF RequestsOK

\* A received request asks for what it was validated for.
LEMMA ReceiveKeeps ==
  ASSUME RequestsOK, NEW c \in Client, NEW call \in {"create", "get", "delete"},
         NEW id \in ID \cup {NoID}, NEW body \in Body \cup {NoBody}, Receive(c, call, id, body),
         call = "create" => body \in Body /\ body.name \in ClusterName,
         call = "get" => body \in Body /\ id \in ID,
         call = "delete" => id \in ID
  PROVE  RequestsOK'
<1> DEFINE q == [call |-> call, id |-> id, body |-> body, copy |-> NoCluster, code |-> 0]
<1>1. q \in RequestType /\ q.call = call /\ q.id = id /\ q.body = body
  BY DEF RequestType, Call
<1>2. requests' = [requests EXCEPT ![c] = q]
  BY DEF Receive
<1> HIDE DEF q
<1>3. requests' \in [Client -> RequestType]
  BY <1>1, <1>2 DEF RequestsOK
<1>4. \A k \in Client : requests'[k] = IF k = c THEN q ELSE requests[k]
  BY <1>2 DEF RequestsOK
<1>5. QED
  BY <1>1, <1>3, <1>4 DEF RequestsOK

\* The copy a PUT takes is a row.
LEMMA CopyKeeps ==
  ASSUME TableOK, RequestsOK, NEW c \in Client, requests[c].call = "get", requests[c].id \in Live,
         requests[c].body.name # Blank,
         requests' = [requests EXCEPT ![c].call = "update", ![c].copy = clusters[requests[c].id]]
  PROVE  RequestsOK'
<1> DEFINE q == [requests[c] EXCEPT !.call = "update", !.copy = clusters[requests[c].id]]
<1>1. requests \in [Client -> RequestType] /\ requests[c] \in RequestType
      /\ requests[c].body \in Body /\ requests[c].id \in ID
  BY DEF RequestsOK
<1>2. clusters[requests[c].id] \in Row
  BY <1>1 DEF TableOK, Live
<1>3. q \in RequestType /\ q.call = "update" /\ q.id = requests[c].id
      /\ q.body = requests[c].body /\ q.copy = clusters[requests[c].id]
  BY <1>1, <1>2 DEF RequestType, Call
<1>4. requests' = [requests EXCEPT ![c] = q]
  BY <1>1 DEF RequestType
<1> HIDE DEF q
<1>5. requests' \in [Client -> RequestType]
  BY <1>1, <1>3, <1>4
<1>6. \A k \in Client : requests'[k] = IF k = c THEN q ELSE requests[k]
  BY <1>1, <1>4
<1>7. QED
  BY <1>1, <1>2, <1>3, <1>5, <1>6 DEF RequestsOK

\* A request that arrives changes no row.
LEMMA AcceptKeeps ==
  ASSUME TypeOK, TableOK, RequestsOK, NEW c \in Client, Accept(c)
  PROVE  clusters' = clusters /\ issued' = issued /\ RequestsOK' /\ faults' = faults
<1>1. ASSUME NEW body \in Body, ReceivePost(c, body)
      PROVE  clusters' = clusters /\ issued' = issued /\ RequestsOK' /\ faults' = faults
  <2>1. body.name \in ClusterName \cup {Absent, Blank}
    BY BodyAssumption
  <2>2. CASE Answer(c, 422)
    BY <1>1, <2>2, AnswerKeeps DEF ReceivePost, Code
  <2>3. CASE body.name \in ClusterName /\ Receive(c, "create", NoID, body)
    BY <1>1, <2>3, ReceiveKeeps DEF ReceivePost
  <2>4. QED
    BY <1>1, <2>1, <2>2, <2>3 DEF ReceivePost
<1>2. ASSUME NEW id \in issued, NEW body \in Body, ReceivePut(c, id, body)
      PROVE  clusters' = clusters /\ issued' = issued /\ RequestsOK' /\ faults' = faults
  BY <1>2, ReceiveKeeps DEF ReceivePut, TableOK
<1>3. ASSUME NEW id \in issued, ReceiveDelete(c, id)
      PROVE  clusters' = clusters /\ issued' = issued /\ RequestsOK' /\ faults' = faults
  BY <1>3, ReceiveKeeps DEF ReceiveDelete, TableOK
<1>4. QED
  BY <1>1, <1>2, <1>3 DEF Accept

\* A fault stays within the bound.
LEMMA FailingTyped == ASSUME TypeOK, Failing(1) PROVE faults' \in 0 .. MaxFaults
BY StoreAssumption DEF Failing, TypeOK, APITypeOK

\* A handler takes one step of the repository, or none.
LEMMA HandlerKeeps ==
  ASSUME TypeOK, TableOK, RequestsOK, NEW c \in Client, HandlerStep(c)
  PROVE  RepoStep /\ RequestsOK' /\ faults' \in 0 .. MaxFaults
<1>1. faults \in 0 .. MaxFaults /\ {200, 201, 204, 404, 409, 422, 500} \subseteq Code
  BY DEF TypeOK, APITypeOK, Code
<1>2. UNCHANGED <<clusters, issued>> => RepoStep
  BY DEF RepoStep
<1>3. CASE CreateCluster(c)
  BY <1>1, <1>2, <1>3, EffectIsRepoStep, AnswerKeeps DEF CreateCluster
<1>4. CASE GetExisting(c)
  BY <1>1, <1>2, <1>4, AnswerKeeps, CopyKeeps DEF GetExisting
<1>5. CASE UpdateCluster(c)
  <2>1. UpdateRefusal(c) \in Code
    BY <1>1 DEF UpdateRefusal
  <2>2. QED
    BY <1>1, <1>2, <1>5, <2>1, EffectIsRepoStep, AnswerKeeps DEF UpdateCluster
<1>6. CASE DeleteCluster(c)
  BY <1>1, <1>2, <1>6, EffectIsRepoStep, AnswerKeeps DEF DeleteCluster
<1>7. CASE CallFails(c)
  BY <1>1, <1>2, <1>7, EffectIsRepoStep, AnswerKeeps, FailingTyped DEF CallFails, Effect
<1>8. QED
  BY <1>3, <1>4, <1>5, <1>6, <1>7 DEF HandlerStep
-----------------------------------------------------------------------------
(* The pass and the process.                                                *)

\* What a pass may be.
PassType == [step : {"idle", "evaluate", "provision", "record", "stopped"},
             todo : SUBSET ID, current : ID \cup {NoID}]

\* The initial state has the invariant.
LEMMA InitIInv == Init => IInv
<1> SUFFICES ASSUME Init PROVE IInv
  OBVIOUS
<1>1. \A id \in ID : clusters[id] = NoCluster /\ orphans[id] = 0
  BY DEF Init, APIInit
<1>2. Live = {}
  BY <1>1 DEF Live
<1>3. NoRequest \in RequestType /\ NoRequest.call = "none"
  BY DEF NoRequest, RequestType, Call
<1>4. requests = [c \in Client |-> NoRequest]
  BY DEF Init, APIInit
<1>5. TableOK /\ RequestsOK
  BY <1>2, <1>3, <1>4 DEF Init, APIInit, TableOK, RequestsOK
<1>6. NoPass \in PassType /\ NoPass.todo = {} /\ NoPass.step = "idle"
  BY DEF NoPass, PassType
<1>7. life \in Life /\ orphans \in [ID -> Nat] /\ faults \in 0 .. MaxFaults /\ pass = NoPass
  BY StoreAssumption DEF Init, APIInit, Life
<1>8. TypeOK
  BY <1>5, <1>6, <1>7 DEF TypeOK, APITypeOK, TableOK, RequestsOK, RequestType, PassType
<1>9. PassOK /\ OrphansBehind
  BY <1>1, <1>6, <1>7 DEF PassOK, OrphansBehind
<1>10. QED
  BY <1>5, <1>8, <1>9 DEF IInv

\* A request or a handler beside a pass.
LEMMA APIKeeps ==
  ASSUME IInv, RepoStep, RequestsOK', faults' \in 0 .. MaxFaults, UNCHANGED <<life, pass, orphans>>
  PROVE  IInv'
<1>1. TableOK' /\ issued \subseteq issued' /\ \A id \in issued : id \in Live' => id \in Live
  BY TableKept DEF IInv
<1>2. TypeOK'
  BY <1>1 DEF IInv, TypeOK, APITypeOK, TableOK, RequestsOK, RequestType
<1>3. PassOK'
  BY <1>1 DEF IInv, PassOK
<1>4. OrphansBehind'
  BY <1>1 DEF IInv, OrphansBehind
<1>5. QED
  BY <1>1, <1>2, <1>3, <1>4 DEF IInv

\* A step that leaves the API alone.
LEMMA PassKeeps ==
  ASSUME IInv, clusters' = clusters, issued' = issued, RequestsOK', faults' \in 0 .. MaxFaults,
         life' \in Life, pass' \in PassType, orphans' \in [ID -> Nat], PassOK', OrphansBehind'
  PROVE  IInv'
<1>1. TableOK'
  BY DEF IInv, TableOK, Live
<1>2. TypeOK'
  BY <1>1 DEF TypeOK, APITypeOK, TableOK, RequestsOK, RequestType, PassType
<1>3. QED
  BY <1>1, <1>2 DEF IInv

\* The API as it is keeps its part.
LEMMA APIUnchanged ==
  ASSUME IInv, UNCHANGED <<clusters, issued, requests>> PROVE RequestsOK' /\ Live' = Live
BY DEF IInv, RequestsOK, Live

\* A step of a pass that makes no server.
LEMMA WalkKeeps ==
  ASSUME IInv, UNCHANGED <<apiVars, life, orphans>>, pass' \in PassType,
         pass'.todo \subseteq pass.todo \cup Live,
         pass'.step = "provision" => pass'.current \in pass.todo \ pass'.todo
  PROVE  IInv'
<1>1. RequestsOK' /\ Live' = Live /\ clusters' = clusters /\ issued' = issued
  BY APIUnchanged DEF apiVars
<1>2. pass.todo \subseteq issued /\ Live \subseteq issued
  BY DEF IInv, PassOK, TableOK
<1>3. PassOK'
  BY <1>1, <1>2 DEF PassOK
<1>4. OrphansBehind'
  BY <1>1 DEF IInv, OrphansBehind
<1>5. faults' \in 0 .. MaxFaults /\ life' \in Life /\ orphans' \in [ID -> Nat]
  BY DEF IInv, TypeOK, APITypeOK, apiVars
<1>6. QED
  BY <1>1, <1>3, <1>4, <1>5, PassKeeps

\* The one server a pass makes for its current cluster, before it moves on.
LEMMA ServerKeeps ==
  ASSUME IInv, pass.step = "provision", MakeServer(pass.current) \/ orphans' = orphans,
         UNCHANGED <<clusters, issued, requests, life>>, faults' \in 0 .. MaxFaults,
         pass' \in PassType, pass'.todo = pass.todo, pass'.step # "provision"
  PROVE  IInv'
<1>1. RequestsOK' /\ Live' = Live
  BY APIUnchanged
<1>2. /\ orphans \in [ID -> Nat] /\ pass.current \in issued \ pass.todo /\ issued \subseteq ID
      /\ pass.todo \subseteq issued /\ life \in Life
  BY DEF IInv, TypeOK, PassOK, TableOK
<1>3. orphans[pass.current] = 0
  BY <1>2 DEF IInv, OrphansBehind
<1>4. \A id \in ID : \/ orphans'[id] = orphans[id]
                     \/ id = pass.current /\ orphans'[id] = 1 /\ id \notin Live
  BY <1>2, <1>3 DEF MakeServer
<1>5. orphans' \in [ID -> Nat]
  BY <1>2, <1>3 DEF MakeServer
<1>6. OrphansBehind'
  BY <1>1, <1>2, <1>4 DEF IInv, OrphansBehind
<1>7. PassOK'
  BY <1>2 DEF PassOK
<1>8. QED
  BY <1>1, <1>2, <1>5, <1>6, <1>7, PassKeeps

\* The steps of a pass.
LEMMA LoopKeeps == ASSUME IInv, LoopStep PROVE IInv'
<1>1. pass \in PassType /\ NoPass \in PassType /\ NoPass.todo = {} /\ NoPass.step = "idle"
      /\ Live \subseteq ID
  BY DEF IInv, TypeOK, PassType, NoPass, Live
<1>2. CASE StartPass
  <2> DEFINE todo == {id \in Live : clusters[id].config = "full"}
  <2>1. pass' = [step |-> "evaluate", todo |-> todo, current |-> NoID] /\ todo \subseteq Live
    BY <1>2 DEF StartPass, NoPass
  <2> HIDE DEF todo
  <2>2. pass' \in PassType
    BY <1>1, <2>1 DEF PassType
  <2>3. QED
    BY <1>2, <2>1, <2>2, WalkKeeps DEF StartPass
<1>3. ASSUME NEW id \in ID, LeaveCluster(id) PROVE IInv'
  <2>1. pass' \in PassType /\ pass'.todo = pass.todo \ {id} /\ pass'.step = "evaluate"
    BY <1>1, <1>3 DEF LeaveCluster, PassType
  <2>2. QED
    BY <1>3, <2>1, WalkKeeps DEF LeaveCluster
<1>4. ASSUME NEW id \in ID, NeedServer(id) PROVE IInv'
  <2>1. /\ pass' \in PassType /\ pass'.todo = pass.todo \ {id} /\ pass'.current = id
        /\ id \in pass.todo
    BY <1>1, <1>4 DEF NeedServer, PassType
  <2>2. QED
    BY <1>4, <2>1, WalkKeeps DEF NeedServer
<1>5. CASE ProvisionServer
  <2>1. pass' \in PassType /\ pass'.todo = pass.todo /\ pass'.step = "record"
    BY <1>1, <1>5 DEF ProvisionServer, PassType
  <2>2. faults' \in 0 .. MaxFaults
    BY <1>5 DEF ProvisionServer, apiVars, IInv, TypeOK, APITypeOK
  <2>3. QED
    BY <1>5, <2>1, <2>2, ServerKeeps DEF ProvisionServer, apiVars
<1>6. CASE ProvisionFails
  <2>1. pass' \in PassType /\ pass'.todo = pass.todo /\ pass'.step = "evaluate"
    BY <1>1, <1>6 DEF ProvisionFails, NextCluster, PassType
  <2>2. faults' \in 0 .. MaxFaults
    BY <1>6, FailingTyped DEF ProvisionFails, IInv, TypeOK, APITypeOK
  <2>3. QED
    BY <1>6, <2>1, <2>2, ServerKeeps DEF ProvisionFails
<1>7. CASE FinishServer
  <2>1. pass' \in PassType /\ pass'.todo = pass.todo /\ pass'.step = "evaluate"
    BY <1>1, <1>7 DEF FinishServer, NextCluster, PassType
  <2>2. QED
    BY <1>7, <2>1, WalkKeeps DEF FinishServer
<1>8. CASE EndPass
  BY <1>1, <1>8, WalkKeeps DEF EndPass
<1>9. CASE StopLoop
  <2>1. pass' \in PassType /\ pass'.todo = pass.todo /\ pass'.step = "stopped"
    BY <1>1, <1>9 DEF StopLoop, PassType
  <2>2. QED
    BY <1>9, <2>1, WalkKeeps DEF StopLoop
<1>10. QED
  BY <1>2, <1>3, <1>4, <1>5, <1>6, <1>7, <1>8, <1>9 DEF LoopStep

\* The process goes with its requests and its pass.
LEMMA ExitKeeps == ASSUME IInv, Exit, faults' \in 0 .. MaxFaults PROVE IInv'
<1>1. NoPass \in PassType /\ NoPass.todo = {} /\ NoPass.step = "idle"
  BY DEF NoPass, PassType
<1>2. NoRequest \in RequestType /\ NoRequest.call = "none"
  BY DEF NoRequest, RequestType, Call
<1>3. \A c \in Client : requests'[c] \in {NoRequest, requests[c]}
  BY DEF Exit
<1>4. requests' \in [Client -> RequestType]
  BY <1>2, <1>3 DEF Exit, IInv, RequestsOK
<1>5. RequestsOK'
  BY <1>2, <1>3, <1>4 DEF IInv, RequestsOK
<1>6. Live' = Live /\ clusters' = clusters /\ issued' = issued
  BY DEF Exit, Live
<1>7. PassOK' /\ OrphansBehind'
  BY <1>1, <1>6 DEF Exit, IInv, PassOK, OrphansBehind
<1>8. life' \in Life /\ orphans' \in [ID -> Nat]
  BY DEF Exit, Life, IInv, TypeOK
<1>9. QED
  BY <1>1, <1>5, <1>6, <1>7, <1>8, PassKeeps DEF Exit

\* A step of main alone.
LEMMA LifeKeeps ==
  ASSUME IInv, UNCHANGED <<apiVars, pass, orphans>>, life' \in Life PROVE IInv'
<1>1. pass \in PassType /\ pass' = pass
  BY DEF IInv, TypeOK, PassType
<1>2. RequestsOK' /\ Live' = Live /\ clusters' = clusters /\ issued' = issued
  BY APIUnchanged DEF apiVars
<1>3. PassOK' /\ OrphansBehind'
  BY <1>1, <1>2 DEF IInv, PassOK, OrphansBehind
<1>4. faults' \in 0 .. MaxFaults /\ orphans' \in [ID -> Nat]
  BY DEF IInv, TypeOK, APITypeOK, apiVars
<1>5. QED
  BY <1>1, <1>2, <1>3, <1>4, PassKeeps

\* Every step keeps the invariant.
LEMMA NextKeeps == IInv /\ [Next]_vars => IInv'
<1> SUFFICES ASSUME IInv, [Next]_vars PROVE IInv'
  OBVIOUS
<1>1. ASSUME NEW c \in Client, Serve(c) PROVE IInv'
  <2>1. clusters' = clusters /\ issued' = issued /\ RequestsOK' /\ faults' = faults
    BY <1>1, AcceptKeeps DEF Serve, IInv
  <2>2. RepoStep /\ faults' \in 0 .. MaxFaults
    BY <2>1 DEF RepoStep, IInv, TypeOK, APITypeOK
  <2>3. QED
    BY <1>1, <2>1, <2>2, APIKeeps DEF Serve
<1>2. ASSUME NEW c \in Client, Handle(c) PROVE IInv'
  BY <1>2, HandlerKeeps, APIKeeps DEF Handle, IInv
<1>3. CASE Signal \/ Shutdown \/ Drained \/ Start
  BY <1>3, LifeKeeps DEF Signal, Shutdown, Drained, Start, Life
<1>4. CASE ExitAtDeadline \/ ExitClean \/ Crash
  <2>1. faults' \in 0 .. MaxFaults
    BY <1>4, FailingTyped DEF ExitAtDeadline, ExitClean, Crash, IInv, TypeOK, APITypeOK
  <2>2. QED
    BY <1>4, <2>1, ExitKeeps DEF ExitAtDeadline, ExitClean, Crash
<1>5. CASE UNCHANGED vars
  BY <1>5, LifeKeeps DEF vars, IInv, TypeOK
<1>6. QED
  BY <1>1, <1>2, <1>3, <1>4, <1>5, LoopKeeps DEF Next, Stop

-----------------------------------------------------------------------------
\* The inductive invariant of the API and of the passes beside it.
THEOREM ManagerInvariant == Spec => []IInv
BY InitIInv, NextKeeps, PTL DEF Spec

\* Every variable stays in its declared range.
THEOREM TypeCorrect == Spec => []TypeOK
<1>1. IInv => TypeOK
  BY DEF IInv
<1>2. QED
  BY <1>1, ManagerInvariant, PTL

\* orchestrator.go:203-223: whatever a DELETE overlaps, the cluster gets at most
\* one server after it, in all passes to come.
THEOREM AtMostOneServerAfterDelete == Spec => []OneServerAfterDelete
<1>1. IInv => OneServerAfterDelete
  BY DEF IInv, TypeOK, OrphansBehind, OneServerAfterDelete
<1>2. QED
  BY <1>1, ManagerInvariant, PTL

\* A call of the repository is a step of the registry.
LEMMA RepoStepIsRegistryStep ==
  ASSUME IInv, RepoStep
  PROVE  Registry!Next \/ [id \in ID |-> RegisteredAs(id)]' = [id \in ID |-> RegisteredAs(id)]
<1> DEFINE reg == [id \in ID |-> RegisteredAs(id)]
<1>1. TableOK /\ {Unused, Removed} \cap ClusterName = {}
  BY MarkerAssumption DEF IInv
<1>2. \A k \in ID : /\ k \in Live => clusters[k].name \in ClusterName /\ k \in issued
                    /\ reg[k] \in ClusterName <=> k \in Live
                    /\ k \in Live => reg[k] = clusters[k].name
  BY <1>1, RowIsNoMarker DEF TableOK, Live, RegisteredAs
<1>3. Registry!Registered = Live
  BY <1>2 DEF Registry!Registered, Live
<1>4. CASE \E id \in ID, row \in Row : Registers(id, row) \/ Renames(id, row)
  <2>1. PICK id \in ID, row \in Row : Registers(id, row) \/ Renames(id, row)
    BY <1>4
  <2>2. clusters' = [clusters EXCEPT ![id] = row] /\ ~Taken(row.name, id)
    BY <2>1 DEF Registers, Renames, Writes
  <2>3. /\ Live' = Live \cup {id}
        /\ \A k \in ID : clusters'[k] = IF k = id THEN row ELSE clusters[k]
    BY <1>1, <2>2, WriteRows
  <2>4. \A k \in ID \ {id} : k \in issued' <=> k \in issued
    BY <2>1 DEF Registers, Renames
  <2>5. reg' = [reg EXCEPT ![id] = row.name]
    BY <2>3, <2>4 DEF RegisteredAs
  <2>6. row.name \in ClusterName
    BY RowIsNoMarker
  <2>7. Registry!Free(row.name, id)
    BY <1>2, <1>3, <2>2 DEF Registry!Free, Taken, Live
  <2>8. CASE Registers(id, row)
    <3>1. reg[id] = Unused
      BY <1>1, <2>8 DEF Registers, TableOK, RegisteredAs
    <3>2. Registry!Register(id, row.name)
      BY <2>5, <2>7, <3>1 DEF Registry!Register
    <3>3. QED
      BY <2>6, <3>2 DEF Registry!Next
  <2>9. CASE Renames(id, row)
    <3>1. Registry!Rename(id, row.name)
      BY <1>3, <2>5, <2>7, <2>9 DEF Registry!Rename, Renames
    <3>2. QED
      BY <2>6, <3>1 DEF Registry!Next
  <2>10. QED
    BY <2>1, <2>8, <2>9
<1>5. CASE \E id \in ID : Removes(id)
  <2>1. PICK id \in ID : Removes(id)
    BY <1>5
  <2>2. /\ Live' = Live \ {id} /\ issued' = issued
        /\ \A k \in ID : clusters'[k] = IF k = id THEN NoCluster ELSE clusters[k]
    BY <1>1, <2>1, RemoveRows DEF Removes
  <2>3. id \in Live /\ id \in issued
    BY <1>2, <2>1 DEF Removes
  <2>4. reg' = [reg EXCEPT ![id] = Removed]
    BY <2>2, <2>3 DEF RegisteredAs
  <2>5. Registry!Remove(id)
    BY <1>3, <2>3, <2>4 DEF Registry!Remove
  <2>6. QED
    BY <2>5 DEF Registry!Next
<1>6. CASE clusters' = clusters /\ issued' = issued
  BY <1>6 DEF RegisteredAs, Live
<1>7. QED
  BY <1>4, <1>5, <1>6 DEF RepoStep

\* repository.go: names are unique, IDs are used once and a deleted cluster stays
\* deleted, for any clients, requests, store, failures and restarts.
THEOREM APIImplementsRegistry == Spec => ImplementsRegistry
<1>1. Init => Registry!Init
  BY DEF Init, APIInit, Registry!Init, RegisteredAs, Live
<1>2. IInv /\ [Next]_vars => [Registry!Next]_([id \in ID |-> RegisteredAs(id)])
  <2> SUFFICES ASSUME IInv, [Next]_vars
               PROVE  [Registry!Next]_([id \in ID |-> RegisteredAs(id)])
    OBVIOUS
  <2>1. ASSUME NEW c \in Client, Serve(c) PROVE RepoStep
    BY <2>1, AcceptKeeps DEF Serve, IInv, RepoStep
  <2>2. ASSUME NEW c \in Client, Handle(c) PROVE RepoStep
    BY <2>2, HandlerKeeps DEF Handle, IInv
  <2>3. ASSUME LoopStep PROVE RepoStep
    BY <2>3 DEF LoopStep, StartPass, LeaveCluster, NeedServer, ProvisionServer, ProvisionFails,
                FinishServer, EndPass, StopLoop, apiVars, RepoStep
  <2>4. ASSUME Signal \/ Stop \/ Crash \/ Start PROVE RepoStep
    BY <2>4 DEF Signal, Stop, Shutdown, Drained, ExitAtDeadline, ExitClean, Crash, Exit, Start,
                apiVars, RepoStep
  <2>5. ASSUME UNCHANGED vars PROVE RepoStep
    BY <2>5 DEF vars, apiVars, RepoStep
  <2>6. RepoStep
    BY <2>1, <2>2, <2>3, <2>4, <2>5 DEF Next
  <2>7. QED
    BY <2>6, RepoStepIsRegistryStep
<1>3. QED
  BY <1>1, <1>2, ManagerInvariant, PTL DEF Spec, ImplementsRegistry, Registry!Spec

-----------------------------------------------------------------------------
(* What a PUT leaves alone, and who is waited for.                          *)

\* A handler, or a request that arrives, touches the request of its own client.
LEMMA OthersWait ==
  ASSUME NEW d \in Client, Accept(d) \/ HandlerStep(d), NEW c \in Client, c # d,
         requests \in [Client -> RequestType]
  PROVE  requests'[c] = requests[c]
<1>1. CASE Accept(d)
  BY <1>1 DEF Accept, ReceivePost, ReceivePut, ReceiveDelete, Receive, Answer
<1>2. CASE HandlerStep(d)
  BY <1>2 DEF HandlerStep, CreateCluster, GetExisting, UpdateCluster, DeleteCluster, CallFails, Answer
<1>3. QED
  BY <1>1, <1>2

\* A PUT that ends stores its merged row, or nothing.
LEMMA UpdateStores ==
  ASSUME NEW c \in Client, requests[c].call = "update", HandlerStep(c)
  PROVE  clusters' = clusters \/ Replace(c)
BY DEF HandlerStep, CreateCluster, GetExisting, UpdateCluster, DeleteCluster, CallFails, Effect

\* clusters.go:24: a PUT whose copy is still the row when it writes keeps every field
\* its body does not give, for any clients, bodies, store and faults.
THEOREM PutKeepsAbsentFields == Spec => AbsentFieldsKept
<1> DEFINE Kept(c) == LET id == requests[c].id
                      IN  (requests'[c] # requests[c] /\ clusters[id] = requests[c].copy) =>
                            \A f \in {"name", "config"} :
                              requests[c].body[f] = Absent => clusters'[id][f] = clusters[id][f]
<1>1. IInv /\ [Next]_vars => [\A c \in Calling("update") : Kept(c)]_vars
  <2> SUFFICES ASSUME IInv, Next, NEW c \in Calling("update"),
                      requests'[c] # requests[c], clusters[requests[c].id] = requests[c].copy,
                      NEW f \in {"name", "config"}, requests[c].body[f] = Absent
               PROVE  clusters'[requests[c].id][f] = clusters[requests[c].id][f]
    OBVIOUS
  <2>1. /\ c \in Client /\ requests[c].call = "update" /\ requests[c].id \in ID
        /\ requests \in [Client -> RequestType] /\ clusters \in [ID -> Row \cup {NoCluster}]
    BY DEF Calling, IInv, RequestsOK, TableOK
  <2>2. clusters' = clusters \/ Replace(c)
    <3>1. ASSUME NEW d \in Client, Serve(d) PROVE clusters' = clusters
      BY <3>1, AcceptKeeps DEF Serve, IInv
    <3>2. ASSUME NEW d \in Client, Handle(d) PROVE d = c
      BY <2>1, <3>2, OthersWait DEF Handle
    <3>3. ASSUME Handle(c) PROVE clusters' = clusters \/ Replace(c)
      BY <2>1, <3>3, UpdateStores DEF Handle
    <3>4. ASSUME LoopStep PROVE requests' = requests
      BY <3>4 DEF LoopStep, StartPass, LeaveCluster, NeedServer, ProvisionServer, ProvisionFails,
                  FinishServer, EndPass, StopLoop, apiVars
    <3>5. ASSUME Signal \/ Stop \/ Crash \/ Start PROVE clusters' = clusters
      BY <3>5 DEF Signal, Stop, Shutdown, Drained, ExitAtDeadline, ExitClean, Crash, Exit, Start, apiVars
    <3>6. QED
      BY <3>1, <3>2, <3>3, <3>4, <3>5 DEF Next
  <2>3. CASE Replace(c)
    <3>1. clusters'[requests[c].id] = Merged(c)
      BY <2>1, <2>3 DEF Replace
    <3>2. Merged(c)[f] = requests[c].copy[f]
      BY DEF Merged
    <3>3. QED
      BY <3>1, <3>2
  <2>4. QED
    BY <2>2, <2>3
<1>2. QED
  BY <1>1, ManagerInvariant, PTL DEF Spec, AbsentFieldsKept

\* Once Shutdown has returned nobody waits for an answer.
Quiet == life \in {"closing", "exited"} => InFlight = {}

\* A closed listener lets no request in, and a handler that is left has answered.
LEMMA QuietKept == IInv /\ Quiet /\ [Next]_vars => Quiet'
<1> SUFFICES ASSUME IInv, Quiet, [Next]_vars PROVE Quiet'
  OBVIOUS
<1>1. ASSUME NEW c \in Client, Serve(c) PROVE Quiet'
  BY <1>1 DEF Serve, Listening, Quiet
<1>2. ASSUME NEW c \in Client, Handle(c) PROVE Quiet'
  <2>1. c \in InFlight
    BY <1>2 DEF Handle, HandlerStep, CreateCluster, GetExisting, UpdateCluster, DeleteCluster,
                CallFails, InFlight
  <2>2. QED
    BY <1>2, <2>1 DEF Handle, Quiet
<1>3. CASE LoopStep
  BY <1>3 DEF LoopStep, StartPass, LeaveCluster, NeedServer, ProvisionServer, ProvisionFails,
              FinishServer, EndPass, StopLoop, apiVars, Quiet, InFlight
<1>4. CASE Signal \/ Shutdown \/ Drained \/ Start \/ UNCHANGED vars
  BY <1>4 DEF Signal, Shutdown, Drained, Start, vars, apiVars, Quiet, InFlight
<1>5. CASE ExitAtDeadline \/ ExitClean \/ Crash
  <2>1. Exit
    BY <1>5 DEF ExitAtDeadline, ExitClean, Crash
  <2>2. NoRequest.call = "none"
    BY DEF NoRequest
  <2>3. \A c \in Client : requests'[c].call = "none"
    BY <2>1, <2>2 DEF Exit, InFlight
  <2>4. QED
    BY <2>3 DEF Quiet, InFlight
<1>6. QED
  BY <1>1, <1>2, <1>3, <1>4, <1>5 DEF Next, Stop

\* main.go:126-137: a request in flight is cut off by the deadline of Shutdown or by a
\* crash and by nothing else, for any clients, requests and faults.
THEOREM InFlightAreAnswered == Spec => RequestsAnswered
<1>1. Init => Quiet
  BY DEF Init, Quiet
<1>2. IInv /\ Quiet /\ [Next]_vars =>
        [(life' = "exited" /\ InFlight # {}) => (life = "draining" \/ faults' > faults)]_vars
  <2> SUFFICES ASSUME IInv, Quiet, Next, life' = "exited", InFlight # {}, life # "draining"
               PROVE  faults' > faults
    OBVIOUS
  <2>1. life \notin {"closing", "exited"}
    BY DEF Quiet
  <2>2. ~LoopStep
    BY <2>1 DEF LoopStep, StartPass, LeaveCluster, NeedServer, ProvisionServer, ProvisionFails,
                FinishServer, EndPass, StopLoop
  <2>3. ~Signal /\ ~Shutdown /\ ~Drained /\ ~ExitAtDeadline /\ ~ExitClean /\ ~Start
    BY <2>1 DEF Signal, Shutdown, Drained, ExitAtDeadline, ExitClean, Start
  <2>4. \A c \in Client : ~Serve(c) /\ ~Handle(c)
    BY <2>1 DEF Serve, Handle
  <2>5. Crash
    BY <2>2, <2>3, <2>4 DEF Next, Stop
  <2>6. faults' = faults + 1 /\ faults \in Int
    BY <2>5, StoreAssumption DEF Crash, Failing, IInv, TypeOK, APITypeOK
  <2>7. QED
    BY <2>6
<1>3. QED
  BY <1>1, <1>2, QuietKept, ManagerInvariant, PTL DEF Spec, RequestsAnswered
=============================================================================
