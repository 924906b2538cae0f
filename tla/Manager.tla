------------------------------ MODULE Manager ------------------------------
(***************************************************************************)
(* The life of a manager process (cmd/manager/main.go): the HTTP server,    *)
(* the goroutine of orchestrator.Run, and their end.  SIGTERM cancels the   *)
(* context of the loop at once and starts Server.Shutdown, which closes the *)
(* listener and waits for the requests in flight, up to a deadline; nobody  *)
(* waits for the loop.                                                      *)
(*                                                                         *)
(* The loop is seen from the clusters: a pass lists them once and walks     *)
(* through its copies (reconcile), each of which may end in a scale-out.    *)
(* NodeSync, InstanceSync, Placement and ScaleOut have what happens inside. *)
(***************************************************************************)
EXTENDS ClusterAPI

CONSTANTS Unused, Removed  \* the markers of ClusterRegistry

ASSUME MarkerAssumption == Unused # Removed /\ {Unused, Removed} \cap ClusterName = {}

VARIABLES
  life,     \* of the process: what main does
  pass,     \* the reconcile pass of the loop
  orphans   \* the servers made for a cluster when it was no longer registered

vars == <<apiVars, life, pass, orphans>>

Life == {"serving", "signalled", "draining", "closing", "exited"}

Running   == life # "exited"
Listening == life \in {"serving", "signalled"}
Cancelled == life \in {"signalled", "draining", "closing"}

NoPass == [step    |-> "idle",
           todo    |-> {},     \* the clusters it has not come to, of those whose copy has
                               \* a complete configuration (the others need no server)
           current |-> NoID]   \* the cluster it scales out

-----------------------------------------------------------------------------
(* The reconcile loop.  With its context cancelled every call of a pass     *)
(* fails, so it goes to the end without effect.                             *)

\* ListClusters.  (A listing that fails is a tick without a pass.)
StartPass ==
  /\ Running /\ ~Cancelled /\ pass.step = "idle" /\ Live # {}
  /\ pass' = [NoPass EXCEPT !.step = "evaluate",
                            !.todo = {id \in Live : clusters[id].config = "full"}]
  /\ UNCHANGED <<apiVars, life, orphans>>

\* reconcileCluster without a scale-out: nothing waits, a node is being provisioned
\* already, or a call fails.
LeaveCluster(id) ==
  /\ Running /\ pass.step = "evaluate" /\ id \in pass.todo
  /\ pass' = [pass EXCEPT !.todo = @ \ {id}]
  /\ UNCHANGED <<apiVars, life, orphans>>

\* reconcileCluster up to ProvisionServer.  In the database the instances go with
\* their cluster, in memory they stay.
NeedServer(id) ==
  /\ Running /\ ~Cancelled /\ pass.step = "evaluate"
  /\ id \in pass.todo
  /\ SQLStore => id \in Live
  /\ pass' = [pass EXCEPT !.step = "provision", !.todo = @ \ {id}, !.current = id]
  /\ UNCHANGED <<apiVars, life, orphans>>

\* A new server carries the ID of the cluster in a label.
MakeServer(id) == orphans' = IF id \in Live THEN orphans ELSE [orphans EXCEPT ![id] = @ + 1]

NextCluster == pass' = [pass EXCEPT !.step = "evaluate", !.current = NoID]

ProvisionServer ==
  /\ Running /\ ~Cancelled /\ pass.step = "provision"
  /\ MakeServer(pass.current)
  /\ pass' = [pass EXCEPT !.step = "record"]
  /\ UNCHANGED <<apiVars, life>>

\* The provider refuses or its answer is lost; or the context is cancelled before
\* the call or in the middle of it.
ProvisionFails ==
  /\ Running /\ pass.step = "provision"
  /\ IF Cancelled THEN UNCHANGED faults ELSE Failing(1)
  /\ MakeServer(pass.current) \/ UNCHANGED orphans
  /\ NextCluster
  /\ UNCHANGED <<clusters, issued, requests, life>>

\* Mutant: a record that is refused makes the scale-out try another name.
RetryRefused ==
  /\ Running /\ pass.step = "record"
  /\ IF pass.current \in Live THEN NextCluster ELSE pass' = [pass EXCEPT !.step = "provision"]
  /\ UNCHANGED <<apiVars, life, orphans>>

\* CreateNode, the bootstrap and UpdateNode, whatever becomes of each of them.
FinishServer ==
  /\ Running /\ pass.step = "record"
  /\ NextCluster
  /\ UNCHANGED <<apiVars, life, orphans>>

EndPass ==
  /\ Running /\ pass.step = "evaluate" /\ pass.todo = {}
  /\ pass' = NoPass
  /\ UNCHANGED <<apiVars, life, orphans>>

\* Run returns.
StopLoop ==
  /\ Running /\ Cancelled /\ pass.step = "idle"
  /\ pass' = [pass EXCEPT !.step = "stopped"]
  /\ UNCHANGED <<apiVars, life, orphans>>

LoopStep ==
  \/ StartPass \/ (\E id \in ID : LeaveCluster(id) \/ NeedServer(id))
  \/ ProvisionServer \/ ProvisionFails \/ FinishServer \/ EndPass \/ StopLoop

-----------------------------------------------------------------------------
(* The requests and the process.                                            *)

\* Mutant: requests are accepted until the process ends.
ServeToTheEnd(c) == Running /\ Accept(c) /\ UNCHANGED <<life, pass, orphans>>

\* A connection is accepted while the listener is open.
Serve(c) == Listening /\ Accept(c) /\ UNCHANGED <<life, pass, orphans>>

\* A handler has a context of its own, which the signal does not cancel.
Handle(c) == Running /\ HandlerStep(c) /\ UNCHANGED <<life, pass, orphans>>

\* SIGTERM, or ListenAndServe fails.
Signal ==
  /\ life = "serving"
  /\ life' = "signalled"
  /\ UNCHANGED <<apiVars, pass, orphans>>

\* main wakes up and calls Shutdown.
Shutdown ==
  /\ life = "signalled"
  /\ life' = "draining"
  /\ UNCHANGED <<apiVars, pass, orphans>>

\* Shutdown finds no request in flight.
Drained ==
  /\ life = "draining" /\ InFlight = {}
  /\ life' = "closing"
  /\ UNCHANGED <<apiVars, pass, orphans>>

\* The process is gone, with its handlers and its loop.
Exit ==
  /\ life' = "exited"
  /\ pass' = NoPass
  /\ requests' = [c \in Client |-> IF c \in InFlight THEN NoRequest ELSE requests[c]]
  /\ UNCHANGED <<clusters, issued, orphans>>

\* Mutant: Shutdown has no deadline.
WaitForRequests == life = "draining" /\ InFlight = {} /\ Exit /\ UNCHANGED faults

\* The deadline of Shutdown passes: os.Exit(1).
ExitAtDeadline == life = "draining" /\ InFlight # {} /\ Exit /\ UNCHANGED faults

\* The pool is closed and main returns.
ExitClean == life = "closing" /\ Exit /\ UNCHANGED faults

Crash == Running /\ Exit /\ Failing(1)

Start ==
  /\ life = "exited"
  /\ life' = "serving"
  /\ UNCHANGED <<apiVars, pass, orphans>>

Stop == Shutdown \/ Drained \/ ExitAtDeadline \/ ExitClean

Init ==
  /\ APIInit
  /\ life = "serving" /\ pass = NoPass
  /\ orphans = [id \in ID |-> 0]

Next ==
  \/ \E c \in Client : Serve(c) \/ Handle(c)
  \/ LoopStep \/ Signal \/ Stop \/ Crash \/ Start

\* The main goroutine runs on and its deadline passes; no handler and no pass has
\* to get anywhere, and nobody has to start the process again.
Fairness == WF_vars(Stop)

Spec     == Init /\ [][Next]_vars
FairSpec == Spec /\ Fairness

-----------------------------------------------------------------------------
\* Every variable stays within its declared range.
TypeOK ==
  /\ APITypeOK
  /\ life \in Life
  /\ pass \in [step : {"idle", "evaluate", "provision", "record", "stopped"},
               todo : SUBSET ID, current : ID \cup {NoID}]
  /\ orphans \in [ID -> Nat]

\* repository.go: with POST, PUT and DELETE interleaved call by call, failing and
\* losing answers, names stay unique and no late PUT brings a deleted cluster back.
RegisteredAs(id) ==
  IF id \in Live THEN clusters[id].name ELSE IF id \in issued THEN Removed ELSE Unused
Registry == INSTANCE ClusterRegistry WITH registry <- [id \in ID |-> RegisteredAs(id)]
ImplementsRegistry == Registry!Spec

\* clusters.go:24, "absent fields retain their current values": a PUT whose copy
\* is still the row when it writes changes nothing but what its body gives.  (With
\* another PUT in between it takes the fields of that one back.)
AbsentFieldsKept ==
  [][\A c \in Calling("update") :
       LET id == requests[c].id
       IN  (requests'[c] # requests[c] /\ clusters[id] = requests[c].copy) =>
             \A f \in {"name", "config"} :
               requests[c].body[f] = Absent => clusters'[id][f] = clusters[id][f]]_vars

\* orchestrator.go:203-223: a pass works on copies, so a server may be made for a
\* cluster that is deleted meanwhile; but no more than one ever is.
OneServerAfterDelete == \A id \in ID : orphans[id] <= 1

\* main.go:126-137, server.go:106-107: whenever the process is told to stop, no
\* request in flight is left unanswered but by the deadline, or by a crash.
RequestsAnswered ==
  [][(life' = "exited" /\ InFlight # {}) => (life = "draining" \/ faults' > faults)]_vars

\* main.go:129: a process that is told to stop is gone in the end, whether or not
\* its handlers and its loop come to an end.
ShutdownEnds == (life = "signalled") ~> (life = "exited")

\* orchestrator.go:156-157, "a clean exit after the current reconcile pass (if any)
\* completes": when main returns, no scale-out has its server but not its record.
PassCompletes ==
  [][(life = "closing" /\ life' = "exited") => (pass.step # "record" \/ faults' > faults)]_vars
=============================================================================
