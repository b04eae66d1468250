----------------------------- MODULE Deployment -----------------------------
(***************************************************************************)
(* The deployment lifecycle of the api-server: DeploymentService (the API  *)
(* side), executeDeployment (the worker side) and the status half of       *)
(* EnvironmentService, over an object store whose reads and writes are     *)
(* separate awaits.  Every storage call is one action, so the requests,    *)
(* workers and pollers of the program interleave wherever it awaits.       *)
(*                                                                         *)
(* Processes: Handlers run POST /deployments and POST /:id/continue,       *)
(* Cancellers run POST /:id/cancel, and a job <<d, n>> is the worker       *)
(* invocation of pass n of deployment d (n = 1 unless d is an edge         *)
(* deployment).  A record's message and timestamps are left out.           *)
(***************************************************************************)
EXTENDS Naturals, FiniteSets

CONSTANTS
    Deployments,     \* deployment ids (generateId)
    EdgeDeployments, \* the deployments whose input.target.type is 'edge'
    Environments,    \* environment ids
    Handlers,        \* API invocations that can run at the same time
    Cancellers,      \* cancel requests that can run at the same time
    Actions,         \* the DeploymentActions clients ask for
    Backend,         \* "cloud" (Pulumi) or "container" (cluster client)
    Faults,          \* what can go wrong with a dispatch: "refused" (an error,
                     \* the worker never ran), "reset" (an error, but the worker
                     \* runs), "lost" (the abort fires before delivery)
    Forces,          \* the values of options.force that clients send
    MaxPasses,       \* bound: passes of one edge deployment
    MaxCrashes       \* bound: processes that stop between two storage calls

ASSUME DeploymentAssumption ==
    /\ EdgeDeployments \subseteq Deployments
    /\ Actions \subseteq {"Deploy", "Destroy", "Refresh"}
    /\ Backend \in {"cloud", "container"}
    /\ Backend = "container" => EdgeDeployments = {}
    /\ Faults \subseteq {"refused", "reset", "lost"}
    /\ Forces \subseteq BOOLEAN
    /\ MaxPasses \in Nat \ {0}
    /\ MaxCrashes \in Nat

\* A process is an API invocation, a cancel request or a worker, never two.
ASSUME ProcessesDistinct ==
    /\ Handlers \cap Cancellers = {}
    /\ Deployments \X (1..MaxPasses) \cap (Handlers \cup Cancellers) = {}

VARIABLES
    record,      \* the stored Deployment of each id
    environment, \* the stored Environment of each id
    edgeConfig,  \* is the epoch-2 edge config attached to the base config?
    handler,     \* local state of each handler
    canceller,   \* local state of each cancel request
    worker,      \* local state of each job
    flip,        \* the updateStatus call each process is in, if any
    crashes      \* processes that have crashed so far

vars == <<record, environment, edgeConfig, handler, canceller, worker, flip,
          crashes>>

-----------------------------------------------------------------------------
(* Data *)

Jobs  == Deployments \X (1..MaxPasses)
Procs == Handlers \cup Cancellers \cup Jobs

Terminal == {"Succeeded", "Failed", "Cancelled"}
Statuses == Terminal \cup {"Pending", "InProgress", "Cancelling"}
Busy     == {"Deploying", "Destroying", "Refreshing"}
EnvStatuses == Busy \cup {"Pending", "Deployed", "Destroyed", "Failed"}

Record == [status : Statuses, env : Environments, action : Actions,
           conv : {"none", "running", "ready", "converged"},
           pass : 0..MaxPasses]
NoRecord == [status |-> "Absent"]

\* "Unborn" before create, "Deleted" after delete: get() returns null.
Environment == [status : EnvStatuses \cup {"Unborn", "Deleted"},
                url : BOOLEAN]
Exists(e) == environment[e].status \in EnvStatuses

NoFlip == [pc |-> "none"]
Idle   == [pc |-> "idle"]

IsEdge(d) == d \in EdgeDeployments

\* The record execute() builds.
NewRecord(d, e, a) ==
    [status |-> "Pending", env |-> e, action |-> a,
     conv |-> IF IsEdge(d) THEN "running" ELSE "none",
     pass |-> IF IsEdge(d) THEN 1 ELSE 0]

\* Fault: a Refresh in flight does not refuse the next deployment.
RefusedStatuses_NoRefresh == {"Deploying", "Destroying"}

\* The statuses from which execute() refuses to start a deployment.
RefusedStatuses == {"Deploying", "Destroying", "Refreshing"}

\* The transitional environment status of an action.
FlipFor(a) == CASE a = "Deploy"  -> "Deploying"
                [] a = "Destroy" -> "Destroying"
                [] a = "Refresh" -> "Refreshing"

\* Fault: the prior status is captured after the environment was flipped.
FinalStatus_LateCapture(a, prior) ==
    CASE a = "Deploy"  -> "Deployed"
      [] a = "Destroy" -> "Destroyed"
      [] a = "Refresh" -> "Refreshing"

\* The environment status and url bookkeeping of a successful action.
FinalStatus(a, prior) == CASE a = "Deploy"  -> "Deployed"
                           [] a = "Destroy" -> "Destroyed"
                           [] a = "Refresh" -> prior

\* Deploy sets the url when the backend reports one, Destroy clears it.
FinalUrls(a) == CASE a = "Deploy"  -> {"set", "keep"}
                  [] a = "Destroy" -> {"clear"}
                  [] a = "Refresh" -> {"keep"}

-----------------------------------------------------------------------------
(* EnvironmentService: create, delete and updateStatus, which reads the    *)
(* stored environment and writes a changed copy of it.                     *)

CreateEnvironment(e) ==
    /\ environment[e].status = "Unborn"
    /\ environment' = [environment EXCEPT ![e].status = "Pending"]
    /\ UNCHANGED <<record, edgeConfig, handler, canceller, worker, flip,
                   crashes>>

DeleteEnvironment(e) ==
    /\ Exists(e)
    /\ environment' = [environment EXCEPT ![e].status = "Deleted"]
    /\ UNCHANGED <<record, edgeConfig, handler, canceller, worker, flip,
                   crashes>>

\* Process p calls updateStatus(e, status, { url }) in this step.
CallUpdateStatus(p, e, status, url) ==
    flip' = [flip EXCEPT ![p] = [pc |-> "read", env |-> e,
                                 status |-> status, url |-> url]]

ReadEnvironment(p) ==
    /\ flip[p].pc = "read"
    /\ flip' = [flip EXCEPT ![p] =
         IF Exists(flip[p].env)
         THEN [pc |-> "write", env |-> flip[p].env,
               next |-> [status |-> flip[p].status,
                         url |-> CASE flip[p].url = "set"   -> TRUE
                                   [] flip[p].url = "clear" -> FALSE
                                   [] flip[p].url = "keep"  ->
                                        environment[flip[p].env].url]]
         ELSE NoFlip]
    /\ UNCHANGED <<record, environment, edgeConfig, handler, canceller, worker,
                   crashes>>

WriteEnvironment(p) ==
    /\ flip[p].pc = "write"
    /\ environment' = [environment EXCEPT ![flip[p].env] = flip[p].next]
    /\ flip' = [flip EXCEPT ![p] = NoFlip]
    /\ UNCHANGED <<record, edgeConfig, handler, canceller, worker, crashes>>

-----------------------------------------------------------------------------
(* DeploymentService.execute *)

\* Fault: updateStatus is called without await.
HandlerAt_NoAwait(h, pc) == handler[h].pc = pc

HandlerAt(h, pc) == handler[h].pc = pc /\ flip[h] = NoFlip

\* Read the environment and pass the busy check; the id d is fresh.
Admit(h, d, e, a) ==
    /\ HandlerAt(h, "idle")
    /\ record[d] = NoRecord
    /\ \A g \in Handlers : handler[g] # Idle => handler[g].dep # d
    /\ Exists(e)
    /\ environment[e].status \notin RefusedStatuses
    /\ handler' = [handler EXCEPT ![h] =
         [pc |-> "create", dep |-> d, copy |-> NewRecord(d, e, a),
          prior |-> environment[e].status]]
    /\ UNCHANGED <<record, environment, edgeConfig, canceller, worker, flip,
                   crashes>>

\* Persist the Pending record, then flip the environment.
CreateRecord(h) ==
    /\ HandlerAt(h, "create")
    /\ LET c == handler[h].copy IN
         /\ record' = [record EXCEPT ![handler[h].dep] = c]
         /\ CallUpdateStatus(h, c.env, FlipFor(c.action), "keep")
    /\ handler' = [handler EXCEPT ![h].pc = "dispatch"]
    /\ UNCHANGED <<environment, edgeConfig, canceller, worker, crashes>>

\* Fault: the abort always fires before the worker has the event.
Deliver_Dropped(h, d, n) == UNCHANGED worker

\* The worker event travels to a worker, which runs whether or not the
\* handler is still waiting for its response.  (Bound: two live invocations
\* never carry the same pass of one deployment.)
Deliver(h, d, n) ==
    /\ worker[<<d, n>>].pc \in {"none", "done", "dead"}
    /\ worker' = [worker EXCEPT ![<<d, n>>] =
        [pc |-> "queued", copy |-> handler[h].copy,
         prior |-> handler[h].prior]]

Dispatch(h) ==
    /\ HandlerAt(h, "dispatch")
    /\ \/ /\ Deliver(h, handler[h].dep, 1)
          /\ handler' = [handler EXCEPT ![h].pc = "waiting"]
       \/ /\ "lost" \in Faults
          /\ handler' = [handler EXCEPT ![h] = Idle]
          /\ UNCHANGED worker
       \/ /\ "refused" \in Faults
          /\ handler' = [handler EXCEPT ![h].pc = "failed"]
          /\ UNCHANGED worker
    /\ UNCHANGED <<record, environment, edgeConfig, canceller, flip, crashes>>

\* The worker answered 2xx, or the DISPATCH_TIMEOUT_MS abort fired.
DispatchReturns(h) ==
    /\ handler[h].pc \in {"waiting", "waitingPass"}
    /\ handler' = [handler EXCEPT ![h] = Idle]
    /\ UNCHANGED <<record, environment, edgeConfig, canceller, worker, flip,
                   crashes>>

\* The job handler's catch: executeDeployment threw and the worker answers 500.
Threw(d, n) == worker[<<d, n>>] = [pc |-> "done", threw |-> TRUE]
                 /\ flip[<<d, n>>] = NoFlip

DispatchThrows(h) ==
    /\ \/ /\ handler[h].pc = "waiting"
          /\ Threw(handler[h].dep, 1) \/ "reset" \in Faults
          /\ handler' = [handler EXCEPT ![h].pc = "failed"]
       \/ /\ handler[h].pc = "waitingPass"
          /\ \/ Threw(handler[h].dep, handler[h].copy.pass)
             \/ "reset" \in Faults
          /\ handler' = [handler EXCEPT ![h].pc = "failedPass"]
    /\ UNCHANGED <<record, environment, edgeConfig, canceller, worker, flip,
                   crashes>>

\* execute()'s catch: write Failed from the local object.
FailDispatch(h) ==
    /\ HandlerAt(h, "failed")
    /\ LET c == handler[h].copy IN
         /\ record' = [record EXCEPT ![handler[h].dep] =
                         [c EXCEPT !.status = "Failed"]]
         /\ CallUpdateStatus(h, c.env, "Failed", "keep")
    /\ handler' = [handler EXCEPT ![h] = Idle]
    /\ UNCHANGED <<environment, edgeConfig, canceller, worker, crashes>>

-----------------------------------------------------------------------------
(* DeploymentService.continueEdge: lease the next pass of an edge          *)
(* deployment with a compare-and-set on the record, then dispatch it.      *)

ContinueEdge(h, d) ==
    /\ HandlerAt(h, "idle")
    /\ IsEdge(d)
    /\ record[d].status = "InProgress"
    /\ record[d].conv = "ready"
    /\ Exists(record[d].env)
    /\ record[d].pass < MaxPasses
    \* The continuation event carries no priorEnvStatus: 'Deployed' is used.
    /\ handler' = [handler EXCEPT ![h] =
         [pc |-> "lease", dep |-> d, copy |-> record[d], prior |-> "Deployed"]]
    /\ UNCHANGED <<record, environment, edgeConfig, canceller, worker, flip,
                   crashes>>

\* Fault: the lease is written without comparing the version.
RecordUnchanged_Blind(h) == TRUE

\* setIfVersion succeeds: the stored record is the one that was read.
RecordUnchanged(h) == record[handler[h].dep] = handler[h].copy

LeasePass(h) ==
    /\ HandlerAt(h, "lease")
    /\ LET d == handler[h].dep
           leased == [handler[h].copy EXCEPT !.conv = "running",
                                             !.pass = @ + 1]
       IN IF RecordUnchanged(h)
          THEN /\ record' = [record EXCEPT ![d] = leased]
               /\ handler' = [handler EXCEPT ![h].pc = "dispatchPass",
                                             ![h].copy = leased]
          ELSE /\ handler' = [handler EXCEPT ![h] = Idle]
               /\ UNCHANGED record
    /\ UNCHANGED <<environment, edgeConfig, canceller, worker, flip, crashes>>

DispatchPass(h) ==
    /\ HandlerAt(h, "dispatchPass")
    /\ \/ /\ Deliver(h, handler[h].dep, handler[h].copy.pass)
          /\ handler' = [handler EXCEPT ![h].pc = "waitingPass"]
       \/ /\ "lost" \in Faults
          /\ handler' = [handler EXCEPT ![h] = Idle]
          /\ UNCHANGED worker
       \/ /\ "refused" \in Faults
          /\ handler' = [handler EXCEPT ![h].pc = "failedPass"]
          /\ UNCHANGED worker
    /\ UNCHANGED <<record, environment, edgeConfig, canceller, flip, crashes>>

\* The catch: reread the record; if this pass still holds the lease ...
RereadPass(h) ==
    /\ HandlerAt(h, "failedPass")
    /\ handler' = [handler EXCEPT ![h] =
         LET latest == record[handler[h].dep]
         IN IF /\ latest.status = "InProgress"
               /\ latest.conv = "running"
               /\ latest.pass = handler[h].copy.pass
            THEN [handler[h] EXCEPT !.pc = "unlease", !.copy = latest]
            ELSE Idle]
    /\ UNCHANGED <<record, environment, edgeConfig, canceller, worker, flip,
                   crashes>>

\* ... hand it back with a compare-and-set.
UnleasePass(h) ==
    /\ HandlerAt(h, "unlease")
    /\ record' = IF RecordUnchanged(h)
                 THEN [record EXCEPT ![handler[h].dep].conv = "ready"]
                 ELSE record
    /\ handler' = [handler EXCEPT ![h] = Idle]
    /\ UNCHANGED <<environment, edgeConfig, canceller, worker, flip, crashes>>

-----------------------------------------------------------------------------
(* DeploymentService.cancel: read the record, decide, write it back.       *)

CancelRead(c, d, force) ==
    /\ canceller[c] = Idle /\ flip[c] = NoFlip
    /\ record[d] # NoRecord
    /\ record[d].status \notin Terminal
    /\ \/ force
       \/ record[d].conv = "ready"
       \/ record[d].status # "Cancelling"
    /\ canceller' = [canceller EXCEPT ![c] =
         [pc |-> "write", dep |-> d, force |-> force, copy |-> record[d]]]
    /\ UNCHANGED <<record, environment, edgeConfig, handler, worker, flip,
                   crashes>>

\* A forced cancel, or one between two edge passes, settles at once.
CancelSettles(c) == canceller[c].force \/ canceller[c].copy.conv = "ready"

CancelWrite(c) ==
    /\ canceller[c].pc = "write"
    /\ LET copy == canceller[c].copy IN
         IF CancelSettles(c)
         THEN /\ record' = [record EXCEPT ![canceller[c].dep] =
                              [copy EXCEPT !.status = "Cancelled"]]
              /\ CallUpdateStatus(c, copy.env, "Failed", "keep")
         ELSE /\ record' = [record EXCEPT ![canceller[c].dep] =
                              [copy EXCEPT !.status = "Cancelling"]]
              /\ UNCHANGED flip
    /\ canceller' = [canceller EXCEPT ![c] = Idle]
    /\ UNCHANGED <<environment, edgeConfig, handler, worker, crashes>>

-----------------------------------------------------------------------------
(* executeDeployment *)

WorkerAt(j, pc) == worker[j].pc = pc /\ flip[j] = NoFlip
Done(threw) == [pc |-> "done", threw |-> threw]

\* Ordinary jobs are pending-only; an edge continuation must hold the
\* attempt lease that its event names.
Accepts(j) ==
    LET r == record[j[1]] IN
      \/ r.status = "Pending"
      \/ /\ IsEdge(j[1])
         /\ r.status = "InProgress"
         /\ r.conv = "running"
         /\ r.pass = j[2]

WorkerReads(j) ==
    /\ WorkerAt(j, "queued")
    /\ worker' = [worker EXCEPT ![j] =
         IF Accepts(j)
         THEN [pc |-> "starting", prior |-> @.prior,
               copy |-> [record[j[1]] EXCEPT !.status = "InProgress"]]
         ELSE Done(FALSE)]
    /\ UNCHANGED <<record, environment, edgeConfig, handler, canceller, flip,
                   crashes>>

\* Write InProgress from the local object, start the cancel poller and the
\* action.  stack is the activeStack handle, seen is cancelObserved, noted
\* says that noteProgress was called.
WorkerStarts(j) ==
    /\ WorkerAt(j, "starting")
    /\ record' = [record EXCEPT ![j[1]] = worker[j].copy]
    /\ worker' = [worker EXCEPT ![j] =
         [pc |-> "acting", prior |-> @.prior, copy |-> @.copy,
          stack |-> "none", seen |-> FALSE, noted |-> FALSE]]
    /\ UNCHANGED <<environment, edgeConfig, handler, canceller, flip, crashes>>

\* The actions run on the substrate while a worker is in this state.
Acting(j) == worker[j].pc \in {"acting", "noting"}

\* noteProgress, called when the action resolves a build: read ...
NoteRead(j) ==
    /\ WorkerAt(j, "acting")
    /\ worker[j].copy.action = "Deploy" /\ ~IsEdge(j[1])
    /\ ~worker[j].noted /\ worker[j].stack = "none"
    /\ record[j[1]].status = "InProgress"
    /\ worker' = [worker EXCEPT ![j].pc = "noting", ![j].noted = TRUE]
    /\ UNCHANGED <<record, environment, edgeConfig, handler, canceller, flip,
                   crashes>>

\* ... and write the record back with another message.  The record that was
\* read is the one this worker wrote: InProgress is its own mark.
NoteWrite(j) ==
    /\ WorkerAt(j, "noting")
    /\ record' = [record EXCEPT ![j[1]] = worker[j].copy]
    /\ worker' = [worker EXCEPT ![j].pc = "acting"]
    /\ UNCHANGED <<environment, edgeConfig, handler, canceller, flip, crashes>>

\* infraService hands the live Pulumi stack to onStack.
OnStack(j) ==
    /\ WorkerAt(j, "acting")
    /\ Backend = "cloud"
    /\ worker[j].stack = "none"
    /\ worker' = [worker EXCEPT ![j].stack = "live"]
    /\ UNCHANGED <<record, environment, edgeConfig, handler, canceller, flip,
                   crashes>>

\* A tick of startCancelPoller: fires once, and cancels the stack if there
\* is one at that moment.
PollCancel(j) ==
    /\ Acting(j)
    /\ ~worker[j].seen
    /\ record[j[1]].status = "Cancelling"
    /\ worker' = [worker EXCEPT ![j].seen = TRUE,
                                ![j].stack = IF @ = "live" THEN "cancelled"
                                                           ELSE @]
    /\ UNCHANGED <<record, environment, edgeConfig, handler, canceller, flip,
                   crashes>>

\* The action's promise settles; stopPolling.  A cloud Deploy needs a stack,
\* a Destroy or Refresh that finds none is a no-op.  stack.cancel() makes the
\* operation reject unless it comes too late, or an edge pass reaches its
\* soft deadline as well and yields.
Settle(j, outcome) ==
    /\ WorkerAt(j, "acting")
    /\ \/ /\ outcome = "succeed"
          /\ \/ Backend = "container"
             \/ worker[j].stack # "none"
             \/ worker[j].copy.action # "Deploy"
       \/ /\ outcome = "yield"
          /\ IsEdge(j[1]) /\ worker[j].copy.action # "Refresh"
          /\ worker[j].stack # "none"
       \/ outcome = "fail"
    /\ worker' = [worker EXCEPT ![j].pc =
         IF /\ outcome = "succeed"
            /\ IsEdge(j[1])
            /\ worker[j].copy.action # "Refresh"
         THEN "publish" ELSE outcome]
    /\ UNCHANGED <<record, environment, edgeConfig, handler, canceller, flip,
                   crashes>>

\* attachEdgeBaseConfig after a converged Deploy, detachEdgeBaseConfig after
\* a Destroy; both can throw.
Publish(j) ==
    /\ WorkerAt(j, "publish")
    /\ \/ /\ edgeConfig' = (worker[j].copy.action = "Deploy")
          /\ worker' = [worker EXCEPT ![j].pc = "succeed"]
       \/ /\ worker' = [worker EXCEPT ![j].pc = "fail"]
          /\ UNCHANGED edgeConfig
    /\ UNCHANGED <<record, environment, handler, canceller, flip, crashes>>

\* The pass yielded: reread the record ...
YieldRead(j) ==
    /\ WorkerAt(j, "yield")
    /\ worker' = [worker EXCEPT ![j].pc = "yielding",
                                ![j].copy = record[j[1]]]
    /\ UNCHANGED <<record, environment, edgeConfig, handler, canceller, flip,
                   crashes>>

\* ... and settle a cancellation or persist the continuation point.
YieldWrite(j) ==
    /\ WorkerAt(j, "yielding")
    /\ LET latest == worker[j].copy IN
         IF latest.status = "Cancelling"
         THEN /\ record' = [record EXCEPT ![j[1]] =
                              [latest EXCEPT !.status = "Cancelled"]]
              /\ CallUpdateStatus(j, latest.env, "Failed", "keep")
         ELSE /\ record' = [record EXCEPT ![j[1]] =
                              [latest EXCEPT !.status = "InProgress",
                                             !.conv = "ready"]]
              /\ UNCHANGED flip
    /\ worker' = [worker EXCEPT ![j] = Done(FALSE)]
    /\ UNCHANGED <<environment, edgeConfig, handler, canceller, crashes>>

\* Write Succeeded from the object read at the start, settle the environment.
WorkerSucceeds(j) ==
    /\ WorkerAt(j, "succeed")
    /\ LET c == worker[j].copy IN
         /\ record' = [record EXCEPT ![j[1]] =
              [c EXCEPT !.status = "Succeeded",
                        !.conv = IF IsEdge(j[1]) THEN "converged" ELSE @]]
         /\ \E url \in FinalUrls(c.action) :
              CallUpdateStatus(j, c.env, FinalStatus(c.action, worker[j].prior),
                               url)
    /\ worker' = [worker EXCEPT ![j] = Done(FALSE)]
    /\ UNCHANGED <<environment, edgeConfig, handler, canceller, crashes>>

\* The catch: an observed cancellation refreshes the stack and ends
\* Cancelled, any other error ends Failed and is thrown again.
WorkerFails(j) ==
    /\ WorkerAt(j, "fail")
    /\ record' = [record EXCEPT ![j[1]] =
         [worker[j].copy EXCEPT !.status = IF worker[j].seen THEN "Cancelled"
                                                             ELSE "Failed"]]
    /\ CallUpdateStatus(j, worker[j].copy.env, "Failed", "keep")
    /\ worker' = [worker EXCEPT ![j] = Done(~worker[j].seen)]
    /\ UNCHANGED <<environment, edgeConfig, handler, canceller, crashes>>

-----------------------------------------------------------------------------
(* A process stops between two storage calls: a Lambda timeout or a killed *)
(* container.                                                              *)

Live(j) == /\ worker[j].pc \notin {"none", "dead"}
           /\ worker[j].pc = "done" => flip[j] # NoFlip

WorkerDies(j) ==
    /\ Live(j)
    /\ crashes < MaxCrashes
    /\ crashes' = crashes + 1
    /\ worker' = [worker EXCEPT ![j] = [pc |-> "dead"]]
    /\ flip' = [flip EXCEPT ![j] = NoFlip]
    /\ UNCHANGED <<record, environment, edgeConfig, handler, canceller>>

HandlerDies(h) ==
    /\ handler[h] # Idle \/ flip[h] # NoFlip
    /\ crashes < MaxCrashes
    /\ crashes' = crashes + 1
    /\ handler' = [handler EXCEPT ![h] = Idle]
    /\ flip' = [flip EXCEPT ![h] = NoFlip]
    /\ UNCHANGED <<record, environment, edgeConfig, canceller, worker>>

-----------------------------------------------------------------------------

Init ==
    /\ record = [d \in Deployments |-> NoRecord]
    /\ environment = [e \in Environments |-> [status |-> "Unborn",
                                              url |-> FALSE]]
    /\ edgeConfig = FALSE
    /\ handler = [h \in Handlers |-> Idle]
    /\ canceller = [c \in Cancellers |-> Idle]
    /\ worker = [j \in Jobs |-> [pc |-> "none"]]
    /\ flip = [p \in Procs |-> NoFlip]
    /\ crashes = 0

\* What a process does once it has begun.
HandlerStep(h) ==
    \/ CreateRecord(h) \/ Dispatch(h) \/ DispatchReturns(h)
    \/ DispatchThrows(h) \/ FailDispatch(h) \/ LeasePass(h)
    \/ DispatchPass(h) \/ RereadPass(h) \/ UnleasePass(h)

WorkerStep(j) ==
    \/ WorkerReads(j) \/ WorkerStarts(j) \/ NoteRead(j) \/ NoteWrite(j)
    \/ OnStack(j) \/ Publish(j) \/ YieldRead(j) \/ YieldWrite(j)
    \/ WorkerSucceeds(j) \/ WorkerFails(j)
    \/ \E outcome \in {"succeed", "yield", "fail"} : Settle(j, outcome)

FlipStep(p) == ReadEnvironment(p) \/ WriteEnvironment(p)

Next ==
    \/ \E e \in Environments : CreateEnvironment(e) \/ DeleteEnvironment(e)
    \/ \E h \in Handlers, d \in Deployments, e \in Environments, a \in Actions :
         Admit(h, d, e, a)
    \/ \E h \in Handlers, d \in Deployments : ContinueEdge(h, d)
    \/ \E h \in Handlers : HandlerStep(h) \/ HandlerDies(h)
    \/ \E c \in Cancellers, d \in Deployments, force \in Forces :
         CancelRead(c, d, force)
    \/ \E c \in Cancellers : CancelWrite(c)
    \/ \E j \in Jobs : WorkerStep(j) \/ PollCancel(j) \/ WorkerDies(j)
    \/ \E p \in Procs : FlipStep(p)

Spec == Init /\ [][Next]_vars

\* A process that has begun keeps going, the poller keeps ticking, and an
\* action ends; clients owe nothing.
Fairness ==
    /\ \A h \in Handlers : WF_vars(HandlerStep(h))
    /\ \A c \in Cancellers : WF_vars(CancelWrite(c))
    /\ \A j \in Jobs : WF_vars(WorkerStep(j)) /\ WF_vars(PollCancel(j))
    /\ \A p \in Procs : WF_vars(FlipStep(p))

FairSpec == Spec /\ Fairness

-----------------------------------------------------------------------------
(* Properties *)

HandlerPcs == {"create", "dispatch", "waiting", "failed", "lease",
               "dispatchPass", "waitingPass", "failedPass", "unlease"}
HandlerStates ==
    {Idle} \cup [pc : HandlerPcs, dep : Deployments, copy : Record,
                prior : EnvStatuses]

CancellerStates ==
    {Idle} \cup [pc : {"write"}, dep : Deployments, force : BOOLEAN,
                copy : Record]

WorkerStates ==
    {[pc |-> "none"], [pc |-> "dead"], Done(TRUE), Done(FALSE)} \cup
    [pc : {"queued", "starting"}, copy : Record, prior : EnvStatuses] \cup
    [pc : {"acting", "noting", "publish", "succeed", "fail", "yield",
           "yielding"},
     copy : Record, prior : EnvStatuses, seen : BOOLEAN, noted : BOOLEAN,
     stack : {"none", "live", "cancelled"}]

FlipStates ==
    {NoFlip} \cup
    [pc : {"read"}, env : Environments, status : EnvStatuses,
     url : {"set", "clear", "keep"}] \cup
    [pc : {"write"}, env : Environments,
     next : [status : EnvStatuses, url : BOOLEAN]]

\* Every variable holds a value of its kind.
TypeOK ==
    /\ record \in [Deployments -> Record \cup {NoRecord}]
    /\ environment \in [Environments -> Environment]
    /\ edgeConfig \in BOOLEAN
    /\ handler \in [Handlers -> HandlerStates]
    /\ canceller \in [Cancellers -> CancellerStates]
    /\ worker \in [Jobs -> WorkerStates]
    /\ flip \in [Procs -> FlipStates]
    /\ crashes \in 0..MaxCrashes

EnvOf(j) == record[j[1]].env

\* Two actions never run on one environment's stack at the same time, which
\* is what the busy check of execute() is for ("overlapping Pulumi runs on
\* the same stack would race on state").
NoOverlappingRuns ==
    \A j, k \in Jobs :
        j # k /\ Acting(j) /\ Acting(k) => EnvOf(j) # EnvOf(k)

\* While an action runs, its environment reads as busy, so nothing that
\* consults the status (execute, the console) takes it for settled.
BusyWhileActing ==
    \A j \in Jobs : Acting(j) =>
        environment[EnvOf(j)].status \in Busy \cup {"Deleted"}

\* Something of environment e is still on its way.
InFlight(e) ==
    \/ \E h \in Handlers : handler[h] # Idle /\ handler[h].copy.env = e
    \/ \E c \in Cancellers : canceller[c] # Idle /\ canceller[c].copy.env = e
    \/ \E j \in Jobs : Live(j) /\ record[j[1]].env = e
    \/ \E p \in Procs : flip[p] # NoFlip /\ flip[p].env = e

\* A busy environment that nothing is working on has an unfinished
\* deployment: execute() refuses it, so cancelling that deployment is the
\* only way left to release it, and cancel() leaves finished ones alone.
BusyCanBeReleased ==
    \A e \in Environments :
        environment[e].status \in Busy /\ ~InFlight(e) =>
            \E d \in Deployments :
                /\ record[d] # NoRecord
                /\ record[d].env = e
                /\ record[d].status \notin Terminal

\* At most one pass of an edge deployment works at a time: the attempt lease
\* of continueEdge admits the next pass only after the last one has yielded.
OnePassAtATime ==
    \A j, k \in Jobs :
        j # k /\ j[1] = k[1] => ~(Acting(j) /\ Acting(k))

\* Every deployment that was recorded is settled in the end; one at the edge
\* needs a client that keeps asking for its next pass.
EveryDeploymentSettles ==
    \A d \in Deployments \ EdgeDeployments :
        record[d] # NoRecord ~> record[d].status \in Terminal

\* A deployment that is cancelled before its worker is done is settled in the
\* end ("worker observes the flag on its next status poll and converges to a
\* terminal status").
EveryCancelSettles ==
    \A d \in Deployments :
        /\ record[d].status = "Cancelling"
        /\ \A n \in 1..MaxPasses : worker[<<d, n>>].pc # "done"
        ~> record[d].status \in Terminal

\* Every environment that a deployment made busy is released in the end,
\* unless an unfinished deployment at the edge waits for its next pass.
EveryEnvironmentReleased ==
    \A e \in Environments :
        environment[e].status \in Busy ~>
            \/ environment[e].status \notin Busy
            \/ \E d \in EdgeDeployments :
                  /\ record[d] # NoRecord
                  /\ record[d].env = e /\ record[d].status \notin Terminal

=============================================================================
