-------------------------- MODULE DeploymentProofs --------------------------
(***************************************************************************)
(* Proofs about Deployment for every value of its constants: first that    *)
(* every variable keeps its type, then that the passes of an edge          *)
(* deployment take turns whatever else races, and last that two actions    *)
(* overlap on one environment, or find it not busy, only after a contest:  *)
(* the few steps that the busy check does not guard against.               *)
(***************************************************************************)
EXTENDS Deployment, TLAPS

-----------------------------------------------------------------------------
(* Types *)

\* A handler that has created its record, and a job that was delivered, have
\* a record that is never taken away.
RecordsExist ==
    /\ \A h \in Handlers :
         handler[h] # Idle /\ handler[h].pc # "create" =>
             record[handler[h].dep] # NoRecord
    /\ \A j \in Jobs : worker[j].pc # "none" => record[j[1]] # NoRecord

\* A pass that is being leased is not the last one.
LeaseInBounds ==
    \A h \in Handlers :
        handler[h].pc = "lease" => handler[h].copy.pass < MaxPasses

TypeInv == TypeOK /\ RecordsExist /\ LeaseInBounds

\* What the state of a handler that is not idle consists of.
LEMMA HandlerFields ==
    ASSUME NEW x \in HandlerStates, x # Idle
    PROVE  /\ x.pc \in HandlerPcs /\ x.dep \in Deployments
           /\ x.copy \in Record /\ x.prior \in EnvStatuses
           /\ x = [pc |-> x.pc, dep |-> x.dep, copy |-> x.copy,
                   prior |-> x.prior]
BY DEF HandlerStates, HandlerPcs, Idle

\* A handler that is not idle may move on with another copy of its record.
LEMMA HandlerMoves ==
    ASSUME NEW x \in HandlerStates, x # Idle,
           NEW pc \in HandlerPcs, NEW copy \in Record
    PROVE  [x EXCEPT !.pc = pc, !.copy = copy] \in HandlerStates
<1>1. x \in [pc : HandlerPcs, dep : Deployments, copy : Record,
             prior : EnvStatuses]
  BY DEF HandlerStates
<1>2. [x EXCEPT !.pc = pc, !.copy = copy]
        \in [pc : HandlerPcs, dep : Deployments, copy : Record,
             prior : EnvStatuses]
  BY <1>1
<1> QED
  BY <1>2 DEF HandlerStates

\* What the state of a job that holds its record consists of.
LEMMA WorkerFields ==
    ASSUME NEW x \in WorkerStates, x.pc \notin {"none", "dead", "done"}
    PROVE  /\ x.copy \in Record /\ x.prior \in EnvStatuses
           /\ x.pc \notin {"queued", "starting"} =>
                x \in [pc : {"acting", "noting", "publish", "succeed", "fail",
                             "yield", "yielding"},
                       copy : Record, prior : EnvStatuses, seen : BOOLEAN,
                       noted : BOOLEAN, stack : {"none", "live", "cancelled"}]
BY DEF WorkerStates, Done

\* A stored record that has a status of a deployment is a record.
LEMMA StoredRecord ==
    ASSUME TypeOK, NEW d \in Deployments, record[d] # NoRecord
    PROVE  record[d] \in Record
BY DEF TypeOK

\* A function keeps its type when one of its values is replaced.
LEMMA Updated ==
    ASSUME NEW S, NEW T, NEW f \in [S -> T], NEW x, NEW y \in T
    PROVE  [f EXCEPT ![x] = y] \in [S -> T]
OBVIOUS

\* The initial state is well-typed.
LEMMA InitType == Init => TypeInv
<1> SUFFICES ASSUME Init PROVE TypeInv
  OBVIOUS
<1>1. TypeOK
  <2>1. crashes \in 0..MaxCrashes
    BY DeploymentAssumption DEF Init
  <2>2. environment \in [Environments -> Environment]
    BY DEF Init, Environment
  <2> QED
    BY <2>1, <2>2 DEF Init, TypeOK, HandlerStates, CancellerStates,
       WorkerStates, FlipStates
<1>2. RecordsExist /\ LeaseInBounds
  BY DEF Init, RecordsExist, LeaseInBounds, Idle
<1> QED
  BY <1>1, <1>2 DEF TypeInv

\* EnvironmentService keeps the types.
LEMMA EnvironmentType ==
    ASSUME TypeInv,
           \/ \E e \in Environments : CreateEnvironment(e) \/ DeleteEnvironment(e)
           \/ \E p \in Procs : FlipStep(p)
    PROVE  TypeInv'
<1> USE DEF TypeInv, TypeOK, RecordsExist, LeaseInBounds
<1>1. CASE \E e \in Environments : CreateEnvironment(e) \/ DeleteEnvironment(e)
  BY <1>1 DEF CreateEnvironment, DeleteEnvironment, Environment, EnvStatuses
<1>2. ASSUME NEW p \in Procs, ReadEnvironment(p) PROVE TypeInv'
  <2>1. flip[p] \in [pc : {"read"}, env : Environments, status : EnvStatuses,
                     url : {"set", "clear", "keep"}]
    BY <1>2 DEF ReadEnvironment, FlipStates, NoFlip
  <2>2. environment[flip[p].env].url \in BOOLEAN
    BY <2>1 DEF Environment
  <2> DEFINE next == [status |-> flip[p].status,
                      url |-> CASE flip[p].url = "set"   -> TRUE
                                [] flip[p].url = "clear" -> FALSE
                                [] flip[p].url = "keep"  ->
                                     environment[flip[p].env].url]
  <2>3. next \in [status : EnvStatuses, url : BOOLEAN]
    BY <2>1, <2>2
  <2>4. [pc |-> "write", env |-> flip[p].env, next |-> next] \in FlipStates
    BY <2>1, <2>3 DEF FlipStates
  <2>5. flip' \in [Procs -> FlipStates]
    BY <1>2, <2>4 DEF ReadEnvironment, FlipStates
  <2> QED
    BY <1>2, <2>5 DEF ReadEnvironment
<1>3. ASSUME NEW p \in Procs, WriteEnvironment(p) PROVE TypeInv'
  BY <1>3 DEF WriteEnvironment, FlipStates, NoFlip, Environment
<1> QED
  BY <1>1, <1>2, <1>3 DEF FlipStep

\* execute keeps the types.
LEMMA ExecuteType ==
    ASSUME TypeInv, NEW h \in Handlers,
           \/ \E d \in Deployments, e \in Environments, a \in Actions :
                Admit(h, d, e, a)
           \/ CreateRecord(h) \/ Dispatch(h) \/ DispatchReturns(h)
           \/ DispatchThrows(h) \/ FailDispatch(h)
    PROVE  TypeInv'
<1> USE DEF TypeInv, TypeOK, RecordsExist, LeaseInBounds
<1>h. h \in Procs
  BY DEF Procs
<1>1. ASSUME NEW d \in Deployments, NEW e \in Environments, NEW a \in Actions,
             Admit(h, d, e, a)
      PROVE  TypeInv'
  <2>1. NewRecord(d, e, a) \in Record
    BY DeploymentAssumption DEF NewRecord, Record, Statuses
  <2>2. environment[e].status \in EnvStatuses
    BY <1>1 DEF Admit, Exists
  <2>3. handler' \in [Handlers -> HandlerStates]
    BY <1>1, <2>1, <2>2 DEF Admit, HandlerStates, HandlerPcs
  <2>4. TypeOK'
    BY <1>1, <2>3 DEF Admit
  <2>5. RecordsExist' /\ LeaseInBounds'
    BY <1>1 DEF Admit
  <2> QED
    BY <2>4, <2>5
<1>2. CASE CreateRecord(h)
  <2>1. /\ handler[h].copy \in Record /\ handler[h].dep \in Deployments
        /\ [handler[h] EXCEPT !.pc = "dispatch"] \in HandlerStates
    BY <1>2 DEF CreateRecord, HandlerAt, HandlerStates, HandlerPcs, Idle
  <2>2. record' \in [Deployments -> Record \cup {NoRecord}]
    BY <1>2, <2>1 DEF CreateRecord
  <2>3. handler' \in [Handlers -> HandlerStates]
    BY <1>2, <2>1 DEF CreateRecord
  <2>4. FlipFor(handler[h].copy.action) \in EnvStatuses
        /\ handler[h].copy.env \in Environments
    BY <2>1, DeploymentAssumption DEF FlipFor, EnvStatuses, Busy, Record
  <2>5. flip' \in [Procs -> FlipStates]
    BY <1>2, <1>h, <2>4 DEF CreateRecord, CallUpdateStatus, FlipStates
  <2>6. TypeOK'
    BY <1>2, <2>2, <2>3, <2>5 DEF CreateRecord
  <2>7. \A d \in Deployments : record[d] # NoRecord => record'[d] # NoRecord
    BY <1>2, <2>1 DEF CreateRecord, Record, NoRecord
  <2>8. record'[handler[h].dep] # NoRecord
    BY <1>2, <2>1 DEF CreateRecord, Record, NoRecord
  <2>9. RecordsExist'
    BY <1>2, <2>7, <2>8 DEF CreateRecord, HandlerStates, Jobs, Idle
  <2> QED
    BY <1>2, <2>6, <2>9 DEF CreateRecord
<1>3. CASE Dispatch(h)
  <2>0. handler[h] \in HandlerStates /\ handler[h].pc = "dispatch"
    BY <1>3 DEF Dispatch, HandlerAt
  <2>1. handler[h].copy \in Record /\ handler[h].prior \in EnvStatuses
    BY <2>0 DEF HandlerStates, Idle
  <2>2. handler' \in [Handlers -> HandlerStates]
    BY <1>3, <2>0 DEF Dispatch, HandlerStates, HandlerPcs, Idle
  <2> DEFINE event == [pc |-> "queued", copy |-> handler[h].copy,
                       prior |-> handler[h].prior]
  <2>e. event \in WorkerStates
    BY <2>1 DEF WorkerStates
  <2>3. worker' \in [Jobs -> WorkerStates]
    BY <1>3, <2>e, Updated DEF Dispatch, Deliver
  <2>4. TypeOK'
    BY <1>3, <2>2, <2>3 DEF Dispatch
  <2>5. \A j \in Jobs : worker'[j].pc # "none" => record'[j[1]] # NoRecord
    BY <1>3, <2>0 DEF Dispatch, Deliver, Idle
  <2>6. \A g \in Handlers :
          /\ handler'[g] # Idle => handler[g] # Idle
          /\ handler'[g].pc \in {"create", "lease"} =>
               handler'[g] = handler[g]
          /\ handler'[g] # Idle /\ handler[g].pc = "create" =>
               handler'[g].pc = "create"
          /\ handler'[g] # Idle => /\ handler'[g].dep = handler[g].dep
                                  /\ handler'[g].copy = handler[g].copy
    BY <1>3, <2>0 DEF Dispatch, Idle, HandlerStates
  <2>7. RecordsExist' /\ LeaseInBounds'
    BY <1>3, <2>5, <2>6 DEF Dispatch
  <2> QED
    BY <2>4, <2>7
<1>4. CASE DispatchReturns(h)
  BY <1>4 DEF DispatchReturns, HandlerStates, Idle
<1>5. CASE DispatchThrows(h)
  <2>0. handler[h] \in HandlerStates /\ handler[h].pc \in {"waiting", "waitingPass"}
    BY <1>5 DEF DispatchThrows
  <2>1. handler' \in [Handlers -> HandlerStates]
    BY <1>5, <2>0 DEF DispatchThrows, HandlerStates, HandlerPcs, Idle
  <2>2. \A g \in Handlers :
          \/ handler'[g] = handler[g]
          \/ /\ handler'[g].pc \in {"failed", "failedPass"}
             /\ handler[g].pc \in {"waiting", "waitingPass"}
             /\ handler'[g].dep = handler[g].dep
    BY <1>5, <2>0 DEF DispatchThrows, Idle, HandlerStates
  <2>3. RecordsExist' /\ LeaseInBounds'
    BY <1>5, <2>2 DEF DispatchThrows, Idle
  <2> QED
    BY <1>5, <2>1, <2>3 DEF DispatchThrows
<1>6. CASE FailDispatch(h)
  <2>1. /\ handler[h].copy \in Record /\ handler[h].dep \in Deployments
    BY <1>6 DEF FailDispatch, HandlerAt, HandlerStates, Idle
  <2>2. [handler[h].copy EXCEPT !.status = "Failed"] \in Record
    BY <2>1 DEF Record, Statuses, Terminal
  <2>3. record' \in [Deployments -> Record \cup {NoRecord}]
    BY <1>6, <2>2 DEF FailDispatch
  <2>4. flip' \in [Procs -> FlipStates]
    BY <1>6, <1>h, <2>1 DEF FailDispatch, CallUpdateStatus, FlipStates,
       EnvStatuses, Record
  <2>5. \A d \in Deployments : record[d] # NoRecord => record'[d] # NoRecord
    BY <1>6, <2>2 DEF FailDispatch, Record, NoRecord
  <2> QED
    BY <1>6, <2>3, <2>4, <2>5 DEF FailDispatch, HandlerStates, Jobs, Idle
<1> QED
  BY <1>1, <1>2, <1>3, <1>4, <1>5, <1>6

\* continueEdge keeps the types.
LEMMA ContinueType ==
    ASSUME TypeInv, NEW h \in Handlers,
           \/ \E d \in Deployments : ContinueEdge(h, d)
           \/ LeasePass(h) \/ DispatchPass(h) \/ RereadPass(h) \/ UnleasePass(h)
    PROVE  TypeInv'
<1> USE DEF TypeInv, TypeOK, RecordsExist, LeaseInBounds
<1>1. ASSUME NEW d \in Deployments, ContinueEdge(h, d) PROVE TypeInv'
  <2>1. record[d] \in Record /\ record[d] # NoRecord
    BY <1>1 DEF ContinueEdge, NoRecord
  <2>2. handler' \in [Handlers -> HandlerStates]
    BY <1>1, <2>1
    DEF ContinueEdge, HandlerStates, HandlerPcs, EnvStatuses
  <2>3. RecordsExist' /\ LeaseInBounds'
    BY <1>1, <2>1 DEF ContinueEdge
  <2> QED
    BY <1>1, <2>2, <2>3 DEF ContinueEdge
<1>2. CASE LeasePass(h)
  <2>1. /\ handler[h] \in HandlerStates /\ handler[h].pc = "lease"
        /\ handler[h].copy \in Record /\ handler[h].dep \in Deployments
        /\ handler[h].copy.pass < MaxPasses
    BY <1>2 DEF LeasePass, HandlerAt, HandlerStates, Idle
  <2> DEFINE leased == [handler[h].copy EXCEPT !.conv = "running",
                                               !.pass = @ + 1]
  <2>2. leased \in Record
    <3>1. handler[h].copy.pass + 1 \in 0..MaxPasses
      BY <2>1, DeploymentAssumption DEF Record
    <3> QED
      BY <2>1, <3>1 DEF Record
  <2>3. leased # NoRecord
    BY <2>2 DEF Record, NoRecord
  <2>4. CASE RecordUnchanged(h)
    <3>1. /\ record' = [record EXCEPT ![handler[h].dep] = leased]
          /\ handler' = [handler EXCEPT ![h].pc = "dispatchPass",
                                        ![h].copy = leased]
      BY <1>2, <2>4 DEF LeasePass
    <3>2. handler' \in [Handlers -> HandlerStates]
      <4> HIDE DEF leased
      <4>1. handler[h] # Idle /\ "dispatchPass" \in HandlerPcs
        BY <2>1 DEF HandlerPcs, Idle
      <4>2. [handler[h] EXCEPT !.pc = "dispatchPass", !.copy = leased]
              \in HandlerStates
        BY <2>1, <2>2, <4>1, HandlerMoves, Zenon
      <4> QED
        BY <3>1, <4>2, Updated
    <3>3. record' \in [Deployments -> Record \cup {NoRecord}]
      BY <3>1, <2>2
    <3>4. \A g \in Handlers :
            \/ handler'[g] = handler[g]
            \/ g = h /\ handler'[g].dep = handler[g].dep
               /\ handler'[g].pc = "dispatchPass"
      BY <3>1, <2>1 DEF HandlerStates, Idle
    <3>5. RecordsExist' /\ LeaseInBounds'
      BY <1>2, <2>1, <2>3, <3>1, <3>4 DEF LeasePass, Jobs, HandlerStates, Idle
    <3> QED
      BY <1>2, <3>2, <3>3, <3>5 DEF LeasePass
  <2>5. CASE ~RecordUnchanged(h)
    BY <1>2, <2>5 DEF LeasePass, HandlerStates, Idle
  <2> QED
    BY <2>4, <2>5
<1>3. CASE DispatchPass(h)
  <2>0. handler[h] \in HandlerStates /\ handler[h].pc = "dispatchPass"
    BY <1>3 DEF DispatchPass, HandlerAt
  <2>1. handler[h].copy \in Record /\ handler[h].prior \in EnvStatuses
    BY <2>0 DEF HandlerStates, Idle
  <2>2. handler' \in [Handlers -> HandlerStates]
    BY <1>3, <2>0 DEF DispatchPass, HandlerStates, HandlerPcs, Idle
  <2> DEFINE event == [pc |-> "queued", copy |-> handler[h].copy,
                       prior |-> handler[h].prior]
  <2>e. event \in WorkerStates
    BY <2>1 DEF WorkerStates
  <2>3. worker' \in [Jobs -> WorkerStates]
    BY <1>3, <2>e, Updated DEF DispatchPass, Deliver
  <2>4. TypeOK'
    BY <1>3, <2>2, <2>3 DEF DispatchPass
  <2>5. \A j \in Jobs : worker'[j].pc # "none" => record'[j[1]] # NoRecord
    BY <1>3, <2>0 DEF DispatchPass, Deliver, Idle
  <2>6. \A g \in Handlers :
          \/ handler'[g] = handler[g]
          \/ handler'[g] = Idle
          \/ /\ handler'[g].pc \in {"waitingPass", "failedPass"}
             /\ handler[g].pc = "dispatchPass"
             /\ handler'[g].dep = handler[g].dep
    BY <1>3, <2>0 DEF DispatchPass, Idle, HandlerStates
  <2>7. RecordsExist' /\ LeaseInBounds'
    BY <1>3, <2>5, <2>6 DEF DispatchPass, Idle
  <2> QED
    BY <2>4, <2>7
<1>4. CASE RereadPass(h)
  <2>1. /\ handler[h] \in HandlerStates /\ handler[h].pc = "failedPass"
        /\ handler[h].dep \in Deployments
    BY <1>4 DEF RereadPass, HandlerAt, HandlerStates, Idle
  <2>2. CASE handler' = [handler EXCEPT ![h] = Idle]
    BY <1>4, <2>2 DEF RereadPass, HandlerStates, Idle
  <2>3. CASE /\ record[handler[h].dep].status = "InProgress"
             /\ handler' = [handler EXCEPT ![h] =
                  [handler[h] EXCEPT !.pc = "unlease",
                                     !.copy = record[handler[h].dep]]]
    <3>1. record[handler[h].dep] \in Record
      BY <2>1, <2>3 DEF NoRecord
    <3>2. handler' \in [Handlers -> HandlerStates]
      <4> DEFINE latest == record[handler[h].dep]
      <4>0. latest \in Record
        BY <3>1
      <4> HIDE DEF latest
      <4>1. handler[h] # Idle /\ "unlease" \in HandlerPcs
        BY <2>1 DEF HandlerPcs, Idle
      <4>2. [handler[h] EXCEPT !.pc = "unlease", !.copy = latest]
              \in HandlerStates
        BY <2>1, <4>0, <4>1, HandlerMoves, Zenon
      <4> QED
        BY <2>3, <4>2, Updated DEF latest
    <3>3. \A g \in Handlers :
            \/ handler'[g] = handler[g]
            \/ /\ handler'[g].pc = "unlease" /\ handler[g].pc = "failedPass"
               /\ handler'[g].dep = handler[g].dep
               /\ handler[g] # Idle
      BY <2>1, <2>3 DEF HandlerStates, Idle
    <3>4. record' = record /\ worker' = worker
      BY <1>4 DEF RereadPass
    <3>5. RecordsExist'
      BY <3>3, <3>4
    <3>6. LeaseInBounds'
      BY <3>3
    <3> QED
      BY <1>4, <3>2, <3>5, <3>6 DEF RereadPass
  <2> QED
    BY <1>4, <2>2, <2>3 DEF RereadPass
<1>5. CASE UnleasePass(h)
  <2>1. /\ handler[h].pc = "unlease" /\ handler[h] # Idle
        /\ handler[h].copy \in Record /\ handler[h].dep \in Deployments
        /\ record[handler[h].dep] \in Record
    BY <1>5 DEF UnleasePass, HandlerAt, HandlerStates, Idle
  <2>2. [record[handler[h].dep] EXCEPT !.conv = "ready"] \in Record
    BY <2>1 DEF Record
  <2>3. record' \in [Deployments -> Record \cup {NoRecord}]
    BY <1>5, <2>2 DEF UnleasePass
  <2>4. \A d \in Deployments : record[d] # NoRecord => record'[d] # NoRecord
    BY <1>5, <2>2 DEF UnleasePass, Record, NoRecord
  <2> QED
    BY <1>5, <2>3, <2>4 DEF UnleasePass, HandlerStates, Jobs, Idle
<1> QED
  BY <1>1, <1>2, <1>3, <1>4, <1>5

\* cancel keeps the types.
LEMMA CancelType ==
    ASSUME TypeInv, NEW c \in Cancellers,
           \/ \E d \in Deployments, force \in Forces : CancelRead(c, d, force)
           \/ CancelWrite(c)
    PROVE  TypeInv'
<1> USE DEF TypeInv, TypeOK, RecordsExist, LeaseInBounds
<1>1. ASSUME NEW d \in Deployments, NEW force \in Forces, CancelRead(c, d, force)
      PROVE  TypeInv'
  <2>1. record[d] \in Record /\ force \in BOOLEAN
    BY <1>1, DeploymentAssumption DEF CancelRead
  <2>2. canceller' \in [Cancellers -> CancellerStates]
    BY <1>1, <2>1 DEF CancelRead, CancellerStates
  <2> QED
    BY <1>1, <2>2 DEF CancelRead
<1>2. CASE CancelWrite(c)
  <2>1. canceller[c].copy \in Record /\ canceller[c].dep \in Deployments
    BY <1>2 DEF CancelWrite, CancellerStates, Idle
  <2>2. \A s \in Statuses : [canceller[c].copy EXCEPT !.status = s] \in Record
    BY <2>1 DEF Record
  <2>3. PICK s \in Statuses :
          record' = [record EXCEPT ![canceller[c].dep] =
                       [canceller[c].copy EXCEPT !.status = s]]
    BY <1>2 DEF CancelWrite, Statuses, Terminal
  <2>4. record' \in [Deployments -> Record \cup {NoRecord}]
    BY <2>2, <2>3
  <2>5. \A d \in Deployments : record[d] # NoRecord => record'[d] # NoRecord
    BY <2>2, <2>3 DEF Record, NoRecord
  <2>6. canceller' \in [Cancellers -> CancellerStates]
    BY <1>2 DEF CancelWrite, CancellerStates
  <2>7. c \in Procs
    BY DEF Procs
  <2>8. flip' \in [Procs -> FlipStates]
    BY <1>2, <2>1, <2>7 DEF CancelWrite, CallUpdateStatus, FlipStates,
       EnvStatuses, Record
  <2> QED
    BY <1>2, <2>4, <2>5, <2>6, <2>8 DEF CancelWrite, HandlerStates, Jobs, Idle
<1> QED
  BY <1>1, <1>2

\* The states in which a job runs its action or settles it.
RunningStates ==
    [pc : {"acting", "noting", "publish", "succeed", "fail", "yield",
           "yielding"},
     copy : Record, prior : EnvStatuses, seen : BOOLEAN, noted : BOOLEAN,
     stack : {"none", "live", "cancelled"}]

\* What such a state consists of.
LEMMA RunningFields ==
    ASSUME NEW x \in WorkerStates,
           x.pc \in {"acting", "noting", "publish", "succeed", "fail", "yield",
                     "yielding"}
    PROVE  x \in RunningStates
BY DEF WorkerStates, RunningStates, Done

\* A job that writes its record, and what it may do besides.
LEMMA WriteType ==
    ASSUME TypeInv, NEW j \in Jobs, worker[j].pc # "none",
           NEW r \in Record, record' = [record EXCEPT ![j[1]] = r],
           NEW x \in WorkerStates, worker' = [worker EXCEPT ![j] = x],
           flip' \in [Procs -> FlipStates],
           UNCHANGED <<environment, edgeConfig, handler, canceller, crashes>>
    PROVE  TypeInv'
<1> USE DEF TypeInv, TypeOK, RecordsExist, LeaseInBounds
<1>1. j[1] \in Deployments
  BY DEF Jobs
<1>2. r # NoRecord
  BY DEF Record, NoRecord, Statuses, Terminal
<1>3. record' \in [Deployments -> Record \cup {NoRecord}]
  BY <1>1
<1>4. \A d \in Deployments : record[d] # NoRecord => record'[d] # NoRecord
  BY <1>2
<1>5. worker' \in [Jobs -> WorkerStates]
  BY Updated
<1>6. \A k \in Jobs : worker'[k].pc # "none" => worker[k].pc # "none"
  OBVIOUS
<1>7. RecordsExist'
  BY <1>4, <1>6 DEF HandlerStates, Jobs, Idle
<1> QED
  BY <1>3, <1>5, <1>7

\* A job that only moves on.
LEMMA MoveType ==
    ASSUME TypeInv, NEW j \in Jobs, worker[j].pc # "none",
           NEW x \in WorkerStates, worker' = [worker EXCEPT ![j] = x],
           flip' \in [Procs -> FlipStates],
           UNCHANGED <<record, environment, handler, canceller>>,
           edgeConfig' \in BOOLEAN, crashes' \in 0..MaxCrashes
    PROVE  TypeInv'
<1> USE DEF TypeInv, TypeOK, RecordsExist, LeaseInBounds
<1>1. worker' \in [Jobs -> WorkerStates]
  BY Updated
<1>2. \A k \in Jobs : worker'[k].pc # "none" => worker[k].pc # "none"
  OBVIOUS
<1> QED
  BY <1>1, <1>2

\* Calling updateStatus leaves the calls in flight well-formed.
LEMMA CallType ==
    ASSUME TypeInv, NEW p \in Procs, NEW e \in Environments,
           NEW status \in EnvStatuses, NEW url \in {"set", "clear", "keep"},
           CallUpdateStatus(p, e, status, url)
    PROVE  flip' \in [Procs -> FlipStates]
<1>1. [pc |-> "read", env |-> e, status |-> status, url |-> url] \in FlipStates
  BY DEF FlipStates
<1> QED
  BY <1>1, Updated DEF TypeInv, TypeOK, CallUpdateStatus

\* executeDeployment keeps the types.
LEMMA WorkerType ==
    ASSUME TypeInv, NEW j \in Jobs,
           WorkerStep(j) \/ PollCancel(j) \/ WorkerDies(j)
    PROVE  TypeInv'
<1>r. record[j[1]] \in Record \cup {NoRecord}
  BY DEF TypeInv, TypeOK, Jobs
<1>w. worker[j] \in WorkerStates
  BY DEF TypeInv, TypeOK
<1>f. flip \in [Procs -> FlipStates] /\ edgeConfig \in BOOLEAN
      /\ crashes \in 0..MaxCrashes
  BY DEF TypeInv, TypeOK
<1>p. j \in Procs
  BY DEF Procs
<1>1. CASE WorkerReads(j)
  <2>1. worker[j].pc = "queued" /\ worker[j].prior \in EnvStatuses
    BY <1>1, <1>w, WorkerFields DEF WorkerReads, WorkerAt
  <2>2. CASE Accepts(j)
    <3>1. record[j[1]] \in Record
      BY <1>r, <2>2 DEF Accepts, NoRecord
    <3>2. [record[j[1]] EXCEPT !.status = "InProgress"] \in Record
      BY <3>1 DEF Record, Statuses
    <3> DEFINE x == [pc |-> "starting", prior |-> worker[j].prior,
                     copy |-> [record[j[1]] EXCEPT !.status = "InProgress"]]
    <3>3. x \in WorkerStates
      BY <2>1, <3>2 DEF WorkerStates
    <3>4. worker' = [worker EXCEPT ![j] = x]
      BY <1>1, <2>2 DEF WorkerReads
    <3> HIDE DEF x
    <3> QED
      BY <1>1, <1>f, <2>1, <3>3, <3>4, MoveType DEF WorkerReads
  <2>3. CASE ~Accepts(j)
    BY <1>1, <1>f, <2>1, <2>3, MoveType DEF WorkerReads, WorkerStates
  <2> QED
    BY <2>2, <2>3
<1>2. CASE WorkerStarts(j)
  <2>1. worker[j].pc = "starting" /\ worker[j].copy \in Record
        /\ worker[j].prior \in EnvStatuses
    BY <1>2, <1>w, WorkerFields DEF WorkerStarts, WorkerAt
  <2> DEFINE x == [pc |-> "acting", prior |-> worker[j].prior,
                   copy |-> worker[j].copy, stack |-> "none", seen |-> FALSE,
                   noted |-> FALSE]
  <2>2. x \in WorkerStates
    BY <2>1 DEF WorkerStates
  <2>3. worker' = [worker EXCEPT ![j] = x]
    BY <1>2 DEF WorkerStarts
  <2> HIDE DEF x
  <2> QED
    BY <1>2, <1>f, <2>1, <2>2, <2>3, WriteType DEF WorkerStarts
<1>3. ASSUME worker[j].pc \in {"acting", "noting", "publish", "succeed", "fail",
                               "yield", "yielding"}
      PROVE  /\ worker[j] \in RunningStates
             /\ worker[j].pc # "none"
             /\ worker[j].copy \in Record
             /\ worker[j].copy.env \in Environments
             /\ \A pc \in {"acting", "noting", "publish", "succeed", "fail",
                           "yield", "yielding"} :
                  [worker[j] EXCEPT !.pc = pc] \in WorkerStates
  <2>1. worker[j] \in RunningStates
    BY <1>3, <1>w, RunningFields
  <2> QED
    BY <1>3, <2>1 DEF RunningStates, WorkerStates, Record
<1>4. CASE NoteRead(j)
  <2>1. worker[j].pc = "acting"
    BY <1>4 DEF NoteRead, WorkerAt
  <2> DEFINE x == [worker[j] EXCEPT !.pc = "noting", !.noted = TRUE]
  <2>2. x \in WorkerStates
    <3>1. worker[j] \in RunningStates
      BY <1>3, <2>1
    <3>2. x \in RunningStates
      BY <3>1 DEF RunningStates
    <3> QED
      BY <3>2 DEF RunningStates, WorkerStates
  <2>3. worker' = [worker EXCEPT ![j] = x]
    BY <1>4 DEF NoteRead
  <2> HIDE DEF x
  <2> QED
    BY <1>4, <1>f, <2>1, <2>2, <2>3, MoveType DEF NoteRead
<1>5. CASE NoteWrite(j)
  <2>1. worker[j].pc = "noting"
    BY <1>5 DEF NoteWrite, WorkerAt
  <2>2. worker' = [worker EXCEPT ![j] = [worker[j] EXCEPT !.pc = "acting"]]
    BY <1>5 DEF NoteWrite
  <2>3. [worker[j] EXCEPT !.pc = "acting"] \in WorkerStates
        /\ worker[j].copy \in Record
    BY <1>3, <2>1
  <2> QED
    BY <1>5, <1>f, <2>1, <2>2, <2>3, WriteType DEF NoteWrite
<1>6. CASE OnStack(j)
  <2>1. worker[j].pc = "acting"
    BY <1>6 DEF OnStack, WorkerAt
  <2>2. [worker[j] EXCEPT !.stack = "live"] \in WorkerStates
    BY <1>3, <2>1 DEF RunningStates, WorkerStates
  <2>3. worker' = [worker EXCEPT ![j] = [worker[j] EXCEPT !.stack = "live"]]
    BY <1>6 DEF OnStack
  <2> QED
    BY <1>6, <1>f, <2>1, <2>2, <2>3, MoveType DEF OnStack
<1>7. CASE PollCancel(j)
  <2>1. worker[j].pc \in {"acting", "noting"}
    BY <1>7 DEF PollCancel, Acting
  <2> DEFINE s == IF worker[j].stack = "live" THEN "cancelled"
                                              ELSE worker[j].stack
             x == [worker[j] EXCEPT !.seen = TRUE, !.stack = s]
  <2>2. x \in WorkerStates
    <3>1. worker[j] \in RunningStates
      BY <1>3, <2>1
    <3>2. s \in {"none", "live", "cancelled"}
      BY <3>1 DEF RunningStates
    <3> HIDE DEF s
    <3>3. x \in RunningStates
      BY <3>1, <3>2 DEF RunningStates
    <3> QED
      BY <3>3 DEF RunningStates, WorkerStates
  <2>3. worker' = [worker EXCEPT ![j] = x]
    BY <1>7 DEF PollCancel
  <2> HIDE DEF x
  <2> QED
    BY <1>7, <1>f, <2>1, <2>2, <2>3, MoveType DEF PollCancel
<1>8. ASSUME NEW outcome \in {"succeed", "yield", "fail"}, Settle(j, outcome)
      PROVE  TypeInv'
  <2>1. worker[j].pc = "acting"
    BY <1>8 DEF Settle, WorkerAt
  <2> DEFINE pc == IF /\ outcome = "succeed"
                      /\ IsEdge(j[1])
                      /\ worker[j].copy.action # "Refresh"
                   THEN "publish" ELSE outcome
  <2>2. [worker[j] EXCEPT !.pc = pc] \in WorkerStates
    BY <1>3, <2>1
  <2>3. worker' = [worker EXCEPT ![j] = [worker[j] EXCEPT !.pc = pc]]
    BY <1>8 DEF Settle
  <2> HIDE DEF pc
  <2> QED
    BY <1>8, <1>f, <2>1, <2>2, <2>3, MoveType DEF Settle
<1>9. CASE Publish(j)
  <2>1. worker[j].pc = "publish"
    BY <1>9 DEF Publish, WorkerAt
  <2>2. PICK pc \in {"succeed", "fail"} :
          worker' = [worker EXCEPT ![j] = [worker[j] EXCEPT !.pc = pc]]
    BY <1>9 DEF Publish
  <2>3. [worker[j] EXCEPT !.pc = pc] \in WorkerStates
    BY <1>3, <2>1
  <2>4. edgeConfig' \in BOOLEAN
    BY <1>9, <1>f DEF Publish
  <2> QED
    BY <1>9, <1>f, <2>1, <2>2, <2>3, <2>4, MoveType DEF Publish
<1>10. CASE YieldRead(j)
  <2>1. worker[j].pc = "yield"
    BY <1>10 DEF YieldRead, WorkerAt
  <2> DEFINE r == record[j[1]]
             x == [worker[j] EXCEPT !.pc = "yielding", !.copy = r]
  <2>2. r \in Record
    BY <1>r, <2>1 DEF TypeInv, RecordsExist
  <2> HIDE DEF r
  <2>3. x \in WorkerStates
    <3>1. worker[j] \in RunningStates
      BY <1>3, <2>1
    <3>2. x \in RunningStates
      BY <3>1, <2>2 DEF RunningStates
    <3> QED
      BY <3>2 DEF RunningStates, WorkerStates
  <2>4. worker' = [worker EXCEPT ![j] = x]
    BY <1>10 DEF YieldRead, r
  <2> HIDE DEF x
  <2> QED
    BY <1>10, <1>f, <2>1, <2>3, <2>4, MoveType DEF YieldRead
<1>11. CASE YieldWrite(j)
  <2>1. worker[j].pc = "yielding"
    BY <1>11 DEF YieldWrite, WorkerAt
  <2> DEFINE c == worker[j].copy
  <2>2. c \in Record /\ c.env \in Environments
    BY <1>3, <2>1
  <2> HIDE DEF c
  <2>3. [c EXCEPT !.status = "Cancelled"] \in Record
        /\ [c EXCEPT !.status = "InProgress", !.conv = "ready"] \in Record
    BY <2>2 DEF Record, Statuses, Terminal
  <2>4. PICK r \in Record : record' = [record EXCEPT ![j[1]] = r]
    BY <1>11, <2>3 DEF YieldWrite, c
  <2>5. flip' \in [Procs -> FlipStates]
    BY <1>11, <1>f, <1>p, <2>2, CallType DEF YieldWrite, c, EnvStatuses
  <2>6. Done(FALSE) \in WorkerStates
    BY DEF WorkerStates
  <2> QED
    BY <1>11, <2>1, <2>4, <2>5, <2>6, WriteType DEF YieldWrite
<1>12. CASE WorkerSucceeds(j)
  <2>1. worker[j].pc = "succeed"
    BY <1>12 DEF WorkerSucceeds, WorkerAt
  <2> DEFINE c == worker[j].copy
             conv == IF IsEdge(j[1]) THEN "converged" ELSE c.conv
             r == [c EXCEPT !.status = "Succeeded", !.conv = conv]
  <2>2. c \in Record /\ c.env \in Environments
    BY <1>3, <2>1
  <2>3. worker[j].prior \in EnvStatuses
    BY <1>3, <2>1 DEF RunningStates
  <2> HIDE DEF c
  <2>4. conv \in {"none", "running", "ready", "converged"}
    BY <2>2 DEF Record
  <2> HIDE DEF conv
  <2>5. r \in Record
    BY <2>2, <2>4 DEF Record, Statuses, Terminal
  <2>6. record' = [record EXCEPT ![j[1]] = r]
    BY <1>12 DEF WorkerSucceeds, c, conv
  <2>7. c.action \in {"Deploy", "Destroy", "Refresh"}
    BY <2>2, DeploymentAssumption DEF Record
  <2>8. FinalStatus(c.action, worker[j].prior) \in EnvStatuses
    BY <2>3, <2>7 DEF FinalStatus, EnvStatuses
  <2>9. FinalUrls(c.action) \subseteq {"set", "clear", "keep"}
    BY <2>7 DEF FinalUrls
  <2>10. PICK url \in {"set", "clear", "keep"} :
           CallUpdateStatus(j, c.env, FinalStatus(c.action, worker[j].prior),
                            url)
    BY <1>12, <2>9 DEF WorkerSucceeds, c
  <2>11. flip' \in [Procs -> FlipStates]
    BY <1>p, <2>2, <2>8, <2>10, CallType
  <2>12. Done(FALSE) \in WorkerStates
    BY DEF WorkerStates
  <2> HIDE DEF r
  <2> QED
    BY <1>12, <2>1, <2>5, <2>6, <2>11, <2>12, WriteType DEF WorkerSucceeds
<1>13. CASE WorkerFails(j)
  <2>1. worker[j].pc = "fail"
    BY <1>13 DEF WorkerFails, WorkerAt
  <2> DEFINE c == worker[j].copy
             status == IF worker[j].seen THEN "Cancelled" ELSE "Failed"
             r == [c EXCEPT !.status = status]
  <2>2. c \in Record /\ c.env \in Environments
    BY <1>3, <2>1
  <2>3. worker[j].seen \in BOOLEAN
    BY <1>3, <2>1 DEF RunningStates
  <2> HIDE DEF c
  <2>4. r \in Record
    BY <2>2 DEF Record, Statuses, Terminal
  <2>5. record' = [record EXCEPT ![j[1]] = r]
    BY <1>13 DEF WorkerFails, c
  <2>6. flip' \in [Procs -> FlipStates]
    BY <1>13, <1>p, <2>2, CallType DEF WorkerFails, c, EnvStatuses
  <2>7. Done(~worker[j].seen) \in WorkerStates
    BY <2>3 DEF WorkerStates
  <2> HIDE DEF r
  <2> QED
    BY <1>13, <2>1, <2>4, <2>5, <2>6, <2>7, WriteType DEF WorkerFails
<1>14. CASE WorkerDies(j)
  <2>1. [pc |-> "dead"] \in WorkerStates
    BY DEF WorkerStates
  <2>2. flip' \in [Procs -> FlipStates]
    BY <1>14, <1>f DEF WorkerDies, FlipStates
  <2>3. crashes' \in 0..MaxCrashes
    BY <1>14, <1>f, DeploymentAssumption DEF WorkerDies
  <2>4. worker[j].pc # "none"
    BY <1>14 DEF WorkerDies, Live
  <2> QED
    BY <1>14, <1>f, <2>1, <2>2, <2>3, <2>4, MoveType DEF WorkerDies
<1> QED
  BY <1>1, <1>2, <1>4, <1>5, <1>6, <1>7, <1>8, <1>9, <1>10, <1>11, <1>12,
     <1>13, <1>14 DEF WorkerStep

\* A crash of a handler keeps the types.
LEMMA HandlerDiesType ==
    ASSUME TypeInv, NEW h \in Handlers, HandlerDies(h)
    PROVE  TypeInv'
<1> USE DEF TypeInv, TypeOK, RecordsExist, LeaseInBounds
<1>1. crashes' \in 0..MaxCrashes
  BY DeploymentAssumption DEF HandlerDies
<1>2. handler' \in [Handlers -> HandlerStates]
  BY DEF HandlerDies, HandlerStates
<1>3. flip' \in [Procs -> FlipStates]
  BY DEF HandlerDies, FlipStates
<1> QED
  BY <1>1, <1>2, <1>3 DEF HandlerDies, Idle

\* Every step keeps the types.
LEMMA TypeInductive == TypeInv /\ [Next]_vars => TypeInv'
<1>1. ASSUME TypeInv, Next PROVE TypeInv'
  BY <1>1, EnvironmentType, ExecuteType, ContinueType, CancelType, WorkerType,
     HandlerDiesType DEF Next, HandlerStep
<1>2. ASSUME TypeInv, UNCHANGED vars PROVE TypeInv'
  BY <1>2 DEF vars, TypeInv, TypeOK, RecordsExist, LeaseInBounds
<1> QED
  BY <1>1, <1>2

\* Whatever interleaves, every variable keeps its type, and nothing but the
\* request that makes it ever works on a deployment without a stored record.
THEOREM TypeCorrect == Spec => []TypeOK
<1>1. Init => TypeInv
  BY InitType
<1>2. TypeInv /\ [Next]_vars => TypeInv'
  BY TypeInductive
<1>3. TypeInv => TypeOK
  BY DEF TypeInv
<1> QED
  BY <1>1, <1>2, <1>3, PTL DEF Spec

-----------------------------------------------------------------------------
(* Passes of an edge deployment                                            *)

\* A dispatch is reported failed although its worker has neither thrown nor is going to
\* answer: the worker goes on.
Reset == \E h \in Handlers :
           /\ DispatchThrows(h)
           /\ ~ Threw(handler[h].dep,
                      IF handler[h].pc = "waiting" THEN 1 ELSE handler[h].copy.pass)

\* A step that changes nothing reports nothing.
LEMMA StutterResetsNothing ==
    ASSUME TypeInv, UNCHANGED vars
    PROVE  ~ Reset
<1> SUFFICES ASSUME NEW h \in Handlers, DispatchThrows(h) PROVE FALSE
  BY DEF Reset
<1>1. handler[h] \in HandlerStates /\ handler' = handler /\ handler \in [Handlers -> HandlerStates]
  BY DEF TypeInv, TypeOK, vars
<1>2. PICK pc \in {"failed", "failedPass"} :
        handler' = [handler EXCEPT ![h].pc = pc] /\ handler[h].pc # pc
  BY DEF DispatchThrows
<1>3. handler[h] # Idle
  BY DEF DispatchThrows, Idle
<1>4. handler'[h].pc = pc
  BY <1>1, <1>2, <1>3 DEF HandlerStates
<1> QED
  BY <1>1, <1>2, <1>4

\* A worker has taken its job on, or is about to read the record.
TakenOn(j) == worker[j].pc \in {"starting", "acting", "noting", "publish",
                                "succeed", "fail", "yield", "yielding"}
AtHand(j)  == worker[j].pc = "queued" \/ TakenOn(j)

\* Handler h has a pass of deployment d to send or to take back.
Sends(h, d) ==
    /\ handler[h].pc \in {"dispatch", "dispatchPass", "failedPass", "unlease"}
    /\ handler[h].dep = d

Open(d)       == record[d].status \in {"Pending", "InProgress"}
Unattended(d) == \A n \in 1..MaxPasses : ~TakenOn(<<d, n>>)

\* The stored record asks for pass n.
Asks(d, n) ==
    \/ record[d].status = "Pending" /\ n = 1
    \/ /\ record[d].status = "InProgress"
       /\ record[d].conv = "running"
       /\ record[d].pass = n

\* At most one job or handler is concerned with deployment d ...
OneClaim(d) ==
    /\ \A m, n \in 1..MaxPasses : AtHand(<<d, m>>) /\ AtHand(<<d, n>>) => m = n
    /\ \A n \in 1..MaxPasses, h \in Handlers : AtHand(<<d, n>>) => ~Sends(h, d)
    /\ \A g, h \in Handlers : Sends(g, d) /\ Sends(h, d) => g = h

\* ... and with the pass that the record asks for.
ClaimIsAsked(d) ==
    /\ \A n \in 1..MaxPasses : AtHand(<<d, n>>) => Asks(d, n)
    /\ \A h \in Handlers : Sends(h, d) => Asks(d, handler[h].copy.pass)

\* That is so for as long as the deployment is unfinished or worked on, and a
\* pass that has thrown leaves it finished for good.
ClaimsOf(d) ==
    /\ Open(d) \/ ~Unattended(d) => OneClaim(d)
    /\ Open(d) => ClaimIsAsked(d)
    /\ record[d].status = "Pending" =>
         record[d].conv = "running" /\ record[d].pass = 1
    /\ \A n \in 1..MaxPasses :
         worker[<<d, n>>] = Done(TRUE) => ~Open(d) /\ Unattended(d)

\* What a handler in state x holds of its deployment.
CopyFits(x) ==
    /\ x.pc \in {"create", "dispatch"} /\ IsEdge(x.dep) =>
         x.copy.status = "Pending" /\ x.copy.conv = "running" /\ x.copy.pass = 1
    /\ x.pc \in {"lease", "dispatchPass", "waitingPass", "failedPass", "unlease"} =>
         IsEdge(x.dep)
    /\ x.pc \in {"dispatchPass", "waitingPass", "failedPass", "unlease"} => x.copy.pass # 0
    /\ x.pc = "lease" => x.copy.status = "InProgress" /\ x.copy.conv = "ready"
    /\ x.pc = "unlease" => x.copy.status = "InProgress" /\ x.copy.conv = "running"

\* A handler that is to create a record is the only one that knows of it.
Creates(h) ==
    handler[h].pc = "create" =>
        /\ record[handler[h].dep] = NoRecord
        /\ \A g \in Handlers \ {h} :
             handler[g] # Idle => handler[g].dep # handler[h].dep

\* What a job in state x was started with; only edge deployments have passes.
JobFits(j, x) ==
    /\ x.pc = "starting" /\ IsEdge(j[1]) =>
         /\ x.copy.status = "InProgress"
         /\ x.copy.conv = "running" /\ x.copy.pass = j[2]
    /\ x.pc = "noting" => ~IsEdge(j[1])
    /\ ~IsEdge(j[1]) /\ j[2] # 1 => x.pc = "none"

CopiesFit ==
    /\ \A h \in Handlers : handler[h] # Idle => CopyFits(handler[h]) /\ Creates(h)
    /\ \A c \in Cancellers : canceller[c] # Idle => record[canceller[c].dep] # NoRecord
    /\ \A j \in Jobs : JobFits(j, worker[j])

PassInv == (\A d \in EdgeDeployments : ClaimsOf(d)) /\ CopiesFit

\* A step after which deployment d has no more claims than before keeps them in
\* order.
LEMMA ClaimsKept ==
    ASSUME NEW d \in EdgeDeployments, ClaimsOf(d),
           Open(d)' => record'[d] = record[d],
           Open(d)' \/ ~Unattended(d)' => Open(d) \/ ~Unattended(d),
           \A n \in 1..MaxPasses : AtHand(<<d, n>>)' => AtHand(<<d, n>>),
           \A h \in Handlers : Sends(h, d)' =>
               Sends(h, d) /\ handler'[h].copy.pass = handler[h].copy.pass,
           \A n \in 1..MaxPasses :
               worker'[<<d, n>>] = Done(TRUE) => ~Open(d)' /\ Unattended(d)'
    PROVE  ClaimsOf(d)'
<1>1. Open(d)' \/ ~Unattended(d)' => OneClaim(d)'
  BY DEF ClaimsOf, OneClaim
<1>2. ASSUME Open(d)' PROVE ClaimIsAsked(d)'
  <2>1. Open(d) /\ ClaimIsAsked(d)
    BY <1>2 DEF ClaimsOf, Open
  <2>2. \A n : Asks(d, n)' <=> Asks(d, n)
    BY <1>2 DEF Asks
  <2> QED
    BY <2>1, <2>2 DEF ClaimIsAsked
<1>3. record'[d].status = "Pending" => record'[d].conv = "running" /\ record'[d].pass = 1
  BY DEF ClaimsOf, Open
<1> QED
  BY <1>1, <1>2, <1>3 DEF ClaimsOf

\* An unfinished or attended deployment stays as it is when neither its record
\* nor its jobs nor its handlers change.
LEMMA ClaimsUntouched ==
    ASSUME NEW d \in EdgeDeployments, ClaimsOf(d),
           record'[d] = record[d],
           \A n \in 1..MaxPasses : worker'[<<d, n>>] = worker[<<d, n>>],
           \A h \in Handlers : Sends(h, d)' =>
               Sends(h, d) /\ handler'[h].copy.pass = handler[h].copy.pass
    PROVE  ClaimsOf(d)'
<1>1. /\ Open(d)' <=> Open(d)
      /\ Unattended(d)' <=> Unattended(d)
      /\ \A n \in 1..MaxPasses : AtHand(<<d, n>>)' <=> AtHand(<<d, n>>)
  BY DEF Open, Unattended, AtHand, TakenOn
<1>2. \A n \in 1..MaxPasses :
        worker'[<<d, n>>] = Done(TRUE) => ~Open(d)' /\ Unattended(d)'
  BY <1>1 DEF ClaimsOf
<1> QED
  BY <1>1, <1>2, ClaimsKept

\* A finished deployment that nobody works on has no claims to keep in order.
LEMMA ClaimsLapse ==
    ASSUME NEW d \in EdgeDeployments, ~Open(d)', Unattended(d)'
    PROVE  ClaimsOf(d)'
BY DEF ClaimsOf, Open

\* The initial state.
LEMMA PassInit == Init => PassInv
<1> SUFFICES ASSUME Init PROVE PassInv
  OBVIOUS
<1>1. /\ \A d \in Deployments : record[d] = NoRecord
      /\ \A h \in Handlers : handler[h] = Idle
      /\ \A c \in Cancellers : canceller[c] = Idle
      /\ \A j \in Jobs : worker[j] = [pc |-> "none"]
  BY DEF Init
<1>2. ASSUME NEW d \in EdgeDeployments PROVE ClaimsOf(d)
  <2>1. d \in Deployments /\ record[d] = NoRecord
        /\ \A n \in 1..MaxPasses : worker[<<d, n>>] = [pc |-> "none"]
    BY <1>1, DeploymentAssumption DEF Jobs
  <2> QED
    BY <2>1 DEF ClaimsOf, Open, Unattended, TakenOn, NoRecord, Done
<1>3. CopiesFit
  BY <1>1 DEF CopiesFit, JobFits
<1> QED
  BY <1>2, <1>3 DEF PassInv

\* A job that moves on without writing its record.
LEMMA JobGoes ==
    ASSUME TypeInv, PassInv, NEW j \in Jobs, worker[j].pc # "none",
           NEW x, worker' = [worker EXCEPT ![j] = x], x # Done(TRUE),
           x.pc # "queued",
           x.pc \in {"starting", "acting", "noting", "publish", "succeed",
                     "fail", "yield", "yielding"} =>
               AtHand(j) /\ (TakenOn(j) \/ Open(j[1])),
           x.pc = "starting" /\ IsEdge(j[1]) =>
               /\ x.copy.status = "InProgress"
               /\ x.copy.conv = "running" /\ x.copy.pass = j[2],
           x.pc = "noting" => ~IsEdge(j[1]),
           UNCHANGED <<record, handler, canceller>>
    PROVE  PassInv'
<1>t. worker \in [Jobs -> WorkerStates]
  BY DEF TypeInv, TypeOK
<1>1. worker'[j] = x /\ \A k \in Jobs : k # j => worker'[k] = worker[k]
  BY <1>t
<1>2. ASSUME NEW d \in EdgeDeployments PROVE ClaimsOf(d)'
  <2>1. d \in Deployments /\ ClaimsOf(d)
    BY DeploymentAssumption DEF PassInv
  <2>2. \A n \in 1..MaxPasses : <<d, n>> \in Jobs
    BY <2>1 DEF Jobs
  <2>3. \A h \in Handlers : Sends(h, d)' => Sends(h, d)
    BY DEF Sends
  <2>4. CASE j[1] # d
    <3>1. \A n \in 1..MaxPasses : worker'[<<d, n>>] = worker[<<d, n>>]
      BY <1>1, <2>2, <2>4
    <3> QED
      BY <2>1, <2>3, <3>1, ClaimsUntouched
  <2>5. CASE j[1] = d
    <3>1. PICK n \in 1..MaxPasses : j = <<d, n>>
      BY <2>5 DEF Jobs
    <3>2. \A m \in 1..MaxPasses : m # n => worker'[<<d, m>>] = worker[<<d, m>>]
      BY <1>1, <2>2, <3>1
    <3>3. \A m \in 1..MaxPasses : AtHand(<<d, m>>)' => AtHand(<<d, m>>)
      BY <1>1, <3>1, <3>2 DEF AtHand, TakenOn
    <3>4. \A m \in 1..MaxPasses : TakenOn(<<d, m>>)' => TakenOn(<<d, m>>) \/ Open(d)
      BY <1>1, <3>1, <3>2, <2>5 DEF TakenOn
    <3>5. (Open(d)' <=> Open(d)) /\ (~Unattended(d)' => Open(d) \/ ~Unattended(d))
      BY <3>4 DEF Open, Unattended
    <3>6. \A m \in 1..MaxPasses :
            worker'[<<d, m>>] = Done(TRUE) => ~Open(d)' /\ Unattended(d)'
      BY <1>1, <2>1, <3>1, <3>2, <3>5 DEF ClaimsOf
    <3> QED
      BY <2>1, <2>3, <3>3, <3>5, <3>6, ClaimsKept
  <2> QED
    BY <2>4, <2>5
<1>3. CopiesFit'
  <2>1. \A k \in Jobs : JobFits(k, worker[k])
    BY DEF PassInv, CopiesFit
  <2>2. JobFits(j, x)
    BY <2>1 DEF JobFits
  <2>3. \A k \in Jobs : JobFits(k, worker'[k])
    BY <1>1, <2>1, <2>2
  <2>4. \A h \in Handlers : Creates(h)' <=> Creates(h)
    BY DEF Creates
  <2> QED
    BY <2>3, <2>4 DEF PassInv, CopiesFit
<1> QED
  BY <1>2, <1>3 DEF PassInv

\* A job that writes its record: it alone is concerned with the deployment, and
\* it leaves the record in progress only for itself or for nobody.
LEMMA JobWrites ==
    ASSUME TypeInv, PassInv, NEW j \in Jobs, TakenOn(j),
           NEW x, worker' = [worker EXCEPT ![j] = x],
           x.pc \notin {"none", "queued", "starting", "noting"},
           NEW r \in Record, record' = [record EXCEPT ![j[1]] = r],
           IsEdge(j[1]) =>
               /\ r.status # "Pending"
               /\ r.status = "InProgress" =>
                    /\ x # Done(TRUE)
                    /\ x.pc = "done" \/ (r.conv = "running" /\ r.pass = j[2]),
           UNCHANGED <<handler, canceller>>
    PROVE  PassInv'
<1>t. worker \in [Jobs -> WorkerStates] /\ record \in [Deployments -> Record \cup {NoRecord}]
  BY DEF TypeInv, TypeOK
<1>1. worker'[j] = x /\ \A k \in Jobs : k # j => worker'[k] = worker[k]
  BY <1>t
<1>r. /\ j[1] \in Deployments /\ record'[j[1]] = r
      /\ \A d \in Deployments : d # j[1] => record'[d] = record[d]
  BY <1>t DEF Jobs
<1>2. ASSUME NEW d \in EdgeDeployments PROVE ClaimsOf(d)'
  <2>1. d \in Deployments /\ ClaimsOf(d)
    BY DeploymentAssumption DEF PassInv
  <2>2. \A n \in 1..MaxPasses : <<d, n>> \in Jobs
    BY <2>1 DEF Jobs
  <2>3. \A h \in Handlers : Sends(h, d)' <=> Sends(h, d)
    BY DEF Sends
  <2>4. CASE j[1] # d
    <3>1. \A n \in 1..MaxPasses : worker'[<<d, n>>] = worker[<<d, n>>]
      BY <1>1, <2>2, <2>4
    <3> QED
      BY <1>r, <2>1, <2>3, <2>4, <3>1, ClaimsUntouched
  <2>5. CASE j[1] = d
    <3>1. PICK n \in 1..MaxPasses : j = <<d, n>>
      BY <2>5 DEF Jobs
    <3>2. \A m \in 1..MaxPasses : m # n => worker'[<<d, m>>] = worker[<<d, m>>]
      BY <1>1, <2>2, <3>1
    <3>0. IsEdge(j[1])
      BY <2>5 DEF IsEdge
    <3>3. /\ OneClaim(d)
          /\ \A m \in 1..MaxPasses : worker[<<d, m>>] # Done(TRUE)
      BY <2>1, <3>1 DEF ClaimsOf, Unattended
    <3>4. /\ \A m \in 1..MaxPasses : m # n => ~AtHand(<<d, m>>)
          /\ \A h \in Handlers : ~Sends(h, d)
      BY <3>1, <3>3 DEF OneClaim, AtHand
    <3>5. /\ \A m \in 1..MaxPasses : m # n => ~AtHand(<<d, m>>)'
          /\ \A h \in Handlers : ~Sends(h, d)'
      BY <2>3, <3>2, <3>4 DEF AtHand, TakenOn
    <3>6. OneClaim(d)'
      BY <3>5 DEF OneClaim
    <3>7. Open(d)' => ClaimIsAsked(d)'
      <4> SUFFICES ASSUME Open(d)' PROVE ClaimIsAsked(d)'
        OBVIOUS
      <4>1. r.status = "InProgress" /\ IsEdge(j[1])
        BY <1>r, <2>5 DEF Open, IsEdge
      <4>2. AtHand(<<d, n>>)' => Asks(d, n)'
        BY <1>1, <1>r, <2>5, <3>1, <4>1 DEF AtHand, TakenOn, Asks
      <4> QED
        BY <3>5, <4>2 DEF ClaimIsAsked
    <3>8. ASSUME NEW m \in 1..MaxPasses, worker'[<<d, m>>] = Done(TRUE)
          PROVE  ~Open(d)' /\ Unattended(d)'
      <4>1. m = n /\ x = Done(TRUE)
        BY <1>1, <3>1, <3>2, <3>3, <3>8
      <4>2. ~TakenOn(<<d, n>>)'
        BY <1>1, <3>1, <4>1 DEF TakenOn, Done
      <4>3. r.status \notin {"Pending", "InProgress"}
        BY <3>0, <4>1
      <4>4. ~Open(d)'
        BY <1>r, <2>5, <4>3 DEF Open
      <4>5. Unattended(d)'
        BY <3>5, <4>1, <4>2 DEF Unattended, AtHand
      <4> QED
        BY <4>4, <4>5
    <3>9. record'[d].status # "Pending"
      BY <1>r, <2>5, <3>0
    <3> QED
      BY <3>6, <3>7, <3>8, <3>9 DEF ClaimsOf
  <2> QED
    BY <2>4, <2>5
<1>3. CopiesFit'
  <2>1. \A k \in Jobs : JobFits(k, worker[k])
    BY DEF PassInv, CopiesFit
  <2>2. JobFits(j, x)
    BY <2>1 DEF JobFits, TakenOn
  <2>3. \A k \in Jobs : JobFits(k, worker'[k])
    BY <1>1, <2>1, <2>2
  <2>4. r # NoRecord /\ record[j[1]] # NoRecord
    BY DEF Record, NoRecord, Statuses, Terminal, TypeInv, RecordsExist, TakenOn
  <2>5. ASSUME NEW h \in Handlers, handler[h] # Idle PROVE Creates(h)'
    <3>1. handler[h].dep \in Deployments
      BY <2>5, HandlerFields DEF TypeInv, TypeOK
    <3> QED
      BY <1>r, <2>4, <2>5, <3>1 DEF PassInv, CopiesFit, Creates
  <2>6. ASSUME NEW c \in Cancellers, canceller[c] # Idle
        PROVE  record'[canceller[c].dep] # NoRecord
    <3>1. canceller[c].dep \in Deployments
      BY <2>6 DEF TypeInv, TypeOK, CancellerStates
    <3> QED
      BY <1>r, <2>4, <2>6, <3>1 DEF PassInv, CopiesFit
  <2> QED
    BY <2>3, <2>5, <2>6 DEF PassInv, CopiesFit
<1> QED
  BY <1>2, <1>3 DEF PassInv

\* executeDeployment keeps the claims in order.
LEMMA PassWorker ==
    ASSUME TypeInv, PassInv, NEW j \in Jobs,
           WorkerStep(j) \/ PollCancel(j) \/ WorkerDies(j)
    PROVE  PassInv'
<1>t. /\ worker[j] \in WorkerStates /\ j[1] \in Deployments
      /\ record[j[1]] \in Record \cup {NoRecord}
  BY DEF TypeInv, TypeOK, Jobs
<1>e. IsEdge(j[1]) => ClaimsOf(j[1])
  BY DEF PassInv, IsEdge
<1>f. worker[j].pc = "starting" /\ IsEdge(j[1]) =>
        /\ worker[j].copy.status = "InProgress"
        /\ worker[j].copy.conv = "running" /\ worker[j].copy.pass = j[2]
  BY DEF PassInv, CopiesFit, JobFits
<1>1. CASE WorkerReads(j)
  <2>1. worker[j].pc = "queued"
    BY <1>1 DEF WorkerReads, WorkerAt
  <2>2. CASE Accepts(j)
    <3>1. record[j[1]] \in Record /\ Open(j[1])
      BY <1>t, <2>2 DEF Accepts, Open, NoRecord
    <3> DEFINE c == [record[j[1]] EXCEPT !.status = "InProgress"]
    <3> DEFINE x == [pc |-> "starting", prior |-> worker[j].prior, copy |-> c]
    <3>2. IsEdge(j[1]) => c.status = "InProgress" /\ c.conv = "running" /\ c.pass = j[2]
      <4> SUFFICES ASSUME IsEdge(j[1])
                   PROVE  c.status = "InProgress" /\ c.conv = "running" /\ c.pass = j[2]
        OBVIOUS
      <4>1. PICK n \in 1..MaxPasses : j = <<j[1], n>> /\ n = j[2]
        BY DEF Jobs
      <4>2. Asks(j[1], j[2])
        BY <1>e, <2>1, <3>1, <4>1 DEF ClaimsOf, ClaimIsAsked, AtHand
      <4>3. record[j[1]].conv = "running" /\ record[j[1]].pass = j[2]
        BY <1>e, <4>2 DEF ClaimsOf, Asks
      <4> QED
        BY <3>1, <4>3 DEF Record
    <3>3. worker' = [worker EXCEPT ![j] = x]
          /\ UNCHANGED <<record, handler, canceller>>
      BY <1>1, <2>2 DEF WorkerReads
    <3>4. x # Done(TRUE)
      BY DEF Done
    <3>5. x.pc = "starting" /\ x.copy = c
      OBVIOUS
    <3> HIDE DEF c, x
    <3> QED
      BY <2>1, <3>1, <3>2, <3>3, <3>4, <3>5, JobGoes DEF AtHand
  <2>3. CASE ~Accepts(j)
    <3>1. worker' = [worker EXCEPT ![j] = Done(FALSE)]
          /\ UNCHANGED <<record, handler, canceller>>
      BY <1>1, <2>3 DEF WorkerReads
    <3>2. Done(FALSE) # Done(TRUE) /\ Done(FALSE).pc = "done"
      BY DEF Done
    <3> QED
      BY <2>1, <3>1, <3>2, JobGoes
  <2> QED
    BY <2>2, <2>3
<1>2. CASE WorkerStarts(j)
  <2>1. worker[j].pc = "starting" /\ worker[j].copy \in Record
    BY <1>2, <1>t, WorkerFields DEF WorkerStarts, WorkerAt
  <2> DEFINE x == [pc |-> "acting", prior |-> worker[j].prior,
                   copy |-> worker[j].copy, stack |-> "none", seen |-> FALSE,
                   noted |-> FALSE]
  <2>2. /\ worker' = [worker EXCEPT ![j] = x]
        /\ record' = [record EXCEPT ![j[1]] = worker[j].copy]
        /\ UNCHANGED <<handler, canceller>>
    BY <1>2 DEF WorkerStarts
  <2>3. x # Done(TRUE) /\ x.pc = "acting"
    BY DEF Done
  <2> HIDE DEF x
  <2> QED
    BY <1>f, <2>1, <2>2, <2>3, JobWrites DEF TakenOn
<1>3. ASSUME worker[j].pc \in {"acting", "noting", "publish", "succeed", "fail",
                               "yield", "yielding"}
      PROVE  worker[j] \in RunningStates /\ worker[j].copy \in Record
  <2>1. worker[j] \in RunningStates
    BY <1>3, <1>t, RunningFields
  <2> QED
    BY <2>1 DEF RunningStates
\* A job that keeps working without touching its record.
<1>4. ASSUME NEW x, worker' = [worker EXCEPT ![j] = x],
             x.pc \in {"acting", "noting", "publish", "succeed", "fail", "yield",
                       "yielding"},
             x.pc = "noting" => worker[j].pc = "noting" \/ ~IsEdge(j[1]),
             TakenOn(j), UNCHANGED <<record, handler, canceller>>
      PROVE  PassInv'
  <2>1. worker[j].pc # "none" /\ x # Done(TRUE) /\ x.pc # "queued" /\ x.pc # "starting"
    BY <1>4 DEF TakenOn, Done
  <2>2. AtHand(j) /\ (x.pc = "noting" => ~IsEdge(j[1]))
    BY <1>4 DEF AtHand, PassInv, CopiesFit, JobFits
  <2> QED
    BY <1>4, <2>1, <2>2, JobGoes
<1>5. CASE NoteRead(j) \/ OnStack(j) \/ PollCancel(j)
           \/ \E outcome \in {"succeed", "yield", "fail"} : Settle(j, outcome)
           \/ Publish(j) \/ YieldRead(j)
  <2>1. worker[j].pc \in {"acting", "noting", "publish", "yield"}
    BY <1>5 DEF NoteRead, OnStack, PollCancel, Settle, Publish, YieldRead, WorkerAt, Acting
  <2>2. worker[j] \in RunningStates /\ TakenOn(j)
    BY <1>3, <2>1 DEF TakenOn
  <2>3. UNCHANGED <<record, handler, canceller>>
    BY <1>5 DEF NoteRead, OnStack, PollCancel, Settle, Publish, YieldRead
  <2>4. PICK x : /\ worker' = [worker EXCEPT ![j] = x]
                 /\ x.pc \in {"acting", "noting", "publish", "succeed", "fail", "yield",
                              "yielding"}
                 /\ x.pc = "noting" => worker[j].pc = "noting" \/ ~IsEdge(j[1])
    <3>1. CASE NoteRead(j)
      <4> DEFINE x == [worker[j] EXCEPT !.pc = "noting", !.noted = TRUE]
      <4>1. worker' = [worker EXCEPT ![j] = x] /\ x.pc = "noting" /\ ~IsEdge(j[1])
        BY <2>2, <3>1 DEF NoteRead, RunningStates
      <4> QED
        BY <4>1
    <3>2. CASE OnStack(j)
      <4> DEFINE x == [worker[j] EXCEPT !.stack = "live"]
      <4>1. worker' = [worker EXCEPT ![j] = x] /\ x.pc = worker[j].pc
        BY <2>2, <3>2 DEF OnStack, RunningStates
      <4> QED
        BY <2>1, <4>1
    <3>3. CASE PollCancel(j)
      <4> DEFINE x == [worker[j] EXCEPT
              !.seen = TRUE, !.stack = IF @ = "live" THEN "cancelled" ELSE @]
      <4>1. worker' = [worker EXCEPT ![j] = x] /\ x.pc = worker[j].pc
        BY <2>2, <3>3 DEF PollCancel, RunningStates
      <4> QED
        BY <2>1, <4>1
    <3>4. CASE \E outcome \in {"succeed", "yield", "fail"} : Settle(j, outcome)
      <4>1. PICK outcome \in {"succeed", "yield", "fail"} : Settle(j, outcome)
        BY <3>4
      <4> DEFINE pc == IF /\ outcome = "succeed"
                          /\ IsEdge(j[1])
                          /\ worker[j].copy.action # "Refresh"
                       THEN "publish" ELSE outcome
      <4> DEFINE x == [worker[j] EXCEPT !.pc = pc]
      <4>2. worker' = [worker EXCEPT ![j] = x] /\ x.pc = pc
        BY <2>2, <4>1 DEF Settle, RunningStates
      <4>3. pc \in {"publish", "succeed", "yield", "fail"}
        OBVIOUS
      <4> HIDE DEF pc, x
      <4> QED
        BY <4>2, <4>3
    <3>5. CASE Publish(j)
      <4>1. PICK pc \in {"succeed", "fail"} :
              worker' = [worker EXCEPT ![j] = [worker[j] EXCEPT !.pc = pc]]
        BY <3>5 DEF Publish
      <4>2. [worker[j] EXCEPT !.pc = pc].pc = pc
        BY <2>2 DEF RunningStates
      <4> QED
        BY <4>1, <4>2
    <3>6. CASE YieldRead(j)
      <4> DEFINE x == [worker[j] EXCEPT !.pc = "yielding", !.copy = record[j[1]]]
      <4>1. worker' = [worker EXCEPT ![j] = x] /\ x.pc = "yielding"
        BY <2>2, <3>6 DEF YieldRead, RunningStates
      <4> QED
        BY <4>1
    <3> QED
      BY <1>5, <3>1, <3>2, <3>3, <3>4, <3>5, <3>6
  <2> QED
    BY <1>4, <2>2, <2>3, <2>4
<1>6. CASE NoteWrite(j)
  <2>1. worker[j].pc = "noting"
    BY <1>6 DEF NoteWrite, WorkerAt
  <2>2. worker[j] \in RunningStates /\ worker[j].copy \in Record /\ TakenOn(j)
    BY <1>3, <2>1 DEF TakenOn
  <2> DEFINE x == [worker[j] EXCEPT !.pc = "acting"]
  <2>3. /\ worker' = [worker EXCEPT ![j] = x]
        /\ record' = [record EXCEPT ![j[1]] = worker[j].copy]
        /\ UNCHANGED <<handler, canceller>>
    BY <1>6 DEF NoteWrite
  <2>4. x.pc = "acting"
    BY <2>2 DEF RunningStates
  <2>5. ~IsEdge(j[1])
    BY <2>1 DEF PassInv, CopiesFit, JobFits
  <2> HIDE DEF x
  <2> QED
    BY <2>2, <2>3, <2>4, <2>5, JobWrites
<1>7. ASSUME NEW threw \in BOOLEAN, TakenOn(j),
             worker' = [worker EXCEPT ![j] = Done(threw)],
             NEW r \in Record, record' = [record EXCEPT ![j[1]] = r],
             r.status # "Pending", r.status = "InProgress" => ~threw,
             UNCHANGED <<handler, canceller>>
      PROVE  PassInv'
  <2>1. Done(threw).pc = "done" /\ (~threw => Done(threw) # Done(TRUE))
    BY DEF Done
  <2> DEFINE x == Done(threw)
  <2>2. x.pc = "done" /\ (~threw => x # Done(TRUE)) /\ worker' = [worker EXCEPT ![j] = x]
    BY <1>7, <2>1
  <2> HIDE DEF x
  <2>3. /\ x.pc \notin {"none", "queued", "starting", "noting"}
        /\ IsEdge(j[1]) =>
               /\ r.status # "Pending"
               /\ r.status = "InProgress" =>
                    /\ x # Done(TRUE)
                    /\ x.pc = "done" \/ (r.conv = "running" /\ r.pass = j[2])
    BY <1>7, <2>2
  <2>4. UNCHANGED <<handler, canceller>>
    BY <1>7
  <2> QED
    BY <1>7, <2>2, <2>3, <2>4, JobWrites, Zenon
<1>8. CASE YieldWrite(j)
  <2>1. worker[j].pc = "yielding"
    BY <1>8 DEF YieldWrite, WorkerAt
  <2>2. worker[j].copy \in Record /\ TakenOn(j)
    BY <1>3, <2>1 DEF TakenOn
  <2> DEFINE r == IF worker[j].copy.status = "Cancelling"
                  THEN [worker[j].copy EXCEPT !.status = "Cancelled"]
                  ELSE [worker[j].copy EXCEPT !.status = "InProgress", !.conv = "ready"]
  <2>3. /\ worker' = [worker EXCEPT ![j] = Done(FALSE)]
        /\ record' = [record EXCEPT ![j[1]] = r]
        /\ UNCHANGED <<handler, canceller>>
    BY <1>8 DEF YieldWrite
  <2>4. r \in Record /\ r.status # "Pending"
    BY <2>2 DEF Record, Statuses, Terminal
  <2> HIDE DEF r
  <2> QED
    BY <1>7, <2>2, <2>3, <2>4
<1>9. CASE WorkerSucceeds(j)
  <2>1. worker[j].pc = "succeed"
    BY <1>9 DEF WorkerSucceeds, WorkerAt
  <2>2. worker[j].copy \in Record /\ TakenOn(j)
    BY <1>3, <2>1 DEF TakenOn
  <2> DEFINE r == [worker[j].copy EXCEPT
                     !.status = "Succeeded",
                     !.conv = IF IsEdge(j[1]) THEN "converged" ELSE @]
  <2>3. /\ worker' = [worker EXCEPT ![j] = Done(FALSE)]
        /\ record' = [record EXCEPT ![j[1]] = r]
        /\ UNCHANGED <<handler, canceller>>
    BY <1>9 DEF WorkerSucceeds
  <2>4. r \in Record /\ r.status = "Succeeded"
    BY <2>2 DEF Record, Statuses, Terminal
  <2> HIDE DEF r
  <2> QED
    BY <1>7, <2>2, <2>3, <2>4
<1>10. CASE WorkerFails(j)
  <2>1. worker[j].pc = "fail"
    BY <1>10 DEF WorkerFails, WorkerAt
  <2>2. worker[j].copy \in Record /\ TakenOn(j) /\ worker[j].seen \in BOOLEAN
    BY <1>3, <2>1 DEF TakenOn, RunningStates
  <2> DEFINE r == [worker[j].copy EXCEPT
                     !.status = IF worker[j].seen THEN "Cancelled" ELSE "Failed"]
  <2>3. /\ worker' = [worker EXCEPT ![j] = Done(~worker[j].seen)]
        /\ record' = [record EXCEPT ![j[1]] = r]
        /\ UNCHANGED <<handler, canceller>>
    BY <1>10 DEF WorkerFails
  <2>4. r \in Record /\ r.status \in {"Cancelled", "Failed"}
    BY <2>2 DEF Record, Statuses, Terminal
  <2>5. (~worker[j].seen) \in BOOLEAN
    BY <2>2
  <2> HIDE DEF r
  <2> QED
    BY <1>7, <2>2, <2>3, <2>4, <2>5
<1>11. CASE WorkerDies(j)
  <2> DEFINE x == [pc |-> "dead"]
  <2>1. /\ worker' = [worker EXCEPT ![j] = x] /\ worker[j].pc # "none"
        /\ UNCHANGED <<record, handler, canceller>>
    BY <1>11 DEF WorkerDies, Live
  <2>2. x # Done(TRUE) /\ x.pc = "dead"
    BY DEF Done
  <2> HIDE DEF x
  <2> QED
    BY <2>1, <2>2, JobGoes
<1> QED
  BY <1>1, <1>2, <1>5, <1>6, <1>8, <1>9, <1>10, <1>11 DEF WorkerStep

\* A cancellation only ever finishes a deployment.
LEMMA PassCancel ==
    ASSUME TypeInv, PassInv, NEW c \in Cancellers,
           \/ \E d \in Deployments, force \in Forces : CancelRead(c, d, force)
           \/ CancelWrite(c)
    PROVE  PassInv'
<1>t. /\ record \in [Deployments -> Record \cup {NoRecord}]
      /\ canceller \in [Cancellers -> CancellerStates]
  BY DEF TypeInv, TypeOK
<1>1. ASSUME NEW d \in Deployments, NEW force \in Forces, CancelRead(c, d, force)
      PROVE  PassInv'
  <2>1. UNCHANGED <<record, handler, worker>> /\ record[d] # NoRecord
    BY <1>1 DEF CancelRead
  <2>2. ASSUME NEW f \in EdgeDeployments PROVE ClaimsOf(f)'
    <3>1. ClaimsOf(f) /\ \A h \in Handlers : Sends(h, f)' => Sends(h, f)
      BY <2>1 DEF PassInv, Sends
    <3> QED
      BY <2>1, <3>1, ClaimsUntouched
  <2>3. ASSUME NEW b \in Cancellers, canceller'[b] # Idle
        PROVE  record'[canceller'[b].dep] # NoRecord
    <3>1. canceller'[c].dep = d
      BY <1>1, <1>t DEF CancelRead
    <3>2. b # c => canceller'[b] = canceller[b]
      BY <1>1, <1>t DEF CancelRead
    <3> QED
      BY <2>1, <2>3, <3>1, <3>2 DEF PassInv, CopiesFit
  <2>4. \A h \in Handlers : Creates(h)' <=> Creates(h)
    BY <2>1 DEF Creates
  <2> QED
    BY <2>1, <2>2, <2>3, <2>4 DEF PassInv, CopiesFit
<1>2. CASE CancelWrite(c)
  <2>1. /\ canceller[c] # Idle /\ UNCHANGED <<handler, worker>>
        /\ canceller' = [canceller EXCEPT ![c] = Idle]
    BY <1>2 DEF CancelWrite, Idle
  <2> DEFINE d == canceller[c].dep
  <2>2. d \in Deployments /\ canceller[c].copy \in Record /\ record[d] # NoRecord
    BY <1>t, <2>1 DEF CancellerStates, PassInv, CopiesFit
  <2>3. PICK r \in Record : /\ record' = [record EXCEPT ![d] = r]
                            /\ r.status \in {"Cancelled", "Cancelling"}
    <3>1. PICK s \in {"Cancelled", "Cancelling"} :
            record' = [record EXCEPT ![d] = [canceller[c].copy EXCEPT !.status = s]]
      BY <1>2 DEF CancelWrite
    <3>2. /\ [canceller[c].copy EXCEPT !.status = s] \in Record
          /\ [canceller[c].copy EXCEPT !.status = s].status = s
      BY <2>2 DEF Record, Statuses, Terminal
    <3> QED
      BY <3>1, <3>2
  <2>4. record'[d] = r /\ \A f \in Deployments : f # d => record'[f] = record[f]
    BY <1>t, <2>2, <2>3
  <2>5. r # NoRecord
    BY <2>3 DEF NoRecord
  <2> HIDE DEF d
  <2>6. ASSUME NEW f \in EdgeDeployments PROVE ClaimsOf(f)'
    <3>1. /\ f \in Deployments /\ ClaimsOf(f)
          /\ \A h \in Handlers : Sends(h, f)' => Sends(h, f)
      BY <2>1, DeploymentAssumption DEF PassInv, Sends
    <3>2. CASE f # d
      BY <2>1, <2>4, <3>1, <3>2, ClaimsUntouched
    <3>3. CASE f = d
      <4>1. /\ ~Open(f)' /\ (Unattended(f)' <=> Unattended(f))
            /\ \A n \in 1..MaxPasses : AtHand(<<f, n>>)' <=> AtHand(<<f, n>>)
        BY <2>1, <2>3, <2>4, <3>3 DEF Open, Unattended, AtHand, TakenOn
      <4>2. \A n \in 1..MaxPasses : worker'[<<f, n>>] = Done(TRUE) => Unattended(f)'
        BY <2>1, <3>1, <4>1 DEF ClaimsOf
      <4> QED
        BY <2>1, <3>1, <4>1, <4>2, ClaimsKept
    <3> QED
      BY <3>2, <3>3
  <2>7. ASSUME NEW h \in Handlers, handler[h] # Idle PROVE Creates(h)'
    <3>1. handler[h].dep \in Deployments
      BY <2>7, HandlerFields DEF TypeInv, TypeOK
    <3> QED
      BY <2>1, <2>2, <2>4, <2>7, <3>1 DEF PassInv, CopiesFit, Creates
  <2>8. ASSUME NEW b \in Cancellers, canceller'[b] # Idle
        PROVE  record'[canceller'[b].dep] # NoRecord
    <3>1. canceller'[b] = canceller[b] /\ canceller[b].dep \in Deployments
      BY <1>t, <2>1, <2>8 DEF CancellerStates
    <3> QED
      BY <2>4, <2>5, <2>8, <3>1 DEF PassInv, CopiesFit
  <2> QED
    BY <2>1, <2>6, <2>7, <2>8 DEF PassInv, CopiesFit
<1> QED
  BY <1>1, <1>2

\* A handler that moves on without touching a record or a job, and without a
\* claim that it did not have.
LEMMA HandlerGoes ==
    ASSUME TypeInv, PassInv, NEW h \in Handlers,
           NEW x, handler' = [handler EXCEPT ![h] = x],
           UNCHANGED <<record, canceller, worker>>,
           x.pc # "create", CopyFits(x),
           x = Idle \/ record[x.dep] # NoRecord,
           x.pc \in {"dispatch", "dispatchPass", "failedPass", "unlease"} =>
               \/ Sends(h, x.dep) /\ x.copy.pass = handler[h].copy.pass
               \/ ~Open(x.dep) /\ Unattended(x.dep)
    PROVE  PassInv'
<1>1. handler'[h] = x /\ \A g \in Handlers : g # h => handler'[g] = handler[g]
  BY DEF TypeInv, TypeOK
<1>2. ASSUME NEW d \in EdgeDeployments PROVE ClaimsOf(d)'
  <2>1. ClaimsOf(d)
    BY DEF PassInv
  <2>2. CASE ~Open(d) /\ Unattended(d)
    <3>1. ~Open(d)' /\ Unattended(d)'
      BY <2>2 DEF Open, Unattended, TakenOn
    <3> QED
      BY <3>1, ClaimsLapse
  <2>3. CASE Open(d) \/ ~Unattended(d)
    <3>1. \A g \in Handlers : Sends(g, d)' =>
            Sends(g, d) /\ handler'[g].copy.pass = handler[g].copy.pass
      BY <1>1, <2>3 DEF Sends
    <3> QED
      BY <2>1, <3>1, ClaimsUntouched
  <2> QED
    BY <2>2, <2>3
<1>3. ASSUME NEW g \in Handlers, handler'[g] # Idle
      PROVE  CopyFits(handler'[g]) /\ Creates(g)'
  <2>1. CASE g = h
    BY <1>1, <2>1 DEF Creates
  <2>2. CASE g # h
    BY <1>1, <1>3, <2>2 DEF PassInv, CopiesFit, Creates
  <2> QED
    BY <2>1, <2>2
<1> QED
  BY <1>2, <1>3 DEF PassInv, CopiesFit

\* A handler that sends the pass it holds hands its claim to the job.
LEMMA HandlerSends ==
    ASSUME TypeInv, PassInv, NEW h \in Handlers,
           NEW d \in Deployments, NEW n \in 1..MaxPasses, Sends(h, d),
           IsEdge(d) => handler[h].copy.pass = n,
           ~IsEdge(d) => n = 1,
           Deliver(h, d, n),
           NEW x, handler' = [handler EXCEPT ![h] = x],
           x.pc \in {"waiting", "waitingPass"}, x.dep = d, CopyFits(x),
           UNCHANGED <<record, canceller>>
    PROVE  PassInv'
<1>j. <<d, n>> \in Jobs
  BY DEF Jobs
<1>1. /\ handler'[h] = x /\ \A g \in Handlers : g # h => handler'[g] = handler[g]
      /\ worker'[<<d, n>>].pc = "queued"
      /\ \A k \in Jobs : k # <<d, n>> => worker'[k] = worker[k]
  BY <1>j DEF TypeInv, TypeOK, Deliver
<1>2. ~TakenOn(<<d, n>>)
  BY DEF Deliver, TakenOn
<1>3. ASSUME NEW e \in EdgeDeployments PROVE ClaimsOf(e)'
  <2>1. e \in Deployments /\ ClaimsOf(e)
    BY DeploymentAssumption DEF PassInv
  <2>2. \A m \in 1..MaxPasses : <<e, m>> \in Jobs
    BY <2>1 DEF Jobs
  <2>3. \A g \in Handlers : Sends(g, e)' => Sends(g, e) /\ handler'[g] = handler[g]
    BY <1>1 DEF Sends
  <2>4. CASE e # d
    <3>1. \A m \in 1..MaxPasses : worker'[<<e, m>>] = worker[<<e, m>>]
      BY <1>1, <2>2, <2>4
    <3> QED
      BY <2>1, <2>3, <3>1, ClaimsUntouched
  <2>5. CASE e = d
    <3>1. \A m \in 1..MaxPasses : m # n => worker'[<<e, m>>] = worker[<<e, m>>]
      BY <1>1, <2>2, <2>5
    <3>2. ~TakenOn(<<e, n>>)'
      BY <1>1, <2>5 DEF TakenOn
    <3>3. \A m \in 1..MaxPasses : TakenOn(<<e, m>>)' <=> TakenOn(<<e, m>>)
      BY <1>2, <2>5, <3>1, <3>2 DEF TakenOn
    <3>4. (Open(e)' <=> Open(e)) /\ (Unattended(e)' <=> Unattended(e))
      BY <3>3 DEF Open, Unattended
    <3>5. CASE ~Open(e) /\ Unattended(e)
      BY <3>4, <3>5, ClaimsLapse
    <3>6. CASE Open(e) \/ ~Unattended(e)
      <4>1. OneClaim(e)
        BY <2>1, <3>6 DEF ClaimsOf
      <4>2. /\ \A m \in 1..MaxPasses : ~AtHand(<<e, m>>)
            /\ \A g \in Handlers : g # h => ~Sends(g, e)
        BY <2>5, <4>1 DEF OneClaim
      <4>3. /\ \A m \in 1..MaxPasses : m # n => ~AtHand(<<e, m>>)'
            /\ \A g \in Handlers : ~Sends(g, e)'
        BY <1>1, <2>3, <3>1, <4>2 DEF AtHand, TakenOn, Sends
      <4>4. OneClaim(e)'
        BY <4>3 DEF OneClaim
      <4>5. Open(e) => Asks(e, n)
        BY <2>1, <2>5 DEF ClaimsOf, ClaimIsAsked, IsEdge
      <4>6. Open(e)' => ClaimIsAsked(e)'
        BY <3>4, <4>3, <4>5 DEF ClaimIsAsked, Asks
      <4>7. record'[e].status = "Pending" =>
              record'[e].conv = "running" /\ record'[e].pass = 1
        BY <2>1 DEF ClaimsOf
      <4>8. \A m \in 1..MaxPasses : worker'[<<e, m>>] # Done(TRUE)
        BY <1>1, <2>1, <2>5, <3>1, <3>6 DEF ClaimsOf, Done
      <4> QED
        BY <4>4, <4>6, <4>7, <4>8 DEF ClaimsOf
    <3> QED
      BY <3>5, <3>6
  <2> QED
    BY <2>4, <2>5
<1>4. record[d] # NoRecord
  BY DEF Sends, TypeInv, RecordsExist, Idle
<1>5. ASSUME NEW g \in Handlers, handler'[g] # Idle
      PROVE  CopyFits(handler'[g]) /\ Creates(g)'
  <2>1. CASE g = h
    BY <1>1, <2>1 DEF Creates
  <2>2. CASE g # h
    BY <1>1, <1>4, <1>5, <2>2 DEF PassInv, CopiesFit, Creates
  <2> QED
    BY <2>1, <2>2
<1>6. ASSUME NEW k \in Jobs PROVE JobFits(k, worker'[k])
  <2>1. JobFits(k, worker[k])
    BY DEF PassInv, CopiesFit
  <2> QED
    BY <1>1, <2>1 DEF JobFits
<1> QED
  BY <1>3, <1>5, <1>6 DEF PassInv, CopiesFit

\* A handler that moves from one place to the next keeps what it holds.
LEMMA HandlerKeeps ==
    ASSUME TypeInv, NEW h \in Handlers, handler[h] # Idle, NEW pc \in HandlerPcs,
           handler' = [handler EXCEPT ![h].pc = pc]
    PROVE  \E x : /\ handler' = [handler EXCEPT ![h] = x]
                  /\ x.pc = pc /\ x.dep = handler[h].dep /\ x.copy = handler[h].copy
<1> DEFINE x == [handler[h] EXCEPT !.pc = pc]
<1>1. handler[h] \in HandlerStates
  BY DEF TypeInv, TypeOK
<1>2. x.pc = pc /\ x.dep = handler[h].dep /\ x.copy = handler[h].copy
  BY <1>1 DEF HandlerStates
<1> QED
  BY <1>2

\* execute keeps the claims in order: the record is new, and the request that
\* made it is the only one that sends its job.
LEMMA PassExecute ==
    ASSUME ~ Reset, TypeInv, PassInv, NEW h \in Handlers,
           \/ \E d \in Deployments, e \in Environments, a \in Actions :
                Admit(h, d, e, a)
           \/ CreateRecord(h) \/ Dispatch(h) \/ DispatchReturns(h)
           \/ DispatchThrows(h) \/ FailDispatch(h) \/ HandlerDies(h)
    PROVE  PassInv'
<1>t. /\ handler \in [Handlers -> HandlerStates] /\ worker \in [Jobs -> WorkerStates]
      /\ record \in [Deployments -> Record \cup {NoRecord}]
  BY DEF TypeInv, TypeOK
<1>i. CopyFits(Idle) /\ Idle.pc = "idle"
  BY DEF CopyFits, Idle
<1>h. handler[h] # Idle => /\ handler[h].dep \in Deployments
                           /\ handler[h].copy \in Record
                           /\ CopyFits(handler[h]) /\ Creates(h)
                           /\ handler[h].pc # "create" => record[handler[h].dep] # NoRecord
  BY <1>t, HandlerFields DEF PassInv, CopiesFit, TypeInv, RecordsExist
<1>1. ASSUME NEW d \in Deployments, NEW e \in Environments, NEW a \in Actions,
             Admit(h, d, e, a)
      PROVE  PassInv'
  <2> DEFINE x == [pc |-> "create", dep |-> d, copy |-> NewRecord(d, e, a),
                   prior |-> environment[e].status]
  <2>1. /\ handler' = [handler EXCEPT ![h] = x]
        /\ UNCHANGED <<record, canceller, worker>>
        /\ record[d] = NoRecord
        /\ \A g \in Handlers : handler[g] # Idle => handler[g].dep # d
    BY <1>1 DEF Admit
  <2>2. CopyFits(x) /\ x.pc = "create" /\ x.dep = d
    BY DEF CopyFits, NewRecord
  <2> HIDE DEF x
  <2>3. handler'[h] = x /\ \A g \in Handlers : g # h => handler'[g] = handler[g]
    BY <1>t, <2>1
  <2>4. ASSUME NEW f \in EdgeDeployments PROVE ClaimsOf(f)'
    <3>1. \A g \in Handlers : Sends(g, f)' =>
            Sends(g, f) /\ handler'[g].copy.pass = handler[g].copy.pass
      BY <2>2, <2>3 DEF Sends
    <3> QED
      BY <2>1, <3>1, ClaimsUntouched DEF PassInv
  <2>5. handler[h] = Idle
    BY <1>1, <1>t DEF Admit, HandlerAt, HandlerStates, HandlerPcs
  <2>6. ASSUME NEW g \in Handlers, handler'[g] # Idle
        PROVE  CopyFits(handler'[g]) /\ Creates(g)'
    <3>1. CASE g = h
      BY <2>1, <2>2, <2>3, <3>1 DEF Creates
    <3>2. CASE g # h
      <4>1. /\ handler'[g] = handler[g] /\ handler[g].dep # d
            /\ CopyFits(handler[g]) /\ Creates(g)
        BY <2>1, <2>3, <2>6, <3>2 DEF PassInv, CopiesFit
      <4> QED
        BY <2>1, <2>2, <2>3, <4>1 DEF Creates
    <3> QED
      BY <3>1, <3>2
  <2> QED
    BY <2>1, <2>4, <2>6 DEF PassInv, CopiesFit
<1>2. CASE CreateRecord(h)
  <2>1. /\ handler[h] # Idle /\ handler[h].pc = "create"
        /\ handler' = [handler EXCEPT ![h].pc = "dispatch"]
        /\ UNCHANGED <<canceller, worker>>
    BY <1>2 DEF CreateRecord, HandlerAt, Idle
  <2> DEFINE d == handler[h].dep
             c == handler[h].copy
  <2>2. /\ record' = [record EXCEPT ![d] = c]
        /\ d \in Deployments /\ c \in Record /\ record[d] = NoRecord
        /\ \A g \in Handlers \ {h} : handler[g] # Idle => handler[g].dep # d
        /\ IsEdge(d) => c.status = "Pending" /\ c.conv = "running" /\ c.pass = 1
    BY <1>2, <1>h, <2>1 DEF CreateRecord, Creates, CopyFits
  <2>3. PICK x : /\ handler' = [handler EXCEPT ![h] = x]
                 /\ x.pc = "dispatch" /\ x.dep = d /\ x.copy = c
    BY <2>1, HandlerKeeps DEF HandlerPcs
  <2> HIDE DEF d, c
  <2>4. /\ handler'[h] = x /\ \A g \in Handlers : g # h => handler'[g] = handler[g]
        /\ record'[d] = c /\ \A f \in Deployments : f # d => record'[f] = record[f]
        /\ c # NoRecord
    BY <1>t, <2>2, <2>3 DEF Record, NoRecord, Statuses, Terminal
  <2>5. ASSUME NEW f \in EdgeDeployments PROVE ClaimsOf(f)'
    <3>1. f \in Deployments /\ ClaimsOf(f)
      BY DeploymentAssumption DEF PassInv
    <3>2. CASE f # d
      <4>1. \A g \in Handlers : Sends(g, f)' =>
              Sends(g, f) /\ handler'[g].copy.pass = handler[g].copy.pass
        BY <2>3, <2>4, <3>2 DEF Sends
      <4> QED
        BY <2>1, <2>4, <3>1, <3>2, <4>1, ClaimsUntouched
    <3>3. CASE f = d
      <4>1. \A n \in 1..MaxPasses : <<f, n>> \in Jobs /\ worker'[<<f, n>>].pc = "none"
        BY <2>1, <2>2, <3>1, <3>3 DEF Jobs, TypeInv, RecordsExist
      <4>2. /\ \A n \in 1..MaxPasses : ~AtHand(<<f, n>>)'
            /\ \A n \in 1..MaxPasses : worker'[<<f, n>>] # Done(TRUE)
        BY <4>1 DEF AtHand, TakenOn, Done
      <4>3. \A g \in Handlers : g # h => ~Sends(g, f)'
        BY <2>2, <2>4, <3>3 DEF Sends, Idle
      <4>4. OneClaim(f)'
        BY <4>2, <4>3 DEF OneClaim
      <4>5. record'[f].status = "Pending" /\ record'[f].conv = "running"
            /\ record'[f].pass = 1 /\ handler'[h].copy.pass = 1
        BY <2>2, <2>3, <2>4, <3>3 DEF IsEdge
      <4>6. ClaimIsAsked(f)'
        BY <4>2, <4>3, <4>5 DEF ClaimIsAsked, Asks
      <4> QED
        BY <4>2, <4>4, <4>5, <4>6 DEF ClaimsOf
    <3> QED
      BY <3>2, <3>3
  <2>6. ASSUME NEW g \in Handlers, handler'[g] # Idle
        PROVE  CopyFits(handler'[g]) /\ Creates(g)'
    <3>1. CASE g = h
      BY <2>2, <2>3, <2>4, <3>1 DEF Creates, CopyFits
    <3>2. CASE g # h
      <4>1. /\ handler'[g] = handler[g] /\ handler[g].dep # d /\ handler[g].dep \in Deployments
            /\ CopyFits(handler[g]) /\ Creates(g)
        BY <1>t, <2>2, <2>4, <2>6, <3>2, HandlerFields DEF PassInv, CopiesFit
      <4> QED
        BY <2>3, <2>4, <4>1 DEF Creates
    <3> QED
      BY <3>1, <3>2
  <2>7. ASSUME NEW b \in Cancellers, canceller'[b] # Idle
        PROVE  record'[canceller'[b].dep] # NoRecord
    <3>1. canceller'[b] = canceller[b] /\ canceller[b].dep \in Deployments
      BY <2>1, <2>7 DEF TypeInv, TypeOK, CancellerStates
    <3> QED
      BY <2>4, <2>7, <3>1 DEF PassInv, CopiesFit
  <2> QED
    BY <2>1, <2>5, <2>6, <2>7 DEF PassInv, CopiesFit
<1>3. CASE Dispatch(h)
  <2>1. handler[h] # Idle /\ handler[h].pc = "dispatch" /\ UNCHANGED <<record, canceller>>
    BY <1>3 DEF Dispatch, HandlerAt, Idle
  <2>2. CASE Deliver(h, handler[h].dep, 1) /\ handler' = [handler EXCEPT ![h].pc = "waiting"]
    <3> DEFINE d == handler[h].dep
    <3>1. PICK x : /\ handler' = [handler EXCEPT ![h] = x]
                   /\ x.pc = "waiting" /\ x.dep = d /\ x.copy = handler[h].copy
      BY <2>1, <2>2, HandlerKeeps DEF HandlerPcs
    <3>2. /\ d \in Deployments /\ Sends(h, d) /\ 1 \in 1..MaxPasses /\ CopyFits(x)
          /\ IsEdge(d) => handler[h].copy.pass = 1
      BY <1>h, <2>1, <3>1, DeploymentAssumption DEF Sends, CopyFits
    <3>3. Deliver(h, d, 1)
      BY <2>2
    <3> HIDE DEF d
    <3> QED
      BY <2>1, <3>1, <3>2, <3>3, HandlerSends
  <2>3. CASE handler' = [handler EXCEPT ![h] = Idle] /\ UNCHANGED worker
    BY <1>i, <2>1, <2>3, HandlerGoes
  <2>4. CASE handler' = [handler EXCEPT ![h].pc = "failed"] /\ UNCHANGED worker
    <3>1. PICK x : /\ handler' = [handler EXCEPT ![h] = x]
                   /\ x.pc = "failed" /\ x.dep = handler[h].dep /\ x.copy = handler[h].copy
      BY <2>1, <2>4, HandlerKeeps DEF HandlerPcs
    <3>2. CopyFits(x) /\ record[x.dep] # NoRecord
      BY <1>h, <2>1, <3>1 DEF CopyFits
    <3> QED
      BY <2>1, <2>4, <3>1, <3>2, HandlerGoes
  <2> QED
    BY <1>3, <2>2, <2>3, <2>4 DEF Dispatch
<1>4. CASE DispatchReturns(h) \/ HandlerDies(h)
  BY <1>i, <1>4, HandlerGoes DEF DispatchReturns, HandlerDies
<1>5. CASE DispatchThrows(h)
  <2>1. UNCHANGED <<record, canceller, worker>> /\ handler[h] # Idle
    BY <1>5 DEF DispatchThrows, Idle
  <2>2. CASE handler[h].pc = "waiting" /\ handler' = [handler EXCEPT ![h].pc = "failed"]
    <3>1. PICK x : /\ handler' = [handler EXCEPT ![h] = x]
                   /\ x.pc = "failed" /\ x.dep = handler[h].dep /\ x.copy = handler[h].copy
      BY <2>1, <2>2, HandlerKeeps DEF HandlerPcs
    <3>2. CopyFits(x) /\ record[x.dep] # NoRecord
      BY <1>h, <2>1, <2>2, <3>1 DEF CopyFits
    <3> QED
      BY <2>1, <3>1, <3>2, HandlerGoes
  <2>3. CASE /\ handler[h].pc = "waitingPass"
             /\ Threw(handler[h].dep, handler[h].copy.pass)
             /\ handler' = [handler EXCEPT ![h].pc = "failedPass"]
    <3> DEFINE d == handler[h].dep
               n == handler[h].copy.pass
    <3>1. PICK x : /\ handler' = [handler EXCEPT ![h] = x]
                   /\ x.pc = "failedPass" /\ x.dep = d /\ x.copy = handler[h].copy
      BY <2>1, <2>3, HandlerKeeps DEF HandlerPcs
    <3>2. CopyFits(x) /\ record[d] # NoRecord /\ d \in EdgeDeployments /\ n \in 0..MaxPasses
      BY <1>h, <2>1, <2>3, <3>1 DEF CopyFits, IsEdge, Record
    <3>3. worker[<<d, n>>] = Done(TRUE)
      BY <2>3 DEF Threw, Done
    <3> HIDE DEF d, n
    <3>4. n \in 1..MaxPasses
      BY <1>h, <2>1, <2>3, <3>2, DeploymentAssumption DEF CopyFits, n
    <3>5. ~Open(d) /\ Unattended(d)
      BY <3>2, <3>3, <3>4 DEF PassInv, ClaimsOf
    <3> QED
      BY <2>1, <3>1, <3>2, <3>5, HandlerGoes
  <2> QED
    BY <1>5, <2>2, <2>3 DEF DispatchThrows, Reset
<1>6. CASE FailDispatch(h)
  <2> DEFINE d == handler[h].dep
             r == [handler[h].copy EXCEPT !.status = "Failed"]
  <2>1. /\ handler[h] # Idle /\ handler[h].pc = "failed"
        /\ handler' = [handler EXCEPT ![h] = Idle]
        /\ record' = [record EXCEPT ![d] = r]
        /\ UNCHANGED <<canceller, worker>>
    BY <1>6 DEF FailDispatch, HandlerAt, Idle
  <2>2. d \in Deployments /\ record[d] # NoRecord /\ r \in Record /\ r.status = "Failed"
    BY <1>h, <2>1 DEF Record, Statuses, Terminal
  <2> HIDE DEF d, r
  <2>3. /\ handler'[h] = Idle /\ \A g \in Handlers : g # h => handler'[g] = handler[g]
        /\ record'[d] = r /\ \A f \in Deployments : f # d => record'[f] = record[f]
        /\ r # NoRecord
    BY <1>t, <2>1, <2>2 DEF NoRecord
  <2>4. ASSUME NEW f \in EdgeDeployments PROVE ClaimsOf(f)'
    <3>1. /\ f \in Deployments /\ ClaimsOf(f)
          /\ \A g \in Handlers : Sends(g, f)' =>
               Sends(g, f) /\ handler'[g].copy.pass = handler[g].copy.pass
      BY <2>3, DeploymentAssumption DEF PassInv, Sends, Idle
    <3>2. CASE f # d
      BY <2>1, <2>3, <3>1, <3>2, ClaimsUntouched
    <3>3. CASE f = d
      <4>1. /\ ~Open(f)' /\ (Unattended(f)' <=> Unattended(f))
            /\ \A n \in 1..MaxPasses : AtHand(<<f, n>>)' <=> AtHand(<<f, n>>)
        BY <2>1, <2>2, <2>3, <3>3 DEF Open, Unattended, AtHand, TakenOn
      <4>2. \A n \in 1..MaxPasses : worker'[<<f, n>>] = Done(TRUE) => Unattended(f)'
        BY <2>1, <3>1, <4>1 DEF ClaimsOf
      <4> QED
        BY <3>1, <4>1, <4>2, ClaimsKept
    <3> QED
      BY <3>2, <3>3
  <2>5. ASSUME NEW g \in Handlers, handler'[g] # Idle
        PROVE  CopyFits(handler'[g]) /\ Creates(g)'
    <3>1. /\ g # h /\ handler'[g] = handler[g] /\ handler[g].dep \in Deployments
          /\ CopyFits(handler[g]) /\ Creates(g)
      BY <1>t, <2>3, <2>5, HandlerFields DEF PassInv, CopiesFit
    <3> QED
      BY <2>2, <2>3, <3>1 DEF Creates
  <2>6. ASSUME NEW b \in Cancellers, canceller'[b] # Idle
        PROVE  record'[canceller'[b].dep] # NoRecord
    <3>1. canceller'[b] = canceller[b] /\ canceller[b].dep \in Deployments
      BY <2>1, <2>6 DEF TypeInv, TypeOK, CancellerStates
    <3> QED
      BY <2>3, <2>6, <3>1 DEF PassInv, CopiesFit
  <2> QED
    BY <2>1, <2>4, <2>5, <2>6 DEF PassInv, CopiesFit
<1> QED
  BY <1>1, <1>2, <1>3, <1>4, <1>5, <1>6

\* A handler that changes the record of an unfinished edge deployment with a
\* compare-and-set is left as its only claim, or leaves it without one.
LEMMA HandlerStores ==
    ASSUME TypeInv, PassInv, NEW h \in Handlers, handler[h] # Idle,
           NEW d \in EdgeDeployments, handler[h].dep = d,
           Open(d), OneClaim(d), record[d] # NoRecord,
           \A n \in 1..MaxPasses : ~AtHand(<<d, n>>),
           \A g \in Handlers : g # h => ~Sends(g, d),
           NEW x, handler' = [handler EXCEPT ![h] = x],
           NEW r \in Record, record' = [record EXCEPT ![d] = r],
           r.status = "InProgress", x.pc # "create", CopyFits(x),
           \/ x = Idle
           \/ /\ x.pc = "dispatchPass" /\ x.dep = d
              /\ r.conv = "running" /\ r.pass = x.copy.pass,
           UNCHANGED <<canceller, worker>>
    PROVE  PassInv'
<1>d. d \in Deployments
  BY DeploymentAssumption
<1>1. /\ handler'[h] = x /\ \A g \in Handlers : g # h => handler'[g] = handler[g]
      /\ record'[d] = r /\ \A f \in Deployments : f # d => record'[f] = record[f]
      /\ r # NoRecord
  BY <1>d DEF TypeInv, TypeOK, NoRecord
<1>2. ASSUME NEW f \in EdgeDeployments PROVE ClaimsOf(f)'
  <2>1. f \in Deployments /\ ClaimsOf(f)
    BY DeploymentAssumption DEF PassInv
  <2>2. CASE f # d
    <3>1. \A g \in Handlers : Sends(g, f)' =>
            Sends(g, f) /\ handler'[g].copy.pass = handler[g].copy.pass
      BY <1>1, <2>2 DEF Sends, Idle
    <3> QED
      BY <1>1, <2>1, <2>2, <3>1, ClaimsUntouched
  <2>3. CASE f = d
    <3>1. /\ \A n \in 1..MaxPasses : ~AtHand(<<f, n>>)'
          /\ \A g \in Handlers : g # h => ~Sends(g, f)'
      BY <1>1, <2>3 DEF AtHand, TakenOn, Sends
    <3>2. OneClaim(f)'
      BY <3>1 DEF OneClaim
    <3>3. Sends(h, f)' => Asks(f, handler[h].copy.pass)'
      BY <1>1, <2>3 DEF Sends, Asks, Idle
    <3>4. ClaimIsAsked(f)'
      BY <3>1, <3>3 DEF ClaimIsAsked
    <3>5. \A n \in 1..MaxPasses : worker'[<<f, n>>] # Done(TRUE)
      BY <2>1, <2>3 DEF ClaimsOf
    <3>6. record'[f].status # "Pending"
      BY <1>1, <2>3
    <3> QED
      BY <3>2, <3>4, <3>5, <3>6 DEF ClaimsOf
  <2> QED
    BY <2>2, <2>3
<1>3. ASSUME NEW g \in Handlers, handler'[g] # Idle
      PROVE  CopyFits(handler'[g]) /\ Creates(g)'
  <2>1. CASE g = h
    BY <1>1, <2>1 DEF Creates
  <2>2. CASE g # h
    <3>1. /\ handler'[g] = handler[g] /\ handler[g].dep \in Deployments
          /\ CopyFits(handler[g]) /\ Creates(g)
      BY <1>1, <1>3, <2>2, HandlerFields DEF PassInv, CopiesFit, TypeInv, TypeOK
    <3>2. handler[g].pc = "create" => handler[g].dep # d
      BY <3>1 DEF Creates
    <3>3. x = Idle \/ x.dep = d
      OBVIOUS
    <3> QED
      BY <1>1, <3>1, <3>2, <3>3 DEF Creates
  <2> QED
    BY <2>1, <2>2
<1>4. ASSUME NEW b \in Cancellers, canceller'[b] # Idle
      PROVE  record'[canceller'[b].dep] # NoRecord
  <2>1. canceller'[b] = canceller[b] /\ canceller[b].dep \in Deployments
    BY <1>4 DEF TypeInv, TypeOK, CancellerStates
  <2> QED
    BY <1>1, <1>4, <2>1 DEF PassInv, CopiesFit
<1> QED
  BY <1>2, <1>3, <1>4 DEF PassInv, CopiesFit

\* continueEdge keeps the claims in order: it leases a pass only of a record
\* that waits for one, and hands a lease back only if nobody works under it.
LEMMA PassContinue ==
    ASSUME TypeInv, PassInv, NEW h \in Handlers,
           \/ \E d \in Deployments : ContinueEdge(h, d)
           \/ LeasePass(h) \/ DispatchPass(h) \/ RereadPass(h) \/ UnleasePass(h)
    PROVE  PassInv'
<1>t. /\ handler \in [Handlers -> HandlerStates]
      /\ record \in [Deployments -> Record \cup {NoRecord}]
  BY DEF TypeInv, TypeOK
<1>i. CopyFits(Idle) /\ Idle.pc = "idle"
  BY DEF CopyFits, Idle
<1>h. handler[h] # Idle => /\ handler[h].dep \in Deployments
                           /\ handler[h].copy \in Record
                           /\ CopyFits(handler[h])
                           /\ handler[h].pc # "create" => record[handler[h].dep] # NoRecord
  BY <1>t, HandlerFields DEF PassInv, CopiesFit, TypeInv, RecordsExist
<1>1. ASSUME NEW d \in Deployments, ContinueEdge(h, d) PROVE PassInv'
  <2> DEFINE x == [pc |-> "lease", dep |-> d, copy |-> record[d], prior |-> "Deployed"]
  <2>1. /\ handler' = [handler EXCEPT ![h] = x]
        /\ UNCHANGED <<record, canceller, worker>>
        /\ IsEdge(d) /\ record[d].status = "InProgress" /\ record[d].conv = "ready"
    BY <1>1 DEF ContinueEdge
  <2>2. CopyFits(x) /\ x.pc = "lease" /\ record[x.dep] # NoRecord
    BY <2>1 DEF CopyFits, NoRecord
  <2> HIDE DEF x
  <2> QED
    BY <2>1, <2>2, HandlerGoes
<1>2. CASE LeasePass(h)
  <2> DEFINE d == handler[h].dep
             r == [handler[h].copy EXCEPT !.conv = "running", !.pass = @ + 1]
             x == [handler[h] EXCEPT !.pc = "dispatchPass", !.copy = r]
  <2>1. /\ handler[h] # Idle /\ handler[h].pc = "lease"
        /\ UNCHANGED <<canceller, worker>>
    BY <1>2 DEF LeasePass, HandlerAt, Idle
  <2>2. CASE RecordUnchanged(h)
    <3>1. /\ record' = [record EXCEPT ![d] = r] /\ handler' = [handler EXCEPT ![h] = x]
          /\ record[d] = handler[h].copy
      BY <1>2, <2>2 DEF LeasePass, RecordUnchanged
    <3>2. /\ d \in EdgeDeployments /\ record[d] # NoRecord
          /\ record[d].status = "InProgress" /\ record[d].conv = "ready"
      BY <1>h, <2>1, <3>1 DEF CopyFits, IsEdge
    <3>3. handler[h].copy.pass < MaxPasses
      BY <2>1 DEF TypeInv, LeaseInBounds
    <3>4. r \in Record /\ r.status = "InProgress" /\ r.conv = "running" /\ r.pass # 0
      <4>1. handler[h].copy \in Record /\ handler[h].copy.status = "InProgress"
        BY <1>h, <2>1 DEF CopyFits
      <4>2. /\ handler[h].copy.pass + 1 \in 0..MaxPasses
            /\ handler[h].copy.pass + 1 # 0
        BY <3>3, <4>1, DeploymentAssumption DEF Record
      <4> QED
        BY <4>1, <4>2 DEF Record
    <3>5. x.pc = "dispatchPass" /\ x.dep = d /\ x.copy = r
      BY <1>t, <2>1 DEF HandlerStates, Idle
    <3> HIDE DEF d, r, x
    <3>6. CopyFits(x)
      BY <3>2, <3>4, <3>5 DEF CopyFits, IsEdge
    <3>7. ClaimsOf(d) /\ Open(d) /\ \A n : ~Asks(d, n)
      BY <3>2 DEF PassInv, Open, Asks
    <3>8. OneClaim(d) /\ ClaimIsAsked(d)
      BY <3>7 DEF ClaimsOf
    <3>9. /\ \A n \in 1..MaxPasses : ~AtHand(<<d, n>>)
          /\ \A g \in Handlers : g # h => ~Sends(g, d)
      BY <3>7, <3>8 DEF ClaimIsAsked
    <3>10. handler[h].dep = d
      BY DEF d
    <3> QED
      BY <2>1, <3>1, <3>2, <3>4, <3>5, <3>6, <3>7, <3>8, <3>9, <3>10, HandlerStores
  <2>3. CASE ~RecordUnchanged(h)
    <3>1. handler' = [handler EXCEPT ![h] = Idle] /\ UNCHANGED record
      BY <1>2, <2>3 DEF LeasePass
    <3> QED
      BY <1>i, <2>1, <3>1, HandlerGoes
  <2> QED
    BY <2>2, <2>3
<1>3. CASE DispatchPass(h)
  <2>1. handler[h] # Idle /\ handler[h].pc = "dispatchPass" /\ UNCHANGED <<record, canceller>>
    BY <1>3 DEF DispatchPass, HandlerAt, Idle
  <2>2. CASE /\ Deliver(h, handler[h].dep, handler[h].copy.pass)
             /\ handler' = [handler EXCEPT ![h].pc = "waitingPass"]
    <3> DEFINE d == handler[h].dep
               n == handler[h].copy.pass
    <3>1. PICK x : /\ handler' = [handler EXCEPT ![h] = x]
                   /\ x.pc = "waitingPass" /\ x.dep = d /\ x.copy = handler[h].copy
      BY <2>1, <2>2, HandlerKeeps DEF HandlerPcs
    <3>2. /\ d \in Deployments /\ IsEdge(d) /\ Sends(h, d) /\ CopyFits(x)
          /\ n \in 1..MaxPasses
      BY <1>h, <2>1, <3>1, DeploymentAssumption DEF Sends, CopyFits, Record
    <3>3. Deliver(h, d, n) /\ handler[h].copy.pass = n
      BY <2>2
    <3> HIDE DEF d, n
    <3> QED
      BY <2>1, <3>1, <3>2, <3>3, HandlerSends
  <2>3. CASE handler' = [handler EXCEPT ![h] = Idle] /\ UNCHANGED worker
    BY <1>i, <2>1, <2>3, HandlerGoes
  <2>4. CASE handler' = [handler EXCEPT ![h].pc = "failedPass"] /\ UNCHANGED worker
    <3>1. PICK x : /\ handler' = [handler EXCEPT ![h] = x]
                   /\ x.pc = "failedPass" /\ x.dep = handler[h].dep
                   /\ x.copy = handler[h].copy
      <4>1. "failedPass" \in HandlerPcs
        BY DEF HandlerPcs
      <4> QED
        BY <2>1, <2>4, <4>1, HandlerKeeps
    <3>2. CopyFits(x) /\ record[x.dep] # NoRecord /\ Sends(h, x.dep)
      BY <1>h, <2>1, <3>1 DEF CopyFits, Sends
    <3> QED
      BY <2>1, <2>4, <3>1, <3>2, HandlerGoes
  <2> QED
    BY <1>3, <2>2, <2>3, <2>4 DEF DispatchPass
<1>4. CASE RereadPass(h)
  <2> DEFINE d == handler[h].dep
             x == [handler[h] EXCEPT !.pc = "unlease", !.copy = record[d]]
  <2>1. /\ handler[h] # Idle /\ handler[h].pc = "failedPass"
        /\ UNCHANGED <<record, canceller, worker>>
    BY <1>4 DEF RereadPass, HandlerAt, Idle
  <2>2. CASE handler' = [handler EXCEPT ![h] = Idle]
    BY <1>i, <2>1, <2>2, HandlerGoes
  <2>3. CASE /\ record[d].status = "InProgress" /\ record[d].conv = "running"
             /\ record[d].pass = handler[h].copy.pass
             /\ handler' = [handler EXCEPT ![h] = x]
    <3>1. x.pc = "unlease" /\ x.dep = d /\ x.copy = record[d]
      BY <1>t, <2>1 DEF HandlerStates, Idle
    <3>2. CopyFits(x) /\ record[x.dep] # NoRecord /\ Sends(h, x.dep)
      BY <1>h, <2>1, <2>3, <3>1 DEF CopyFits, Sends, IsEdge
    <3> HIDE DEF x
    <3> QED
      BY <2>1, <2>3, <3>1, <3>2, HandlerGoes
  <2> QED
    BY <1>4, <2>2, <2>3 DEF RereadPass
<1>5. CASE UnleasePass(h)
  <2> DEFINE d == handler[h].dep
             r == [handler[h].copy EXCEPT !.conv = "ready"]
  <2>1. /\ handler[h] # Idle /\ handler[h].pc = "unlease"
        /\ handler' = [handler EXCEPT ![h] = Idle]
        /\ UNCHANGED <<canceller, worker>>
    BY <1>5 DEF UnleasePass, HandlerAt, Idle
  <2>2. CASE RecordUnchanged(h)
    <3>1. record[d] = handler[h].copy /\ record' = [record EXCEPT ![d] = r]
      BY <1>5, <2>2 DEF UnleasePass, RecordUnchanged
    <3>2. /\ d \in EdgeDeployments /\ record[d] # NoRecord
          /\ record[d].status = "InProgress" /\ Sends(h, d)
      BY <1>h, <2>1, <3>1 DEF CopyFits, IsEdge, Sends
    <3>3. r \in Record /\ r.status = "InProgress"
      BY <1>h, <2>1, <3>1, <3>2 DEF Record
    <3> HIDE DEF d, r
    <3>4. ClaimsOf(d) /\ Open(d)
      BY <3>2 DEF PassInv, Open
    <3>5. OneClaim(d)
      BY <3>4 DEF ClaimsOf
    <3>6. /\ \A n \in 1..MaxPasses : ~AtHand(<<d, n>>)
          /\ \A g \in Handlers : g # h => ~Sends(g, d)
      BY <3>2, <3>5 DEF OneClaim
    <3>7. handler[h].dep = d
      BY DEF d
    <3> QED
      BY <1>i, <2>1, <3>1, <3>2, <3>3, <3>4, <3>5, <3>6, <3>7, HandlerStores
  <2>3. CASE ~RecordUnchanged(h)
    <3>1. UNCHANGED record
      BY <1>5, <2>3 DEF UnleasePass
    <3> QED
      BY <1>i, <2>1, <3>1, HandlerGoes
  <2> QED
    BY <2>2, <2>3
<1> QED
  BY <1>1, <1>2, <1>3, <1>4, <1>5

\* Every step keeps the claims in order.
LEMMA PassInductive ==
    ASSUME ~ Reset, TypeInv, PassInv, [Next]_vars
    PROVE  PassInv'
<1>1. ASSUME UNCHANGED <<record, handler, canceller, worker>> PROVE PassInv'
  <2>1. ASSUME NEW d \in EdgeDeployments PROVE ClaimsOf(d)'
    <3>1. ClaimsOf(d) /\ \A h \in Handlers : Sends(h, d)' => Sends(h, d)
      BY <1>1 DEF PassInv, Sends
    <3> QED
      BY <1>1, <3>1, ClaimsUntouched
  <2>2. \A h \in Handlers : Creates(h)' <=> Creates(h)
    BY <1>1 DEF Creates
  <2> QED
    BY <1>1, <2>1, <2>2 DEF PassInv, CopiesFit
<1>2. ASSUME \/ \E e \in Environments : CreateEnvironment(e) \/ DeleteEnvironment(e)
             \/ \E p \in Procs : FlipStep(p)
             \/ UNCHANGED vars
      PROVE  UNCHANGED <<record, handler, canceller, worker>>
  BY <1>2 DEF CreateEnvironment, DeleteEnvironment, FlipStep, ReadEnvironment,
     WriteEnvironment, vars
<1> QED
  BY <1>1, <1>2, PassExecute, PassContinue, PassCancel, PassWorker DEF Next, HandlerStep

\* At most one pass of a deployment works on its stack at a time, whatever
\* handlers and cancel requests race and whichever processes die, until a dispatch is
\* reported failed whose worker goes on.
THEOREM PassesTakeTurns == Spec /\ [][~ Reset]_vars => []OnePassAtATime
<1>1. Init => TypeInv /\ PassInv
  BY InitType, PassInit
<1>2. TypeInv /\ PassInv /\ [Next]_vars /\ [~ Reset]_vars => (TypeInv /\ PassInv)'
  BY TypeInductive, PassInductive, StutterResetsNothing
<1>3. ASSUME PassInv, NEW j \in Jobs, NEW k \in Jobs, j # k, j[1] = k[1],
             Acting(j), Acting(k)
      PROVE  FALSE
  <2>1. PICK d \in Deployments, m \in 1..MaxPasses, n \in 1..MaxPasses :
          j = <<d, m>> /\ k = <<d, n>>
    BY <1>3 DEF Jobs
  <2>2. m # n /\ TakenOn(<<d, m>>) /\ TakenOn(<<d, n>>)
    BY <1>3, <2>1 DEF Acting, TakenOn
  <2>3. CASE IsEdge(d)
    <3>1. OneClaim(d)
      BY <1>3, <2>2, <2>3 DEF PassInv, ClaimsOf, Unattended, IsEdge
    <3> QED
      BY <2>2, <3>1 DEF OneClaim, AtHand
  <2>4. CASE ~IsEdge(d)
    BY <1>3, <2>1, <2>2, <2>4 DEF PassInv, CopiesFit, JobFits, TakenOn
  <2> QED
    BY <2>3, <2>4
<1>4. TypeInv /\ PassInv => OnePassAtATime
  BY <1>3 DEF OnePassAtATime
<1> QED
  BY <1>1, <1>2, <1>4, PTL DEF Spec

-----------------------------------------------------------------------------
(* Invocations that do not contest an environment                          *)

\* API invocation h is under way on environment e: it has been admitted there, or is
\* inside updateStatus.
UnderWay(h, e) == \/ handler[h] # Idle /\ handler[h].copy.env = e
                  \/ flip[h] # NoFlip /\ flip[h].env = e
Disputed(h, e) == \E g \in Handlers \ {h} : UnderWay(g, e)

\* An environment is contested: a request is admitted there while another is under way
\* (both may have read the status before either flips it), a cancellation is forced or
\* meets a deployment at the edge (it settles the environment at once), or a dispatch
\* is reported failed whose worker goes on.
Contest ==
    \/ \E h \in Handlers, d \in Deployments, e \in Environments, a \in Actions :
         Admit(h, d, e, a) /\ Disputed(h, e)
    \/ \E h \in Handlers, d \in Deployments :
         ContinueEdge(h, d) /\ Disputed(h, record[d].env)
    \/ \E c \in Cancellers, d \in Deployments, force \in Forces :
         CancelRead(c, d, force) /\ (force \/ IsEdge(d))
    \/ Reset

\* Nobody contests anything by doing nothing.
LEMMA StutterContestsNothing ==
    ASSUME TypeInv, UNCHANGED vars
    PROVE  ~ Contest
<1>1. /\ handler' = handler /\ canceller' = canceller
      /\ handler \in [Handlers -> HandlerStates]
      /\ canceller \in [Cancellers -> CancellerStates]
  BY DEF TypeInv, TypeOK, vars
<1>2. ASSUME NEW h \in Handlers, NEW d \in Deployments, NEW e \in Environments,
             NEW a \in Actions, Admit(h, d, e, a)
      PROVE  FALSE
  <2>1. handler[h].pc = "idle" /\ handler'[h].pc = "create"
    BY <1>1, <1>2 DEF Admit, HandlerAt
  <2> QED
    BY <1>1, <2>1
<1>3. ASSUME NEW h \in Handlers, NEW d \in Deployments, ContinueEdge(h, d)
      PROVE  FALSE
  <2>1. handler[h].pc = "idle" /\ handler'[h].pc = "lease"
    BY <1>1, <1>3 DEF ContinueEdge, HandlerAt
  <2> QED
    BY <1>1, <2>1
<1>4. ASSUME NEW c \in Cancellers, NEW d \in Deployments, NEW force \in Forces,
             CancelRead(c, d, force)
      PROVE  FALSE
  <2>1. canceller[c].pc = "idle" /\ canceller'[c].pc = "write"
    BY <1>1, <1>4 DEF CancelRead, Idle
  <2> QED
    BY <1>1, <2>1
<1> QED
  BY <1>2, <1>3, <1>4, StutterResetsNothing DEF Contest

\* No two API invocations are under way on one environment.
OneInvocation ==
    \A g, h \in Handlers, e \in Environments :
        UnderWay(g, e) /\ UnderWay(h, e) => g = h

\* An edge deployment between two passes: nobody works on it, and its environment
\* has to be kept for it.
Waiting(d) == record[d].status = "InProgress" /\ record[d].conv = "ready"

\* The deployments that are not at the edge have nothing of its machinery, and those
\* at the edge are not cancelled.
PlainRecords ==
    /\ \A d \in Deployments : record[d] # NoRecord /\ ~IsEdge(d) =>
         record[d].conv = "none"
    /\ \A h \in Handlers : handler[h] # Idle /\ ~IsEdge(handler[h].dep) =>
         handler[h].copy.conv = "none"
    /\ \A c \in Cancellers : canceller[c] # Idle =>
         canceller[c].copy.conv = "none" /\ ~canceller[c].force
    /\ \A j \in Jobs : worker[j].pc \notin {"none", "done", "dead"} /\ ~IsEdge(j[1]) =>
         /\ worker[j].pc \notin {"publish", "yield", "yielding"}
         /\ worker[j].copy.conv = "none"

\* Every local copy of a record names the environment of the stored record.
SameEnvironment ==
    /\ \A h \in Handlers : handler[h] # Idle =>
         IF handler[h].pc = "create"
         THEN record[handler[h].dep] = NoRecord
         ELSE handler[h].copy.env = record[handler[h].dep].env
    /\ \A c \in Cancellers : canceller[c] # Idle =>
         /\ record[canceller[c].dep] # NoRecord
         /\ canceller[c].copy.env = record[canceller[c].dep].env
    /\ \A j \in Jobs : worker[j].pc \notin {"none", "done", "dead"} =>
         worker[j].copy.env = EnvOf(j)

\* No job is at work on environment e, and no deployment waits for its next pass there.
Quiet(e) == /\ \A j \in Jobs : Live(j) => EnvOf(j) # e
            /\ \A d \in Deployments : Waiting(d) => record[d].env # e

\* Who may be inside updateStatus, and about which environment.
FlipsOwned ==
    /\ \A c \in Cancellers : flip[c] = NoFlip
    /\ \A j \in Jobs : flip[j] # NoFlip =>
         worker[j].pc = "done" /\ flip[j].env = EnvOf(j)
    /\ \A h \in Handlers : flip[h] # NoFlip =>
         /\ handler[h] = Idle \/ handler[h].pc = "dispatch"
         /\ Quiet(flip[h].env)

\* Handler h is to carry on an edge deployment, or to hand its pass back.
Carries(h) == \/ handler[h].pc \in {"lease", "dispatchPass"}
              \/ handler[h].pc \in {"failedPass", "unlease"} /\ Open(handler[h].dep)

\* A handler that is about to dispatch has found its environment, and flipped
\* it unless it was deleted; one that carries on an edge deployment finds it so.
ReadyToDispatch ==
    \A h \in Handlers : handler[h] # Idle =>
        /\ environment[handler[h].copy.env].status # "Unborn"
        /\ Carries(h) => environment[handler[h].copy.env].status \in Busy \cup {"Deleted"}
        /\ handler[h].pc = "dispatch" =>
             /\ flip[h] = NoFlip =>
                  environment[handler[h].copy.env].status
                      \in Busy \cup {"Deleted"}
             /\ flip[h] # NoFlip => flip[h].env = handler[h].copy.env
             /\ flip[h].pc = "read" => flip[h].status \in Busy
             /\ flip[h].pc = "write" => flip[h].next.status \in Busy

\* Handler h waits for the answer of job j.
Awaits(h, j) == \/ handler[h].pc = "waiting" /\ j = <<handler[h].dep, 1>>
                \/ handler[h].pc = "waitingPass"
                   /\ j = <<handler[h].dep, handler[h].copy.pass>>

\* A job at work has its environment to itself: it is busy, no other job and no
\* handler but the one that waits for this job is concerned with it.
LiveJobsOwn ==
    /\ \A j \in Jobs : Live(j) =>
         environment[EnvOf(j)].status \in Busy \cup {"Deleted"}
    /\ \A j, k \in Jobs : Live(j) /\ Live(k) /\ EnvOf(j) = EnvOf(k) => j = k
    /\ \A h \in Handlers, j \in Jobs :
         handler[h] # Idle /\ Live(j) /\ EnvOf(j) = handler[h].copy.env =>
             Awaits(h, j)

\* So has a deployment that waits for its next pass.
WaitingOwn ==
    /\ \A d \in Deployments : Waiting(d) =>
         environment[record[d].env].status \in Busy \cup {"Deleted"}
    /\ \A d \in Deployments, j \in Jobs : Waiting(d) /\ Live(j) => EnvOf(j) # record[d].env
    /\ \A c, d \in Deployments :
         Waiting(c) /\ Waiting(d) /\ record[c].env = record[d].env => c = d
    /\ \A h \in Handlers, d \in Deployments :
         handler[h] # Idle /\ Waiting(d) /\ record[d].env = handler[h].copy.env =>
             handler[h].dep = d

SerialInv == /\ OneInvocation /\ PlainRecords /\ SameEnvironment /\ FlipsOwned
             /\ ReadyToDispatch /\ LiveJobsOwn /\ WaitingOwn

\* Processes of two kinds are never the same.
LEMMA Distinct ==
    /\ \A h \in Handlers : h \in Procs /\ h \notin Cancellers /\ h \notin Jobs
    /\ \A c \in Cancellers : c \in Procs /\ c \notin Handlers /\ c \notin Jobs
    /\ \A j \in Jobs : j \in Procs /\ j \notin Handlers /\ j \notin Cancellers
                         /\ j[1] \in Deployments
BY ProcessesDistinct DEF Procs, Jobs

\* Invocations go on where they are, or end.
LEMMA InvocationsKept ==
    ASSUME SerialInv,
           \A h \in Handlers : handler'[h] # Idle =>
             UnderWay(h, handler'[h].copy.env),
           \A h \in Handlers : flip'[h] # NoFlip => UnderWay(h, flip'[h].env)
    PROVE  OneInvocation'
<1>1. \A h \in Handlers, e \in Environments : UnderWay(h, e)' => UnderWay(h, e)
  BY DEF UnderWay
<1> QED
  BY <1>1 DEF SerialInv, OneInvocation

\* One begins where there is none.
LEMMA InvocationBegins ==
    ASSUME SerialInv, NEW h \in Handlers, NEW e, ~ Disputed(h, e),
           \A g \in Handlers : g # h => handler'[g] = handler[g],
           handler'[h].copy.env = e, flip[h] = NoFlip, UNCHANGED flip
    PROVE  OneInvocation'
BY DEF SerialInv, OneInvocation, UnderWay, Disputed

\* The environment of an invocation, which no other one is concerned with.
LEMMA InvocationAlone ==
    ASSUME TypeInv, SerialInv, NEW h \in Handlers, handler[h] # Idle
    PROVE  /\ handler[h].copy.env \in Environments
           /\ \A g \in Handlers : g # h =>
                /\ handler[g] # Idle => handler[g].copy.env # handler[h].copy.env
                /\ flip[g] # NoFlip => flip[g].env # handler[h].copy.env
<1>1. handler[h].copy.env \in Environments
  BY HandlerFields DEF TypeInv, TypeOK, Record
<1> QED
  BY <1>1 DEF SerialInv, OneInvocation, UnderWay

\* The stored records change, but none appears, vanishes or moves to another
\* environment, and those of plain deployments stay plain.
RecordsAgree ==
    \A d \in Deployments :
        \/ record'[d] = record[d]
        \/ /\ record[d] # NoRecord /\ record'[d] # NoRecord
           /\ record'[d].env = record[d].env
           /\ ~IsEdge(d) => record'[d].conv = "none"

\* Then every job stays with its environment.
LEMMA AgreeingEnvironments ==
    ASSUME RecordsAgree
    PROVE  \A j \in Jobs : EnvOf(j)' = EnvOf(j)
BY Distinct DEF RecordsAgree, EnvOf

\* A deployment that waits has a record, and is one at the edge.
LEMMA WaitingEdge ==
    ASSUME SerialInv, NEW d \in Deployments, Waiting(d)
    PROVE  record[d] # NoRecord /\ IsEdge(d) /\ Open(d)
BY DEF Waiting, NoRecord, SerialInv, PlainRecords, Open

\* The claims on an environment are kept by a step that makes no new ones: jobs and
\* waiting deployments keep theirs, and the environments stay as they are.
LEMMA ClaimsOfJobs ==
    ASSUME SerialInv, RecordsAgree, UNCHANGED environment,
           \A j \in Jobs : Live(j)' => Live(j),
           \A d \in Deployments : Waiting(d)' => Waiting(d),
           \A h \in Handlers : handler'[h] # Idle =>
             /\ handler[h] # Idle
             /\ handler'[h].copy.env = handler[h].copy.env
             /\ handler'[h].dep = handler[h].dep
             /\ \A j \in Jobs : Live(j)' /\ EnvOf(j)' = handler'[h].copy.env =>
                  (Awaits(h, j) => Awaits(h, j)')
    PROVE  LiveJobsOwn' /\ WaitingOwn'
<1>1. \A j \in Jobs : EnvOf(j)' = EnvOf(j)
  BY AgreeingEnvironments
<1>2. \A d \in Deployments : record'[d].env = record[d].env
  BY DEF RecordsAgree
<1>3. LiveJobsOwn'
  BY <1>1 DEF SerialInv, LiveJobsOwn
<1>4. WaitingOwn'
  BY <1>1, <1>2 DEF SerialInv, WaitingOwn
<1> QED
  BY <1>3, <1>4

\* A job at work goes on, or stops; only when it stops it may leave its deployment
\* waiting.
LEMMA JobGoesOn ==
    ASSUME TypeInv, SerialInv, NEW j \in Jobs, Live(j), RecordsAgree,
           \A d \in Deployments : d # j[1] => record'[d] = record[d],
           NEW x \in WorkerStates, worker' = [worker EXCEPT ![j] = x],
           x.pc # "none",
           x.pc \notin {"done", "dead"} =>
               /\ ~IsEdge(j[1]) => /\ x.pc \notin {"publish", "yield", "yielding"}
                                   /\ x.copy.conv = "none"
               /\ x.copy.env = EnvOf(j),
           NEW f, flip' = [flip EXCEPT ![j] = f],
           f # NoFlip => x.pc = "done" /\ f.env = EnvOf(j),
           Waiting(j[1])' => x.pc = "done" /\ f = NoFlip,
           UNCHANGED <<environment, handler, canceller>>
    PROVE  SerialInv'
<1>1. \A k \in Jobs : EnvOf(k)' = EnvOf(k)
  BY AgreeingEnvironments
<1>2. \A k \in Jobs : k # j => worker'[k] = worker[k] /\ flip'[k] = flip[k]
  BY DEF TypeInv, TypeOK
<1>3. worker'[j] = x /\ flip'[j] = f
  BY Distinct DEF TypeInv, TypeOK
<1>4. \A p \in Handlers \cup Cancellers : flip'[p] = flip[p]
  BY Distinct DEF TypeInv, TypeOK
<1>5. \A k \in Jobs : Live(k)' => Live(k)
  BY <1>2 DEF Live
<1>6. \A d \in Deployments : /\ record'[d] # NoRecord <=> record[d] # NoRecord
                             /\ record'[d].env = record[d].env
  BY DEF RecordsAgree
<1>7. j[1] \in Deployments /\ EnvOf(j) = record[j[1]].env
  BY Distinct DEF EnvOf
<1>8. Waiting(j[1])' => ~Live(j)'
  BY <1>3 DEF Live
<1>9. \A d \in Deployments : d # j[1] => (Waiting(d)' <=> Waiting(d))
  BY DEF Waiting
<1>10. ASSUME NEW h \in Handlers, handler[h] # Idle
       PROVE  handler[h].dep \in Deployments
  BY <1>10, HandlerFields DEF TypeInv, TypeOK
<1>11. PlainRecords'
  BY <1>2, <1>3, <1>10 DEF SerialInv, PlainRecords, RecordsAgree
<1>12. SameEnvironment'
  <2>1. ASSUME NEW c \in Cancellers, canceller[c] # Idle
        PROVE  canceller[c].dep \in Deployments
    BY <2>1 DEF TypeInv, TypeOK, CancellerStates
  <2> QED
    BY <1>1, <1>2, <1>3, <1>6, <1>10, <2>1
    DEF SerialInv, SameEnvironment, TypeInv, RecordsExist
<1>13. FlipsOwned'
  <2>1. ASSUME NEW h \in Handlers, flip[h] # NoFlip
        PROVE  Quiet(flip[h].env)'
    <3>1. Quiet(flip[h].env) /\ flip'[h] = flip[h]
      BY <1>4, <2>1 DEF SerialInv, FlipsOwned
    <3>2. EnvOf(j) # flip[h].env
      BY <3>1 DEF Quiet
    <3> QED
      BY <1>1, <1>5, <1>6, <1>7, <1>9, <3>1, <3>2 DEF Quiet
  <2> QED
    BY <1>1, <1>2, <1>3, <1>4, <2>1 DEF SerialInv, FlipsOwned
<1>14. ReadyToDispatch'
  <2>1. ASSUME NEW h \in Handlers, handler[h] # Idle, Carries(h)' PROVE Carries(h)
    <3>1. handler[h].pc \notin {"waiting", "waitingPass", "create"} /\ handler'[h] = handler[h]
      BY <2>1 DEF Carries
    <3>2. handler[h].copy.env = record[handler[h].dep].env
      BY <2>1, <3>1 DEF SerialInv, SameEnvironment
    <3>3. handler[h].dep # j[1]
      BY <1>7, <2>1, <3>1, <3>2 DEF SerialInv, LiveJobsOwn, Awaits
    <3> QED
      BY <1>10, <2>1, <3>1, <3>3 DEF Carries, Open
  <2> QED
    BY <1>4, <2>1 DEF SerialInv, ReadyToDispatch
<1>t. OneInvocation'
  BY <1>4 DEF SerialInv, OneInvocation, UnderWay
<1>15. LiveJobsOwn'
  BY <1>1, <1>5 DEF SerialInv, LiveJobsOwn, Awaits
<1>16. WaitingOwn'
  <2>1. /\ \A d \in Deployments : Waiting(d)' =>
             environment'[record'[d].env].status \in Busy \cup {"Deleted"}
        /\ \A d \in Deployments, k \in Jobs :
             Waiting(d)' /\ Live(k)' => EnvOf(k)' # record'[d].env
    BY <1>1, <1>5, <1>6, <1>7, <1>8, <1>9 DEF SerialInv, WaitingOwn, LiveJobsOwn
  <2>2. \A c, d \in Deployments :
          Waiting(c)' /\ Waiting(d)' /\ record'[c].env = record'[d].env => c = d
    BY <1>6, <1>7, <1>9 DEF SerialInv, WaitingOwn
  <2>3. \A h \in Handlers, d \in Deployments :
          handler'[h] # Idle /\ Waiting(d)' /\ record'[d].env = handler'[h].copy.env =>
            handler'[h].dep = d
    <3>1. \A h \in Handlers : Awaits(h, j) => handler[h].dep = j[1]
      BY DEF Awaits
    <3> QED
      BY <1>6, <1>7, <1>9, <3>1 DEF SerialInv, WaitingOwn, LiveJobsOwn
  <2> QED
    BY <2>1, <2>2, <2>3 DEF WaitingOwn
<1> QED
  BY <1>t, <1>11, <1>12, <1>13, <1>14, <1>15, <1>16 DEF SerialInv

\* Creating or deleting an environment disturbs nothing that is at work on it.
LEMMA SerialEnvironment ==
    ASSUME TypeInv, SerialInv, NEW e \in Environments,
           CreateEnvironment(e) \/ DeleteEnvironment(e)
    PROVE  SerialInv'
<1>1. UNCHANGED <<record, handler, canceller, worker, flip>>
  BY DEF CreateEnvironment, DeleteEnvironment
<1>2. OneInvocation' /\ PlainRecords' /\ SameEnvironment' /\ FlipsOwned'
  BY <1>1
  DEF SerialInv, OneInvocation, UnderWay, PlainRecords, SameEnvironment, FlipsOwned,
      Quiet, Live, EnvOf, Waiting
<1>3. \A i \in Environments :
        \/ environment'[i] = environment[i]
        \/ /\ environment'[i].status \in {"Pending", "Deleted"}
           /\ \/ environment[i].status = "Unborn"
              \/ environment'[i].status = "Deleted"
  BY DEF CreateEnvironment, DeleteEnvironment, TypeInv, TypeOK, Environment
<1>4. ASSUME NEW h \in Handlers, handler[h] # Idle
      PROVE  handler[h].copy.env \in Environments
  BY <1>4, HandlerFields DEF TypeInv, TypeOK, Record
<1>5. ReadyToDispatch'
  BY <1>1, <1>3, <1>4 DEF SerialInv, ReadyToDispatch, Busy, Carries, Open
<1>6. ASSUME NEW d \in Deployments, record[d] # NoRecord
      PROVE  record[d].env \in Environments
  BY <1>6, StoredRecord DEF TypeInv, Record
<1>7. ASSUME NEW j \in Jobs, Live(j)
      PROVE  EnvOf(j) \in Environments
  BY <1>6, <1>7, Distinct DEF TypeInv, RecordsExist, Live, EnvOf
<1>8. LiveJobsOwn'
  BY <1>1, <1>3, <1>7 DEF SerialInv, LiveJobsOwn, Busy, Live, EnvOf, Awaits
<1>9. WaitingOwn'
  <2>1. \A d \in Deployments : Waiting(d) => record[d].env \in Environments
    BY <1>6, WaitingEdge
  <2> QED
    BY <1>1, <1>3, <2>1 DEF SerialInv, WaitingOwn, Waiting, Busy, Live, EnvOf
<1> QED
  BY <1>2, <1>5, <1>8, <1>9 DEF SerialInv

\* A step of updateStatus that only reads.
LEMMA SerialRead ==
    ASSUME TypeInv, SerialInv, NEW p \in Procs, ReadEnvironment(p)
    PROVE  SerialInv'
<1>1. UNCHANGED <<record, environment, handler, canceller, worker>>
  BY DEF ReadEnvironment
<1>2. flip[p] \in [pc : {"read"}, env : Environments, status : EnvStatuses,
                   url : {"set", "clear", "keep"}]
  BY DEF ReadEnvironment, FlipStates, NoFlip, TypeInv, TypeOK
<1>3. \A q \in Procs : q # p => flip'[q] = flip[q]
  BY DEF ReadEnvironment, TypeInv, TypeOK
<1>4. \/ /\ flip'[p] = NoFlip /\ ~Exists(flip[p].env)
      \/ /\ flip'[p] # NoFlip /\ flip'[p].pc = "write"
         /\ flip'[p].env = flip[p].env
         /\ flip'[p].next.status = flip[p].status
  BY DEF ReadEnvironment, NoFlip, TypeInv, TypeOK
<1>5. flip[p] # NoFlip
  BY <1>2 DEF NoFlip
<1>6. \A j \in Jobs : Live(j)' => Live(j)
  BY <1>1, <1>3, <1>5, Distinct DEF Live
<1>7. PlainRecords' /\ SameEnvironment'
  BY <1>1 DEF SerialInv, PlainRecords, SameEnvironment, EnvOf
<1>t. OneInvocation'
  <2>1. \A h \in Handlers : flip'[h] # NoFlip => flip[h] # NoFlip /\ flip'[h].env = flip[h].env
    BY <1>3, <1>4, <1>5, Distinct
  <2> QED
    BY <1>1, <2>1, InvocationsKept DEF UnderWay
<1>8. FlipsOwned'
  BY <1>1, <1>3, <1>4, <1>5, <1>6, Distinct
  DEF SerialInv, FlipsOwned, Quiet, EnvOf, Waiting
<1>9. ReadyToDispatch'
  <2>0. \A h \in Handlers : Carries(h)' <=> Carries(h)
    BY <1>1 DEF Carries, Open
  <2> SUFFICES ASSUME NEW h \in Handlers, handler[h] # Idle,
                      handler[h].pc = "dispatch", h = p
               PROVE  /\ flip'[h] = NoFlip =>
                           environment[handler[h].copy.env].status
                               \in Busy \cup {"Deleted"}
                      /\ flip'[h] # NoFlip =>
                           flip'[h].env = handler[h].copy.env
                      /\ flip'[h].pc = "read" => flip'[h].status \in Busy
                      /\ flip'[h].pc = "write" =>
                           flip'[h].next.status \in Busy
    BY <1>1, <1>3, <2>0, Distinct DEF SerialInv, ReadyToDispatch
  <2>1. /\ flip[p].env = handler[h].copy.env
        /\ flip[p].status \in Busy
        /\ environment[flip[p].env].status # "Unborn"
    BY <1>2, <1>5 DEF SerialInv, ReadyToDispatch
  <2>2. CASE flip'[p] = NoFlip /\ ~Exists(flip[p].env)
    <3>1. environment[flip[p].env].status = "Deleted"
      BY <1>2, <2>1, <2>2 DEF Exists, TypeInv, TypeOK, Environment
    <3> QED
      BY <2>1, <2>2, <3>1 DEF NoFlip
  <2>3. CASE /\ flip'[p] # NoFlip /\ flip'[p].pc = "write"
             /\ flip'[p].env = flip[p].env
             /\ flip'[p].next.status = flip[p].status
    BY <2>1, <2>3
  <2> QED
    BY <1>4, <2>2, <2>3
<1>10. LiveJobsOwn' /\ WaitingOwn'
  BY <1>1, <1>6 DEF SerialInv, LiveJobsOwn, WaitingOwn, Waiting, EnvOf, Awaits
<1> QED
  BY <1>t, <1>7, <1>8, <1>9, <1>10 DEF SerialInv

\* A step of updateStatus that writes: the call is a handler's, and nothing is
\* at work on the environment, or the last step of a job.
LEMMA SerialWrite ==
    ASSUME TypeInv, SerialInv, NEW p \in Procs, WriteEnvironment(p)
    PROVE  SerialInv'
<1> DEFINE e == flip[p].env
<1>1. UNCHANGED <<record, handler, canceller, worker>>
  BY DEF WriteEnvironment
<1>2. flip[p] \in [pc : {"write"}, env : Environments,
                   next : [status : EnvStatuses, url : BOOLEAN]]
  BY DEF WriteEnvironment, FlipStates, NoFlip, TypeInv, TypeOK
<1>3. flip[p] # NoFlip
  BY <1>2 DEF NoFlip
<1>4. flip'[p] = NoFlip /\ \A q \in Procs : q # p => flip'[q] = flip[q]
  BY DEF WriteEnvironment, TypeInv, TypeOK
<1>5. /\ environment'[e] = flip[p].next
      /\ \A i \in Environments : i # e => environment'[i] = environment[i]
      /\ environment'[e].status \in EnvStatuses
  BY <1>2 DEF WriteEnvironment, TypeInv, TypeOK
<1>6. \A j \in Jobs : Live(j)' => Live(j)
  BY <1>1, <1>3, <1>4, Distinct DEF Live
<1>7. \A j \in Jobs : Live(j)' => EnvOf(j) # e
  <2>1. CASE p \in Handlers
    BY <1>3, <1>6, <2>1 DEF SerialInv, FlipsOwned, Quiet
  <2>2. CASE p \in Jobs
    <3>1. Live(p) /\ EnvOf(p) = e
      BY <1>3, <2>2 DEF SerialInv, FlipsOwned, Live
    <3>2. ~Live(p)'
      BY <1>1, <1>3, <1>4, <2>2 DEF SerialInv, FlipsOwned, Live
    <3> QED
      BY <1>6, <2>2, <3>1, <3>2 DEF SerialInv, LiveJobsOwn
  <2> QED
    BY <1>3, <2>1, <2>2 DEF SerialInv, FlipsOwned, Procs
<1>w. \A d \in Deployments : Waiting(d) => record[d].env # e
  <2>1. CASE p \in Handlers
    BY <1>3, <2>1 DEF SerialInv, FlipsOwned, Quiet
  <2>2. CASE p \in Jobs
    BY <1>3, <2>2 DEF SerialInv, FlipsOwned, Live, WaitingOwn
  <2> QED
    BY <1>3, <2>1, <2>2 DEF SerialInv, FlipsOwned, Procs
<1>t. OneInvocation'
  BY <1>1, <1>4, Distinct, InvocationsKept DEF UnderWay
<1>8. PlainRecords' /\ SameEnvironment'
  BY <1>1 DEF SerialInv, PlainRecords, SameEnvironment, EnvOf
<1>9. FlipsOwned'
  BY <1>1, <1>4, <1>6, Distinct DEF SerialInv, FlipsOwned, Quiet, EnvOf, NoFlip, Waiting
<1>10. ASSUME NEW h \in Handlers, handler[h] # Idle
       PROVE  handler[h].copy.env \in Environments
  BY <1>10, HandlerFields DEF TypeInv, TypeOK, Record
<1>11. ReadyToDispatch'
  <2> SUFFICES ASSUME NEW h \in Handlers, handler[h] # Idle
               PROVE
        /\ environment'[handler[h].copy.env].status # "Unborn"
        /\ Carries(h) =>
             environment'[handler[h].copy.env].status \in Busy \cup {"Deleted"}
        /\ handler[h].pc = "dispatch" =>
             /\ flip'[h] = NoFlip =>
                  environment'[handler[h].copy.env].status
                      \in Busy \cup {"Deleted"}
             /\ flip'[h] # NoFlip => flip'[h].env = handler[h].copy.env
             /\ flip'[h].pc = "read" => flip'[h].status \in Busy
             /\ flip'[h].pc = "write" => flip'[h].next.status \in Busy
    BY <1>1 DEF ReadyToDispatch, Carries, Open
  <2>1. environment'[handler[h].copy.env].status # "Unborn"
    BY <1>5, <1>10 DEF SerialInv, ReadyToDispatch, EnvStatuses, Busy
  <2>2. ASSUME handler[h].pc = "dispatch", p = h
        PROVE  environment'[handler[h].copy.env].status \in Busy
    BY <1>2, <1>3, <1>5, <2>2 DEF SerialInv, ReadyToDispatch
  <2>3. ASSUME handler[h].pc = "dispatch" \/ Carries(h), p # h
        PROVE  handler[h].copy.env # e
    <3>1. CASE p \in Handlers
      BY <1>3, <2>3, <3>1, InvocationAlone
    <3>2. CASE p \in Jobs
      <4>1. Live(p) /\ EnvOf(p) = e
        BY <1>3, <3>2 DEF SerialInv, FlipsOwned, Live
      <4> QED
        BY <2>3, <3>2, <4>1 DEF SerialInv, LiveJobsOwn, Awaits, Carries
    <3> QED
      BY <1>3, <3>1, <3>2 DEF SerialInv, FlipsOwned, Procs
  <2>4. CASE p = h
    <3>1. ~Carries(h)
      BY <1>3, <2>4 DEF SerialInv, FlipsOwned, Carries
    <3> QED
      BY <1>4, <2>1, <2>2, <2>4, <3>1 DEF NoFlip
  <2>5. CASE p # h
    BY <1>4, <1>5, <1>10, <2>1, <2>3, <2>5, Distinct
    DEF SerialInv, ReadyToDispatch
  <2> QED
    BY <2>4, <2>5
<1>12. ASSUME NEW j \in Jobs, Live(j)
       PROVE  EnvOf(j) \in Environments
  <2>1. record[j[1]] \in Record
    BY <1>12, Distinct DEF TypeInv, TypeOK, RecordsExist, Live
  <2> QED
    BY <2>1 DEF Record, EnvOf
<1>13. LiveJobsOwn'
  BY <1>1, <1>5, <1>6, <1>7, <1>12 DEF SerialInv, LiveJobsOwn, EnvOf, Awaits
<1>14. WaitingOwn'
  <2>1. \A d \in Deployments : Waiting(d) => record[d].env \in Environments
    BY WaitingEdge, StoredRecord DEF TypeInv, Record
  <2> QED
    BY <1>1, <1>5, <1>6, <1>w, <2>1 DEF SerialInv, WaitingOwn, Waiting, EnvOf
<1> QED
  BY <1>t, <1>8, <1>9, <1>11, <1>13, <1>14 DEF SerialInv

\* A cancel request reads a record, or writes Cancelling over it.
LEMMA SerialCancel ==
    ASSUME TypeInv, SerialInv, ~ Contest, NEW c \in Cancellers,
           \/ \E d \in Deployments, force \in Forces : CancelRead(c, d, force)
           \/ CancelWrite(c)
    PROVE  SerialInv'
<1>1. ASSUME NEW d \in Deployments, NEW force \in Forces, CancelRead(c, d, force)
      PROVE  SerialInv'
  <2>1. UNCHANGED <<record, environment, handler, worker, flip>>
    BY <1>1 DEF CancelRead
  <2>2. /\ canceller'[c] = [pc |-> "write", dep |-> d, force |-> force,
                           copy |-> record[d]]
        /\ \A b \in Cancellers : b # c => canceller'[b] = canceller[b]
    BY <1>1 DEF CancelRead, TypeInv, TypeOK
  <2>3. record[d] # NoRecord /\ force = FALSE /\ ~ IsEdge(d) /\ record[d].conv = "none"
    BY <1>1, DeploymentAssumption DEF CancelRead, Contest, SerialInv, PlainRecords
  <2>4. PlainRecords'
    BY <2>1, <2>2, <2>3 DEF SerialInv, PlainRecords
  <2>5. SameEnvironment'
    BY <2>1, <2>2, <2>3 DEF SerialInv, SameEnvironment, EnvOf
  <2>6. FlipsOwned' /\ ReadyToDispatch' /\ OneInvocation'
    BY <2>1 DEF SerialInv, FlipsOwned, ReadyToDispatch, Quiet, Live, EnvOf, Waiting,
       Carries, Open, OneInvocation, UnderWay
  <2>7. LiveJobsOwn' /\ WaitingOwn'
    BY <2>1 DEF SerialInv, LiveJobsOwn, WaitingOwn, Live, EnvOf, Waiting, Awaits
  <2> QED
    BY <2>4, <2>5, <2>6, <2>7 DEF SerialInv
<1>2. CASE CancelWrite(c)
  <2>1. /\ canceller[c] # Idle /\ canceller[c].copy \in Record
        /\ canceller[c].dep \in Deployments
    BY <1>2 DEF CancelWrite, TypeInv, TypeOK, CancellerStates, Idle
  <2>2. ~CancelSettles(c)
    BY <2>1 DEF CancelSettles, SerialInv, PlainRecords
  <2>3. /\ record' = [record EXCEPT ![canceller[c].dep] =
                        [canceller[c].copy EXCEPT !.status = "Cancelling"]]
        /\ UNCHANGED <<environment, handler, worker, flip>>
        /\ canceller' = [canceller EXCEPT ![c] = Idle]
    BY <1>2, <2>2 DEF CancelWrite
  <2> DEFINE r == [canceller[c].copy EXCEPT !.status = "Cancelling"]
  <2>4. /\ r # NoRecord /\ r.conv = "none" /\ r.status = "Cancelling"
        /\ r.env = record[canceller[c].dep].env
        /\ record[canceller[c].dep] # NoRecord
    BY <2>1 DEF SerialInv, PlainRecords, SameEnvironment, NoRecord, Record
  <2> HIDE DEF r
  <2>r. \A d \in Deployments : record'[d] = IF d = canceller[c].dep THEN r ELSE record[d]
    BY <2>1, <2>3 DEF TypeInv, TypeOK, r
  <2>5. RecordsAgree
    BY <2>4, <2>r DEF RecordsAgree
  <2>6. \A k \in Jobs : EnvOf(k)' = EnvOf(k)
    BY <2>5, AgreeingEnvironments
  <2>7. \A k \in Jobs : Live(k)' <=> Live(k)
    BY <2>3 DEF Live
  <2>w. \A d \in Deployments : /\ Waiting(d)' => Waiting(d)
                               /\ Open(d)' => Open(d)
                               /\ record'[d].env = record[d].env
    BY <2>4, <2>r DEF Waiting, Open
  <2>8. PlainRecords'
    BY <2>3, <2>5 DEF SerialInv, PlainRecords, RecordsAgree, TypeInv, TypeOK
  <2>h. ASSUME NEW h \in Handlers, handler[h] # Idle
        PROVE  handler[h].dep \in Deployments
    BY <2>h, HandlerFields DEF TypeInv, TypeOK
  <2>9. SameEnvironment'
    <3>2. ASSUME NEW b \in Cancellers, canceller[b] # Idle
          PROVE  canceller[b].dep \in Deployments
      BY <3>2 DEF TypeInv, TypeOK, CancellerStates
    <3>3. \A d \in Deployments :
            /\ record'[d] # NoRecord <=> record[d] # NoRecord
            /\ record'[d].env = record[d].env
      BY <2>5 DEF RecordsAgree
    <3>4. \A b \in Cancellers : canceller'[b] # Idle =>
            canceller'[b] = canceller[b]
      BY <2>3 DEF TypeInv, TypeOK
    <3>5. \A h \in Handlers : handler'[h] # Idle =>
            IF handler'[h].pc = "create"
            THEN record'[handler'[h].dep] = NoRecord
            ELSE handler'[h].copy.env = record'[handler'[h].dep].env
      BY <2>3, <2>h, <3>3 DEF SerialInv, SameEnvironment
    <3>6. \A b \in Cancellers : canceller'[b] # Idle =>
            /\ record'[canceller'[b].dep] # NoRecord
            /\ canceller'[b].copy.env = record'[canceller'[b].dep].env
      BY <3>2, <3>3, <3>4 DEF SerialInv, SameEnvironment
    <3>7. \A j \in Jobs : worker'[j].pc \notin {"none", "done", "dead"} =>
            worker'[j].copy.env = EnvOf(j)'
      BY <2>3, <2>6 DEF SerialInv, SameEnvironment
    <3> QED
      BY <3>5, <3>6, <3>7 DEF SameEnvironment
  <2>10. FlipsOwned'
    BY <2>3, <2>6, <2>7, <2>w DEF SerialInv, FlipsOwned, Quiet
  <2>11. ReadyToDispatch'
    <3>1. \A h \in Handlers : handler[h] # Idle /\ Carries(h)' => Carries(h)
      BY <2>3, <2>h, <2>w DEF Carries
    <3> QED
      BY <2>3, <3>1 DEF SerialInv, ReadyToDispatch
  <2>12. LiveJobsOwn' /\ WaitingOwn'
    BY <2>3, <2>5, <2>7, <2>w, ClaimsOfJobs DEF Awaits
  <2>t. OneInvocation'
    BY <2>3 DEF SerialInv, OneInvocation, UnderWay
  <2> QED
    BY <2>t, <2>8, <2>9, <2>10, <2>11, <2>12 DEF SerialInv
<1> QED
  BY <1>1, <1>2

\* The busy check: the environment that is admitted is quiet.
LEMMA SerialAdmit ==
    ASSUME TypeInv, SerialInv, ~ Contest, NEW h \in Handlers, NEW d \in Deployments,
           NEW e \in Environments, NEW a \in Actions, Admit(h, d, e, a)
    PROVE  SerialInv'
<1>1. /\ UNCHANGED <<record, environment, canceller, worker, flip>>
      /\ record[d] = NoRecord
      /\ handler[h].pc = "idle" /\ flip[h] = NoFlip
      /\ environment[e].status \in EnvStatuses \ Busy
  BY DEF Admit, HandlerAt, Exists, RefusedStatuses, Busy
<1>2. handler'[h] = [pc |-> "create", dep |-> d, copy |-> NewRecord(d, e, a),
                     prior |-> environment[e].status]
  BY DEF Admit, TypeInv, TypeOK
<1>3. \A g \in Handlers : g # h => handler'[g] = handler[g]
  BY DEF Admit, TypeInv, TypeOK
<1>4. (~IsEdge(d) => NewRecord(d, e, a).conv = "none") /\ NewRecord(d, e, a).env = e
  BY DEF NewRecord
<1>5. handler'[h] # Idle
  BY <1>2 DEF Idle
<1>6. Quiet(e)
  BY <1>1 DEF SerialInv, LiveJobsOwn, WaitingOwn, Quiet, EnvStatuses, Busy
<1>7. \A j \in Jobs : Live(j)' <=> Live(j)
  BY <1>1 DEF Live
<1>8. \A j \in Jobs : EnvOf(j)' = EnvOf(j)
  BY <1>1 DEF EnvOf
<1>w. \A b \in Deployments : Waiting(b)' <=> Waiting(b)
  BY <1>1 DEF Waiting
<1>t. OneInvocation'
  BY <1>1, <1>2, <1>3, <1>4, InvocationBegins DEF Contest
<1>9. PlainRecords'
  BY <1>1, <1>2, <1>3, <1>4 DEF SerialInv, PlainRecords
<1>10. SameEnvironment'
  BY <1>1, <1>2, <1>3, <1>8 DEF SerialInv, SameEnvironment
<1>11. FlipsOwned'
  <2>1. ASSUME NEW g \in Handlers, flip'[g] # NoFlip
        PROVE  (handler'[g] = Idle \/ handler'[g].pc = "dispatch") /\ Quiet(flip[g].env)'
    <3>1. g # h /\ flip'[g] = flip[g] /\ handler'[g] = handler[g]
      BY <1>1, <1>3, <2>1
    <3>2. (handler[g] = Idle \/ handler[g].pc = "dispatch") /\ Quiet(flip[g].env)
      BY <2>1, <3>1 DEF SerialInv, FlipsOwned
    <3> QED
      BY <1>1, <1>7, <1>8, <1>w, <3>1, <3>2 DEF Quiet
  <2> QED
    BY <1>1, <1>8, <2>1 DEF SerialInv, FlipsOwned
<1>12. ReadyToDispatch'
  BY <1>1, <1>2, <1>3, <1>4
  DEF SerialInv, ReadyToDispatch, EnvStatuses, Busy, Carries, Open
<1>13. LiveJobsOwn'
  BY <1>1, <1>2, <1>3, <1>4, <1>6, <1>7, <1>8
  DEF SerialInv, LiveJobsOwn, Quiet, Awaits
<1>14. WaitingOwn'
  BY <1>1, <1>2, <1>3, <1>4, <1>6, <1>7, <1>8, <1>w
  DEF SerialInv, WaitingOwn, Quiet
<1> QED
  BY <1>t, <1>9, <1>10, <1>11, <1>12, <1>13, <1>14 DEF SerialInv

\* The record appears and the flip begins: no job has worked on it before.
LEMMA SerialCreate ==
    ASSUME TypeInv, PassInv, SerialInv, NEW h \in Handlers, CreateRecord(h)
    PROVE  SerialInv'
<1> DEFINE d == handler[h].dep
           c == handler[h].copy
<1>1. /\ handler[h].pc = "create" /\ handler[h] # Idle /\ flip[h] = NoFlip
      /\ d \in Deployments /\ c \in Record /\ (~IsEdge(d) => c.conv = "none")
      /\ record[d] = NoRecord
  BY HandlerFields
  DEF CreateRecord, HandlerAt, Idle, TypeInv, TypeOK, SerialInv, PlainRecords,
      SameEnvironment
<1>p. IsEdge(d) => c.status = "Pending"
  BY <1>1 DEF PassInv, CopiesFit, CopyFits
<1>2. /\ record' = [record EXCEPT ![d] = c]
      /\ handler' = [handler EXCEPT ![h].pc = "dispatch"]
      /\ flip' = [flip EXCEPT ![h] = [pc |-> "read", env |-> c.env,
                                      status |-> FlipFor(c.action),
                                      url |-> "keep"]]
      /\ UNCHANGED <<environment, canceller, worker>>
  BY DEF CreateRecord, CallUpdateStatus
<1>3. \A g \in Handlers : g # h =>
        /\ handler'[g] = handler[g]
        /\ handler[g] # Idle => handler[g].dep # d /\ handler[g].dep \in Deployments
                                 /\ handler[g].copy.env # c.env
  BY <1>1, <1>2, HandlerFields, InvocationAlone
  DEF TypeInv, TypeOK, PassInv, CopiesFit, Creates
<1>4. /\ handler'[h].pc = "dispatch" /\ handler'[h].dep = d
      /\ handler'[h].copy = c
  BY <1>1, <1>2 DEF TypeInv, TypeOK, HandlerStates, Idle
<1>5. /\ flip'[h] = [pc |-> "read", env |-> c.env,
                     status |-> FlipFor(c.action), url |-> "keep"]
      /\ flip'[h] # NoFlip
      /\ \A p \in Procs : p # h => flip'[p] = flip[p]
  BY <1>2, Distinct DEF TypeInv, TypeOK, NoFlip
<1>6. FlipFor(c.action) \in Busy
  BY <1>1, DeploymentAssumption DEF FlipFor, Busy, Record
<1>7. \A j \in Jobs : worker[j].pc # "none" => EnvOf(j)' = EnvOf(j)
                                               /\ j[1] # d
  BY <1>1, <1>2, Distinct DEF TypeInv, TypeOK, RecordsExist, EnvOf
<1>8. \A j \in Jobs : Live(j)' => Live(j) /\ worker[j].pc # "none"
  BY <1>2, <1>5, Distinct DEF Live
<1>r. \A b \in Deployments : record'[b] = IF b = d THEN c ELSE record[b]
  BY <1>1, <1>2 DEF TypeInv, TypeOK
<1>w. \A b \in Deployments : Waiting(b)' => Waiting(b) /\ b # d
  BY <1>1, <1>p, <1>r DEF Waiting
<1>t. OneInvocation'
  BY <1>1, <1>3, <1>4, <1>5, Distinct, InvocationsKept DEF UnderWay
<1>9. PlainRecords'
  BY <1>1, <1>2, <1>3, <1>4, <1>r
  DEF SerialInv, PlainRecords
<1>10. SameEnvironment'
  <2>1. \A b \in Cancellers : canceller[b] # Idle =>
          /\ record'[canceller[b].dep] = record[canceller[b].dep]
          /\ record[canceller[b].dep] # NoRecord
    BY <1>1, <1>2 DEF SerialInv, SameEnvironment
  <2>2. record'[d] = c
    BY <1>1, <1>2 DEF TypeInv, TypeOK
  <2>3. c # NoRecord
    BY <1>1 DEF NoRecord, Record
  <2>4. \A g \in Handlers : handler'[g] # Idle =>
          IF handler'[g].pc = "create"
          THEN record'[handler'[g].dep] = NoRecord
          ELSE handler'[g].copy.env = record'[handler'[g].dep].env
    BY <1>3, <1>4, <1>r, <2>2 DEF SerialInv, SameEnvironment
  <2>5. \A b \in Cancellers : canceller'[b] # Idle =>
          /\ record'[canceller'[b].dep] # NoRecord
          /\ canceller'[b].copy.env = record'[canceller'[b].dep].env
    BY <1>2, <2>1 DEF SerialInv, SameEnvironment
  <2>6. \A j \in Jobs : worker'[j].pc \notin {"none", "done", "dead"} =>
          worker'[j].copy.env = EnvOf(j)'
    BY <1>2, <1>7 DEF SerialInv, SameEnvironment
  <2> QED
    BY <2>4, <2>5, <2>6 DEF SameEnvironment
<1>11. Quiet(c.env)
  BY <1>1 DEF SerialInv, LiveJobsOwn, WaitingOwn, Quiet, Awaits, Waiting, NoRecord
<1>12. FlipsOwned'
  <2>1. \A b \in Cancellers : flip'[b] = NoFlip
    BY <1>5, Distinct DEF SerialInv, FlipsOwned
  <2>2. \A j \in Jobs : flip'[j] # NoFlip =>
          worker'[j].pc = "done" /\ flip'[j].env = EnvOf(j)'
    BY <1>2, <1>5, <1>7, Distinct DEF SerialInv, FlipsOwned
  <2>3. (Quiet(flip[h].env))'
    BY <1>5, <1>7, <1>8, <1>11, <1>r, <1>w DEF Quiet
  <2>4. ASSUME NEW g \in Handlers, g # h, flip'[g] # NoFlip
        PROVE  (handler'[g] = Idle \/ handler'[g].pc = "dispatch") /\ Quiet(flip[g].env)'
    <3>1. flip'[g] = flip[g] /\ handler'[g] = handler[g]
      BY <1>3, <1>5, <2>4, Distinct
    <3>2. (handler[g] = Idle \/ handler[g].pc = "dispatch") /\ Quiet(flip[g].env)
      BY <2>4, <3>1 DEF SerialInv, FlipsOwned
    <3> QED
      BY <1>7, <1>8, <1>r, <1>w, <3>1, <3>2 DEF Quiet
  <2> QED
    BY <1>4, <2>1, <2>2, <2>3, <2>4 DEF FlipsOwned
<1>13. ReadyToDispatch'
  <2>1. \A g \in Handlers : g # h /\ handler[g] # Idle =>
          /\ flip'[g] = flip[g] /\ (Carries(g)' => Carries(g))
    BY <1>3, <1>5, <1>r, Distinct DEF Carries, Open
  <2> QED
    BY <1>1, <1>2, <1>3, <1>4, <1>5, <1>6, <2>1
    DEF SerialInv, ReadyToDispatch, NoFlip, Carries
<1>14. LiveJobsOwn'
  BY <1>2, <1>3, <1>4, <1>7, <1>8, <1>11 DEF SerialInv, LiveJobsOwn, Quiet, Awaits
<1>15. WaitingOwn'
  BY <1>2, <1>3, <1>4, <1>7, <1>8, <1>11, <1>r, <1>w DEF SerialInv, WaitingOwn, Quiet
<1> QED
  BY <1>t, <1>9, <1>10, <1>12, <1>13, <1>14, <1>15 DEF SerialInv

\* A handler stops: its job goes on without it.
LEMMA SerialStops ==
    ASSUME TypeInv, SerialInv, NEW h \in Handlers,
           UNCHANGED <<record, environment, canceller, worker>>,
           handler' = [handler EXCEPT ![h] = Idle],
           flip' = flip \/ flip' = [flip EXCEPT ![h] = NoFlip]
    PROVE  SerialInv'
<1>1. \A g \in Handlers : handler'[g] # Idle => g # h /\ handler'[g] = handler[g]
  BY DEF TypeInv, TypeOK
<1>2. /\ \A j \in Jobs : flip'[j] = flip[j]
      /\ \A c \in Cancellers : flip'[c] = flip[c]
      /\ \A g \in Handlers : flip'[g] # NoFlip => flip'[g] = flip[g]
      /\ \A g \in Handlers : g # h => flip'[g] = flip[g]
  BY Distinct DEF TypeInv, TypeOK
<1>3. \A j \in Jobs : Live(j)' <=> Live(j)
  BY <1>2 DEF Live
<1>t. OneInvocation'
  BY <1>1, <1>2, InvocationsKept DEF UnderWay
<1>4. PlainRecords'
  BY <1>1 DEF SerialInv, PlainRecords
<1>5. SameEnvironment'
  BY <1>1 DEF SerialInv, SameEnvironment, EnvOf
<1>6. FlipsOwned'
  <2>1. \A g \in Handlers : handler'[g] = Idle \/ handler'[g] = handler[g]
    BY <1>1
  <2> QED
    BY <1>2, <1>3, <2>1 DEF SerialInv, FlipsOwned, Quiet, Waiting, EnvOf
<1>7. ReadyToDispatch'
  BY <1>1, <1>2 DEF SerialInv, ReadyToDispatch, Carries, Open
<1>8. LiveJobsOwn' /\ WaitingOwn'
  BY <1>1, <1>3 DEF SerialInv, LiveJobsOwn, WaitingOwn, Waiting, EnvOf, Awaits
<1> QED
  BY <1>t, <1>4, <1>5, <1>6, <1>7, <1>8 DEF SerialInv

\* A handler takes up state x, past its dispatch or about to lease a pass: the only
\* job at work on its environment is the one it awaits, and no other deployment
\* waits there.
LEMMA SerialMoves ==
    ASSUME TypeInv, SerialInv, NEW h \in Handlers, OneInvocation',
           UNCHANGED <<record, environment, canceller, worker, flip>>,
           NEW x \in HandlerStates, handler' = [handler EXCEPT ![h] = x],
           x # Idle, x.pc \notin {"create", "dispatch"},
           flip[h] = NoFlip,
           ~IsEdge(x.dep) => x.copy.conv = "none",
           x.copy.env = record[x.dep].env,
           environment[x.copy.env].status # "Unborn",
           Carries(h)' => environment[x.copy.env].status \in Busy \cup {"Deleted"},
           \A j \in Jobs : Live(j) /\ EnvOf(j) = x.copy.env => Awaits(h, j)',
           \A d \in Deployments : Waiting(d) /\ record[d].env = x.copy.env => d = x.dep
    PROVE  SerialInv'
<1>1. handler'[h] = x /\ \A g \in Handlers : g # h => handler'[g] = handler[g]
  BY DEF TypeInv, TypeOK
<1>2. PlainRecords'
  BY <1>1 DEF SerialInv, PlainRecords
<1>3. SameEnvironment'
  BY <1>1 DEF SerialInv, SameEnvironment, EnvOf
<1>4. FlipsOwned'
  BY <1>1 DEF SerialInv, FlipsOwned, Quiet, Waiting, EnvOf, Live
<1>5. ReadyToDispatch'
  <2>1. \A g \in Handlers : g # h => (Carries(g)' <=> Carries(g))
    BY <1>1 DEF Carries, Open
  <2> QED
    BY <1>1, <2>1 DEF SerialInv, ReadyToDispatch
<1>6. LiveJobsOwn'
  BY <1>1 DEF SerialInv, LiveJobsOwn, EnvOf, Live, Awaits
<1>7. WaitingOwn'
  BY <1>1 DEF SerialInv, WaitingOwn, Waiting, EnvOf, Live
<1> QED
  BY <1>2, <1>3, <1>4, <1>5, <1>6, <1>7 DEF SerialInv

\* The state of a handler that has created its record, and its deployment.
LEMMA InCharge ==
    ASSUME TypeInv, PassInv, SerialInv, NEW h \in Handlers,
           handler[h] # Idle, handler[h].pc # "create"
    PROVE  /\ handler[h].dep \in Deployments /\ handler[h].copy \in Record
           /\ CopyFits(handler[h])
           /\ ~IsEdge(handler[h].dep) => handler[h].copy.conv = "none"
           /\ handler[h].copy.env = record[handler[h].dep].env
           /\ record[handler[h].dep] \in Record
           /\ record[handler[h].dep] # NoRecord
           /\ environment[handler[h].copy.env].status # "Unborn"
<1>1. /\ handler[h].dep \in Deployments /\ handler[h].copy \in Record
      /\ record[handler[h].dep] # NoRecord
  BY HandlerFields DEF TypeInv, TypeOK, RecordsExist
<1>2. record[handler[h].dep] \in Record
  BY <1>1, StoredRecord DEF TypeInv
<1> QED
  BY <1>1, <1>2
  DEF PassInv, CopiesFit, SerialInv, PlainRecords, SameEnvironment, ReadyToDispatch

\* A handler only changes what it is about to do.
LEMMA SerialTurns ==
    ASSUME TypeInv, PassInv, SerialInv, NEW h \in Handlers,
           handler[h] # Idle, handler[h].pc # "create", flip[h] = NoFlip,
           UNCHANGED <<record, environment, canceller, worker, flip>>,
           NEW pc \in {"failed", "failedPass"},
           handler' = [handler EXCEPT ![h].pc = pc],
           pc = "failedPass" /\ Open(handler[h].dep) => Carries(h),
           \A j \in Jobs : Live(j) => EnvOf(j) # handler[h].copy.env
    PROVE  SerialInv'
<1> DEFINE x == [handler[h] EXCEPT !.pc = pc]
<1>1. /\ x \in HandlerStates /\ x # Idle /\ x.pc = pc
      /\ x.dep = handler[h].dep /\ x.copy = handler[h].copy
  BY DEF TypeInv, TypeOK, HandlerStates, HandlerPcs, Idle
<1>2. handler' = [handler EXCEPT ![h] = x]
  OBVIOUS
<1> HIDE DEF x
<1>3. handler'[h] = x /\ \A g \in Handlers : g # h => handler'[g] = handler[g]
  BY <1>2 DEF TypeInv, TypeOK
<1>t. OneInvocation'
  BY <1>1, <1>3, InvocationsKept DEF UnderWay
<1>4. Carries(h)' => Carries(h)
  BY <1>1, <1>3 DEF Carries, Open
<1>5. Carries(h)' => environment[x.copy.env].status \in Busy \cup {"Deleted"}
  BY <1>1, <1>4 DEF SerialInv, ReadyToDispatch
<1>6. \A d \in Deployments : Waiting(d) /\ record[d].env = x.copy.env => d = x.dep
  BY <1>1 DEF SerialInv, WaitingOwn
<1>7. /\ x.copy.env = record[x.dep].env
      /\ ~IsEdge(x.dep) => x.copy.conv = "none"
      /\ environment[x.copy.env].status # "Unborn"
  BY <1>1, InCharge
<1>8. \A j \in Jobs : Live(j) /\ EnvOf(j) = x.copy.env => Awaits(h, j)'
  BY <1>1
<1>9. x.pc \notin {"create", "dispatch"}
  BY <1>1
<1> QED
  BY <1>t, <1>1, <1>2, <1>5, <1>6, <1>7, <1>8, <1>9, SerialMoves

\* An event reaches its worker: the new job is alone on its environment.
LEMMA SerialDelivers ==
    ASSUME TypeInv, PassInv, SerialInv, NEW h \in Handlers,
           handler[h] # Idle, handler[h].pc # "create", flip[h] = NoFlip,
           NEW n \in 1..MaxPasses, Deliver(h, handler[h].dep, n),
           NEW pc \in {"waiting", "waitingPass"},
           handler' = [handler EXCEPT ![h].pc = pc],
           Awaits(h, <<handler[h].dep, n>>)',
           UNCHANGED <<record, environment, canceller, flip>>,
           environment[handler[h].copy.env].status \in Busy \cup {"Deleted"},
           Quiet(handler[h].copy.env)
    PROVE  SerialInv'
<1> DEFINE d == handler[h].dep
           c == handler[h].copy
           j == <<d, n>>
<1>1. j \in Jobs /\ EnvOf(j) = c.env /\ d \in Deployments
  BY InCharge DEF Jobs, EnvOf
<1>2. \A g \in Handlers : g # h => handler'[g] = handler[g]
                               /\ (handler[g] # Idle => handler[g].copy.env # c.env)
  BY InvocationAlone DEF TypeInv, TypeOK
<1>3. /\ handler'[h].pc = pc /\ handler'[h].dep = d
      /\ handler'[h].copy = c
  BY DEF TypeInv, TypeOK, HandlerStates, Idle
<1>4. /\ worker'[j] = [pc |-> "queued", copy |-> c,
                       prior |-> handler[h].prior]
      /\ \A k \in Jobs : k # j => worker'[k] = worker[k]
  BY <1>1 DEF Deliver, TypeInv, TypeOK
<1>5. flip[j] = NoFlip
  BY <1>1 DEF SerialInv, FlipsOwned, Quiet, Live
<1>6. /\ \A k \in Jobs : EnvOf(k)' = EnvOf(k)
      /\ \A k \in Jobs : k # j => (Live(k)' <=> Live(k))
      /\ \A b \in Deployments : Waiting(b)' <=> Waiting(b)
  BY <1>4 DEF EnvOf, Live, Waiting
<1>7. PlainRecords'
  <2>1. \A k \in Jobs :
          worker'[k].pc \notin {"none", "done", "dead"} /\ ~IsEdge(k[1]) =>
            /\ worker'[k].pc \notin {"publish", "yield", "yielding"}
            /\ worker'[k].copy.conv = "none"
    <3>1. j[1] = d /\ (~IsEdge(d) => c.conv = "none")
      BY InCharge
    <3> QED
      BY <1>4, <3>1 DEF SerialInv, PlainRecords
  <2> QED
    BY <1>2, <1>3, <2>1, InCharge DEF SerialInv, PlainRecords
<1>8. SameEnvironment'
  <2>1. \A k \in Jobs : worker'[k].pc \notin {"none", "done", "dead"} =>
          worker'[k].copy.env = EnvOf(k)'
    BY <1>1, <1>4, <1>6 DEF SerialInv, SameEnvironment
  <2> QED
    BY <1>2, <1>3, <2>1, InCharge DEF SerialInv, SameEnvironment
<1>9. FlipsOwned'
  <2>1. ASSUME NEW g \in Handlers, flip'[g] # NoFlip
        PROVE  (handler'[g] = Idle \/ handler'[g].pc = "dispatch") /\ Quiet(flip[g].env)'
    <3>1. g # h /\ handler'[g] = handler[g] /\ flip[g].env # c.env
      BY <1>2, <2>1, InvocationAlone
    <3>2. (handler[g] = Idle \/ handler[g].pc = "dispatch") /\ Quiet(flip[g].env)
      BY <2>1 DEF SerialInv, FlipsOwned
    <3> QED
      BY <1>1, <1>6, <3>1, <3>2 DEF Quiet
  <2>2. \A k \in Jobs : flip[k] # NoFlip => worker'[k].pc = "done"
    BY <1>4, <1>5 DEF SerialInv, FlipsOwned
  <2> QED
    BY <1>6, <2>1, <2>2 DEF SerialInv, FlipsOwned
<1>t. OneInvocation'
  BY <1>2, <1>3, InvocationsKept DEF UnderWay
<1>10. ReadyToDispatch'
  BY <1>2, <1>3, InCharge DEF SerialInv, ReadyToDispatch, Carries, Open
<1>11. \A k \in Jobs : Live(k)' /\ EnvOf(k) = c.env => k = j
  BY <1>6 DEF Quiet
<1>12. LiveJobsOwn'
  <2>1. \A k \in Jobs : Live(k)' =>
          environment'[EnvOf(k)'].status \in Busy \cup {"Deleted"}
    BY <1>1, <1>6 DEF SerialInv, LiveJobsOwn
  <2>2. \A k, i \in Jobs : Live(k)' /\ Live(i)' /\ EnvOf(k) = EnvOf(i) =>
          k = i
    BY <1>1, <1>6, <1>11 DEF SerialInv, LiveJobsOwn
  <2>3. \A g \in Handlers, k \in Jobs :
          handler'[g] # Idle /\ Live(k)' /\ EnvOf(k) = handler'[g].copy.env =>
            Awaits(g, k)'
    <3>1. \A g \in Handlers, k \in Jobs : g # h => (Awaits(g, k)' <=> Awaits(g, k))
      BY <1>2 DEF Awaits
    <3> QED
      BY <1>1, <1>2, <1>3, <1>6, <1>11, <3>1 DEF SerialInv, LiveJobsOwn
  <2> QED
    BY <1>6, <2>1, <2>2, <2>3 DEF LiveJobsOwn
<1>13. WaitingOwn'
  BY <1>1, <1>2, <1>3, <1>6 DEF SerialInv, WaitingOwn, Quiet
<1> QED
  BY <1>t, <1>7, <1>8, <1>9, <1>10, <1>12, <1>13 DEF SerialInv

\* Nothing is at work on the environment of a handler that has a pass to send.
LEMMA QuietSender ==
    ASSUME TypeInv, PassInv, SerialInv, NEW h \in Handlers, handler[h] # Idle,
           handler[h].pc \in {"dispatch", "dispatchPass"}
    PROVE  Quiet(handler[h].copy.env)
<1>1. \A j \in Jobs : Live(j) => EnvOf(j) # handler[h].copy.env
  BY DEF SerialInv, LiveJobsOwn, Awaits
<1>2. ~Waiting(handler[h].dep)
  <2>1. SUFFICES ASSUME Waiting(handler[h].dep) PROVE FALSE
    OBVIOUS
  <2>2. handler[h].dep \in EdgeDeployments /\ Open(handler[h].dep)
    BY <2>1, WaitingEdge, InCharge DEF IsEdge
  <2>3. Asks(handler[h].dep, handler[h].copy.pass)
    BY <2>2 DEF PassInv, ClaimsOf, ClaimIsAsked, Sends
  <2> QED
    BY <2>1, <2>3 DEF Asks, Waiting
<1> QED
  BY <1>1, <1>2 DEF SerialInv, WaitingOwn, Quiet

\* The first pass is sent, or not.
LEMMA SerialDispatch ==
    ASSUME TypeInv, PassInv, SerialInv, NEW h \in Handlers, Dispatch(h)
    PROVE  SerialInv'
<1>1. /\ handler[h].pc = "dispatch" /\ handler[h] # Idle /\ flip[h] = NoFlip
      /\ UNCHANGED <<record, environment, canceller, flip>>
  BY DEF Dispatch, HandlerAt, Idle
<1>2. /\ Quiet(handler[h].copy.env)
      /\ environment[handler[h].copy.env].status \in Busy \cup {"Deleted"}
  BY <1>1, QuietSender DEF SerialInv, ReadyToDispatch
<1>3. CASE /\ Deliver(h, handler[h].dep, 1)
           /\ handler' = [handler EXCEPT ![h].pc = "waiting"]
  <2>1. Awaits(h, <<handler[h].dep, 1>>)'
    BY <1>1, <1>3 DEF Awaits, TypeInv, TypeOK, HandlerStates, Idle
  <2>2. 1 \in 1..MaxPasses
    BY DeploymentAssumption
  <2> QED
    BY <1>1, <1>2, <1>3, <2>1, <2>2, SerialDelivers
<1>4. CASE handler' = [handler EXCEPT ![h] = Idle] /\ UNCHANGED worker
  BY <1>1, <1>4, SerialStops
<1>5. CASE /\ handler' = [handler EXCEPT ![h].pc = "failed"]
           /\ UNCHANGED worker
  BY <1>1, <1>2, <1>5, SerialTurns DEF Quiet
<1> QED
  BY <1>3, <1>4, <1>5 DEF Dispatch

\* A later pass is sent, or not.
LEMMA SerialDispatchPass ==
    ASSUME TypeInv, PassInv, SerialInv, NEW h \in Handlers, DispatchPass(h)
    PROVE  SerialInv'
<1>1. /\ handler[h].pc = "dispatchPass" /\ handler[h] # Idle /\ flip[h] = NoFlip
      /\ UNCHANGED <<record, environment, canceller, flip>>
  BY DEF DispatchPass, HandlerAt, Idle
<1>2. /\ Quiet(handler[h].copy.env) /\ Carries(h)
      /\ environment[handler[h].copy.env].status \in Busy \cup {"Deleted"}
  BY <1>1, QuietSender DEF SerialInv, ReadyToDispatch, Carries
<1>3. CASE /\ Deliver(h, handler[h].dep, handler[h].copy.pass)
           /\ handler' = [handler EXCEPT ![h].pc = "waitingPass"]
  <2>1. PICK n \in 1..MaxPasses : n = handler[h].copy.pass
    BY <1>1, InCharge DEF CopyFits, Record
  <2>2. Awaits(h, <<handler[h].dep, n>>)'
    BY <1>1, <1>3, <2>1 DEF Awaits, TypeInv, TypeOK, HandlerStates, Idle
  <2> QED
    BY <1>1, <1>2, <1>3, <2>1, <2>2, SerialDelivers
<1>4. CASE handler' = [handler EXCEPT ![h] = Idle] /\ UNCHANGED worker
  BY <1>1, <1>4, SerialStops
<1>5. CASE /\ handler' = [handler EXCEPT ![h].pc = "failedPass"]
           /\ UNCHANGED worker
  BY <1>1, <1>2, <1>5, SerialTurns DEF Quiet
<1> QED
  BY <1>3, <1>4, <1>5 DEF DispatchPass

\* The worker answers 500: it is past its last write, and its deployment is closed.
LEMMA SerialThrows ==
    ASSUME TypeInv, PassInv, SerialInv, ~ Contest, NEW h \in Handlers, DispatchThrows(h)
    PROVE  SerialInv'
<1>1. /\ handler[h].pc \in {"waiting", "waitingPass"} /\ handler[h] # Idle
      /\ UNCHANGED <<record, environment, canceller, worker, flip>>
  BY DEF DispatchThrows, Idle
<1>2. flip[h] = NoFlip
  BY <1>1 DEF SerialInv, FlipsOwned
<1>3. CASE /\ handler[h].pc = "waiting" /\ Threw(handler[h].dep, 1)
           /\ handler' = [handler EXCEPT ![h].pc = "failed"]
  <2>1. \A j \in Jobs : Live(j) => EnvOf(j) # handler[h].copy.env
    BY <1>1, <1>3 DEF SerialInv, LiveJobsOwn, Awaits, Threw, Live
  <2> QED
    BY <1>1, <1>2, <1>3, <2>1, SerialTurns
<1>4. CASE /\ handler[h].pc = "waitingPass"
           /\ Threw(handler[h].dep, handler[h].copy.pass)
           /\ handler' = [handler EXCEPT ![h].pc = "failedPass"]
  <2>1. \A j \in Jobs : Live(j) => EnvOf(j) # handler[h].copy.env
    BY <1>1, <1>4 DEF SerialInv, LiveJobsOwn, Awaits, Threw, Live
  <2>2. handler[h].dep \in EdgeDeployments /\ handler[h].copy.pass \in 1..MaxPasses
    BY <1>1, <1>4, InCharge DEF CopyFits, Record, IsEdge
  <2>3. ~Open(handler[h].dep)
    BY <1>4, <2>2 DEF PassInv, ClaimsOf, Threw, Done
  <2> QED
    BY <1>1, <1>2, <1>4, <2>1, <2>3, SerialTurns
<1> QED
  BY <1>3, <1>4 DEF DispatchThrows, Contest, Reset

\* A handler writes the record of its deployment, and goes on with a pass or stops;
\* nothing is at work on the environment, which is busy if a pass is to come.
LEMMA SerialStores ==
    ASSUME TypeInv, PassInv, SerialInv, NEW h \in Handlers,
           handler[h] # Idle, handler[h].pc # "create", flip[h] = NoFlip,
           \A g \in Handlers : g # h => handler'[g] = handler[g],
           NEW d \in Deployments, d = handler[h].dep,
           NEW e, e = handler[h].copy.env,
           record'[d] # NoRecord, record'[d].env = e, ~IsEdge(d) => record'[d].conv = "none",
           \A b \in Deployments : b # d => record'[b] = record[b],
           handler'[h] # Idle =>
               /\ handler'[h].pc \notin {"create", "dispatch"} /\ IsEdge(d)
               /\ handler'[h].dep = d /\ handler'[h].copy.env = e,
           flip'[h] # NoFlip => handler'[h] = Idle /\ flip'[h].env = e /\ ~Waiting(d)',
           \A p \in Procs : p # h => flip'[p] = flip[p],
           UNCHANGED <<environment, canceller, worker>>,
           \A j \in Jobs : Live(j) => EnvOf(j) # e,
           handler'[h] # Idle \/ Waiting(d)' =>
               environment[e].status \in Busy \cup {"Deleted"}
    PROVE  SerialInv'
<1>1. /\ record[d] # NoRecord /\ record[d].env = e
      /\ environment[e].status # "Unborn"
  BY InCharge
<1>2. \A g \in Handlers : g # h =>
        /\ handler[g] # Idle => /\ handler[g].copy.env # e /\ handler[g].dep # d
                                /\ handler[g].dep \in Deployments
        /\ flip[g] # NoFlip => flip[g].env # e
  BY <1>1, InvocationAlone, HandlerFields DEF SerialInv, SameEnvironment, TypeInv, TypeOK
<1>t. OneInvocation'
  BY Distinct, InvocationsKept DEF UnderWay
<1>3. RecordsAgree
  BY <1>1 DEF RecordsAgree
<1>4. \A k \in Jobs : EnvOf(k)' = EnvOf(k)
  BY <1>3, AgreeingEnvironments
<1>5. \A k \in Jobs : Live(k)' <=> Live(k)
  BY Distinct DEF Live
<1>6. \A b \in Deployments : /\ record'[b] # NoRecord <=> record[b] # NoRecord
                             /\ record'[b].env = record[b].env
                             /\ b # d => (Waiting(b)' <=> Waiting(b))
  BY <1>1 DEF Waiting
<1>7. \A b \in Deployments : Waiting(b)' /\ record'[b].env = e => b = d
  BY <1>6 DEF SerialInv, WaitingOwn
<1>8. PlainRecords'
  BY <1>2, <1>3 DEF SerialInv, PlainRecords, RecordsAgree
<1>9. SameEnvironment'
  <2>1. \A b \in Cancellers : canceller[b] # Idle =>
          canceller[b].dep \in Deployments
    BY DEF TypeInv, TypeOK, CancellerStates
  <2>2. \A b \in Cancellers : canceller'[b] # Idle =>
          /\ record'[canceller'[b].dep] # NoRecord
          /\ canceller'[b].copy.env = record'[canceller'[b].dep].env
    BY <1>6, <2>1 DEF SerialInv, SameEnvironment
  <2>3. \A g \in Handlers : handler'[g] # Idle =>
          IF handler'[g].pc = "create"
          THEN record'[handler'[g].dep] = NoRecord
          ELSE handler'[g].copy.env = record'[handler'[g].dep].env
    BY <1>1, <1>2, <1>6 DEF SerialInv, SameEnvironment
  <2> QED
    BY <1>4, <2>2, <2>3 DEF SerialInv, SameEnvironment
<1>10. FlipsOwned'
  <2>1. ASSUME flip'[h] # NoFlip PROVE Quiet(flip[h].env)'
    BY <1>4, <1>5, <1>7, <2>1 DEF Quiet
  <2>2. \A g \in Handlers : flip'[g] # NoFlip =>
          /\ handler'[g] = Idle \/ handler'[g].pc = "dispatch"
          /\ Quiet(flip[g].env)'
    <3>1. ASSUME NEW g \in Handlers, g # h, flip'[g] # NoFlip
          PROVE  /\ handler'[g] = Idle \/ handler'[g].pc = "dispatch"
                 /\ Quiet(flip[g].env)'
      <4>1. flip'[g] = flip[g] /\ handler'[g] = handler[g] /\ flip[g].env # e
        BY <1>2, <3>1, Distinct
      <4>2. (handler[g] = Idle \/ handler[g].pc = "dispatch") /\ Quiet(flip[g].env)
        BY <3>1, <4>1 DEF SerialInv, FlipsOwned
      <4> QED
        BY <1>1, <1>4, <1>5, <1>6, <4>1, <4>2 DEF Quiet
    <3> QED
      BY <2>1, <3>1
  <2> QED
    BY <1>4, <2>2, Distinct DEF SerialInv, FlipsOwned
<1>11. ReadyToDispatch'
  <2>1. \A g \in Handlers : g # h /\ handler[g] # Idle =>
          flip'[g] = flip[g] /\ (Carries(g)' => Carries(g))
    BY <1>2, Distinct DEF Carries, Open
  <2> QED
    BY <1>1, <2>1 DEF SerialInv, ReadyToDispatch
<1>12. LiveJobsOwn'
  BY <1>2, <1>4, <1>5 DEF SerialInv, LiveJobsOwn, Awaits
<1>13. WaitingOwn'
  <2>1. \A b \in Deployments : Waiting(b)' =>
          environment'[record'[b].env].status \in Busy \cup {"Deleted"}
    BY <1>1, <1>6 DEF SerialInv, WaitingOwn
  <2>2. \A b \in Deployments, j \in Jobs : Waiting(b)' /\ Live(j)' =>
          EnvOf(j)' # record'[b].env
    BY <1>1, <1>4, <1>5, <1>6 DEF SerialInv, WaitingOwn
  <2>3. \A b, c \in Deployments :
          Waiting(b)' /\ Waiting(c)' /\ record'[b].env = record'[c].env => b = c
    BY <1>1, <1>6, <1>7 DEF SerialInv, WaitingOwn
  <2>4. \A g \in Handlers, b \in Deployments :
          handler'[g] # Idle /\ Waiting(b)' /\ record'[b].env = handler'[g].copy.env =>
            handler'[g].dep = b
    BY <1>1, <1>2, <1>6, <1>7 DEF SerialInv, WaitingOwn
  <2> QED
    BY <2>1, <2>2, <2>3, <2>4 DEF WaitingOwn
<1> QED
  BY <1>t, <1>8, <1>9, <1>10, <1>11, <1>12, <1>13 DEF SerialInv

\* execute's catch writes Failed: its job is not at work.
LEMMA SerialFailDispatch ==
    ASSUME TypeInv, PassInv, SerialInv, NEW h \in Handlers, FailDispatch(h)
    PROVE  SerialInv'
<1>1. /\ handler[h].pc = "failed" /\ handler[h] # Idle /\ flip[h] = NoFlip
  BY DEF FailDispatch, HandlerAt, Idle
<1>2. PICK d \in Deployments, e \in Environments :
        d = handler[h].dep /\ e = handler[h].copy.env
  BY <1>1, InCharge DEF Record
<1> DEFINE r == [handler[h].copy EXCEPT !.status = "Failed"]
           f == [pc |-> "read", env |-> e, status |-> "Failed", url |-> "keep"]
<1>3. /\ record' = [record EXCEPT ![d] = r]
      /\ handler' = [handler EXCEPT ![h] = Idle]
      /\ flip' = [flip EXCEPT ![h] = f]
      /\ UNCHANGED <<environment, canceller, worker>>
  BY <1>2 DEF FailDispatch, CallUpdateStatus
<1>4. r # NoRecord /\ r.status = "Failed" /\ r.env = e /\ (~IsEdge(d) => r.conv = "none")
  BY <1>1, <1>2, InCharge DEF Record, NoRecord
<1>5. f.env = e
  OBVIOUS
<1> HIDE DEF r, f
<1>6. /\ record'[d] = r /\ \A b \in Deployments : b # d => record'[b] = record[b]
      /\ handler'[h] = Idle /\ \A g \in Handlers : g # h => handler'[g] = handler[g]
      /\ flip'[h] = f /\ \A p \in Procs : p # h => flip'[p] = flip[p]
      /\ ~Waiting(d)'
  BY <1>3, <1>4, Distinct DEF Waiting, TypeInv, TypeOK
<1>7. \A j \in Jobs : Live(j) => EnvOf(j) # e
  BY <1>1, <1>2 DEF SerialInv, LiveJobsOwn, Awaits
<1> QED
  BY <1>1, <1>2, <1>3, <1>4, <1>5, <1>6, <1>7, SerialStores

\* The request for the next pass finds a deployment that waits for it.
LEMMA SerialContinue ==
    ASSUME TypeInv, PassInv, SerialInv, ~ Contest, NEW h \in Handlers,
           NEW d \in Deployments, ContinueEdge(h, d)
    PROVE  SerialInv'
<1> DEFINE x == [pc |-> "lease", dep |-> d, copy |-> record[d], prior |-> "Deployed"]
<1>1. /\ flip[h] = NoFlip /\ IsEdge(d) /\ Waiting(d) /\ handler[h].pc = "idle"
      /\ Exists(record[d].env)
      /\ handler' = [handler EXCEPT ![h] = x]
      /\ UNCHANGED <<record, environment, canceller, worker, flip>>
  BY DEF ContinueEdge, HandlerAt, Waiting
<1>2. record[d] \in Record
  BY <1>1, WaitingEdge, StoredRecord DEF TypeInv
<1>3. /\ x \in HandlerStates /\ x # Idle /\ x.pc = "lease" /\ x.dep = d
      /\ x.copy = record[d]
  BY <1>2 DEF HandlerStates, HandlerPcs, EnvStatuses, Idle
<1> HIDE DEF x
<1>4. /\ environment[x.copy.env].status \in Busy \cup {"Deleted"}
      /\ environment[x.copy.env].status # "Unborn"
  BY <1>1, <1>3 DEF SerialInv, WaitingOwn, Busy
<1>5. \A j \in Jobs : Live(j) => EnvOf(j) # x.copy.env
  BY <1>1, <1>3 DEF SerialInv, WaitingOwn
<1>6. \A b \in Deployments : Waiting(b) /\ record[b].env = x.copy.env => b = x.dep
  BY <1>1, <1>3 DEF SerialInv, WaitingOwn
<1>7. x.pc \notin {"create", "dispatch"} /\ x.copy.env = record[x.dep].env
      /\ IsEdge(x.dep)
  BY <1>1, <1>3
<1>8. handler'[h] = x /\ \A g \in Handlers : g # h => handler'[g] = handler[g]
  BY <1>1 DEF TypeInv, TypeOK
<1>9. ~ Disputed(h, record[d].env)
  BY DEF Contest
<1>t. OneInvocation'
  BY <1>1, <1>3, <1>8, <1>9, InvocationBegins
<1> QED
  BY <1>t, <1>1, <1>3, <1>4, <1>5, <1>6, <1>7, SerialMoves

\* The lease is taken, or has been taken by another request.
LEMMA SerialLease ==
    ASSUME TypeInv, PassInv, SerialInv, NEW h \in Handlers, LeasePass(h)
    PROVE  SerialInv'
<1>1. /\ handler[h].pc = "lease" /\ handler[h] # Idle /\ flip[h] = NoFlip
      /\ UNCHANGED <<environment, canceller, worker, flip>>
  BY DEF LeasePass, HandlerAt, Idle
<1>2. PICK d \in Deployments, e \in Environments :
        d = handler[h].dep /\ e = handler[h].copy.env
  BY <1>1, InCharge DEF Record
<1>3. CASE RecordUnchanged(h)
  <2>1. PICK r : r = [handler[h].copy EXCEPT !.conv = "running", !.pass = @ + 1]
    OBVIOUS
  <2>2. PICK x : x = [handler[h] EXCEPT !.pc = "dispatchPass", !.copy = r]
    OBVIOUS
  <2>3. /\ record'[d] = r /\ \A b \in Deployments : b # d => record'[b] = record[b]
        /\ handler'[h] = x /\ \A g \in Handlers : g # h => handler'[g] = handler[g]
    BY <1>2, <1>3, <2>1, <2>2 DEF LeasePass, TypeInv, TypeOK
  <2>4. r # NoRecord /\ r.env = e /\ IsEdge(d)
    BY <1>1, <1>2, <2>1, InCharge DEF CopyFits, Record, NoRecord, Statuses, Terminal
  <2>5. x # Idle /\ x.pc = "dispatchPass" /\ x.dep = d /\ x.copy.env = e
    BY <1>1, <1>2, <2>2, <2>4 DEF TypeInv, TypeOK, HandlerStates, Idle
  <2>6. environment[e].status \in Busy \cup {"Deleted"}
    BY <1>1, <1>2 DEF SerialInv, ReadyToDispatch, Carries
  <2>7. \A j \in Jobs : Live(j) => EnvOf(j) # e
    BY <1>1, <1>2 DEF SerialInv, LiveJobsOwn, Awaits
  <2>8. flip'[h] = NoFlip /\ \A p \in Procs : p # h => flip'[p] = flip[p]
    BY <1>1
  <2>9. x.pc \notin {"create", "dispatch"}
    BY <2>5
  <2> QED
    BY <1>1, <1>2, <2>3, <2>4, <2>5, <2>6, <2>7, <2>8, <2>9, SerialStores
<1>4. CASE ~RecordUnchanged(h)
  BY <1>1, <1>4, SerialStops DEF LeasePass
<1> QED
  BY <1>3, <1>4

\* The catch of a dispatch that failed: the pass is to be handed back, or is not
\* this handler's any more.
LEMMA SerialReread ==
    ASSUME TypeInv, PassInv, SerialInv, NEW h \in Handlers, RereadPass(h)
    PROVE  SerialInv'
<1>1. /\ handler[h].pc = "failedPass" /\ handler[h] # Idle /\ flip[h] = NoFlip
      /\ UNCHANGED <<record, environment, canceller, worker, flip>>
  BY DEF RereadPass, HandlerAt, Idle
<1> DEFINE d == handler[h].dep
           x == [handler[h] EXCEPT !.pc = "unlease", !.copy = record[d]]
<1>2. CASE handler' = [handler EXCEPT ![h] = Idle]
  BY <1>1, <1>2, SerialStops
<1>3. CASE handler' = [handler EXCEPT ![h] = x] /\ record[d].status = "InProgress"
  <2>1. /\ d \in Deployments /\ record[d] \in Record /\ IsEdge(d)
        /\ record[d].env = handler[h].copy.env
        /\ environment[record[d].env].status # "Unborn"
    BY <1>1, InCharge DEF CopyFits
  <2>2. /\ x \in HandlerStates /\ x # Idle /\ x.pc = "unlease" /\ x.dep = d
        /\ x.copy = record[d]
    BY <1>1, <2>1 DEF TypeInv, TypeOK, HandlerStates, HandlerPcs, Idle
  <2> HIDE DEF x
  <2>3. environment[x.copy.env].status \in Busy \cup {"Deleted"}
    BY <1>1, <1>3, <2>1, <2>2 DEF SerialInv, ReadyToDispatch, Carries, Open
  <2>4. \A j \in Jobs : Live(j) => EnvOf(j) # x.copy.env
    BY <1>1, <2>1, <2>2 DEF SerialInv, LiveJobsOwn, Awaits
  <2>5. \A b \in Deployments : Waiting(b) /\ record[b].env = x.copy.env => b = x.dep
    BY <1>1, <2>1, <2>2 DEF SerialInv, WaitingOwn
  <2>6. x.pc \notin {"create", "dispatch"} /\ x.copy.env = record[x.dep].env
        /\ IsEdge(x.dep) /\ environment[x.copy.env].status # "Unborn"
    BY <2>1, <2>2
  <2>7. handler'[h] = x /\ \A g \in Handlers : g # h => handler'[g] = handler[g]
    BY <1>3 DEF TypeInv, TypeOK, x
  <2>t. OneInvocation'
    BY <1>1, <2>1, <2>2, <2>7, InvocationsKept DEF UnderWay
  <2> QED
    BY <2>t, <1>1, <1>3, <2>2, <2>3, <2>4, <2>5, <2>6, SerialMoves
<1> QED
  BY <1>2, <1>3 DEF RereadPass

\* The pass is handed back: its deployment waits again.
LEMMA SerialUnlease ==
    ASSUME TypeInv, PassInv, SerialInv, NEW h \in Handlers, UnleasePass(h)
    PROVE  SerialInv'
<1>1. /\ handler[h].pc = "unlease" /\ handler[h] # Idle /\ flip[h] = NoFlip
      /\ UNCHANGED <<environment, canceller, worker, flip>>
      /\ handler' = [handler EXCEPT ![h] = Idle]
  BY DEF UnleasePass, HandlerAt, Idle
<1>2. PICK d \in Deployments, e \in Environments :
        d = handler[h].dep /\ e = handler[h].copy.env
  BY <1>1, InCharge DEF Record
<1>3. CASE RecordUnchanged(h)
  <2> DEFINE r == [record[d] EXCEPT !.conv = "ready"]
  <2>1. /\ record'[d] = r /\ \A b \in Deployments : b # d => record'[b] = record[b]
        /\ handler'[h] = Idle /\ \A g \in Handlers : g # h => handler'[g] = handler[g]
    BY <1>1, <1>2, <1>3 DEF UnleasePass, TypeInv, TypeOK
  <2>2. /\ r # NoRecord /\ r.env = e /\ IsEdge(d)
        /\ record[d].status = "InProgress"
    BY <1>1, <1>2, <1>3, InCharge
    DEF RecordUnchanged, CopyFits, Record, NoRecord, Statuses, Terminal
  <2> HIDE DEF r
  <2>3. environment[e].status \in Busy \cup {"Deleted"}
    BY <1>1, <1>2, <2>2 DEF SerialInv, ReadyToDispatch, Carries, Open
  <2>4. \A j \in Jobs : Live(j) => EnvOf(j) # e
    BY <1>1, <1>2 DEF SerialInv, LiveJobsOwn, Awaits
  <2>5. flip'[h] = NoFlip /\ \A p \in Procs : p # h => flip'[p] = flip[p]
    BY <1>1
  <2> QED
    BY <1>1, <1>2, <2>1, <2>2, <2>3, <2>4, <2>5, SerialStores
<1>4. CASE ~RecordUnchanged(h)
  BY <1>1, <1>4, SerialStops DEF UnleasePass
<1> QED
  BY <1>3, <1>4

\* A job that is at work: what JobGoesOn needs to know of it.
LEMMA AtWork ==
    ASSUME TypeInv, SerialInv, NEW j \in Jobs,
           worker[j].pc \notin {"none", "done", "dead"}
    PROVE  /\ Live(j) /\ flip[j] = NoFlip
           /\ flip = [flip EXCEPT ![j] = NoFlip]
           /\ j[1] \in Deployments /\ record[j[1]] \in Record
           /\ record[j[1]] # NoRecord
           /\ worker[j].copy \in Record /\ worker[j].copy.env = EnvOf(j)
           /\ ~IsEdge(j[1]) => /\ worker[j].copy.conv = "none"
                               /\ worker[j].pc \notin {"publish", "yield", "yielding"}
                               /\ record[j[1]].conv = "none"
           /\ ~Waiting(j[1])
<1>1. Live(j) /\ flip[j] = NoFlip
  BY DEF Live, SerialInv, FlipsOwned
<1>2. flip = [flip EXCEPT ![j] = NoFlip]
  BY <1>1, Distinct DEF TypeInv, TypeOK
<1>3. j[1] \in Deployments /\ record[j[1]] # NoRecord
  BY Distinct DEF TypeInv, RecordsExist
<1>4. record[j[1]] \in Record
  BY <1>3 DEF TypeInv, TypeOK
<1>5. worker[j].copy \in Record
  BY WorkerFields DEF TypeInv, TypeOK
<1>6. ~Waiting(j[1])
  BY <1>1, <1>3 DEF SerialInv, WaitingOwn, EnvOf
<1> QED
  BY <1>1, <1>2, <1>3, <1>4, <1>5, <1>6 DEF SerialInv, PlainRecords, SameEnvironment

\* A job that writes its copy of the record, with another status or attempt state.
LEMMA WriteAgrees ==
    ASSUME TypeInv, SerialInv, NEW j \in Jobs,
           worker[j].pc \notin {"none", "done", "dead"},
           NEW status \in Statuses, NEW conv, IsEdge(j[1]) \/ conv = worker[j].copy.conv,
           record' = [record EXCEPT ![j[1]] =
                        [worker[j].copy EXCEPT !.status = status, !.conv = conv]]
    PROVE  /\ RecordsAgree
           /\ \A d \in Deployments : d # j[1] => record'[d] = record[d]
           /\ record'[j[1]].status = status /\ record'[j[1]].conv = conv
<1> DEFINE r == [worker[j].copy EXCEPT !.status = status, !.conv = conv]
<1>1. /\ r # NoRecord /\ r.env = record[j[1]].env /\ r.status = status /\ r.conv = conv
      /\ ~IsEdge(j[1]) => r.conv = "none"
  BY AtWork DEF Record, NoRecord, EnvOf
<1> HIDE DEF r
<1>2. record' = [record EXCEPT ![j[1]] = r]
  BY DEF r
<1>3. record'[j[1]] = r /\ \A d \in Deployments : d # j[1] => record'[d] = record[d]
  BY <1>2, AtWork DEF TypeInv, TypeOK
<1> QED
  BY <1>1, <1>3, AtWork DEF RecordsAgree

\* Every step of executeDeployment lets a job at work go on or stop.
LEMMA SerialWorker ==
    ASSUME TypeInv, PassInv, SerialInv, NEW j \in Jobs,
           WorkerStep(j) \/ PollCancel(j) \/ WorkerDies(j)
    PROVE  SerialInv'
<1>w. worker[j] \in WorkerStates
  BY DEF TypeInv, TypeOK
<1>u. ASSUME UNCHANGED record
      PROVE  /\ RecordsAgree
             /\ \A d \in Deployments : d # j[1] => record'[d] = record[d]
             /\ Live(j) => ~Waiting(j[1])'
  BY <1>u, Distinct DEF RecordsAgree, Waiting, SerialInv, WaitingOwn, EnvOf
<1>1. CASE WorkerReads(j)
  <2>1. worker[j].pc = "queued" /\ worker[j].prior \in EnvStatuses
    BY <1>1, <1>w, WorkerFields DEF WorkerReads, WorkerAt
  <2>2. CASE Accepts(j)
    <3> DEFINE c == [record[j[1]] EXCEPT !.status = "InProgress"]
               x == [pc |-> "starting", prior |-> worker[j].prior, copy |-> c]
    <3>1. c \in Record /\ (~IsEdge(j[1]) => c.conv = "none") /\ c.env = EnvOf(j)
      BY <2>1, AtWork DEF Record, Statuses, EnvOf
    <3>2. worker' = [worker EXCEPT ![j] = x]
      BY <1>1, <2>2 DEF WorkerReads
    <3> HIDE DEF c
    <3>3. x \in WorkerStates
      BY <2>1, <3>1 DEF WorkerStates
    <3>4. x.pc = "starting" /\ x.copy = c
      OBVIOUS
    <3> HIDE DEF x
    <3> QED
      BY <1>1, <1>u, <2>1, <3>1, <3>2, <3>3, <3>4, AtWork, JobGoesOn
      DEF WorkerReads
  <2>3. CASE ~Accepts(j)
    <3>1. worker' = [worker EXCEPT ![j] = Done(FALSE)]
      BY <1>1, <2>3 DEF WorkerReads
    <3>2. Done(FALSE) \in WorkerStates /\ Done(FALSE).pc = "done"
      BY DEF WorkerStates, Done
    <3> QED
      BY <1>1, <1>u, <2>1, <3>1, <3>2, AtWork, JobGoesOn DEF WorkerReads
  <2> QED
    BY <2>2, <2>3
<1>2. CASE WorkerStarts(j)
  <2>1. worker[j].pc = "starting" /\ worker[j].prior \in EnvStatuses
    BY <1>2, <1>w, WorkerFields DEF WorkerStarts, WorkerAt
  <2>2. worker[j].copy \in Record /\ worker[j].copy # NoRecord
    BY <2>1, AtWork DEF Record, NoRecord, Statuses, Terminal
  <2> DEFINE x == [pc |-> "acting", prior |-> worker[j].prior,
                   copy |-> worker[j].copy, stack |-> "none", seen |-> FALSE,
                   noted |-> FALSE]
  <2>3. x \in WorkerStates
    BY <2>1, <2>2 DEF WorkerStates
  <2>4. worker' = [worker EXCEPT ![j] = x]
    BY <1>2 DEF WorkerStarts
  <2>5. /\ RecordsAgree
        /\ \A d \in Deployments : d # j[1] => record'[d] = record[d]
        /\ record'[j[1]] = worker[j].copy
    BY <1>2, <2>1, <2>2, AtWork
    DEF WorkerStarts, RecordsAgree, TypeInv, TypeOK, EnvOf
  <2>6. x.pc = "acting" /\ x.copy = worker[j].copy
    OBVIOUS
  <2>7. worker[j].copy.conv # "ready"
    BY <2>1, AtWork DEF PassInv, CopiesFit, JobFits
  <2>8. ~Waiting(j[1])'
    BY <2>5, <2>7 DEF Waiting
  <2> HIDE DEF x
  <2> QED
    BY <1>2, <2>1, <2>3, <2>4, <2>5, <2>6, <2>8, AtWork, JobGoesOn DEF WorkerStarts
<1>3. ASSUME worker[j].pc \in {"acting", "noting", "publish", "yield"},
             NEW x \in RunningStates, x.copy.env = EnvOf(j),
             ~IsEdge(j[1]) => /\ x.pc \notin {"publish", "yield", "yielding"}
                              /\ x.copy.conv = "none",
             worker' = [worker EXCEPT ![j] = x], RecordsAgree,
             \A d \in Deployments : d # j[1] => record'[d] = record[d],
             ~Waiting(j[1])',
             UNCHANGED <<environment, handler, canceller, flip>>
      PROVE  SerialInv'
  <2>1. x \in WorkerStates /\ x.pc \notin {"none", "done", "dead"}
    BY DEF RunningStates, WorkerStates
  <2> QED
    BY <1>3, <2>1, AtWork, JobGoesOn
<1>4. ASSUME worker[j].pc \in {"acting", "noting", "publish", "yield", "yielding"}
      PROVE  worker[j] \in RunningStates
  BY <1>4, <1>w, RunningFields
<1>v. ASSUME worker[j].pc \in {"acting", "noting", "publish", "yield"},
             NEW x \in RunningStates, x.copy = worker[j].copy,
             ~IsEdge(j[1]) => x.pc \notin {"publish", "yield", "yielding"},
             worker' = [worker EXCEPT ![j] = x],
             UNCHANGED <<record, environment, handler, canceller, flip>>
      PROVE  SerialInv'
  BY <1>3, <1>u, <1>v, AtWork
<1>5. CASE NoteRead(j)
  <2>1. worker[j] \in RunningStates /\ worker[j].pc = "acting"
    BY <1>4, <1>5 DEF NoteRead, WorkerAt
  <2> DEFINE x == [worker[j] EXCEPT !.pc = "noting", !.noted = TRUE]
  <2>2. /\ x \in RunningStates /\ x.copy = worker[j].copy
        /\ x.pc = "noting"
    BY <2>1 DEF RunningStates
  <2>3. worker' = [worker EXCEPT ![j] = x]
    BY <1>5 DEF NoteRead
  <2> HIDE DEF x
  <2> QED
    BY <1>v, <1>5, <2>1, <2>2, <2>3 DEF NoteRead
<1>6. CASE NoteWrite(j)
  <2>1. worker[j] \in RunningStates /\ worker[j].pc = "noting"
    BY <1>4, <1>6 DEF NoteWrite, WorkerAt
  <2> DEFINE x == [worker[j] EXCEPT !.pc = "acting"]
  <2>2. /\ x \in RunningStates /\ x.copy = worker[j].copy
        /\ x.pc = "acting"
    BY <2>1 DEF RunningStates
  <2>3. worker' = [worker EXCEPT ![j] = x]
    BY <1>6 DEF NoteWrite
  <2>4. ~IsEdge(j[1])
    BY <2>1 DEF PassInv, CopiesFit, JobFits
  <2>5. /\ RecordsAgree
        /\ \A d \in Deployments : d # j[1] => record'[d] = record[d]
        /\ ~Waiting(j[1])'
    <3>1. worker[j].copy # NoRecord
      BY <2>1, AtWork DEF Record, NoRecord, Statuses, Terminal
    <3> QED
      BY <1>6, <2>1, <2>4, <3>1, AtWork
      DEF NoteWrite, RecordsAgree, TypeInv, TypeOK, EnvOf, Waiting
  <2> HIDE DEF x
  <2> QED
    BY <1>3, <1>6, <2>1, <2>2, <2>3, <2>4, <2>5, AtWork DEF NoteWrite
<1>7. CASE OnStack(j)
  <2>1. worker[j] \in RunningStates /\ worker[j].pc = "acting"
    BY <1>4, <1>7 DEF OnStack, WorkerAt
  <2> DEFINE x == [worker[j] EXCEPT !.stack = "live"]
  <2>2. /\ x \in RunningStates /\ x.copy = worker[j].copy
        /\ x.pc = "acting"
    BY <2>1 DEF RunningStates
  <2>3. worker' = [worker EXCEPT ![j] = x]
    BY <1>7 DEF OnStack
  <2> HIDE DEF x
  <2> QED
    BY <1>v, <1>7, <2>1, <2>2, <2>3 DEF OnStack
<1>8. CASE PollCancel(j)
  <2>1. worker[j] \in RunningStates /\ worker[j].pc \in {"acting", "noting"}
    BY <1>4, <1>8 DEF PollCancel, Acting
  <2> DEFINE s == IF worker[j].stack = "live" THEN "cancelled"
                                              ELSE worker[j].stack
             x == [worker[j] EXCEPT !.seen = TRUE, !.stack = s]
  <2>2. s \in {"none", "live", "cancelled"}
    BY <2>1 DEF RunningStates
  <2>3. worker' = [worker EXCEPT ![j] = x]
    BY <1>8 DEF PollCancel
  <2> HIDE DEF s
  <2>4. /\ x \in RunningStates /\ x.copy = worker[j].copy
        /\ x.pc \in {"acting", "noting"}
    BY <2>1, <2>2 DEF RunningStates
  <2> HIDE DEF x
  <2> QED
    BY <1>v, <1>8, <2>1, <2>3, <2>4 DEF PollCancel
<1>9. ASSUME NEW outcome \in {"succeed", "yield", "fail"}, Settle(j, outcome)
      PROVE  SerialInv'
  <2>1. worker[j] \in RunningStates /\ worker[j].pc = "acting"
    BY <1>4, <1>9 DEF Settle, WorkerAt
  <2> DEFINE pc == IF /\ outcome = "succeed" /\ IsEdge(j[1])
                      /\ worker[j].copy.action # "Refresh"
                   THEN "publish" ELSE outcome
             x == [worker[j] EXCEPT !.pc = pc]
  <2>2. /\ pc \in {"publish", "succeed", "yield", "fail"}
        /\ ~IsEdge(j[1]) => pc \notin {"publish", "yield"}
    BY <1>9 DEF Settle
  <2>3. worker' = [worker EXCEPT ![j] = x]
    BY <1>9 DEF Settle
  <2> HIDE DEF pc
  <2>4. x \in RunningStates /\ x.copy = worker[j].copy /\ x.pc = pc
    BY <2>1, <2>2 DEF RunningStates
  <2> HIDE DEF x
  <2> QED
    BY <1>v, <1>9, <2>1, <2>2, <2>3, <2>4 DEF Settle
<1>10. CASE Publish(j)
  <2>1. worker[j] \in RunningStates /\ worker[j].pc = "publish"
    BY <1>4, <1>10 DEF Publish, WorkerAt
  <2>2. PICK pc \in {"succeed", "fail"} : worker' = [worker EXCEPT ![j].pc = pc]
    BY <1>10 DEF Publish
  <2> DEFINE x == [worker[j] EXCEPT !.pc = pc]
  <2>3. /\ x \in RunningStates /\ x.copy = worker[j].copy /\ x.pc = pc
        /\ worker' = [worker EXCEPT ![j] = x]
    BY <2>1, <2>2 DEF RunningStates
  <2> HIDE DEF x
  <2> QED
    BY <1>v, <1>10, <2>1, <2>2, <2>3 DEF Publish
<1>11. CASE YieldRead(j)
  <2>1. worker[j] \in RunningStates /\ worker[j].pc = "yield"
    BY <1>4, <1>11 DEF YieldRead, WorkerAt
  <2>2. IsEdge(j[1]) /\ record[j[1]] \in Record /\ Live(j)
    BY <2>1, AtWork
  <2> DEFINE x == [worker[j] EXCEPT !.pc = "yielding", !.copy = record[j[1]]]
  <2>3. x \in RunningStates /\ x.copy = record[j[1]]
    BY <2>1, <2>2 DEF RunningStates
  <2>4. worker' = [worker EXCEPT ![j] = x]
    BY <1>11 DEF YieldRead
  <2> HIDE DEF x
  <2>5. x.copy.env = EnvOf(j)
    BY <2>3 DEF EnvOf
  <2> QED
    BY <1>3, <1>u, <1>11, <2>1, <2>2, <2>3, <2>4, <2>5 DEF YieldRead
<1>12. ASSUME worker[j].pc \in {"succeed", "fail", "yielding"},
              NEW status \in Statuses, NEW conv,
              IsEdge(j[1]) \/ conv = worker[j].copy.conv,
              record' = [record EXCEPT ![j[1]] =
                           [worker[j].copy EXCEPT !.status = status, !.conv = conv]],
              NEW threw \in BOOLEAN, worker' = [worker EXCEPT ![j] = Done(threw)],
              NEW f, flip' = [flip EXCEPT ![j] = f],
              f # NoFlip => f.env = worker[j].copy.env,
              status # "InProgress" \/ f = NoFlip,
              UNCHANGED <<environment, handler, canceller>>
       PROVE  SerialInv'
  <2>1. Done(threw) \in WorkerStates /\ Done(threw).pc = "done"
    BY <1>12 DEF WorkerStates, Done
  <2>2. /\ RecordsAgree
        /\ \A d \in Deployments : d # j[1] => record'[d] = record[d]
        /\ Waiting(j[1])' => f = NoFlip
    BY <1>12, WriteAgrees DEF Waiting
  <2>3. Live(j) /\ worker[j].copy.env = EnvOf(j)
    BY <1>12, AtWork
  <2>4. PICK x \in WorkerStates : x = Done(threw) /\ x.pc = "done"
    BY <2>1
  <2>5. f # NoFlip => x.pc = "done" /\ f.env = EnvOf(j)
    BY <1>12, <2>3, <2>4
  <2> QED
    BY <1>12, <2>2, <2>3, <2>4, <2>5, JobGoesOn
<1>c. ASSUME worker[j].pc \in {"succeed", "fail", "yielding"}, NEW status \in Statuses
      PROVE  [worker[j].copy EXCEPT !.status = status]
               = [worker[j].copy EXCEPT !.status = status, !.conv = worker[j].copy.conv]
  BY <1>c, AtWork DEF Record
<1>13. CASE YieldWrite(j)
  <2>1. worker[j].pc = "yielding" /\ IsEdge(j[1]) /\ flip[j] = NoFlip
    BY <1>13, AtWork DEF YieldWrite, WorkerAt
  <2>2. CASE worker[j].copy.status = "Cancelling"
    <3> DEFINE f == [pc |-> "read", env |-> worker[j].copy.env, status |-> "Failed",
                     url |-> "keep"]
    <3>1. /\ record' = [record EXCEPT ![j[1]] =
                           [worker[j].copy EXCEPT !.status = "Cancelled",
                                                  !.conv = worker[j].copy.conv]]
          /\ flip' = [flip EXCEPT ![j] = f]
      BY <1>13, <1>c, <2>1, <2>2 DEF YieldWrite, CallUpdateStatus, Statuses, Terminal
    <3>2. f.env = worker[j].copy.env
      OBVIOUS
    <3> HIDE DEF f
    <3>3. /\ worker' = [worker EXCEPT ![j] = Done(FALSE)]
          /\ UNCHANGED <<environment, handler, canceller>>
      BY <1>13 DEF YieldWrite
    <3>4. "Cancelled" \in Statuses /\ FALSE \in BOOLEAN
      BY DEF Statuses, Terminal
    <3> QED
      BY <1>12, <2>1, <3>1, <3>2, <3>3, <3>4
  <2>3. CASE worker[j].copy.status # "Cancelling"
    <3>1. /\ record' = [record EXCEPT ![j[1]] =
                           [worker[j].copy EXCEPT !.status = "InProgress",
                                                  !.conv = "ready"]]
          /\ flip' = flip
      BY <1>13, <2>3 DEF YieldWrite
    <3>2. flip' = [flip EXCEPT ![j] = NoFlip]
      BY <2>1, <3>1, AtWork
    <3> QED
      BY <1>12, <1>13, <2>1, <3>1, <3>2 DEF YieldWrite, Statuses
  <2> QED
    BY <2>2, <2>3
<1>14. CASE WorkerSucceeds(j)
  <2>1. worker[j].pc = "succeed"
    BY <1>14 DEF WorkerSucceeds, WorkerAt
  <2> DEFINE conv == IF IsEdge(j[1]) THEN "converged" ELSE worker[j].copy.conv
  <2>2. record' = [record EXCEPT ![j[1]] =
                     [worker[j].copy EXCEPT !.status = "Succeeded", !.conv = conv]]
        /\ (IsEdge(j[1]) \/ conv = worker[j].copy.conv)
    BY <1>14 DEF WorkerSucceeds
  <2> HIDE DEF conv
  <2>3. PICK f : flip' = [flip EXCEPT ![j] = f] /\ f.env = worker[j].copy.env
    BY <1>14 DEF WorkerSucceeds, CallUpdateStatus
  <2>4. /\ worker' = [worker EXCEPT ![j] = Done(FALSE)]
        /\ UNCHANGED <<environment, handler, canceller>>
    BY <1>14 DEF WorkerSucceeds
  <2>5. "Succeeded" \in Statuses /\ FALSE \in BOOLEAN
    BY DEF Statuses, Terminal
  <2> QED
    BY <1>12, <2>1, <2>2, <2>3, <2>4, <2>5
<1>15. CASE WorkerFails(j)
  <2>1. worker[j].pc = "fail" /\ worker[j].seen \in BOOLEAN
    BY <1>15, <1>w, RunningFields DEF WorkerFails, WorkerAt, RunningStates
  <2> DEFINE status == IF worker[j].seen THEN "Cancelled" ELSE "Failed"
             f == [pc |-> "read", env |-> worker[j].copy.env, status |-> "Failed",
                   url |-> "keep"]
  <2>2. /\ status \in {"Cancelled", "Failed"}
        /\ record' = [record EXCEPT ![j[1]] =
                        [worker[j].copy EXCEPT !.status = status]]
        /\ flip' = [flip EXCEPT ![j] = f] /\ f.env = worker[j].copy.env
    BY <1>15 DEF WorkerFails, CallUpdateStatus
  <2> HIDE DEF status, f
  <2>3. status \in Statuses /\ status # "InProgress"
    BY <2>2 DEF Statuses, Terminal
  <2>4. record' = [record EXCEPT ![j[1]] =
                     [worker[j].copy EXCEPT !.status = status,
                                            !.conv = worker[j].copy.conv]]
    BY <1>c, <2>1, <2>2, <2>3
  <2> QED
    BY <1>12, <1>15, <2>1, <2>2, <2>3, <2>4 DEF WorkerFails
<1>16. CASE WorkerDies(j)
  <2>1. [pc |-> "dead"] \in WorkerStates
    BY DEF WorkerStates
  <2> QED
    BY <1>16, <1>u, <2>1, JobGoesOn DEF WorkerDies
<1> QED
  BY <1>1, <1>2, <1>5, <1>6, <1>7, <1>8, <1>9, <1>10, <1>11, <1>13, <1>14, <1>15, <1>16
  DEF WorkerStep

LEMMA SerialInit == Init => SerialInv
<1> SUFFICES ASSUME Init PROVE SerialInv
  OBVIOUS
<1>1. /\ \A d \in Deployments : record[d] = NoRecord
      /\ \A h \in Handlers : handler[h] = Idle
      /\ \A c \in Cancellers : canceller[c] = Idle
      /\ \A j \in Jobs : worker[j].pc = "none"
      /\ \A p \in Procs : flip[p] = NoFlip
  BY DEF Init
<1>2. \A j \in Jobs : ~Live(j)
  BY <1>1 DEF Live
<1>3. \A d \in Deployments : ~Waiting(d)
  BY <1>1 DEF Waiting, NoRecord
<1> QED
  BY <1>1, <1>2, <1>3, Distinct
  DEF SerialInv, PlainRecords, SameEnvironment, FlipsOwned, ReadyToDispatch,
      LiveJobsOwn, WaitingOwn, OneInvocation, UnderWay

LEMMA SerialInductive ==
    ASSUME ~ Contest, TypeInv, PassInv, SerialInv, [Next]_vars
    PROVE  SerialInv'
<1>1. ASSUME NEW h \in Handlers, HandlerStep(h) \/ HandlerDies(h)
      PROVE  SerialInv'
  <2>1. DispatchReturns(h) \/ HandlerDies(h) => SerialInv'
    BY SerialStops DEF DispatchReturns, HandlerDies
  <2> QED
    BY <1>1, <2>1, SerialCreate, SerialDispatch, SerialThrows, SerialFailDispatch,
       SerialLease, SerialDispatchPass, SerialReread, SerialUnlease DEF HandlerStep
<1>2. CASE Next
  BY <1>1, <1>2, SerialEnvironment, SerialRead, SerialWrite, SerialAdmit,
     SerialContinue, SerialCancel, SerialWorker DEF Next, FlipStep
<1>3. CASE UNCHANGED vars
  BY <1>3
  DEF vars, SerialInv, OneInvocation, UnderWay, PlainRecords, SameEnvironment,
      FlipsOwned, ReadyToDispatch, LiveJobsOwn, WaitingOwn, Quiet,
      Waiting, Carries, Open, Awaits, Live, EnvOf
<1> QED
  BY <1>2, <1>3

\* Acting jobs are live, and a live job has its environment to itself.
LEMMA SerialSafe ==
    ASSUME SerialInv
    PROVE  NoOverlappingRuns /\ BusyWhileActing
<1>1. \A j \in Jobs : Acting(j) => Live(j)
  BY DEF Acting, Live
<1> QED
  BY <1>1
  DEF SerialInv, LiveJobsOwn, NoOverlappingRuns, BusyWhileActing

\* Until an environment is contested, the three parts of the invariant hold together.
LEMMA UncontestedInductive ==
    TypeInv /\ PassInv /\ SerialInv /\ [Next]_vars /\ [~ Contest]_vars =>
        (TypeInv /\ PassInv /\ SerialInv)'
<1>1. ASSUME TypeInv, [~ Contest]_vars PROVE ~ Contest /\ ~ Reset
  BY <1>1, StutterContestsNothing DEF Contest
<1> QED
  BY <1>1, TypeInductive, PassInductive, SerialInductive

\* The busy check does what it is for: two actions run on one environment's stack only
\* after a contest.  Any number of API invocations may race, on one environment also
\* with the workers and the cancel requests of earlier deployments, and passes of edge
\* deployments be leased and handed back, over any number of crashes; what the check
\* does not rule out are the steps of Contest, and nothing else makes actions overlap.
THEOREM UncontestedRunsNeverOverlap ==
    Spec /\ [][~ Contest]_vars => []NoOverlappingRuns
<1>1. Init => TypeInv /\ PassInv /\ SerialInv
  BY InitType, PassInit, SerialInit
<1>2. SerialInv => NoOverlappingRuns
  BY SerialSafe
<1> QED
  BY <1>1, <1>2, UncontestedInductive, PTL DEF Spec

\* And until then an environment reads as busy, or is gone, for as long as an action
\* runs on it.
THEOREM UncontestedRunsAreBusy ==
    Spec /\ [][~ Contest]_vars => []BusyWhileActing
<1>1. Init => TypeInv /\ PassInv /\ SerialInv
  BY InitType, PassInit, SerialInit
<1>2. SerialInv => BusyWhileActing
  BY SerialSafe
<1> QED
  BY <1>1, <1>2, UncontestedInductive, PTL DEF Spec

=============================================================================
