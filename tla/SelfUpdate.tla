----------------------------- MODULE SelfUpdate -----------------------------
(***************************************************************************)
(* Control-plane self-update: SelfUpdateService (jobs under one leased,    *)
(* versioned control record in the object store) and SelfUpdateExecutor    *)
(* (the worker that moves the CloudFormation stack to the signed image and *)
(* back again when that fails).                                            *)
(*                                                                         *)
(* A release is its generation g > 0 and its image is g as well; image 0   *)
(* is the one the installation started with.  A read of a versioned object *)
(* followed by its compare-and-set is one action: a lost race is retried,  *)
(* and MAX_CAS_ATTEMPTS is never reached.  A worker is one invocation, so  *)
(* its name is also the random holder of its claim.  Time is abstracted to *)
(* the expiry of the lease and the deadlines of the executor.              *)
(***************************************************************************)
EXTENDS Naturals, FiniteSets

CONSTANTS
    Jobs,        \* job ids
    Keys,        \* idempotency hashes (caller, tenant and Idempotency-Key)
    MaxGen,      \* bound: release generations are 1..MaxGen
    Requests,    \* POST and GET requests that can run at the same time
    Workers,     \* bound: worker invocations in a behaviour
    Faults,      \* the kinds of fault that can happen, see FaultKinds
    MaxFaults    \* bound: faults in a behaviour

FaultKinds == {"refused",  \* a dispatch fails, the worker never runs
               "reset",    \* a dispatch fails, but the worker runs
               "lost",     \* the abort fires before the worker is reached
               "killed",   \* a worker stops between two awaits
               "crash",    \* a request stops between two awaits
               "slow",     \* the lease of a process that still runs expires
               "expired",  \* the worker rejects the release evidence
               "aws",      \* an AWS call fails (after taking effect or not)
               "deadline"} \* the executor runs out of its own time

ASSUME SelfUpdateAssumption ==
    /\ MaxGen \in Nat
    /\ MaxFaults \in Nat
    /\ Faults \subseteq FaultKinds
    /\ Workers \cap Requests = {}

VARIABLES
    control,  \* the control record: high-water mark and lease
    job,      \* the stored SelfUpdateJob of each id
    binding,  \* the job each idempotency hash is bound to
    request,  \* local state of each POST and GET
    worker,   \* local state of each worker invocation
    timer,    \* the heartbeat that withHeartbeat's interval has in flight
    stack,    \* the CloudFormation stack: ImageUri, the one before, status
    faults    \* faults so far

vars == <<control, job, binding, request, worker, timer, stack, faults>>

-----------------------------------------------------------------------------
(* Data *)

Gens   == 1..MaxGen
Images == 0..MaxGen

Early == {"queued", "verifying", "describing-stack"}
Awaiting == {"waiting-for-stack", "probing-health"}
Recovering == {"submitting-recovery", "waiting-for-recovery"}
Phases == Early \cup Awaiting \cup Recovering \cup
          {"mirroring", "submitting-update", "complete"}

NoJob     == [status |-> "Absent"]
NoImage   == MaxGen + 1
NoHolder  == "none"
NoLease   == [live |-> FALSE]
NoBinding == "none"
Idle      == [pc |-> "idle"]
NotStarted == [pc |-> "none"]

\* The holder of an unclaimed lease is no worker.
ASSUME NoHolderAssumption == NoHolder \notin Workers

Job == [status : {"queued", "running", "succeeded", "failed"},
        phase : Phases, gen : Gens, holder : Workers \cup {NoHolder},
        previous : Images \cup {NoImage},
        recovery : {"unset", "unknown", "in-progress", "recovered",
                    "exhausted"}]

Lease == [job : Jobs, live : BOOLEAN, holder : Workers \cup {NoHolder}]

Exists(j)   == job[j] # NoJob
Terminal(r) == r.status \in {"succeeded", "failed"}
Holds(j)    == control.lease # NoLease /\ control.lease.job = j
HeldBy(w)   == Holds(worker[w].id) /\ control.lease.holder = w

Fault(kind) == /\ kind \in Faults
               /\ faults < MaxFaults
               /\ faults' = faults + 1

NewJob(g) == [status |-> "queued", phase |-> "queued", gen |-> g,
              holder |-> NoHolder, previous |-> NoImage,
              recovery |-> "unset"]

Settled == stack.status # "progress"

-----------------------------------------------------------------------------
(* POST /self-update: SelfUpdateService.create *)

\* Verify the release against the high-water mark.
Create(p, g, k) ==
    /\ request[p] = Idle
    /\ g >= control.high
    /\ request' = [request EXCEPT ![p] = [pc |-> "bound?", gen |-> g,
                                          key |-> k]]
    /\ UNCHANGED <<control, job, binding, worker, timer, stack, faults>>

\* A bound idempotency key returns its job (or a conflict).
FindBinding(p) ==
    /\ request[p].pc = "bound?"
    /\ LET b == binding[request[p].key]
       IN request' = [request EXCEPT ![p] =
                        IF b # NoBinding THEN Idle
                                         ELSE [@ EXCEPT !.pc = "store"]]
    /\ UNCHANGED <<control, job, binding, worker, timer, stack, faults>>

StoreJob(p, j) ==
    /\ request[p].pc = "store"
    /\ ~ Exists(j)
    /\ job' = [job EXCEPT ![j] = NewJob(request[p].gen)]
    /\ request' = [request EXCEPT ![p] =
         [pc |-> "lease", id |-> j, gen |-> @.gen, key |-> @.key]]
    /\ UNCHANGED <<control, binding, worker, timer, stack, faults>>

\* The high-water mark after leasing a job of generation g.
Raised(high, g) == IF high > g THEN high ELSE g

\* Fault: an unexpired lease can be taken as well.
Available_Stolen == TRUE

\* Fault: an expired lease still blocks.
Available_Never == control.lease = NoLease

\* No live lease stands in the way of a new job.
Available == ~ control.lease.live

\* Fault: the high-water mark is not checked again.
BelowFloor_Unchecked(g) == FALSE

BelowFloor(g) == control.high > g

TakeLease(p) ==
    /\ request[p].pc = "lease"
    /\ LET r == request[p]
       IN IF BelowFloor(r.gen) \/ ~ Available
          THEN /\ request' = [request EXCEPT ![p].pc = "delete"]
               /\ UNCHANGED control
          ELSE /\ control' = [high  |-> Raised(control.high, r.gen),
                              lease |-> [job |-> r.id, live |-> TRUE,
                                         holder |-> NoHolder]]
               /\ request' = [request EXCEPT ![p] =
                    IF control.lease = NoLease
                    THEN [pc |-> "bind", id |-> r.id, key |-> r.key,
                          old |-> r.id]
                    ELSE [pc |-> "abandoned?", id |-> r.id, key |-> r.key,
                          old |-> control.lease.job]]
    /\ UNCHANGED <<job, binding, worker, timer, stack, faults>>

\* Refused: the job that was stored is deleted again.
DeleteJob(p) ==
    /\ request[p].pc = "delete"
    /\ job' = [job EXCEPT ![request[p].id] = NoJob]
    /\ request' = [request EXCEPT ![p] = Idle]
    /\ UNCHANGED <<control, binding, worker, timer, stack, faults>>

Unfinished(j) == Exists(j) /\ ~ Terminal(job[j])

\* failAbandoned of the job whose expired lease was taken: read ...
ReadAbandoned(p) ==
    /\ request[p].pc = "abandoned?"
    /\ request' = [request EXCEPT ![p].pc =
         IF Unfinished(request[p].old) THEN "abandon" ELSE "bind"]
    /\ UNCHANGED <<control, job, binding, worker, timer, stack, faults>>

\* ... and fail it, whatever it has become since.
FailAbandoned(p) ==
    /\ request[p].pc = "abandon"
    /\ job' = [job EXCEPT ![request[p].old] =
         [@ EXCEPT !.status = "failed", !.phase = "complete",
                   !.recovery = "unknown"]]
    /\ request' = [request EXCEPT ![p].pc = "bind"]
    /\ UNCHANGED <<control, binding, worker, timer, stack, faults>>

Bind(p) ==
    /\ request[p].pc = "bind"
    /\ binding' = [binding EXCEPT ![request[p].key] =
                     IF @ = NoBinding THEN request[p].id ELSE @]
    /\ request' = [request EXCEPT ![p] = [pc |-> "dispatch",
                                          id |-> request[p].id]]
    /\ UNCHANGED <<control, job, worker, timer, stack, faults>>

\* The job id reaches a new worker invocation, which runs whether or not
\* the request still waits for its response.
Deliver(p, w) ==
    /\ worker[w] = NotStarted
    /\ worker' = [worker EXCEPT ![w] = [pc |-> "read", id |-> request[p].id]]
    /\ request' = [request EXCEPT ![p] =
         [pc |-> IF @.pc = "dispatch" THEN "waiting" ELSE "resumed",
          id |-> @.id, worker |-> w]]

Dispatch(p) ==
    /\ request[p].pc \in {"dispatch", "redispatch"}
    /\ \/ \E w \in Workers : Deliver(p, w) /\ UNCHANGED faults
       \/ /\ Fault("lost")
          /\ request' = [request EXCEPT ![p] = Idle]
          /\ UNCHANGED worker
       \/ /\ Fault("refused")
          /\ request' = [request EXCEPT ![p] =
               IF @.pc = "dispatch" THEN [pc |-> "fail", id |-> @.id] ELSE Idle]
          /\ UNCHANGED worker
    /\ UNCHANGED <<control, job, binding, timer, stack>>

\* The worker answered, or the abort fired after DISPATCH_TIMEOUT_MS; a
\* failed resume is only logged.
DispatchReturns(p) ==
    /\ request[p].pc \in {"waiting", "resumed"}
    /\ request' = [request EXCEPT ![p] = Idle]
    /\ UNCHANGED <<control, job, binding, worker, timer, stack, faults>>

DispatchThrows(p) ==
    /\ request[p].pc = "waiting"
    /\ \/ worker[request[p].worker].pc = "threw" /\ UNCHANGED faults
       \/ Fault("reset")
    /\ request' = [request EXCEPT ![p] = [pc |-> "fail", id |-> @.id]]
    /\ UNCHANGED <<control, job, binding, worker, timer, stack>>

\* dispatchOrFail: finish the job without a holder, whatever it is by now ...
FailDispatched(p) ==
    /\ request[p].pc = "fail"
    /\ job' = [job EXCEPT ![request[p].id] =
         [@ EXCEPT !.status = "failed", !.phase = "complete",
                   !.recovery = "unknown"]]
    /\ request' = [request EXCEPT ![p].pc = "clear"]
    /\ UNCHANGED <<control, binding, worker, timer, stack, faults>>

Cleared == [control EXCEPT !.lease = NoLease]

\* ... and clear its lease, whoever holds it.
ClearDispatched(p) ==
    /\ request[p].pc = "clear"
    /\ control' = IF Holds(request[p].id) THEN Cleared ELSE control
    /\ request' = [request EXCEPT ![p] = Idle]
    /\ UNCHANGED <<job, binding, worker, timer, stack, faults>>

-----------------------------------------------------------------------------
(* GET /self-update/:jobId: SelfUpdateService.getAndResume *)

\* Fault: only a job that no worker has claimed yet is resumed.
Resume_Queued(p, j) ==
    /\ request[p] = Idle
    /\ Exists(j) /\ job[j].status = "queued"
    /\ request' = [request EXCEPT ![p] = [pc |-> "expired?", id |-> j]]
    /\ UNCHANGED <<control, job, binding, worker, timer, stack, faults>>

Resume(p, j) ==
    /\ request[p] = Idle
    /\ Unfinished(j)
    /\ request' = [request EXCEPT ![p] = [pc |-> "expired?", id |-> j]]
    /\ UNCHANGED <<control, job, binding, worker, timer, stack, faults>>

Renewed == [control EXCEPT !.lease.live = TRUE, !.lease.holder = NoHolder]

RenewLease(p) ==
    /\ request[p].pc = "expired?"
    /\ IF Holds(request[p].id) /\ ~ control.lease.live
       THEN /\ control' = Renewed
            /\ request' = [request EXCEPT ![p].pc = "unhold"]
       ELSE /\ request' = [request EXCEPT ![p] = Idle]
            /\ UNCHANGED control
    /\ UNCHANGED <<job, binding, worker, timer, stack, faults>>

UnholdJob(p) ==
    /\ request[p].pc = "unhold"
    /\ job' = [job EXCEPT ![request[p].id].holder = NoHolder]
    /\ request' = [request EXCEPT ![p].pc = "redispatch"]
    /\ UNCHANGED <<control, binding, worker, timer, stack, faults>>

-----------------------------------------------------------------------------
(* The calls of a worker w on the job service.  Each is a compare-and-set  *)
(* on the control record followed by one on the job; a check that fails is *)
(* SelfUpdateLeaseStolenError, which ends the invocation.                  *)

Stop(w, pc) == worker' = [worker EXCEPT ![w] = [pc |-> pc]]

\* Worker w calls heartbeat(id, holder, phase, patch) and then goes to next.
\* A patch records the previous image or the start of the recovery.
Beating(w, phase, next) ==
    [worker[w] EXCEPT !.pc = "beat", !.phase = phase, !.next = next]
Beat(w, phase, next) == worker' = [worker EXCEPT ![w] = Beating(w, phase, next)]

\* Worker w calls finish(id, { status, recoveryState }, holder).
Finish(w, status, recovery) ==
    worker' = [worker EXCEPT ![w] =
      [pc |-> "finish", id |-> @.id, status |-> status, recovery |-> recovery]]

\* claim: read the job ...
WorkerReads(w) ==
    /\ worker[w].pc = "read"
    /\ LET j == worker[w].id
       IN IF ~ Exists(j) THEN Stop(w, "threw")
          ELSE IF Terminal(job[j]) THEN Stop(w, "done")
          ELSE worker' = [worker EXCEPT ![w].pc = "claim"]
    /\ UNCHANGED <<control, job, binding, request, timer, stack, faults>>

Claimable(j) == /\ Holds(j) /\ control.lease.live
                /\ control.lease.holder = NoHolder

\* ... put a holder on its live, unclaimed lease ...
ClaimLease(w) ==
    /\ worker[w].pc = "claim"
    /\ IF Claimable(worker[w].id)
       THEN /\ control' = [control EXCEPT !.lease.holder = w]
            /\ worker' = [worker EXCEPT ![w].pc = "claimed"]
       ELSE Stop(w, "threw") /\ UNCHANGED control
    /\ UNCHANGED <<job, binding, request, timer, stack, faults>>

\* ... and mark the job running.
ClaimJob(w) ==
    /\ worker[w].pc = "claimed"
    /\ LET r == job[worker[w].id]
           running == [r EXCEPT !.status = "running", !.holder = w,
                                !.phase = IF @ = "queued" THEN "verifying"
                                                          ELSE @]
       IN /\ job' = [job EXCEPT ![worker[w].id] = running]
          /\ worker' = [worker EXCEPT ![w] =
               [pc |-> "verify", id |-> @.id, copy |-> running,
                stack |-> stack, phase |-> running.phase, next |-> "none",
                mutating |-> FALSE, catches |-> FALSE, pinned |-> FALSE,
                tried |-> FALSE]]
    /\ UNCHANGED <<control, binding, request, timer, stack, faults>>

\* captureStack's previousImage: the recorded one, or that of the stack.
Captured(w) == IF worker[w].copy.previous = NoImage
               THEN worker[w].stack.image ELSE worker[w].copy.previous

BeatLease(w) ==
    /\ worker[w].pc = "beat"
    /\ IF HeldBy(w)
       THEN /\ control' = [control EXCEPT !.lease.live = TRUE]
            /\ worker' = [worker EXCEPT ![w].pc = "beaten"]
       ELSE Stop(w, "done") /\ UNCHANGED control
    /\ UNCHANGED <<job, binding, request, timer, stack, faults>>

BeatJob(w) ==
    /\ worker[w].pc = "beaten"
    /\ LET r == job[worker[w].id]
           beaten == [r EXCEPT
             !.phase    = worker[w].phase,
             !.previous = IF worker[w].next = "route" THEN Captured(w) ELSE @,
             !.recovery = IF worker[w].next = "settle" THEN "in-progress"
                                                       ELSE @]
       IN IF r.holder = w
          THEN /\ job' = [job EXCEPT ![worker[w].id] = beaten]
               /\ worker' = [worker EXCEPT ![w].pc = worker[w].next,
                                          ![w].copy = beaten]
          ELSE Stop(w, "done") /\ UNCHANGED job
    /\ UNCHANGED <<control, binding, request, timer, stack, faults>>

\* finish: assertHolder, ...
AssertHolder(w) ==
    /\ worker[w].pc = "finish"
    /\ IF HeldBy(w) THEN worker' = [worker EXCEPT ![w].pc = "finishing"]
                       ELSE Stop(w, "done")
    /\ UNCHANGED <<control, job, binding, request, timer, stack, faults>>

\* ... write the result, ...
FinishJob(w) ==
    /\ worker[w].pc = "finishing"
    /\ LET j == worker[w].id
           r == job[j]
           recovery == worker[w].recovery
           finished == [r EXCEPT !.status = worker[w].status,
                                 !.phase = "complete",
                                 !.recovery = IF recovery = "keep"
                                              THEN r.recovery ELSE recovery]
       IN IF r.holder = w
          THEN /\ job' = [job EXCEPT ![j] = finished]
               /\ worker' = [worker EXCEPT ![w] = [pc |-> "clear", id |-> j]]
          ELSE Stop(w, "done") /\ UNCHANGED job
    /\ UNCHANGED <<control, binding, request, timer, stack, faults>>

\* ... and clear the lease.
ClearLease(w) ==
    /\ worker[w].pc = "clear"
    /\ control' = IF HeldBy(w) THEN Cleared ELSE control
    /\ Stop(w, "done")
    /\ UNCHANGED <<job, binding, request, timer, stack, faults>>

\* withHeartbeat: every 20 seconds of mirroring a heartbeat is sent off and
\* not awaited; it may land after the mirroring, and its error is dropped.
TimerFires(w) ==
    /\ worker[w].pc = "mirror"
    /\ timer[w] = NotStarted
    /\ timer' = [timer EXCEPT ![w] = [pc |-> "beat", id |-> worker[w].id]]
    /\ UNCHANGED <<control, job, binding, request, worker, stack, faults>>

TimerBeats(w) ==
    /\ \/ /\ timer[w].pc = "beat"
          /\ IF Holds(timer[w].id) /\ control.lease.holder = w
             THEN /\ control' = [control EXCEPT !.lease.live = TRUE]
                  /\ timer' = [timer EXCEPT ![w].pc = "beaten"]
             ELSE /\ timer' = [timer EXCEPT ![w] = NotStarted]
                  /\ UNCHANGED control
          /\ UNCHANGED job
       \/ /\ timer[w].pc = "beaten"
          /\ job' = IF job[timer[w].id].holder = w
                    THEN [job EXCEPT ![timer[w].id].phase = "mirroring"]
                    ELSE job
          /\ timer' = [timer EXCEPT ![w] = NotStarted]
          /\ UNCHANGED control
    /\ UNCHANGED <<binding, request, worker, stack, faults>>

-----------------------------------------------------------------------------
(* CloudFormation: one update at a time; the ImageUri parameter shows the  *)
(* update in progress and goes back when CloudFormation rolls it back.     *)

UpdateAccepted(image) ==
    /\ stack.status \in {"complete", "rolledback"}
    /\ stack.image # image
    /\ stack' = [image |-> image, was |-> stack.image, status |-> "progress"]

StackSettles ==
    /\ ~ Settled
    /\ stack' \in {[stack EXCEPT !.status = "complete"],
                   [stack EXCEPT !.status = "rolledback", !.image = stack.was],
                   [stack EXCEPT !.status = "failed", !.image = stack.was]}
    /\ UNCHANGED <<control, job, binding, request, worker, timer, faults>>

-----------------------------------------------------------------------------
(* SelfUpdateExecutor.executeWithLease *)

\* The release evidence, and the scoped role's ARN, are checked again.
Verify(w) ==
    /\ worker[w].pc = "verify"
    /\ \/ /\ worker' = [worker EXCEPT ![w].pc = "describe"]
          /\ UNCHANGED faults
       \/ Fault("expired") /\ Finish(w, "failed", "recovered")
    /\ UNCHANGED stack

\* Describe the stack and record its image in the job; an error on the way
\* there fails the job "before mutation".
Describe(w) ==
    /\ worker[w].pc = "describe"
    /\ \/ /\ LET phase == worker[w].copy.phase
                 next  == IF phase \in Early THEN "describing-stack" ELSE phase
             IN worker' = [worker EXCEPT ![w] =
                  [Beating(w, next, "route") EXCEPT !.stack = stack]]
          /\ UNCHANGED faults
       \/ Fault("aws") /\ Finish(w, "failed", "recovered")
    /\ UNCHANGED stack

\* Where the executor goes on from the job's phase and the described stack.
WhereTo(w) ==
    LET r == worker[w].copy
        s == worker[w].stack
    IN IF r.phase \in Recovering THEN "recover"
       ELSE IF r.phase \in Awaiting THEN "wait"
       ELSE IF s.image = r.gen \/ s.status = "progress" THEN "adopt"
       ELSE IF r.phase = "submitting-update" THEN "submit"
       ELSE "mirror"

\* "adopt" waits for an update that is under way without submitting one.  All
\* ways but a resumed recovery lead into the try block.
Route(w) ==
    /\ worker[w].pc = "route"
    /\ LET phase == worker[w].copy.phase
           to    == WhereTo(w)
           on    == CASE to = "adopt"  -> Beating(w, "waiting-for-stack", "wait")
                      [] to = "mirror" -> Beating(w, "mirroring", "mirror")
                      [] OTHER         -> [worker[w] EXCEPT !.pc = to]
       IN worker' = [worker EXCEPT ![w] =
            [on EXCEPT !.mutating = phase \notin Early \cup {"mirroring"},
                       !.catches  = to # "recover"]]
    /\ UNCHANGED <<stack, faults>>

\* crane cp and resolveImageDigest.
Mirror(w) ==
    /\ worker[w].pc = "mirror"
    /\ \/ Beat(w, "submitting-update", "submit") /\ UNCHANGED faults
       \/ /\ Fault("aws")
          /\ IF worker[w].mutating
             THEN worker' = [worker EXCEPT ![w].pc = "catch"]
             ELSE Finish(w, "failed", "recovered")
    /\ UNCHANGED stack

\* UpdateStack to the target image; any error goes to the catch block.
Submit(w) ==
    /\ worker[w].pc = "submit"
    /\ \/ /\ UpdateAccepted(worker[w].copy.gen)
          /\ Beat(w, "waiting-for-stack", "wait")
          /\ UNCHANGED faults
       \/ /\ \/ /\ stack.status \notin {"complete", "rolledback"}
                   \/ stack.image = worker[w].copy.gen
                /\ UNCHANGED <<stack, faults>>
             \/ /\ Fault("aws")
                /\ UNCHANGED stack \/ UpdateAccepted(worker[w].copy.gen)
          /\ worker' = [worker EXCEPT ![w].pc = "catch"]

\* waitForTarget: describe until the stack settles or time runs out.
WaitForTarget(w) ==
    /\ worker[w].pc = "wait"
    /\ LET seen == [worker[w] EXCEPT !.stack = stack]
       IN \/ /\ ~ Settled
             /\ Beat(w, "waiting-for-stack", "wait")
             /\ UNCHANGED faults
          \/ /\ stack.status = "complete"
             /\ worker' = [worker EXCEPT ![w] =
                  [Beating(w, "probing-health", "probe") EXCEPT !.stack = stack]]
             /\ UNCHANGED faults
          \/ /\ \/ stack.status \in {"rolledback", "failed"} /\ UNCHANGED faults
                \/ ~ Settled /\ Fault("deadline")
             /\ worker' = [worker EXCEPT ![w] = [seen EXCEPT !.pc = "recover"]]
          \/ /\ Fault("aws")
             /\ worker' = [worker EXCEPT ![w].pc = "catch"]
    /\ UNCHANGED stack

\* Fault: any initialized server counts as the target.
Serves_AnyVersion(image) == TRUE

\* The server answers with the version of the image.
Serves(image) == stack.image = image

\* pollHealth: the target version answers, or it never does.  (One heartbeat
\* stands for those of all its rounds.)
ProbeTarget(w) ==
    /\ worker[w].pc = "probe"
    /\ \/ Serves(worker[w].copy.gen) /\ Finish(w, "succeeded", "keep")
       \/ worker' = [worker EXCEPT ![w].pc = "recover"]
    /\ UNCHANGED <<stack, faults>>

\* The catch block once the stack may have been changed.
CatchError(w) ==
    /\ worker[w].pc = "catch"
    /\ \/ /\ worker' = [worker EXCEPT ![w].pc = "recover", ![w].stack = stack,
                                      ![w].catches = FALSE]
          /\ UNCHANGED faults
       \/ Fault("aws") /\ Stop(w, "threw")
    /\ UNCHANGED stack

\* An AWS call of recover() fails: the catch block takes over and will recover
\* afresh, or the invocation throws.
Throw(w) == IF worker[w].catches
            THEN worker' = [worker EXCEPT ![w].pc = "catch", ![w].pinned = FALSE,
                                          ![w].tried = FALSE]
            ELSE Stop(w, "threw")

-----------------------------------------------------------------------------
(* SelfUpdateExecutor.recover: pin the previous image again.               *)

Exhaust(w) == Finish(w, "failed", "exhausted")

Recover(w) ==
    /\ worker[w].pc = "recover"
    /\ Beat(w, "submitting-recovery", "settle")
    /\ UNCHANGED <<stack, faults>>

\* Wait for the stack, as last described, to settle; give up on one that
\* failed, and leave the job to the next invocation when time runs out.
AwaitSettled(w) ==
    /\ worker[w].pc = "settle"
    /\ LET status == worker[w].stack.status
       IN \/ /\ status = "progress"
             /\ Beat(w, "submitting-recovery", "look")
             /\ UNCHANGED faults
          \/ /\ status = "failed"
             /\ Exhaust(w)
             /\ UNCHANGED faults
          \/ /\ status \in {"complete", "rolledback"}
             /\ worker' = [worker EXCEPT ![w].pc = "repin"]
             /\ UNCHANGED faults
          \/ /\ status # "failed" /\ Fault("deadline")
             /\ IF worker[w].tried THEN Exhaust(w) ELSE Stop(w, "done")
    /\ UNCHANGED stack

Look(w) ==
    /\ worker[w].pc = "look"
    /\ \/ /\ worker' = [worker EXCEPT ![w].pc = "settle", ![w].stack = stack]
          /\ UNCHANGED faults
       \/ Fault("aws") /\ Throw(w)
    /\ UNCHANGED stack

\* Submit the previous image.  "No updates" counts as submitted; after any
\* other error the stack is described and the submission tried again, with
\* no heartbeat in between unless the stack is busy.
Repin(w) ==
    /\ worker[w].pc = "repin"
    /\ LET previous == worker[w].copy.previous
           same     == stack.status \in {"complete", "rolledback"}
                       /\ stack.image = previous
           watching == Beating(w, "waiting-for-recovery", "watch")
       IN \/ /\ UpdateAccepted(previous)
             /\ worker' = [worker EXCEPT ![w] = watching]
             /\ UNCHANGED faults
          \/ /\ same
             /\ worker' = [worker EXCEPT ![w] = [watching EXCEPT !.pinned = TRUE]]
             /\ UNCHANGED <<stack, faults>>
          \/ /\ \/ /\ stack.status \in {"progress", "failed"}
                   /\ UNCHANGED <<stack, faults>>
                \/ /\ Fault("aws")
                   /\ UNCHANGED stack \/ UpdateAccepted(previous)
             /\ worker' = [worker EXCEPT ![w].pc = "look", ![w].tried = TRUE]

\* waitForRecovery.
AwaitRecovery(w) ==
    /\ worker[w].pc = "watch"
    /\ \/ /\ ~ Settled
          /\ Beat(w, "waiting-for-recovery", "watch")
          /\ UNCHANGED faults
       \/ /\ ~ Settled /\ Fault("deadline")
          /\ Stop(w, "done")
       \/ Fault("aws") /\ Throw(w)
       \/ /\ stack.status = "failed"
          /\ Exhaust(w)
          /\ UNCHANGED faults
       \/ /\ stack.status \in {"complete", "rolledback"}
          /\ worker' = [worker EXCEPT ![w] =
               [Beating(w, "waiting-for-recovery", "reprobe")
                  EXCEPT !.stack = stack]]
          /\ UNCHANGED faults
    /\ UNCHANGED stack

\* Fault: a healthy server is enough, whatever became of the re-pin.
Restored_Healthy(w) == TRUE

\* The re-pin was completed, or was not needed.
Restored(w) == worker[w].stack.status = "complete" \/ worker[w].pinned

ProbeRecovered(w) ==
    /\ worker[w].pc = "reprobe"
    /\ \/ Restored(w) /\ Finish(w, "failed", "recovered") /\ UNCHANGED faults
       \/ Exhaust(w) /\ UNCHANGED faults
       \/ Fault("deadline") /\ Stop(w, "done")
    /\ UNCHANGED stack

-----------------------------------------------------------------------------
(* The environment: processes stop, and leases expire.                     *)

Running(w) == worker[w].pc \notin {"none", "done", "threw", "dead"}

WorkerKilled(w) ==
    /\ Running(w)
    /\ Fault("killed")
    /\ Stop(w, "dead")
    /\ timer' = [timer EXCEPT ![w] = NotStarted]
    /\ UNCHANGED <<control, job, binding, request, stack>>

RequestCrashes(p) ==
    /\ request[p] # Idle
    /\ Fault("crash")
    /\ request' = [request EXCEPT ![p] = Idle]
    /\ UNCHANGED <<control, job, binding, worker, timer, stack>>

\* A process that has still to act on the lease of job j: the request that
\* dispatches it (DISPATCH_TIMEOUT_MS is less than LEASE_MS), or a worker that
\* was given it or holds it.
Attended(j) ==
    \/ \E p \in Requests : /\ request[p].pc \in {"abandoned?", "abandon", "bind",
                                "dispatch", "waiting", "fail", "clear", "unhold",
                                "redispatch"}
                           /\ request[p].id = j
    \/ \E w \in Workers : /\ Running(w) /\ worker[w].id = j
                          /\ control.lease.holder \in {w, NoHolder}

\* LEASE_MS passes without a heartbeat.  That is a fault ("slow") as long
\* as somebody attends to the lease.
LeaseExpires ==
    /\ control.lease.live
    /\ IF Attended(control.lease.job) THEN Fault("slow") ELSE UNCHANGED faults
    /\ control' = [control EXCEPT !.lease.live = FALSE]
    /\ UNCHANGED <<job, binding, request, worker, timer, stack>>

-----------------------------------------------------------------------------
Init ==
    /\ control = [high |-> 0, lease |-> NoLease]
    /\ job     = [j \in Jobs |-> NoJob]
    /\ binding = [k \in Keys |-> NoBinding]
    /\ request = [p \in Requests |-> Idle]
    /\ worker  = [w \in Workers |-> NotStarted]
    /\ timer   = [w \in Workers |-> NotStarted]
    /\ stack   = [image |-> 0, was |-> 0, status |-> "complete"]
    /\ faults  = 0

\* What a POST or a GET does once it is there.
RequestStep(p) ==
    \/ FindBinding(p)
    \/ \E j \in Jobs : StoreJob(p, j)
    \/ TakeLease(p) \/ DeleteJob(p)
    \/ ReadAbandoned(p) \/ FailAbandoned(p) \/ Bind(p)
    \/ Dispatch(p) \/ DispatchReturns(p) \/ DispatchThrows(p)
    \/ FailDispatched(p) \/ ClearDispatched(p)
    \/ RenewLease(p) \/ UnholdJob(p)

ServiceStep(w) ==
    \/ WorkerReads(w) \/ ClaimLease(w) \/ ClaimJob(w)
    \/ BeatLease(w) \/ BeatJob(w)
    \/ AssertHolder(w) \/ FinishJob(w) \/ ClearLease(w)

ExecutorStep(w) ==
    /\ \/ Verify(w) \/ Describe(w) \/ Route(w) \/ Mirror(w) \/ Submit(w)
       \/ WaitForTarget(w) \/ ProbeTarget(w) \/ CatchError(w)
       \/ Recover(w) \/ AwaitSettled(w) \/ Look(w) \/ Repin(w)
       \/ AwaitRecovery(w) \/ ProbeRecovered(w)
    /\ UNCHANGED <<control, job, binding, request, timer>>

Next ==
    \/ \E p \in Requests :
         \/ \E g \in Gens, k \in Keys : Create(p, g, k)
         \/ \E j \in Jobs : Resume(p, j)
         \/ RequestStep(p) \/ RequestCrashes(p)
    \/ \E w \in Workers : \/ ServiceStep(w) \/ ExecutorStep(w)
                          \/ TimerFires(w) \/ TimerBeats(w)
                          \/ WorkerKilled(w)
    \/ StackSettles
    \/ LeaseExpires

Spec == Init /\ [][Next]_vars

\* Every process that runs goes on, CloudFormation settles, time passes, and
\* clients keep polling the jobs they know.
Fairness ==
    /\ \A p \in Requests : WF_vars(RequestStep(p))
    /\ \A w \in Workers : WF_vars(ServiceStep(w) \/ ExecutorStep(w))
    /\ WF_vars(StackSettles)
    /\ WF_vars(LeaseExpires /\ UNCHANGED faults)
    /\ \A j \in Jobs : SF_vars(\E p \in Requests : Resume(p, j))

FairSpec == Spec /\ Fairness

-----------------------------------------------------------------------------
(* Types *)

Stack == [image : Images, was : Images,
          status : {"complete", "rolledback", "failed", "progress"}]

RequestStates ==
    {Idle}
    \cup [pc : {"bound?", "store"}, gen : Gens, key : Keys]
    \cup [pc : {"lease", "delete"}, id : Jobs, gen : Gens, key : Keys]
    \cup [pc : {"abandoned?", "abandon", "bind"}, id : Jobs, key : Keys,
          old : Jobs]
    \cup [pc : {"dispatch", "fail", "clear", "expired?", "unhold",
                "redispatch"}, id : Jobs]
    \cup [pc : {"waiting", "resumed"}, id : Jobs, worker : Workers]

ExecutorPcs == {"verify", "describe", "route", "mirror", "submit", "wait",
                "probe", "catch", "recover", "settle", "look", "repin",
                "watch", "reprobe"}

WorkerStates ==
    {NotStarted}
    \cup [pc : {"done", "threw", "dead"}]
    \cup [pc : {"read", "claim", "claimed", "clear"}, id : Jobs]
    \cup [pc : {"finish", "finishing"}, id : Jobs,
          status : {"succeeded", "failed"},
          recovery : {"keep", "recovered", "exhausted"}]
    \cup [pc : ExecutorPcs \cup {"beat", "beaten"}, id : Jobs, copy : Job,
          stack : Stack, phase : Phases, next : ExecutorPcs \cup {"none"},
          mutating : BOOLEAN, catches : BOOLEAN, pinned : BOOLEAN,
          tried : BOOLEAN]

\* Type invariant of the job service, the executor and the stack.
TypeOK ==
    /\ control \in [high : 0..MaxGen, lease : Lease \cup {NoLease}]
    /\ job \in [Jobs -> Job \cup {NoJob}]
    /\ binding \in [Keys -> Jobs \cup {NoBinding}]
    /\ request \in [Requests -> RequestStates]
    /\ worker \in [Workers -> WorkerStates]
    /\ timer \in [Workers -> {NotStarted}
                             \cup [pc : {"beat", "beaten"}, id : Jobs]]
    /\ stack \in Stack
    /\ faults \in 0..MaxFaults

-----------------------------------------------------------------------------
(* Properties *)

\* The lease belongs to a stored job of the highest generation accepted so
\* far: create()'s second look at the high-water mark, its compare-and-set
\* and the deletion of refused jobs never let an older release hold it.
LeaseAtHighWater ==
    control.lease # NoLease =>
        /\ Exists(control.lease.job)
        /\ job[control.lease.job].gen = control.high

\* The high-water mark never falls, whichever of create(), claim(),
\* heartbeat() and clearLease() rewrites the control record.
HighWaterNeverFalls == [][control'.high >= control.high]_control

\* As long as heartbeats are in time, a worker submits a stack update only
\* while it holds the lease of its job: claim() and heartbeat() in front of
\* each UpdateStack are then enough, although nothing fences UpdateStack itself.
MutatesAsHolder ==
    [][stack'.status = "progress" /\ stack.status # "progress" =>
         \E w \in Workers : worker'[w] # worker[w] /\ HeldBy(w)]_vars

\* No worker submits a stack update of a job that another worker has claimed.
\* ("Heartbeat and finish CAS against that holder, so an invocation that
\* outlives its lease cannot mutate after a replacement worker claims the
\* job", docs/control-plane-self-update.md.)
NoZombieMutation ==
    [][\A w \in Workers :
         /\ stack'.status = "progress" /\ stack.status # "progress"
         /\ worker'[w] # worker[w]
         /\ Holds(worker[w].id)
         => control.lease.holder \in {w, NoHolder}]_vars

\* A finished job keeps its result: no late claim, abandonment or dispatch
\* failure rewrites the status of a job that succeeded or failed.
TerminalStaysTerminal ==
    [][\A j \in Jobs : Exists(j) /\ Terminal(job[j]) =>
         job'[j].status = job[j].status]_job

\* When a job succeeds, the stack has settled on the job's image.
SucceededMeansTarget ==
    [][\A j \in Jobs :
         job'[j].status = "succeeded" /\ job[j].status # "succeeded" =>
           Settled /\ stack.image = job[j].gen]_job

\* When a job fails as recovered, the stack has settled on the image the
\* job found there.
RecoveredMeansRestored ==
    [][\A j \in Jobs :
         /\ job'[j].status = "failed" /\ job[j].status # "failed"
         /\ job'[j].recovery = "recovered"
         => /\ Settled
            /\ job[j].previous \in {stack.image, NoImage}]_job

\* A job that gets the lease is finished some day: by its worker, by one that
\* a poll starts when the lease of a killed worker has expired, by the
\* request that takes the lease over, or because it could not be dispatched.
LeasedJobFinishes ==
    \A j \in Jobs : Holds(j) ~> (Exists(j) /\ Terminal(job[j]))

\* No worker, killed or not, keeps the installation from being updated again
\* for ever.
NeverBlockedForever == []<>Available

=============================================================================
