-------------------------- MODULE SelfUpdateProofs --------------------------
(***************************************************************************)
(* Proofs about SelfUpdate for every value of its constants: under all     *)
(* faults types, the high-water mark and the job that holds the lease;     *)
(* then, until a lease is lost from under a living process (Lapse), who    *)
(* mutates the stack and what the result of a job says.                    *)
(***************************************************************************)
EXTENDS SelfUpdate, TLAPS

-----------------------------------------------------------------------------
(* The inductive invariant under all faults *)

Stopped == {"none", "done", "threw", "dead"}
Beats   == {"beat", "beaten"}

\* The requests that know a job nobody else knows: they may still delete it.
New(p) == request[p].pc \in {"lease", "delete"}

\* A job that is stored for good.
Published(j) == /\ Exists(j)
                /\ \A p \in Requests : New(p) => request[p].id # j

\* A new job is stored with the generation of its request, and is its own.
NewJobsStored ==
    /\ \A p \in Requests : New(p) =>
         Exists(request[p].id) /\ job[request[p].id].gen = request[p].gen
    /\ \A p, q \in Requests :
         New(p) /\ New(q) /\ request[p].id = request[q].id => p = q

\* The lease belongs to a published job of the highest generation.
LeasePublished ==
    control.lease # NoLease => /\ Published(control.lease.job)
                               /\ job[control.lease.job].gen = control.high

\* Whatever job a request, a worker or a heartbeat may write is published.
Naming == {"abandoned?", "abandon", "bind", "dispatch", "waiting", "resumed",
           "fail", "clear", "unhold", "redispatch"}

RequestReferences ==
    /\ \A p \in Requests : request[p].pc \in Naming => Published(request[p].id)
    /\ \A p \in Requests : request[p].pc \in {"abandoned?", "abandon", "bind"}
                              => Published(request[p].old)

ProcessReferences ==
    /\ \A w \in Workers : Running(w) => Published(worker[w].id)
    /\ \A w \in Workers : timer[w] # NotStarted => Published(timer[w].id)

ReferencesPublished == RequestReferences /\ ProcessReferences

\* A worker state behind captureStack's heartbeat.
PastCapture(x) ==
    \/ x.pc \in ExecutorPcs \ {"verify", "describe"}
    \/ x.pc \in Beats /\ x.next # "route"

\* A worker behind captureStack knows the image to go back to, and so does the
\* stored job; a worker that sends a heartbeat knows where to go on.
ImageKnown ==
    \A w \in Workers :
        /\ PastCapture(worker[w]) =>
             worker[w].copy.previous # NoImage
               /\ job[worker[w].id].previous # NoImage
        /\ worker[w].pc \in Beats => worker[w].next \in ExecutorPcs

Inv == /\ TypeOK /\ NewJobsStored /\ LeasePublished /\ ReferencesPublished
       /\ ImageKnown

-----------------------------------------------------------------------------
(* States of workers and requests *)

\* The states of a worker that has claimed its job and not finished it.
Executing ==
    [pc : ExecutorPcs \cup Beats, id : Jobs, copy : Job, stack : Stack,
     phase : Phases, next : ExecutorPcs \cup {"none"}, mutating : BOOLEAN,
     catches : BOOLEAN, pinned : BOOLEAN, tried : BOOLEAN]

LEMMA ExecutingStates == Executing \subseteq WorkerStates
BY DEF Executing, WorkerStates, Beats

LEMMA ExecutingFields ==
    ASSUME NEW x \in WorkerStates, x.pc \in ExecutorPcs \cup Beats
    PROVE  x \in Executing
BY DEF Executing, WorkerStates, Beats, ExecutorPcs, NotStarted

\* The fields of a worker between two calls.
LEMMA CallingFields ==
    ASSUME NEW x \in WorkerStates
    PROVE  /\ x.pc \notin Stopped => x.id \in Jobs
           /\ x.pc \in {"read", "claim", "claimed", "clear"} =>
                x = [pc |-> x.pc, id |-> x.id]
           /\ x.pc \in {"finish", "finishing"} =>
                x \in [pc : {"finish", "finishing"}, id : Jobs,
                       status : {"succeeded", "failed"},
                       recovery : {"keep", "recovered", "exhausted"}]
BY DEF WorkerStates, NotStarted, Stopped, ExecutorPcs

LEMMA StoppedStates ==
    ASSUME NEW pc \in {"done", "threw", "dead"}
    PROVE  [pc |-> pc] \in WorkerStates
BY DEF WorkerStates

LEMMA FinishStates ==
    ASSUME NEW j \in Jobs, NEW status \in {"succeeded", "failed"},
           NEW recovery \in {"keep", "recovered", "exhausted"}
    PROVE  [pc |-> "finish", id |-> j, status |-> status,
            recovery |-> recovery] \in WorkerStates
BY DEF WorkerStates

LEMMA MovingStates ==
    ASSUME NEW x \in Executing, NEW pc \in ExecutorPcs \cup Beats
    PROVE  [x EXCEPT !.pc = pc] \in Executing
BY DEF Executing

LEMMA BeatingStates ==
    ASSUME NEW x \in Executing, NEW phase \in Phases, NEW next \in ExecutorPcs
    PROVE  [x EXCEPT !.pc = "beat", !.phase = phase, !.next = next] \in Executing
BY DEF Executing, Beats

LEMMA LookingStates ==
    ASSUME NEW x \in Executing, NEW s \in Stack
    PROVE  [x EXCEPT !.stack = s] \in Executing
BY DEF Executing

LEMMA FlagStates ==
    ASSUME NEW x \in Executing, NEW m \in BOOLEAN, NEW c \in BOOLEAN
    PROVE  /\ [x EXCEPT !.mutating = m, !.catches = c] \in Executing
           /\ [x EXCEPT !.catches = c] \in Executing
           /\ [x EXCEPT !.pinned = c] \in Executing
           /\ [x EXCEPT !.tried = c] \in Executing
BY DEF Executing

\* A function keeps its type when one of its values is replaced.
LEMMA Updated ==
    ASSUME NEW S, NEW T, NEW f \in [S -> T], NEW x, NEW y \in T
    PROVE  [f EXCEPT ![x] = y] \in [S -> T]
OBVIOUS

-----------------------------------------------------------------------------
(* Steps of the executor                                                   *)

\* What the executor may turn the state x of its worker into.
Follows(x, y) ==
    /\ x.pc \notin Stopped
    /\ y.pc \notin Stopped => y.id = x.id
    /\ y.pc \in Beats => y.next \in ExecutorPcs
    /\ PastCapture(y) => PastCapture(x) /\ y.copy = x.copy

Moves(w) == /\ worker' \in [Workers -> WorkerStates]
            /\ \A v \in Workers \ {w} : worker'[v] = worker[v]
            /\ Follows(worker[w], worker'[w])

LEMMA MoveTo ==
    ASSUME TypeOK, NEW w \in Workers, NEW y \in WorkerStates,
           Follows(worker[w], y), worker' = [worker EXCEPT ![w] = y]
    PROVE  Moves(w)
<1>1. worker \in [Workers -> WorkerStates]
  BY DEF TypeOK
<1> QED
  BY <1>1, Updated DEF Moves

\* A worker in the executor's code.
LEMMA AtWork ==
    ASSUME TypeOK, NEW w \in Workers, worker[w].pc \in ExecutorPcs
    PROVE  /\ worker[w] \in WorkerStates /\ worker[w] \in Executing
           /\ worker[w].pc \notin Stopped \cup Beats
           /\ worker[w].id \in Jobs /\ worker[w].copy \in Job
           /\ worker[w].stack \in Stack
           /\ PastCapture(worker[w]) <=> worker[w].pc \notin {"verify", "describe"}
<1>1. worker[w] \in WorkerStates
  BY DEF TypeOK
<1>2. worker[w] \in Executing
  BY <1>1, ExecutingFields
<1> QED
  BY <1>1, <1>2 DEF Executing, ExecutorPcs, Stopped, Beats, PastCapture

LEMMA BeatMoves ==
    ASSUME TypeOK, NEW w \in Workers, worker[w].pc \in ExecutorPcs,
           NEW phase \in Phases, NEW next \in ExecutorPcs,
           next = "route" \/ PastCapture(worker[w]), Beat(w, phase, next)
    PROVE  Moves(w)
<1> DEFINE y == Beating(w, phase, next)
<1>1. y \in Executing /\ y.id = worker[w].id /\ y.copy = worker[w].copy
        /\ y.pc = "beat" /\ y.next = next
  BY AtWork, BeatingStates DEF Beating, Executing
<1>2. Follows(worker[w], y)
  BY <1>1, AtWork DEF Follows, PastCapture, Beats, ExecutorPcs
<1> QED
  BY <1>1, <1>2, MoveTo, ExecutingStates DEF Beat

LEMMA GoMoves ==
    ASSUME TypeOK, NEW w \in Workers, worker[w].pc \in ExecutorPcs,
           NEW pc \in ExecutorPcs,
           pc \in {"verify", "describe"} \/ PastCapture(worker[w]),
           NEW y \in Executing, y.pc = pc, y.id = worker[w].id,
           y.copy = worker[w].copy, worker' = [worker EXCEPT ![w] = y]
    PROVE  Moves(w)
<1>1. Follows(worker[w], y)
  BY AtWork DEF Follows, PastCapture, Beats, ExecutorPcs
<1> QED
  BY <1>1, MoveTo, ExecutingStates

LEMMA FinishMoves ==
    ASSUME TypeOK, NEW w \in Workers, worker[w].pc \in ExecutorPcs,
           NEW status \in {"succeeded", "failed"},
           NEW recovery \in {"keep", "recovered", "exhausted"},
           Finish(w, status, recovery)
    PROVE  Moves(w)
<1> DEFINE y == [pc |-> "finish", id |-> worker[w].id, status |-> status,
                 recovery |-> recovery]
<1>1. y \in WorkerStates
  BY AtWork, FinishStates
<1>2. Follows(worker[w], y)
  BY AtWork DEF Follows, PastCapture, Beats, ExecutorPcs
<1>3. worker' = [worker EXCEPT ![w] = y]
  BY DEF Finish
<1> QED
  BY <1>1, <1>2, <1>3, MoveTo

LEMMA StopMoves ==
    ASSUME TypeOK, NEW w \in Workers, worker[w].pc \notin Stopped,
           NEW pc \in {"done", "threw", "dead"}, Stop(w, pc)
    PROVE  Moves(w)
<1>1. Follows(worker[w], [pc |-> pc])
  BY DEF Follows, PastCapture, Beats, ExecutorPcs, Stopped
<1> QED
  BY <1>1, MoveTo, StoppedStates DEF Stop

\* The stack keeps its type when an update of a known image is accepted.
LEMMA AcceptedType ==
    ASSUME TypeOK, NEW image \in Images, UpdateAccepted(image)
    PROVE  stack' \in Stack
BY DEF TypeOK, UpdateAccepted, Stack

LEMMA FaultType ==
    ASSUME TypeOK, NEW kind, Fault(kind)
    PROVE  faults' \in 0..MaxFaults
BY SelfUpdateAssumption DEF TypeOK, Fault

Proceeds(w) == Moves(w) /\ stack' \in Stack /\ faults' \in 0..MaxFaults

\* A step that leaves the stack and the budget of faults alone.
LEMMA QuietStep ==
    ASSUME TypeOK, NEW w \in Workers, Moves(w), UNCHANGED <<stack, faults>>
    PROVE  Proceeds(w)
BY DEF TypeOK, Proceeds

\* A step with a fault.
LEMMA FaultyStep ==
    ASSUME TypeOK, NEW w \in Workers, Moves(w), UNCHANGED stack,
           NEW kind, Fault(kind)
    PROVE  Proceeds(w)
BY FaultType DEF TypeOK, Proceeds

\* The worker's state behind captureStack, changed in its flags.
LEMMA FlagMoves ==
    ASSUME TypeOK, NEW w \in Workers, worker[w].pc \in ExecutorPcs,
           PastCapture(worker[w]), NEW pc \in ExecutorPcs,
           NEW s \in Stack, NEW c \in BOOLEAN,
           \/ worker' = [worker EXCEPT ![w].pc = pc]
           \/ worker' = [worker EXCEPT ![w].pc = pc, ![w].stack = s]
           \/ worker' = [worker EXCEPT ![w].pc = pc, ![w].stack = s,
                                      ![w].catches = c]
           \/ worker' = [worker EXCEPT ![w].pc = pc, ![w].tried = c]
           \/ worker' = [worker EXCEPT ![w].pc = pc, ![w].pinned = c, ![w].tried = c]
    PROVE  Moves(w)
<1>1. worker[w] \in Executing /\ worker \in [Workers -> WorkerStates]
  BY AtWork DEF TypeOK
<1> DEFINE y == worker'[w]
<1>2. worker' = [worker EXCEPT ![w] = y]
  BY <1>1
<1>3. y \in Executing /\ y.pc = pc /\ y.id = worker[w].id
        /\ y.copy = worker[w].copy
  BY <1>1 DEF Executing
<1> QED
  BY <1>2, <1>3, GoMoves

\* The way up to captureStack.
LEMMA CaptureMoves ==
    ASSUME TypeOK, NEW w \in Workers, Verify(w) \/ Describe(w)
    PROVE  Proceeds(w)
<1>0. worker[w].pc \in ExecutorPcs
  BY DEF Verify, Describe, ExecutorPcs
<1>1. CASE Verify(w)
  <2>1. CASE worker' = [worker EXCEPT ![w].pc = "describe"] /\ UNCHANGED faults
    <3> DEFINE y == [worker[w] EXCEPT !.pc = "describe"]
    <3>1. y \in Executing /\ y.pc = "describe" /\ y.id = worker[w].id
            /\ y.copy = worker[w].copy
      BY <1>0, AtWork, MovingStates DEF Executing, ExecutorPcs
    <3> QED
      BY <1>0, <1>1, <2>1, <3>1, GoMoves, QuietStep
      DEF Verify, TypeOK, ExecutorPcs
  <2>2. CASE Fault("expired") /\ Finish(w, "failed", "recovered")
    BY <1>0, <1>1, <2>2, FinishMoves, FaultyStep DEF Verify
  <2> QED
    BY <1>1, <2>1, <2>2 DEF Verify
<1>2. CASE Describe(w)
  <2>1. CASE Fault("aws") /\ Finish(w, "failed", "recovered")
    BY <1>0, <1>2, <2>1, FinishMoves, FaultyStep DEF Describe
  <2>2. ASSUME NEW next \in Phases, UNCHANGED faults,
               worker' = [worker EXCEPT ![w] =
                 [Beating(w, next, "route") EXCEPT !.stack = stack]]
        PROVE  Proceeds(w)
    <3> DEFINE x == Beating(w, next, "route")
               y == [x EXCEPT !.stack = stack]
    <3>1. x \in Executing
      BY <1>0, AtWork, BeatingStates DEF Beating, ExecutorPcs
    <3>2. y \in Executing /\ y.pc = "beat" /\ y.next = "route"
            /\ y.id = worker[w].id
      BY <1>0, <3>1, AtWork, LookingStates DEF TypeOK, Beating, Executing
    <3>3. Follows(worker[w], y)
      BY <1>0, <3>2, AtWork DEF Follows, PastCapture, Beats, ExecutorPcs
    <3> QED
      BY <1>2, <2>2, <3>2, <3>3, MoveTo, ExecutingStates, QuietStep DEF Describe
  <2>3. worker[w].copy.phase \in Phases /\ "describing-stack" \in Phases
    BY <1>0, AtWork DEF Job, Phases, Early
  <2> QED
    BY <1>2, <2>1, <2>2, <2>3 DEF Describe
<1> QED
  BY <1>1, <1>2

\* A worker behind captureStack, and what it knows.
LEMMA PastCaptureKnows ==
    ASSUME TypeOK, ImageKnown, NEW w \in Workers,
           worker[w].pc \in ExecutorPcs \ {"verify", "describe"}
    PROVE  /\ worker[w].pc \in ExecutorPcs /\ PastCapture(worker[w])
           /\ worker[w].pc \notin Stopped
           /\ worker[w].copy.gen \in Images /\ worker[w].copy.previous \in Images
           /\ stack \in Stack
<1>1. worker[w].copy \in Job /\ PastCapture(worker[w])
        /\ worker[w].pc \notin Stopped
  BY AtWork DEF PastCapture
<1>2. worker[w].copy.previous # NoImage
  BY <1>1 DEF ImageKnown
<1> QED
  BY <1>1, <1>2, SelfUpdateAssumption DEF Job, Images, Gens, NoImage, TypeOK

LEMMA RouteMoves ==
    ASSUME TypeOK, ImageKnown, NEW w \in Workers, Route(w)
    PROVE  Proceeds(w)
<1>1. worker[w].pc \in ExecutorPcs \ {"verify", "describe"}
  BY DEF Route, ExecutorPcs
<1>2. worker[w] \in Executing /\ PastCapture(worker[w])
  BY <1>1, AtWork, PastCaptureKnows
<1> DEFINE phase == worker[w].copy.phase
           to    == WhereTo(w)
           on    == CASE to = "adopt"  -> Beating(w, "waiting-for-stack", "wait")
                      [] to = "mirror" -> Beating(w, "mirroring", "mirror")
                      [] OTHER         -> [worker[w] EXCEPT !.pc = to]
           m     == phase \notin Early \cup {"mirroring"}
           c     == to # "recover"
           y     == [on EXCEPT !.mutating = m, !.catches = c]
<1>3. to \in {"recover", "wait", "adopt", "submit", "mirror"}
  BY DEF WhereTo
<1>4. /\ "waiting-for-stack" \in Phases /\ "mirroring" \in Phases
      /\ {"recover", "wait", "submit", "mirror"} \subseteq ExecutorPcs
  BY DEF Phases, Awaiting, ExecutorPcs
<1>5. on \in Executing /\ on.id = worker[w].id /\ on.copy = worker[w].copy
        /\ (on.pc \in Beats => on.next \in ExecutorPcs)
  <2>1. CASE to = "adopt"
    BY <1>2, <1>4, <2>1, BeatingStates DEF Beating, Executing
  <2>2. CASE to = "mirror"
    BY <1>2, <1>4, <2>2, BeatingStates DEF Beating, Executing
  <2>3. CASE to \in {"recover", "wait", "submit"}
    <3>1. on = [worker[w] EXCEPT !.pc = to]
      BY <2>3
    <3> QED
      BY <1>2, <1>4, <2>3, <3>1, MovingStates DEF Executing, Beats
  <2> QED
    BY <1>3, <2>1, <2>2, <2>3
<1>6. y \in Executing
  <2> HIDE DEF on, m, c
  <2>1. m \in BOOLEAN /\ c \in BOOLEAN
    BY DEF m, c
  <2> QED
    BY <1>5, <2>1, FlagStates
<1>7. y.id = worker[w].id /\ y.copy = worker[w].copy
        /\ (y.pc \in Beats => y.next \in ExecutorPcs)
  <2> HIDE DEF on, m, c
  <2> QED
    BY <1>5 DEF Executing
<1>8. Follows(worker[w], y)
  <2> HIDE DEF y
  <2> QED
    BY <1>1, <1>2, <1>7, PastCaptureKnows DEF Follows
<1>9. worker' = [worker EXCEPT ![w] = y]
  BY DEF Route
<1>10. Moves(w)
  <2> HIDE DEF y
  <2> QED
    BY <1>6, <1>8, <1>9, MoveTo, ExecutingStates
<1> QED
  BY <1>10, QuietStep DEF Route

LEMMA MirrorMoves ==
    ASSUME TypeOK, ImageKnown, NEW w \in Workers, Mirror(w)
    PROVE  Proceeds(w)
<1>1. worker[w].pc \in ExecutorPcs \ {"verify", "describe"}
        /\ "submit" \in ExecutorPcs /\ "catch" \in ExecutorPcs
        /\ "submitting-update" \in Phases
  BY DEF Mirror, ExecutorPcs, Phases
<1>2. CASE Beat(w, "submitting-update", "submit") /\ UNCHANGED faults
  BY <1>1, <1>2, PastCaptureKnows, BeatMoves, QuietStep DEF Mirror
<1>3. CASE worker' = [worker EXCEPT ![w].pc = "catch"] /\ Fault("aws")
  BY <1>1, <1>3, PastCaptureKnows, FlagMoves, FaultyStep DEF Mirror
<1>4. CASE Finish(w, "failed", "recovered") /\ Fault("aws")
  BY <1>1, <1>4, PastCaptureKnows, FinishMoves, FaultyStep DEF Mirror
<1> QED
  BY <1>2, <1>3, <1>4 DEF Mirror

LEMMA SubmitMoves ==
    ASSUME TypeOK, ImageKnown, NEW w \in Workers, Submit(w)
    PROVE  Proceeds(w)
<1>1. worker[w].pc \in ExecutorPcs \ {"verify", "describe"}
        /\ "wait" \in ExecutorPcs /\ "catch" \in ExecutorPcs
        /\ "waiting-for-stack" \in Phases
  BY DEF Submit, ExecutorPcs, Phases, Awaiting
<1>2. stack' \in Stack /\ faults' \in 0..MaxFaults
  BY <1>1, PastCaptureKnows, AcceptedType, FaultType DEF Submit, TypeOK
<1>3. Moves(w)
  BY <1>1, PastCaptureKnows, BeatMoves, FlagMoves DEF Submit
<1> QED
  BY <1>2, <1>3 DEF Proceeds

LEMMA WaitMoves ==
    ASSUME TypeOK, ImageKnown, NEW w \in Workers, WaitForTarget(w)
    PROVE  Proceeds(w)
<1>1. worker[w].pc \in ExecutorPcs \ {"verify", "describe"}
        /\ "wait" \in ExecutorPcs /\ "catch" \in ExecutorPcs
        /\ "probe" \in ExecutorPcs /\ "recover" \in ExecutorPcs
        /\ "waiting-for-stack" \in Phases /\ "probing-health" \in Phases
  BY DEF WaitForTarget, ExecutorPcs, Phases, Awaiting
<1>2. PastCapture(worker[w]) /\ stack \in Stack /\ worker[w] \in Executing
        /\ worker[w].pc \notin Stopped /\ worker \in [Workers -> WorkerStates]
  BY <1>1, PastCaptureKnows, AtWork DEF TypeOK
<1>3. stack' \in Stack /\ faults' \in 0..MaxFaults
  BY <1>1, FaultType DEF WaitForTarget, TypeOK
<1>4. CASE Beat(w, "waiting-for-stack", "wait")
  BY <1>1, <1>2, <1>3, <1>4, BeatMoves DEF Proceeds
<1>5. CASE worker' = [worker EXCEPT ![w] =
             [Beating(w, "probing-health", "probe") EXCEPT !.stack = stack]]
  <2> DEFINE x == Beating(w, "probing-health", "probe")
             y == [x EXCEPT !.stack = stack]
  <2>1. x \in Executing
    BY <1>1, <1>2, BeatingStates DEF Beating
  <2>2. y \in Executing /\ y.pc = "beat" /\ y.next = "probe"
          /\ y.id = worker[w].id /\ y.copy = worker[w].copy
    BY <1>2, <2>1, LookingStates DEF Beating, Executing
  <2>3. Follows(worker[w], y)
    BY <1>1, <1>2, <2>2 DEF Follows
  <2> QED
    BY <1>3, <1>5, <2>2, <2>3, MoveTo, ExecutingStates DEF Proceeds
<1>6. CASE worker' = [worker EXCEPT ![w] =
             [[worker[w] EXCEPT !.stack = stack] EXCEPT !.pc = "recover"]]
  <2> DEFINE x == [worker[w] EXCEPT !.stack = stack]
             y == [x EXCEPT !.pc = "recover"]
  <2>1. y \in Executing /\ y.pc = "recover" /\ y.id = worker[w].id
          /\ y.copy = worker[w].copy
    BY <1>1, <1>2, LookingStates, MovingStates DEF Executing
  <2> QED
    BY <1>1, <1>2, <1>3, <1>6, <2>1, GoMoves DEF Proceeds
<1>7. CASE worker' = [worker EXCEPT ![w].pc = "catch"]
  BY <1>1, <1>2, <1>3, <1>7, FlagMoves DEF Proceeds
<1> QED
  BY <1>4, <1>5, <1>6, <1>7 DEF WaitForTarget

LEMMA ProbeMoves ==
    ASSUME TypeOK, ImageKnown, NEW w \in Workers, ProbeTarget(w)
    PROVE  Proceeds(w)
<1>1. worker[w].pc \in ExecutorPcs \ {"verify", "describe"}
        /\ "recover" \in ExecutorPcs
  BY DEF ProbeTarget, ExecutorPcs
<1>2. Moves(w)
  BY <1>1, PastCaptureKnows, FinishMoves, FlagMoves DEF ProbeTarget
<1> QED
  BY <1>2, QuietStep DEF ProbeTarget

LEMMA CatchMoves ==
    ASSUME TypeOK, ImageKnown, NEW w \in Workers, CatchError(w)
    PROVE  Proceeds(w)
<1>1. worker[w].pc \in ExecutorPcs \ {"verify", "describe"}
        /\ "recover" \in ExecutorPcs
  BY DEF CatchError, ExecutorPcs
<1>2. CASE /\ worker' = [worker EXCEPT ![w].pc = "recover", ![w].stack = stack,
                                      ![w].catches = FALSE]
           /\ UNCHANGED faults
  BY <1>1, <1>2, PastCaptureKnows, FlagMoves, QuietStep DEF CatchError
<1>3. CASE Fault("aws") /\ Stop(w, "threw")
  BY <1>1, <1>3, PastCaptureKnows, StopMoves, FaultyStep DEF CatchError
<1> QED
  BY <1>2, <1>3 DEF CatchError

\* Recovery: back to the image that was captured.
LEMMA RecoverMoves ==
    ASSUME TypeOK, ImageKnown, NEW w \in Workers, Recover(w) \/ Look(w)
    PROVE  Proceeds(w)
<1>1. worker[w].pc \in ExecutorPcs \ {"verify", "describe"}
        /\ "settle" \in ExecutorPcs /\ "catch" \in ExecutorPcs
        /\ "submitting-recovery" \in Phases
  BY DEF Recover, Look, ExecutorPcs, Phases, Recovering
<1>2. CASE Recover(w)
  BY <1>1, <1>2, PastCaptureKnows, BeatMoves, QuietStep DEF Recover
<1>3. CASE /\ worker' = [worker EXCEPT ![w].pc = "settle", ![w].stack = stack]
           /\ UNCHANGED <<stack, faults>>
  BY <1>1, <1>3, PastCaptureKnows, FlagMoves, QuietStep
<1>4. CASE Fault("aws") /\ Throw(w) /\ UNCHANGED stack
  <2>1. CASE worker' = [worker EXCEPT ![w].pc = "catch", ![w].pinned = FALSE,
                                      ![w].tried = FALSE]
    BY <1>1, <1>4, <2>1, PastCaptureKnows, FlagMoves, FaultyStep
  <2>2. CASE Stop(w, "threw")
    BY <1>1, <1>4, <2>2, PastCaptureKnows, StopMoves, FaultyStep
  <2> QED
    BY <1>4, <2>1, <2>2 DEF Throw
<1> QED
  BY <1>2, <1>3, <1>4 DEF Look

LEMMA SettledMoves ==
    ASSUME TypeOK, ImageKnown, NEW w \in Workers, AwaitSettled(w)
    PROVE  Proceeds(w)
<1>1. worker[w].pc \in ExecutorPcs \ {"verify", "describe"}
        /\ "look" \in ExecutorPcs /\ "repin" \in ExecutorPcs
        /\ "submitting-recovery" \in Phases
  BY DEF AwaitSettled, ExecutorPcs, Phases, Recovering
<1>2. stack' \in Stack /\ faults' \in 0..MaxFaults
  BY FaultType DEF AwaitSettled, TypeOK
<1>3. CASE Beat(w, "submitting-recovery", "look")
  BY <1>1, <1>2, <1>3, PastCaptureKnows, BeatMoves DEF Proceeds
<1>4. CASE Exhaust(w)
  BY <1>1, <1>2, <1>4, PastCaptureKnows, FinishMoves DEF Exhaust, Proceeds
<1>5. CASE worker' = [worker EXCEPT ![w].pc = "repin"]
  BY <1>1, <1>2, <1>5, PastCaptureKnows, FlagMoves DEF Proceeds
<1>6. CASE Stop(w, "done")
  BY <1>1, <1>2, <1>6, PastCaptureKnows, StopMoves DEF Proceeds
<1> QED
  BY <1>2, <1>3, <1>4, <1>5, <1>6 DEF AwaitSettled, Proceeds

LEMMA RepinMoves ==
    ASSUME TypeOK, ImageKnown, NEW w \in Workers, Repin(w)
    PROVE  Proceeds(w)
<1>1. worker[w].pc \in ExecutorPcs \ {"verify", "describe"}
        /\ "look" \in ExecutorPcs /\ "watch" \in ExecutorPcs
        /\ "waiting-for-recovery" \in Phases
  BY DEF Repin, ExecutorPcs, Phases, Recovering
<1>2. stack' \in Stack /\ faults' \in 0..MaxFaults
  BY <1>1, PastCaptureKnows, AcceptedType, FaultType DEF Repin, TypeOK
<1> DEFINE x == Beating(w, "waiting-for-recovery", "watch")
           y == [x EXCEPT !.pinned = TRUE]
<1>3. CASE worker' = [worker EXCEPT ![w] = x]
  BY <1>1, <1>2, <1>3, PastCaptureKnows, BeatMoves DEF Beat, Proceeds
<1>4. CASE worker' = [worker EXCEPT ![w] = y]
  <2>1. x \in Executing /\ worker[w] \in Executing
    BY <1>1, PastCaptureKnows, AtWork, BeatingStates DEF Beating
  <2>2. y \in Executing /\ y.pc = "beat" /\ y.next = "watch"
          /\ y.id = worker[w].id /\ y.copy = worker[w].copy
    BY <2>1, FlagStates DEF Beating, Executing
  <2>3. Follows(worker[w], y)
    BY <1>1, <2>2, PastCaptureKnows DEF Follows
  <2> QED
    BY <1>2, <1>4, <2>2, <2>3, MoveTo, ExecutingStates DEF Proceeds
<1>5. CASE worker' = [worker EXCEPT ![w].pc = "look", ![w].tried = TRUE]
  BY <1>1, <1>2, <1>5, PastCaptureKnows, FlagMoves DEF Proceeds
<1> QED
  BY <1>2, <1>3, <1>4, <1>5 DEF Repin, Proceeds

LEMMA RecoveryMoves ==
    ASSUME TypeOK, ImageKnown, NEW w \in Workers, AwaitRecovery(w)
    PROVE  Proceeds(w)
<1>1. worker[w].pc \in ExecutorPcs \ {"verify", "describe"}
        /\ "watch" \in ExecutorPcs /\ "reprobe" \in ExecutorPcs
        /\ "catch" \in ExecutorPcs /\ "waiting-for-recovery" \in Phases
  BY DEF AwaitRecovery, ExecutorPcs, Phases, Recovering
<1>2. stack' \in Stack /\ faults' \in 0..MaxFaults
  BY FaultType DEF AwaitRecovery, TypeOK
<1>3. CASE Beat(w, "waiting-for-recovery", "watch")
  BY <1>1, <1>2, <1>3, PastCaptureKnows, BeatMoves DEF Proceeds
<1>4. CASE Stop(w, "done")
  BY <1>1, <1>2, <1>4, PastCaptureKnows, StopMoves DEF Proceeds
<1>5. CASE Throw(w)
  BY <1>1, <1>2, <1>5, PastCaptureKnows, FlagMoves, StopMoves
  DEF Throw, Proceeds
<1>6. CASE Exhaust(w)
  BY <1>1, <1>2, <1>6, PastCaptureKnows, FinishMoves DEF Exhaust, Proceeds
<1>7. CASE worker' = [worker EXCEPT ![w] =
             [Beating(w, "waiting-for-recovery", "reprobe")
                EXCEPT !.stack = stack]]
  <2> DEFINE x == Beating(w, "waiting-for-recovery", "reprobe")
             y == [x EXCEPT !.stack = stack]
  <2>1. x \in Executing /\ worker[w] \in Executing /\ stack \in Stack
    BY <1>1, PastCaptureKnows, AtWork, BeatingStates DEF Beating
  <2>2. y \in Executing /\ y.pc = "beat" /\ y.next = "reprobe"
          /\ y.id = worker[w].id /\ y.copy = worker[w].copy
    BY <2>1, LookingStates DEF Beating, Executing
  <2>3. Follows(worker[w], y)
    BY <1>1, <2>2, PastCaptureKnows DEF Follows
  <2> QED
    BY <1>2, <1>7, <2>2, <2>3, MoveTo, ExecutingStates DEF Proceeds
<1> QED
  BY <1>2, <1>3, <1>4, <1>5, <1>6, <1>7 DEF AwaitRecovery, Proceeds

LEMMA RecoveredMoves ==
    ASSUME TypeOK, ImageKnown, NEW w \in Workers, ProbeRecovered(w)
    PROVE  Proceeds(w)
<1>1. worker[w].pc \in ExecutorPcs \ {"verify", "describe"}
  BY DEF ProbeRecovered, ExecutorPcs
<1>2. stack' \in Stack /\ faults' \in 0..MaxFaults
  BY FaultType DEF ProbeRecovered, TypeOK
<1>3. Moves(w)
  BY <1>1, PastCaptureKnows, FinishMoves, StopMoves DEF ProbeRecovered, Exhaust
<1> QED
  BY <1>2, <1>3 DEF Proceeds

LEMMA ExecutorMoves ==
    ASSUME TypeOK, ImageKnown, NEW w \in Workers, ExecutorStep(w)
    PROVE  Proceeds(w)
BY CaptureMoves, RouteMoves, MirrorMoves, SubmitMoves, WaitMoves, ProbeMoves,
   CatchMoves, RecoverMoves, SettledMoves, RepinMoves, RecoveryMoves,
   RecoveredMoves DEF ExecutorStep

-----------------------------------------------------------------------------
(* The invariant is kept by workers                                        *)

\* Nothing happens to a published job but a change of its progress.
JobsKept ==
    \A j \in Jobs : Published(j) =>
        /\ Published(j)'
        /\ job'[j].gen = job[j].gen
        /\ job[j].previous # NoImage => job'[j].previous # NoImage

\* A worker goes on with its job, or stops.
KeepsToJob(w) ==
    /\ \A v \in Workers \ {w} : worker'[v] = worker[v]
    /\ worker[w].pc \notin Stopped
    /\ worker'[w].pc \notin Stopped => worker'[w].id = worker[w].id

LEMMA MovesKeepToJob ==
    ASSUME NEW w \in Workers, Moves(w)
    PROVE  KeepsToJob(w)
BY DEF Moves, Follows, KeepsToJob

\* References stay published if a worker goes on and published jobs are kept.
LEMMA WorkerReferences ==
    ASSUME Inv, JobsKept, NEW w \in Workers, KeepsToJob(w),
           UNCHANGED <<request, timer>>
    PROVE  ReferencesPublished'
<1>1. /\ \A p \in Requests : request[p].pc \in Naming => request[p].id \in Jobs
      /\ \A p \in Requests : request[p].pc \in {"abandoned?", "abandon", "bind"}
                                => request[p].old \in Jobs
      /\ \A v \in Workers : timer[v] # NotStarted => timer[v].id \in Jobs
  <2>1. request \in [Requests -> RequestStates]
    BY DEF Inv, TypeOK
  <2>2. \A p \in Requests : request[p] \in RequestStates
    BY <2>1
  <2>3. \A x \in RequestStates :
          /\ x.pc \in Naming => x.id \in Jobs
          /\ x.pc \in {"abandoned?", "abandon", "bind"} => x.old \in Jobs
    BY DEF RequestStates, Naming, Idle
  <2>4. \A v \in Workers : timer[v] # NotStarted => timer[v].id \in Jobs
    BY DEF Inv, TypeOK, NotStarted
  <2> QED
    BY <2>2, <2>3, <2>4
<1>2. \A v \in Workers : Running(v)' =>
        Running(v) /\ worker'[v].id = worker[v].id /\ worker[v].id \in Jobs
  <2>1. \A v \in Workers : worker[v] \in WorkerStates
    BY DEF Inv, TypeOK
  <2> QED
    BY <2>1, CallingFields DEF KeepsToJob, Running, Stopped
<1>3. \A j \in Jobs : Published(j) => Published(j)'
  BY DEF JobsKept
<1> QED
  BY <1>1, <1>2, <1>3
  DEF Inv, ReferencesPublished, RequestReferences, ProcessReferences, Published, Exists, New, Running

\* So does what workers know of their images, if the worker has not just
\* captured it.
LEMMA WorkerImages ==
    ASSUME Inv, JobsKept, NEW w \in Workers, Moves(w)
    PROVE  ImageKnown'
<1>1. \A v \in Workers : PastCapture(worker[v]) =>
        Published(worker[v].id) /\ worker[v].id \in Jobs
  <2>1. \A v \in Workers : worker[v] \in WorkerStates
    BY DEF Inv, TypeOK
  <2>2. \A v \in Workers : PastCapture(worker[v]) => worker[v].pc \notin Stopped
    BY DEF PastCapture, ExecutorPcs, Beats, Stopped
  <2> QED
    BY <2>1, <2>2, CallingFields
    DEF Inv, ReferencesPublished, RequestReferences, ProcessReferences, Running, Stopped
<1>2. \A v \in Workers : PastCapture(worker[v]) =>
        job'[worker[v].id].previous # NoImage
  BY <1>1 DEF Inv, ImageKnown, JobsKept
<1>3. PastCapture(worker'[w]) => worker'[w].pc \notin Stopped
  BY DEF PastCapture, ExecutorPcs, Beats, Stopped
<1> QED
  BY <1>2, <1>3
  DEF Inv, ImageKnown, Moves, Follows, PastCapture

\* A step that leaves the jobs and requests alone keeps them as they are.
LEMMA JobsUnchanged ==
    ASSUME Inv, UNCHANGED <<job, request>>
    PROVE  JobsKept /\ NewJobsStored'
BY DEF Inv, JobsKept, NewJobsStored, Published, Exists, New

LEMMA LeaseUnchanged ==
    ASSUME Inv, JobsKept, UNCHANGED control
    PROVE  LeasePublished'
<1>1. control.lease # NoLease => control.lease.job \in Jobs
  BY DEF Inv, TypeOK, Lease
<1> QED
  BY <1>1 DEF Inv, JobsKept, LeasePublished, Published, Exists, New

\* A worker moves and touches nothing else but the stack.
LEMMA ProceedsInv ==
    ASSUME Inv, NEW w \in Workers, Proceeds(w),
           UNCHANGED <<control, job, binding, request, timer>>
    PROVE  Inv'
<1>1. JobsKept /\ NewJobsStored'
  BY JobsUnchanged
<1>2. TypeOK'
  BY DEF Inv, TypeOK, Proceeds, Moves
<1>3. LeasePublished'
  BY <1>1, LeaseUnchanged
<1>4. ReferencesPublished' /\ ImageKnown'
  BY <1>1, MovesKeepToJob, WorkerReferences, WorkerImages DEF Proceeds
<1> QED
  BY <1>1, <1>2, <1>3, <1>4 DEF Inv

\* The forms in which workers rewrite the control record.
LEMMA ControlInv ==
    ASSUME Inv, NEW w \in Workers, Moves(w),
           \/ control' = control
           \/ control' = Cleared
           \/ /\ control.lease # NoLease
              /\ \/ control' = [control EXCEPT !.lease.live = TRUE]
                 \/ control' = [control EXCEPT !.lease.holder = w],
           UNCHANGED <<job, binding, request, timer, stack, faults>>
    PROVE  Inv'
<1>1. JobsKept /\ NewJobsStored'
  BY JobsUnchanged
<1>2. /\ control' \in [high : 0..MaxGen, lease : Lease \cup {NoLease}]
      /\ control'.high = control.high
      /\ control'.lease # NoLease =>
           control.lease # NoLease /\ control'.lease.job = control.lease.job
  <2>1. control \in [high : 0..MaxGen, lease : Lease \cup {NoLease}]
    BY DEF Inv, TypeOK
  <2>2. CASE control' = control
    BY <2>1, <2>2
  <2>3. CASE control' = Cleared
    BY <2>1, <2>3 DEF Cleared
  <2>4. CASE /\ control.lease # NoLease
             /\ \E held \in Lease : control' = [control EXCEPT !.lease = held]
                                   /\ held.job = control.lease.job
    BY <2>1, <2>4
  <2>5. ASSUME control.lease # NoLease
        PROVE  /\ [control.lease EXCEPT !.live = TRUE] \in Lease
               /\ [control.lease EXCEPT !.holder = w] \in Lease
               /\ [control.lease EXCEPT !.live = TRUE].job = control.lease.job
               /\ [control.lease EXCEPT !.holder = w].job = control.lease.job
    BY <2>1, <2>5 DEF Lease
  <2> QED
    BY <2>2, <2>3, <2>4, <2>5
<1>3. TypeOK'
  BY <1>2 DEF Inv, TypeOK, Moves
<1>4. LeasePublished'
  BY <1>2 DEF Inv, LeasePublished, Published, Exists, New
<1>5. ReferencesPublished' /\ ImageKnown'
  BY <1>1, MovesKeepToJob, WorkerReferences, WorkerImages
<1> QED
  BY <1>1, <1>3, <1>4, <1>5 DEF Inv

LEMMA CallMoves ==
    ASSUME TypeOK, NEW w \in Workers,
           NEW pc \in {"claim", "claimed", "finishing", "beaten"},
           /\ pc = "claim" => worker[w].pc = "read"
           /\ pc = "claimed" => worker[w].pc = "claim"
           /\ pc = "finishing" => worker[w].pc = "finish"
           /\ pc = "beaten" => worker[w].pc = "beat" /\ worker[w].next \in ExecutorPcs,
           worker' = [worker EXCEPT ![w].pc = pc]
    PROVE  Moves(w)
<1> DEFINE x == worker[w]
           y == [x EXCEPT !.pc = pc]
<1>1. x \in WorkerStates /\ worker \in [Workers -> WorkerStates]
  BY DEF TypeOK
<1>2. worker' = [worker EXCEPT ![w] = y]
  BY <1>1
<1>3. CASE pc \in {"claim", "claimed"}
  <2>1. x = [pc |-> x.pc, id |-> x.id] /\ x.id \in Jobs
    BY <1>1, <1>3, CallingFields DEF Stopped
  <2>2. y = [pc |-> pc, id |-> x.id]
    BY <2>1
  <2>3. y \in WorkerStates /\ Follows(x, y)
    BY <1>3, <2>1, <2>2
    DEF WorkerStates, Follows, Stopped, PastCapture, Beats, ExecutorPcs
  <2> QED
    BY <1>2, <2>3, MoveTo
<1>4. CASE pc = "finishing"
  <2>1. x \in [pc : {"finish", "finishing"}, id : Jobs,
               status : {"succeeded", "failed"},
               recovery : {"keep", "recovered", "exhausted"}]
    BY <1>1, <1>4, CallingFields
  <2>2. y \in WorkerStates /\ y.id = x.id /\ y.pc = "finishing"
    BY <1>4, <2>1 DEF WorkerStates
  <2>3. Follows(x, y)
    BY <1>4, <2>2 DEF Follows, Stopped, PastCapture, Beats, ExecutorPcs
  <2> QED
    BY <1>2, <2>2, <2>3, MoveTo
<1>5. CASE pc = "beaten"
  <2>1. x \in Executing
    BY <1>1, <1>5, ExecutingFields DEF Beats
  <2>2. y \in Executing /\ y.id = x.id /\ y.copy = x.copy /\ y.next = x.next
          /\ y.pc = "beaten" /\ x.pc = "beat"
    BY <1>5, <2>1, MovingStates DEF Executing, Beats
  <2>3. Follows(x, y)
    BY <1>5, <2>2 DEF Follows, Stopped, PastCapture, Beats, ExecutorPcs
  <2> QED
    BY <1>2, <2>2, <2>3, MoveTo, ExecutingStates
<1> QED
  BY <1>3, <1>4, <1>5

\* The calls on the control record, and those that only read the job.
LEMMA ControlCallsInv ==
    ASSUME Inv, NEW w \in Workers,
           \/ WorkerReads(w) \/ ClaimLease(w) \/ BeatLease(w)
           \/ AssertHolder(w) \/ ClearLease(w)
    PROVE  Inv'
<1>0. TypeOK
  BY DEF Inv
<1>1. CASE WorkerReads(w)
  <2>1. Moves(w)
    BY <1>0, <1>1, CallMoves, StopMoves DEF WorkerReads, Stopped
  <2> QED
    BY <1>1, <2>1, ControlInv DEF WorkerReads
<1>2. CASE ClaimLease(w)
  <2>1. Moves(w)
    BY <1>0, <1>2, CallMoves, StopMoves DEF ClaimLease, Stopped
  <2> QED
    BY <1>2, <2>1, ControlInv DEF ClaimLease, Claimable, Holds
<1>3. CASE BeatLease(w)
  <2>1. worker[w].next \in ExecutorPcs
    BY <1>3 DEF BeatLease, Inv, ImageKnown, Beats
  <2>2. Moves(w)
    BY <1>0, <1>3, <2>1, CallMoves, StopMoves DEF BeatLease, Stopped
  <2> QED
    BY <1>3, <2>2, ControlInv DEF BeatLease, HeldBy, Holds
<1>4. CASE AssertHolder(w)
  <2>1. Moves(w)
    BY <1>0, <1>4, CallMoves, StopMoves DEF AssertHolder, Stopped
  <2> QED
    BY <1>4, <2>1, ControlInv DEF AssertHolder
<1>5. CASE ClearLease(w)
  <2>1. Moves(w)
    BY <1>0, <1>5, StopMoves DEF ClearLease, Stopped
  <2> QED
    BY <1>5, <2>1, ControlInv DEF ClearLease
<1> QED
  BY <1>1, <1>2, <1>3, <1>4, <1>5

\* A published job is rewritten, with its generation and without losing the
\* image to go back to.
LEMMA JobRewritten ==
    ASSUME Inv, NEW j \in Jobs, Published(j), NEW r \in Job,
           r.gen = job[j].gen, job[j].previous # NoImage => r.previous # NoImage,
           job' = [job EXCEPT ![j] = r], UNCHANGED request
    PROVE  JobsKept /\ NewJobsStored' /\ job' \in [Jobs -> Job \cup {NoJob}]
<1>1. job \in [Jobs -> Job \cup {NoJob}]
  BY DEF Inv, TypeOK
<1>2. r # NoJob
  BY DEF Job, NoJob
<1>3. job' \in [Jobs -> Job \cup {NoJob}]
  BY <1>1
<1>4. \A k \in Jobs : (Exists(k) => Exists(k)')
        /\ job'[k].gen = job[k].gen
        /\ (job[k].previous # NoImage => job'[k].previous # NoImage)
  BY <1>1, <1>2 DEF Exists
<1>5. JobsKept
  BY <1>4 DEF JobsKept, Published, Exists, New
<1>6. \A p \in Requests : New(p) => request[p].id \in Jobs
  BY DEF Inv, TypeOK, RequestStates, New, Idle
<1>7. NewJobsStored'
  BY <1>4, <1>6 DEF Inv, NewJobsStored, Exists, New
<1> QED
  BY <1>3, <1>5, <1>7

\* The job of a running worker is published, and its record is a job.
LEMMA JobAtHand ==
    ASSUME Inv, NEW w \in Workers, worker[w].pc \notin Stopped
    PROVE  worker[w].id \in Jobs /\ Published(worker[w].id)
             /\ job[worker[w].id] \in Job
<1>1. worker[w].id \in Jobs
  BY CallingFields DEF Inv, TypeOK
<1>2. Published(worker[w].id)
  BY DEF Inv, ReferencesPublished, RequestReferences, ProcessReferences, Running, Stopped
<1> QED
  BY <1>1, <1>2 DEF Inv, TypeOK, Published, Exists

LEMMA ClaimJobInv ==
    ASSUME Inv, NEW w \in Workers, ClaimJob(w)
    PROVE  Inv'
<1> DEFINE j == worker[w].id
           r == job[j]
           running == [r EXCEPT !.status = "running", !.holder = w,
                                !.phase = IF @ = "queued" THEN "verifying"
                                                          ELSE @]
           y == [pc |-> "verify", id |-> j, copy |-> running,
                 stack |-> stack, phase |-> running.phase, next |-> "none",
                 mutating |-> FALSE, catches |-> FALSE, pinned |-> FALSE,
                 tried |-> FALSE]
<1>1. j \in Jobs /\ Published(j) /\ r \in Job
  BY JobAtHand DEF ClaimJob, Stopped
<1>2. running \in Job /\ running.gen = r.gen /\ running.previous = r.previous
  BY <1>1 DEF Job, Phases, Early
<1>3. job' = [job EXCEPT ![j] = running] /\ worker' = [worker EXCEPT ![w] = y]
        /\ UNCHANGED <<control, binding, request, timer, stack, faults>>
  BY DEF ClaimJob
<1>4. JobsKept /\ NewJobsStored' /\ job' \in [Jobs -> Job \cup {NoJob}]
  <2> HIDE DEF running, j
  <2> QED
    BY <1>1, <1>2, <1>3, JobRewritten
<1>5. y \in Executing
  BY <1>1, <1>2 DEF Executing, ExecutorPcs, Job, Inv, TypeOK
<1>6. Moves(w)
  <2>1. Follows(worker[w], y)
    BY DEF Follows, ClaimJob, Stopped, PastCapture, Beats, ExecutorPcs
  <2> HIDE DEF y
  <2> QED
    BY <1>3, <1>5, <2>1, MoveTo, ExecutingStates DEF Inv
<1>7. TypeOK'
  BY <1>3, <1>4, <1>6 DEF Inv, TypeOK, Moves
<1> QED
  BY <1>3, <1>4, <1>6, <1>7, LeaseUnchanged, MovesKeepToJob, WorkerReferences, WorkerImages
  DEF Inv

LEMMA FinishJobInv ==
    ASSUME Inv, NEW w \in Workers, FinishJob(w)
    PROVE  Inv'
<1> DEFINE j == worker[w].id
           recovery == worker[w].recovery
           r == [job[j] EXCEPT !.status = worker[w].status, !.phase = "complete",
                               !.recovery = IF recovery = "keep"
                                            THEN job[j].recovery ELSE recovery]
<1>1. j \in Jobs /\ Published(j) /\ job[j] \in Job
  BY JobAtHand DEF FinishJob, Stopped
<1>2. worker[w].status \in {"succeeded", "failed"}
        /\ recovery \in {"keep", "recovered", "exhausted"}
  BY CallingFields DEF Inv, TypeOK, FinishJob
<1>3. CASE /\ job' = [job EXCEPT ![j] = r]
           /\ worker' = [worker EXCEPT ![w] = [pc |-> "clear", id |-> j]]
  <2>1. r \in Job /\ r.gen = job[j].gen /\ r.previous = job[j].previous
    BY <1>1, <1>2 DEF Job, Phases
  <2>2. JobsKept /\ NewJobsStored' /\ job' \in [Jobs -> Job \cup {NoJob}]
    <3> HIDE DEF r, j
    <3> QED
      BY <1>1, <1>3, <2>1, JobRewritten DEF FinishJob
  <2>3. [pc |-> "clear", id |-> j] \in WorkerStates
    BY <1>1 DEF WorkerStates
  <2>4. Follows(worker[w], [pc |-> "clear", id |-> j])
    BY DEF Follows, FinishJob, Stopped, PastCapture, Beats, ExecutorPcs
  <2>5. Moves(w)
    BY <1>3, <2>3, <2>4, MoveTo DEF Inv
  <2>6. TypeOK'
    BY <2>2, <2>5 DEF Inv, TypeOK, Moves, FinishJob
  <2> QED
    BY <2>2, <2>5, <2>6, LeaseUnchanged, MovesKeepToJob, WorkerReferences, WorkerImages
    DEF Inv, FinishJob
<1>4. CASE Stop(w, "done") /\ UNCHANGED job
  <2>1. Moves(w)
    BY <1>4, StopMoves DEF FinishJob, Stopped, Inv
  <2> QED
    BY <1>4, <2>1, ControlInv DEF FinishJob
<1> QED
  BY <1>3, <1>4 DEF FinishJob

\* What the heartbeat of a worker behind "beaten" writes.
LEMMA BeatJobInv ==
    ASSUME Inv, NEW w \in Workers, BeatJob(w)
    PROVE  Inv'
<1> DEFINE x == worker[w]
           j == x.id
           r == job[j]
           beaten == [r EXCEPT
             !.phase    = x.phase,
             !.previous = IF x.next = "route" THEN Captured(w) ELSE @,
             !.recovery = IF x.next = "settle" THEN "in-progress" ELSE @]
           y == [x EXCEPT !.pc = x.next, !.copy = beaten]
<1>1. j \in Jobs /\ Published(j) /\ r \in Job
  BY JobAtHand DEF BeatJob, Stopped
<1>2. x \in Executing /\ worker \in [Workers -> WorkerStates]
  BY ExecutingFields DEF BeatJob, Inv, TypeOK, Beats
<1>3. x.pc = "beaten" /\ x.next \in ExecutorPcs
        /\ UNCHANGED <<control, binding, request, timer, stack, faults>>
  BY DEF BeatJob, Inv, ImageKnown, Beats
<1>4. CASE Stop(w, "done") /\ UNCHANGED job
  <2>1. Moves(w)
    BY <1>3, <1>4, StopMoves DEF Stopped, Inv
  <2> QED
    BY <1>3, <1>4, <2>1, ControlInv
<1>5. CASE job' = [job EXCEPT ![j] = beaten] /\ worker' = [worker EXCEPT ![w] = y]
  <2>1. Captured(w) \in Images \cup {NoImage} /\ (x.next = "route" => Captured(w) # NoImage)
    BY <1>2, SelfUpdateAssumption
    DEF Captured, Executing, Job, Stack, Images, NoImage
  <2>2. x.next # "route" => r.previous # NoImage
    BY <1>3 DEF Inv, ImageKnown, PastCapture, Beats
  <2>3. beaten \in Job /\ beaten.gen = r.gen
    BY <1>1, <1>2, <2>1 DEF Executing, Job
  <2>4. beaten.previous # NoImage
    BY <1>1, <2>1, <2>2 DEF Job
  <2> HIDE DEF beaten
  <2>5. JobsKept /\ NewJobsStored' /\ job' \in [Jobs -> Job \cup {NoJob}]
    BY <1>1, <1>3, <1>5, <2>3, <2>4, JobRewritten
  <2>6. y \in Executing /\ y.id = j /\ y.copy = beaten /\ y.pc = x.next
    BY <1>2, <1>3, <2>3 DEF Executing
  <2> HIDE DEF y
  <2>7. worker' \in [Workers -> WorkerStates] /\ worker'[w] = y
          /\ \A v \in Workers \ {w} : worker'[v] = worker[v]
    BY <1>2, <1>5, <2>6, ExecutingStates
  <2>8. KeepsToJob(w)
    BY <1>3, <2>6, <2>7 DEF KeepsToJob, Stopped
  <2>9. job'[j].previous # NoImage
    BY <1>1, <1>5, <2>4 DEF Inv, TypeOK
  <2>10. \A v \in Workers \ {w} : PastCapture(worker[v]) =>
           job'[worker[v].id].previous # NoImage
    <3>1. \A v \in Workers : PastCapture(worker[v]) =>
            worker[v].pc \notin Stopped
      BY DEF PastCapture, ExecutorPcs, Beats, Stopped
    <3> QED
      BY <2>5, <3>1, JobAtHand DEF Inv, ImageKnown, JobsKept
  <2>11. ImageKnown'
    BY <1>3, <2>4, <2>6, <2>7, <2>9, <2>10
    DEF Inv, ImageKnown, PastCapture, ExecutorPcs, Beats
  <2>12. TypeOK'
    BY <1>3, <2>5, <2>7 DEF Inv, TypeOK
  <2> QED
    BY <1>3, <2>5, <2>8, <2>11, <2>12, LeaseUnchanged, WorkerReferences DEF Inv
<1>6. r.holder = w => job' = [job EXCEPT ![j] = beaten]
                      /\ worker' = [worker EXCEPT ![w] = y]
  <2>1. worker' = [worker EXCEPT ![w].pc = x.next, ![w].copy = beaten]
          => worker' = [worker EXCEPT ![w] = y]
    BY <1>2
  <2>2. r.holder = w => job' = [job EXCEPT ![j] = beaten]
          /\ worker' = [worker EXCEPT ![w].pc = x.next, ![w].copy = beaten]
    BY DEF BeatJob
  <2> QED
    BY <2>1, <2>2
<1>7. r.holder # w => Stop(w, "done") /\ UNCHANGED job
  BY DEF BeatJob
<1> QED
  BY <1>4, <1>5, <1>6, <1>7

LEMMA ServiceInv ==
    ASSUME Inv, NEW w \in Workers, ServiceStep(w)
    PROVE  Inv'
BY ControlCallsInv, ClaimJobInv, BeatJobInv, FinishJobInv DEF ServiceStep

LEMMA ExecutorInv ==
    ASSUME Inv, NEW w \in Workers, ExecutorStep(w)
    PROVE  Inv'
BY ExecutorMoves, ProceedsInv DEF ExecutorStep, Inv

-----------------------------------------------------------------------------
(* The invariant is kept by the environment and by late heartbeats         *)

\* The references of requests, if those stay as they are.
LEMMA RequestsQuiet ==
    ASSUME Inv, JobsKept, UNCHANGED request
    PROVE  RequestReferences'
<1>1. \A p \in Requests : request[p] \in RequestStates
  BY DEF Inv, TypeOK
<1>2. \A x \in RequestStates :
        /\ x.pc \in Naming => x.id \in Jobs
        /\ x.pc \in {"abandoned?", "abandon", "bind"} => x.old \in Jobs
  BY DEF RequestStates, Naming, Idle
<1> QED
  BY <1>1, <1>2
  DEF Inv, ReferencesPublished, RequestReferences, JobsKept, Published, Exists, New

\* The references of workers and heartbeats, if new ones are published.
LEMMA ProcessesKnow ==
    ASSUME Inv, JobsKept,
           \A v \in Workers : Running(v)' =>
             \/ Running(v) /\ worker'[v] = worker[v]
             \/ worker'[v].id \in Jobs /\ Published(worker'[v].id),
           \A v \in Workers : timer'[v] # NotStarted =>
             \/ timer[v] # NotStarted /\ timer'[v].id = timer[v].id
             \/ timer'[v].id \in Jobs /\ Published(timer'[v].id)
    PROVE  ProcessReferences'
<1>1. \A v \in Workers : Running(v)' =>
        worker'[v].id \in Jobs /\ Published(worker'[v].id)
  <2>1. \A v \in Workers : worker[v] \in WorkerStates
    BY DEF Inv, TypeOK
  <2> QED
    BY <2>1, CallingFields
    DEF Inv, ReferencesPublished, ProcessReferences, Running, Stopped
<1>2. \A v \in Workers : timer'[v] # NotStarted =>
        timer'[v].id \in Jobs /\ Published(timer'[v].id)
  <2>1. \A v \in Workers : timer[v] # NotStarted => timer[v].id \in Jobs
    BY DEF Inv, TypeOK, NotStarted
  <2> QED
    BY <2>1 DEF Inv, ReferencesPublished, ProcessReferences
<1>3. \A j \in Jobs : Published(j) => Published(j)'
  BY DEF JobsKept
<1> QED
  BY <1>1, <1>2, <1>3 DEF ProcessReferences, Published, Exists, New

\* What workers know of their images, if none has just got on.
LEMMA ImagesKept ==
    ASSUME Inv, JobsKept,
           \A v \in Workers : \/ worker'[v] = worker[v]
                              \/ worker'[v].pc \notin ExecutorPcs \cup Beats
    PROVE  ImageKnown'
<1>1. \A v \in Workers : PastCapture(worker[v]) =>
        job'[worker[v].id].previous # NoImage
  <2>1. \A v \in Workers : PastCapture(worker[v]) => worker[v].pc \notin Stopped
    BY DEF PastCapture, ExecutorPcs, Beats, Stopped
  <2> QED
    BY <2>1, JobAtHand DEF Inv, ImageKnown, JobsKept
<1>2. \A v \in Workers : worker'[v].pc \notin ExecutorPcs \cup Beats =>
        ~ PastCapture(worker'[v])
  BY DEF PastCapture
<1> QED
  BY <1>1, <1>2 DEF Inv, ImageKnown

\* The type of the control record when its lease is marked, and the lease.
LEMMA LeaseMarked ==
    ASSUME Inv, JobsKept, control.lease # NoLease, NEW b \in BOOLEAN,
           \/ control' = [control EXCEPT !.lease.live = b]
           \/ control' = [control EXCEPT !.lease.live = b,
                                         !.lease.holder = NoHolder]
    PROVE  /\ control' \in [high : 0..MaxGen, lease : Lease \cup {NoLease}]
           /\ LeasePublished'
<1>1. control \in [high : 0..MaxGen, lease : Lease]
  BY DEF Inv, TypeOK
<1>2. PICK j \in Jobs : j = control.lease.job
  BY <1>1 DEF Lease
<1>3. PICK held \in Lease : held.job = j /\ control' = [control EXCEPT !.lease = held]
  <2> DEFINE x == [control.lease EXCEPT !.live = b]
             y == [control.lease EXCEPT !.live = b, !.holder = NoHolder]
  <2>1. x \in Lease /\ y \in Lease /\ x.job = j /\ y.job = j
    BY <1>1, <1>2 DEF Lease
  <2>2. \/ control' = [control EXCEPT !.lease = x]
        \/ control' = [control EXCEPT !.lease = y]
    BY <1>1 DEF Lease
  <2> QED
    BY <2>1, <2>2
<1>4. /\ control' \in [high : 0..MaxGen, lease : Lease]
      /\ control'.high = control.high /\ control'.lease.job = j
  BY <1>1, <1>3
<1>5. Published(j) /\ job[j].gen = control.high
  BY <1>2 DEF Inv, LeasePublished
<1>6. Published(j)' /\ job'[j].gen = job[j].gen
  BY <1>5 DEF JobsKept
<1>7. LeasePublished'
  BY <1>4, <1>5, <1>6 DEF LeasePublished, Published, Exists, New
<1> QED
  BY <1>4, <1>7

LEMMA TimerFiresInv ==
    ASSUME Inv, NEW w \in Workers, TimerFires(w)
    PROVE  Inv'
<1>1. JobsKept /\ NewJobsStored'
  BY JobsUnchanged DEF TimerFires
<1>2. worker[w].id \in Jobs /\ Published(worker[w].id)
  BY JobAtHand DEF TimerFires, Stopped
<1>3. timer' \in [Workers -> {NotStarted} \cup [pc : Beats, id : Jobs]]
        /\ timer'[w] = [pc |-> "beat", id |-> worker[w].id]
        /\ \A v \in Workers \ {w} : timer'[v] = timer[v]
  <2>1. [pc |-> "beat", id |-> worker[w].id] \in [pc : Beats, id : Jobs]
    BY <1>2 DEF Beats
  <2> QED
    BY <2>1 DEF TimerFires, Inv, TypeOK, Beats
<1>4. TypeOK'
  BY <1>3 DEF Inv, TypeOK, TimerFires, Beats
<1>5. ProcessReferences'
  BY <1>1, <1>2, <1>3, ProcessesKnow DEF TimerFires, Running
<1> QED
  BY <1>1, <1>4, <1>5, LeaseUnchanged, RequestsQuiet, ImagesKept
  DEF Inv, TimerFires, ReferencesPublished

LEMMA TimerBeatsInv ==
    ASSUME Inv, NEW w \in Workers, TimerBeats(w)
    PROVE  Inv'
<1> DEFINE j == timer[w].id
           r == [job[j] EXCEPT !.phase = "mirroring"]
<1>1. timer[w].pc \in Beats /\ UNCHANGED <<binding, request, worker, stack, faults>>
  BY DEF TimerBeats, Beats
<1>2. timer \in [Workers -> {NotStarted} \cup [pc : Beats, id : Jobs]]
  BY DEF Inv, TypeOK, Beats
<1>3. timer[w] \in [pc : Beats, id : Jobs] /\ timer[w] # NotStarted
  BY <1>1, <1>2 DEF NotStarted, Beats
<1>4. j \in Jobs /\ Published(j) /\ job[j] \in Job
  BY <1>3 DEF Inv, ReferencesPublished, ProcessReferences, TypeOK, Published, Exists
<1>5. /\ timer' \in [Workers -> {NotStarted} \cup [pc : Beats, id : Jobs]]
      /\ \A v \in Workers : timer'[v] # NotStarted =>
           timer[v] # NotStarted /\ timer'[v].id = timer[v].id
  <2>1. [timer[w] EXCEPT !.pc = "beaten"] \in [pc : Beats, id : Jobs]
          /\ [timer[w] EXCEPT !.pc = "beaten"].id = j
    BY <1>3 DEF Beats
  <2>2. \/ timer' = [timer EXCEPT ![w] = NotStarted]
        \/ timer' = [timer EXCEPT ![w] = [timer[w] EXCEPT !.pc = "beaten"]]
    BY <1>2 DEF TimerBeats
  <2> QED
    BY <1>2, <1>3, <2>1, <2>2
<1>6. JobsKept /\ NewJobsStored' /\ job' \in [Jobs -> Job \cup {NoJob}]
  <2>1. r \in Job /\ r.gen = job[j].gen /\ r.previous = job[j].previous
    BY <1>4 DEF Job, Phases
  <2>2. UNCHANGED job \/ job' = [job EXCEPT ![j] = r]
    BY <1>4 DEF TimerBeats, Inv, TypeOK
  <2> HIDE DEF r, j
  <2>3. CASE UNCHANGED job
    BY <1>1, <2>3, JobsUnchanged DEF Inv, TypeOK
  <2>4. CASE job' = [job EXCEPT ![j] = r]
    BY <1>1, <1>4, <2>1, <2>4, JobRewritten
  <2> QED
    BY <2>2, <2>3, <2>4
<1>7. /\ control' \in [high : 0..MaxGen, lease : Lease \cup {NoLease}]
      /\ LeasePublished'
  <2>1. CASE UNCHANGED control
    BY <1>6, <2>1, LeaseUnchanged DEF Inv, TypeOK
  <2>2. CASE Holds(j) /\ control' = [control EXCEPT !.lease.live = TRUE]
    BY <1>6, <2>2, LeaseMarked DEF Holds
  <2> QED
    BY <2>1, <2>2 DEF TimerBeats
<1>8. ProcessReferences'
  BY <1>1, <1>5, <1>6, ProcessesKnow DEF Running
<1>9. TypeOK'
  BY <1>1, <1>5, <1>6, <1>7 DEF Inv, TypeOK, Beats
<1> QED
  BY <1>1, <1>6, <1>7, <1>8, <1>9, RequestsQuiet, ImagesKept
  DEF Inv, ReferencesPublished

LEMMA WorkerKilledInv ==
    ASSUME Inv, NEW w \in Workers, WorkerKilled(w)
    PROVE  Inv'
<1>1. JobsKept /\ NewJobsStored'
  BY JobsUnchanged DEF WorkerKilled
<1>2. worker' \in [Workers -> WorkerStates] /\ worker'[w].pc = "dead"
        /\ \A v \in Workers \ {w} : worker'[v] = worker[v]
  BY StoppedStates DEF WorkerKilled, Stop, Inv, TypeOK
<1>3. /\ timer' \in [Workers -> {NotStarted}
                                \cup [pc : {"beat", "beaten"}, id : Jobs]]
      /\ timer'[w] = NotStarted
      /\ \A v \in Workers \ {w} : timer'[v] = timer[v]
  BY DEF WorkerKilled, Inv, TypeOK
<1>4. TypeOK'
  BY <1>2, <1>3, FaultType DEF Inv, TypeOK, WorkerKilled
<1>5. ProcessReferences'
  BY <1>1, <1>2, <1>3, ProcessesKnow DEF Running
<1>6. ImageKnown'
  BY <1>1, <1>2, ImagesKept DEF ExecutorPcs, Beats
<1> QED
  BY <1>1, <1>4, <1>5, <1>6, LeaseUnchanged, RequestsQuiet
  DEF Inv, ReferencesPublished, WorkerKilled

LEMMA StackSettlesInv ==
    ASSUME Inv, StackSettles
    PROVE  Inv'
<1>1. JobsKept /\ NewJobsStored'
  BY JobsUnchanged DEF StackSettles
<1>2. TypeOK'
  BY DEF StackSettles, Inv, TypeOK, Stack
<1>3. ProcessReferences'
  BY <1>1, ProcessesKnow DEF StackSettles, Running
<1> QED
  BY <1>1, <1>2, <1>3, LeaseUnchanged, RequestsQuiet, ImagesKept
  DEF StackSettles, Inv, ReferencesPublished

LEMMA LeaseExpiresInv ==
    ASSUME Inv, LeaseExpires
    PROVE  Inv'
<1>1. JobsKept /\ NewJobsStored'
  BY JobsUnchanged DEF LeaseExpires
<1>2. /\ control' \in [high : 0..MaxGen, lease : Lease \cup {NoLease}]
      /\ LeasePublished'
  <2>1. control.lease # NoLease
    BY DEF LeaseExpires, NoLease
  <2> QED
    BY <1>1, <2>1, LeaseMarked DEF LeaseExpires
<1>3. faults' \in 0..MaxFaults
  BY FaultType DEF LeaseExpires, Inv, TypeOK
<1>4. TypeOK'
  BY <1>2, <1>3 DEF LeaseExpires, Inv, TypeOK
<1>5. ProcessReferences'
  BY <1>1, ProcessesKnow DEF LeaseExpires, Running
<1> QED
  BY <1>1, <1>2, <1>4, <1>5, RequestsQuiet, ImagesKept
  DEF LeaseExpires, Inv, ReferencesPublished

-----------------------------------------------------------------------------
(* The invariant is kept by requests                                       *)

LEMMA RequestFields ==
    ASSUME TypeOK, NEW p \in Requests
    PROVE  LET x == request[p]
           IN /\ x \in RequestStates
              /\ x.pc \in {"bound?", "store"} =>
                   x \in [pc : {"bound?", "store"}, gen : Gens, key : Keys]
              /\ New(p) =>
                   x \in [pc : {"lease", "delete"}, id : Jobs, gen : Gens,
                          key : Keys]
              /\ x.pc \in {"abandoned?", "abandon", "bind"} =>
                   x \in [pc : {"abandoned?", "abandon", "bind"}, id : Jobs,
                          key : Keys, old : Jobs]
              /\ x.pc \in {"dispatch", "fail", "clear", "expired?", "unhold",
                           "redispatch"} =>
                   x \in [pc : {"dispatch", "fail", "clear", "expired?",
                                "unhold", "redispatch"}, id : Jobs]
              /\ x.pc \in {"waiting", "resumed"} =>
                   x \in [pc : {"waiting", "resumed"}, id : Jobs,
                          worker : Workers]
<1>1. request[p] \in RequestStates
  BY DEF TypeOK
<1> QED
  BY <1>1 DEF RequestStates, Idle, New

\* Every job stays stored, with its generation and its image to go back to.
JobsGrow ==
    /\ job' \in [Jobs -> Job \cup {NoJob}]
    /\ \A j \in Jobs :
         /\ Exists(j) => Exists(j)'
         /\ job'[j].gen = job[j].gen
         /\ job[j].previous # NoImage => job'[j].previous # NoImage

LEMMA Growing ==
    ASSUME TypeOK, NEW j \in Jobs, NEW r \in Job,
           r.gen = job[j].gen, r.previous = job[j].previous,
           job' = [job EXCEPT ![j] = r]
    PROVE  JobsGrow
<1>1. r # NoJob /\ job \in [Jobs -> Job \cup {NoJob}]
  BY DEF Job, NoJob, TypeOK
<1> QED
  BY <1>1 DEF JobsGrow, Exists

LEMMA NotGrowing ==
    ASSUME TypeOK, UNCHANGED job
    PROVE  JobsGrow
BY DEF TypeOK, JobsGrow, Exists

\* Published jobs are kept by requests that store no job.
LEMMA RequestKeepsJobs ==
    ASSUME Inv, JobsGrow, NEW p \in Requests, NEW y \in RequestStates,
           y.pc \in {"lease", "delete"} =>
             New(p) /\ y.id = request[p].id /\ y.gen = request[p].gen,
           request' = [request EXCEPT ![p] = y]
    PROVE  JobsKept /\ NewJobsStored' /\ request' \in [Requests -> RequestStates]
<1>1. request' \in [Requests -> RequestStates] /\ request'[p] = y
        /\ \A q \in Requests \ {p} : request'[q] = request[q]
  BY DEF Inv, TypeOK
<1>2. \A q \in Requests : New(q)' =>
        New(q) /\ request'[q].id = request[q].id
          /\ request'[q].gen = request[q].gen
  BY <1>1 DEF New
<1>3. JobsKept
  BY <1>2 DEF JobsKept, JobsGrow, Published
<1>4. \A q \in Requests : New(q) => request[q].id \in Jobs
  BY RequestFields DEF Inv
<1>5. NewJobsStored'
  BY <1>2, <1>4 DEF Inv, NewJobsStored, JobsGrow, Exists
<1> QED
  BY <1>1, <1>3, <1>5

\* The references of requests, if a new one is published.
LEMMA RequestsKnow ==
    ASSUME Inv, JobsKept, NEW p \in Requests,
           \A q \in Requests \ {p} : request'[q] = request[q],
           request'[p].pc \in Naming =>
             \E j \in Jobs : request'[p].id = j /\ (Published(j) \/ Published(j)'),
           request'[p].pc \in {"abandoned?", "abandon", "bind"} =>
             \E j \in Jobs : request'[p].old = j /\ (Published(j) \/ Published(j)')
    PROVE  RequestReferences'
<1>1. \A q \in Requests : request[q] \in RequestStates
  BY DEF Inv, TypeOK
<1>2. \A x \in RequestStates :
        /\ x.pc \in Naming => x.id \in Jobs
        /\ x.pc \in {"abandoned?", "abandon", "bind"} => x.old \in Jobs
  BY DEF RequestStates, Naming, Idle
<1>3. \A j \in Jobs : Published(j) => Published(j)'
  BY DEF JobsKept
<1>4. \A q \in Requests \ {p} :
        /\ request'[q].pc \in Naming =>
             request'[q].id \in Jobs /\ Published(request[q].id)
        /\ request'[q].pc \in {"abandoned?", "abandon", "bind"} =>
             request'[q].old \in Jobs /\ Published(request[q].old)
  BY <1>1, <1>2 DEF Inv, ReferencesPublished, RequestReferences
<1>5. \A q \in Requests :
        /\ request'[q].pc \in Naming =>
             \E j \in Jobs : request'[q].id = j /\ Published(j)'
        /\ request'[q].pc \in {"abandoned?", "abandon", "bind"} =>
             \E j \in Jobs : request'[q].old = j /\ Published(j)'
  BY <1>3, <1>4
<1> QED
  BY <1>5 DEF RequestReferences, Published, Exists, New

\* A step of a request that may rewrite a job, and renew or clear the lease.
LEMMA RequestInv ==
    ASSUME Inv, JobsGrow, NEW p \in Requests, NEW y \in RequestStates,
           y.pc \notin {"lease", "delete"},
           y.pc \in Naming => Published(y.id),
           y.pc \in {"abandoned?", "abandon", "bind"} => Published(y.old),
           request' = [request EXCEPT ![p] = y],
           \/ control' = control
           \/ control' = Cleared
           \/ control' = Renewed /\ control.lease # NoLease,
           binding' \in [Keys -> Jobs \cup {NoBinding}],
           faults' \in 0..MaxFaults,
           UNCHANGED <<worker, timer, stack>>
    PROVE  Inv'
<1>1. JobsKept /\ NewJobsStored' /\ request' \in [Requests -> RequestStates]
  BY RequestKeepsJobs
<1>2. /\ control' \in [high : 0..MaxGen, lease : Lease \cup {NoLease}]
      /\ LeasePublished'
  <2>1. CASE control' = control
    BY <1>1, <2>1, LeaseUnchanged DEF Inv, TypeOK
  <2>2. CASE control' = Cleared
    BY <2>2 DEF Inv, TypeOK, Cleared, LeasePublished
  <2>3. CASE control' = Renewed /\ control.lease # NoLease
    BY <1>1, <2>3, LeaseMarked DEF Renewed
  <2> QED
    BY <2>1, <2>2, <2>3
<1>3. RequestReferences'
  <2>1. /\ y.pc \in Naming => y.id \in Jobs
        /\ y.pc \in {"abandoned?", "abandon", "bind"} => y.old \in Jobs
    BY DEF RequestStates, Naming, Idle
  <2>2. request'[p] = y /\ \A q \in Requests \ {p} : request'[q] = request[q]
    BY DEF Inv, TypeOK
  <2> QED
    BY <1>1, <2>1, <2>2, RequestsKnow
<1>4. ProcessReferences'
  BY <1>1, ProcessesKnow DEF Running
<1>5. TypeOK'
  BY <1>1, <1>2 DEF Inv, TypeOK, JobsGrow
<1> QED
  BY <1>1, <1>2, <1>3, <1>4, <1>5, ImagesKept DEF Inv, ReferencesPublished

\* The states a request can go to.
LEMMA RequestTargets ==
    /\ Idle \in RequestStates
    /\ \A g \in Gens, k \in Keys :
         /\ [pc |-> "bound?", gen |-> g, key |-> k] \in RequestStates
         /\ [pc |-> "store", gen |-> g, key |-> k] \in RequestStates
    /\ \A j \in Jobs, i \in Jobs, k \in Keys :
         \A pc \in {"abandoned?", "abandon", "bind"} :
           [pc |-> pc, id |-> j, key |-> k, old |-> i] \in RequestStates
    /\ \A j \in Jobs, g \in Gens, k \in Keys : \A pc \in {"lease", "delete"} :
         [pc |-> pc, id |-> j, gen |-> g, key |-> k] \in RequestStates
    /\ \A j \in Jobs : \A pc \in {"dispatch", "fail", "clear", "expired?",
                                  "unhold", "redispatch"} :
         [pc |-> pc, id |-> j] \in RequestStates
    /\ \A j \in Jobs, w \in Workers : \A pc \in {"waiting", "resumed"} :
         [pc |-> pc, id |-> j, worker |-> w] \in RequestStates
BY DEF RequestStates

\* The jobs a request may act on, and their records.
LEMMA RequestJobs ==
    ASSUME Inv, NEW p \in Requests, request[p].pc \in Naming
    PROVE  /\ request[p].id \in Jobs /\ Published(request[p].id)
           /\ job[request[p].id] \in Job
           /\ request[p].pc \in {"abandoned?", "abandon", "bind"} =>
                /\ request[p].old \in Jobs /\ Published(request[p].old)
                /\ job[request[p].old] \in Job
<1>1. /\ request[p].id \in Jobs
      /\ request[p].pc \in {"abandoned?", "abandon", "bind"} =>
           request[p].old \in Jobs
  BY RequestFields DEF Inv, Naming
<1>2. /\ Published(request[p].id)
      /\ request[p].pc \in {"abandoned?", "abandon", "bind"} =>
           Published(request[p].old)
  BY DEF Inv, ReferencesPublished, RequestReferences
<1> QED
  BY <1>1, <1>2 DEF Inv, TypeOK, Published, Exists

\* A step of a request that leaves all jobs and the lease alone.
LEMMA QuietRequestInv ==
    ASSUME Inv, NEW p \in Requests, NEW y \in RequestStates,
           y.pc \notin {"lease", "delete"},
           y.pc \in Naming => Published(y.id),
           y.pc \in {"abandoned?", "abandon", "bind"} => Published(y.old),
           request' = [request EXCEPT ![p] = y],
           binding' \in [Keys -> Jobs \cup {NoBinding}],
           UNCHANGED faults \/ \E kind \in FaultKinds : Fault(kind),
           UNCHANGED <<control, job, worker, timer, stack>>
    PROVE  Inv'
<1>1. faults' \in 0..MaxFaults
  BY FaultType DEF Inv, TypeOK
<1> QED
  BY <1>1, NotGrowing, RequestInv DEF Inv

LEMMA IdleRequestInv ==
    ASSUME Inv, NEW p \in Requests, request' = [request EXCEPT ![p] = Idle],
           UNCHANGED faults \/ \E kind \in FaultKinds : Fault(kind),
           UNCHANGED <<control, job, binding, worker, timer, stack>>
    PROVE  Inv'
<1>1. Idle.pc \notin {"lease", "delete"} \cup Naming
        /\ Idle.pc \notin {"abandoned?", "abandon", "bind"}
  BY DEF Idle, Naming
<1> QED
  BY <1>1, RequestTargets, QuietRequestInv DEF Inv, TypeOK

LEMMA LookupInv ==
    ASSUME Inv, NEW p \in Requests,
           \/ \E g \in Gens, k \in Keys : Create(p, g, k)
           \/ \E j \in Jobs : Resume(p, j)
           \/ FindBinding(p) \/ DispatchReturns(p) \/ RequestCrashes(p)
    PROVE  Inv'
<1>0. binding \in [Keys -> Jobs \cup {NoBinding}]
  BY DEF Inv, TypeOK
<1>1. ASSUME NEW g \in Gens, NEW k \in Keys, Create(p, g, k) PROVE Inv'
  BY <1>0, <1>1, RequestTargets, QuietRequestInv DEF Create, Naming
<1>2. ASSUME NEW j \in Jobs, Resume(p, j) PROVE Inv'
  BY <1>0, <1>2, RequestTargets, QuietRequestInv DEF Resume, Naming
<1>3. CASE FindBinding(p)
  <2>1. request[p] \in [pc : {"bound?", "store"}, gen : Gens, key : Keys]
    BY <1>3, RequestFields DEF FindBinding, Inv
  <2> DEFINE y == [request[p] EXCEPT !.pc = "store"]
  <2>2. y \in RequestStates /\ y.pc = "store"
    BY <2>1 DEF RequestStates
  <2>3. \/ request' = [request EXCEPT ![p] = Idle]
        \/ request' = [request EXCEPT ![p] = y]
    BY <1>3 DEF FindBinding
  <2> HIDE DEF y
  <2> QED
    BY <1>0, <1>3, <2>2, <2>3, IdleRequestInv, QuietRequestInv
    DEF FindBinding, Naming
<1>4. CASE DispatchReturns(p)
  BY <1>4, IdleRequestInv DEF DispatchReturns
<1>5. CASE RequestCrashes(p)
  BY <1>5, IdleRequestInv DEF RequestCrashes, FaultKinds
<1> QED
  BY <1>1, <1>2, <1>3, <1>4, <1>5

LEMMA AbandonInv ==
    ASSUME Inv, NEW p \in Requests,
           ReadAbandoned(p) \/ FailAbandoned(p) \/ Bind(p)
    PROVE  Inv'
<1> DEFINE x == request[p]
<1>0. /\ binding \in [Keys -> Jobs \cup {NoBinding}] /\ faults \in 0..MaxFaults
      /\ request \in [Requests -> RequestStates]
  BY DEF Inv, TypeOK
<1>1. x.pc \in {"abandoned?", "abandon", "bind"} /\ x.pc \in Naming
  BY DEF ReadAbandoned, FailAbandoned, Bind, Naming
<1>2. x \in [pc : {"abandoned?", "abandon", "bind"}, id : Jobs, key : Keys,
             old : Jobs]
  BY <1>1, RequestFields DEF Inv
<1>3. Published(x.id) /\ Published(x.old) /\ job[x.old] \in Job
  BY <1>1, RequestJobs
<1>4. ASSUME NEW pc \in {"abandon", "bind"}
      PROVE  LET y == [x EXCEPT !.pc = pc]
             IN /\ y \in RequestStates /\ y.id = x.id /\ y.old = x.old
                /\ y.pc = pc
                /\ [request EXCEPT ![p].pc = pc] = [request EXCEPT ![p] = y]
  BY <1>0, <1>2 DEF RequestStates
<1>5. CASE ReadAbandoned(p)
  <2>1. PICK pc \in {"abandon", "bind"} :
          request' = [request EXCEPT ![p] = [x EXCEPT !.pc = pc]]
    BY <1>4, <1>5 DEF ReadAbandoned
  <2> DEFINE y == [x EXCEPT !.pc = pc]
  <2>2. y \in RequestStates /\ y.id = x.id /\ y.old = x.old /\ y.pc = pc
    BY <1>4
  <2>3. request' = [request EXCEPT ![p] = y]
    BY <2>1
  <2> HIDE DEF y
  <2> QED
    BY <1>0, <1>3, <1>5, <2>2, <2>3, QuietRequestInv DEF ReadAbandoned
<1>6. CASE FailAbandoned(p)
  <2> DEFINE y == [x EXCEPT !.pc = "bind"]
             r == [job[x.old] EXCEPT !.status = "failed", !.phase = "complete",
                                     !.recovery = "unknown"]
  <2>1. y \in RequestStates /\ y.id = x.id /\ y.old = x.old /\ y.pc = "bind"
    BY <1>4
  <2>2. request' = [request EXCEPT ![p] = y]
    BY <1>4, <1>6 DEF FailAbandoned
  <2>3. r \in Job /\ r.gen = job[x.old].gen /\ r.previous = job[x.old].previous
    BY <1>3 DEF Job, Phases
  <2>4. job' = [job EXCEPT ![x.old] = r]
    BY <1>6 DEF FailAbandoned, Inv, TypeOK
  <2> HIDE DEF y, r
  <2>5. JobsGrow
    BY <1>2, <2>3, <2>4, Growing DEF Inv
  <2> QED
    BY <1>0, <1>3, <1>6, <2>1, <2>2, <2>5, RequestInv DEF FailAbandoned
<1>7. CASE Bind(p)
  <2>1. binding' \in [Keys -> Jobs \cup {NoBinding}]
    BY <1>0, <1>2, <1>7 DEF Bind
  <2> DEFINE y == [pc |-> "dispatch", id |-> x.id]
  <2>2. y \in RequestStates /\ y.pc = "dispatch" /\ y.id = x.id
    BY <1>2, RequestTargets
  <2>3. request' = [request EXCEPT ![p] = y]
    BY <1>7 DEF Bind
  <2> HIDE DEF y
  <2> QED
    BY <1>3, <1>7, <2>1, <2>2, <2>3, QuietRequestInv DEF Bind
<1> QED
  BY <1>5, <1>6, <1>7

\* The request's state after a change of its pc among those that only name a job.
LEMMA RequestAtHand ==
    ASSUME TypeOK, NEW p \in Requests,
           request[p].pc \in {"dispatch", "fail", "clear", "expired?", "unhold",
                              "redispatch"}
    PROVE  /\ request[p].id \in Jobs
           /\ \A pc \in {"clear", "unhold", "redispatch"} :
                [request EXCEPT ![p].pc = pc] =
                  [request EXCEPT ![p] = [pc |-> pc, id |-> request[p].id]]
<1>1. request[p] \in [pc : {"dispatch", "fail", "clear", "expired?", "unhold",
                            "redispatch"}, id : Jobs]
  BY RequestFields
<1>2. request \in [Requests -> RequestStates]
  BY DEF TypeOK
<1>3. ASSUME NEW pc \in {"clear", "unhold", "redispatch"}
      PROVE  [request[p] EXCEPT !.pc = pc] = [pc |-> pc, id |-> request[p].id]
  BY <1>1
<1> QED
  BY <1>1, <1>2, <1>3

LEMMA FailDispatchedInv ==
    ASSUME Inv, NEW p \in Requests, FailDispatched(p) \/ ClearDispatched(p)
    PROVE  Inv'
<1> DEFINE j == request[p].id
           y == [pc |-> "clear", id |-> j]
           r == [job[j] EXCEPT !.status = "failed", !.phase = "complete",
                               !.recovery = "unknown"]
<1>0. binding \in [Keys -> Jobs \cup {NoBinding}] /\ faults \in 0..MaxFaults
  BY DEF Inv, TypeOK
<1>1. j \in Jobs /\ Published(j) /\ job[j] \in Job
  BY RequestJobs DEF FailDispatched, ClearDispatched, Naming
<1>2. CASE FailDispatched(p)
  <2>1. request' = [request EXCEPT ![p] = y]
    BY <1>2, RequestAtHand DEF FailDispatched, Inv
  <2>2. y \in RequestStates /\ y.pc = "clear" /\ y.id = j
    BY <1>1, RequestTargets
  <2>3. r \in Job /\ r.gen = job[j].gen /\ r.previous = job[j].previous
    BY <1>1 DEF Job, Phases
  <2>4. job' = [job EXCEPT ![j] = r]
    BY <1>2 DEF FailDispatched, Inv, TypeOK
  <2> HIDE DEF y, r, j
  <2>5. JobsGrow
    BY <1>1, <2>3, <2>4, Growing DEF Inv
  <2> QED
    BY <1>0, <1>1, <1>2, <2>1, <2>2, <2>5, RequestInv DEF FailDispatched
<1>3. CASE ClearDispatched(p)
  <2>1. JobsGrow
    BY <1>3, NotGrowing DEF ClearDispatched, Inv
  <2>2. Idle.pc \notin {"lease", "delete"} \cup Naming
          /\ Idle.pc \notin {"abandoned?", "abandon", "bind"}
    BY DEF Idle, Naming
  <2> QED
    BY <1>0, <1>3, <2>1, <2>2, RequestInv, RequestTargets DEF ClearDispatched
<1> QED
  BY <1>2, <1>3

LEMMA ResumeInv ==
    ASSUME Inv, NEW p \in Requests, RenewLease(p) \/ UnholdJob(p)
    PROVE  Inv'
<1> DEFINE j == request[p].id
           r == [job[j] EXCEPT !.holder = NoHolder]
<1>0. binding \in [Keys -> Jobs \cup {NoBinding}] /\ faults \in 0..MaxFaults
  BY DEF Inv, TypeOK
<1>1. j \in Jobs
  BY RequestAtHand DEF RenewLease, UnholdJob, Inv
<1>2. CASE RenewLease(p)
  <2> DEFINE y == [pc |-> "unhold", id |-> j]
  <2>1. CASE Holds(j) /\ control' = Renewed /\ request' = [request EXCEPT ![p].pc = "unhold"]
    <3>1. request' = [request EXCEPT ![p] = y]
      BY <1>2, <2>1, RequestAtHand DEF RenewLease, Inv
    <3>2. y \in RequestStates /\ y.pc = "unhold" /\ y.id = j
      BY <1>1, RequestTargets
    <3>3. Published(j) /\ control.lease # NoLease
      BY <2>1 DEF Holds, Inv, LeasePublished
    <3> HIDE DEF y
    <3>4. JobsGrow
      BY <1>2, NotGrowing DEF RenewLease, Inv
    <3> QED
      BY <1>0, <1>2, <2>1, <3>1, <3>2, <3>3, <3>4, RequestInv DEF RenewLease
  <2>2. CASE UNCHANGED control /\ request' = [request EXCEPT ![p] = Idle]
    BY <1>2, <2>2, IdleRequestInv DEF RenewLease
  <2> QED
    BY <1>2, <2>1, <2>2 DEF RenewLease
<1>3. CASE UnholdJob(p)
  <2> DEFINE y == [pc |-> "redispatch", id |-> j]
  <2>1. request' = [request EXCEPT ![p] = y]
    BY <1>3, RequestAtHand DEF UnholdJob, Inv
  <2>2. y \in RequestStates /\ y.pc = "redispatch" /\ y.id = j
    BY <1>1, RequestTargets
  <2>3. Published(j) /\ job[j] \in Job
    BY <1>3, RequestJobs DEF UnholdJob, Naming
  <2>4. r \in Job /\ r.gen = job[j].gen /\ r.previous = job[j].previous
    BY <2>3 DEF Job
  <2>5. job' = [job EXCEPT ![j] = r]
    BY <1>3 DEF UnholdJob, Inv, TypeOK
  <2> HIDE DEF y, r, j
  <2>6. JobsGrow
    BY <1>1, <2>4, <2>5, Growing DEF Inv
  <2> QED
    BY <1>0, <1>3, <2>1, <2>2, <2>3, <2>6, RequestInv DEF UnholdJob
<1> QED
  BY <1>2, <1>3

\* A dispatched job comes to a new worker.
LEMMA DeliverInv ==
    ASSUME Inv, NEW p \in Requests, NEW w \in Workers, Deliver(p, w),
           request[p].pc \in {"dispatch", "redispatch"},
           UNCHANGED <<control, job, binding, timer, stack, faults>>
    PROVE  Inv'
<1> DEFINE j == request[p].id
           y == [pc |-> IF request[p].pc = "dispatch" THEN "waiting"
                                                      ELSE "resumed",
                 id |-> j, worker |-> w]
           x == [pc |-> "read", id |-> j]
<1>1. j \in Jobs /\ Published(j)
  BY RequestJobs DEF Naming
<1>2. y \in RequestStates /\ y.pc \in {"waiting", "resumed"} /\ y.id = j
  BY <1>1, RequestTargets
<1>3. x \in WorkerStates /\ x.pc = "read" /\ x.id = j
  BY <1>1 DEF WorkerStates
<1>4. request' = [request EXCEPT ![p] = y] /\ worker' = [worker EXCEPT ![w] = x]
  BY DEF Deliver
<1> HIDE DEF x, y
<1>5. JobsGrow
  BY NotGrowing DEF Inv
<1>6. JobsKept /\ NewJobsStored' /\ request' \in [Requests -> RequestStates]
  BY <1>2, <1>4, <1>5, RequestKeepsJobs
<1>7. worker' \in [Workers -> WorkerStates] /\ worker'[w] = x
        /\ \A v \in Workers \ {w} : worker'[v] = worker[v]
  BY <1>3, <1>4 DEF Inv, TypeOK
<1>8. RequestReferences'
  <2>1. request'[p] = y /\ \A q \in Requests \ {p} : request'[q] = request[q]
    BY <1>4 DEF Inv, TypeOK
  <2> QED
    BY <1>1, <1>2, <1>6, <2>1, RequestsKnow
<1>9. ProcessReferences'
  BY <1>1, <1>3, <1>6, <1>7, ProcessesKnow DEF Running
<1>10. ImageKnown'
  BY <1>3, <1>6, <1>7, ImagesKept DEF ExecutorPcs, Beats
<1>11. TypeOK'
  BY <1>6, <1>7 DEF Inv, TypeOK
<1> QED
  BY <1>6, <1>8, <1>9, <1>10, <1>11, LeaseUnchanged DEF Inv, ReferencesPublished

LEMMA DispatchInv ==
    ASSUME Inv, NEW p \in Requests, Dispatch(p) \/ DispatchThrows(p)
    PROVE  Inv'
<1> DEFINE j == request[p].id
           y == [pc |-> "fail", id |-> j]
<1>0. binding \in [Keys -> Jobs \cup {NoBinding}]
  BY DEF Inv, TypeOK
<1>1. request[p].pc \in Naming
  BY DEF Dispatch, DispatchThrows, Naming
<1>2. j \in Jobs /\ Published(j)
  BY <1>1, RequestJobs
<1>3. y \in RequestStates /\ y.pc = "fail" /\ y.id = j
  BY <1>2, RequestTargets
<1>4. CASE /\ request' = [request EXCEPT ![p] = y]
           /\ UNCHANGED faults \/ \E kind \in FaultKinds : Fault(kind)
           /\ UNCHANGED <<control, job, binding, worker, timer, stack>>
  <2> HIDE DEF y
  <2> QED
    BY <1>0, <1>2, <1>3, <1>4, QuietRequestInv
<1>5. CASE DispatchThrows(p)
  <2>1. request' = [request EXCEPT ![p] = y]
    BY <1>5 DEF DispatchThrows
  <2> HIDE DEF y
  <2>2. UNCHANGED faults \/ \E kind \in FaultKinds : Fault(kind)
    BY <1>5 DEF DispatchThrows, FaultKinds
  <2> QED
    BY <1>4, <1>5, <2>1, <2>2 DEF DispatchThrows
<1>6. CASE Dispatch(p)
  <2>1. ASSUME NEW w \in Workers, Deliver(p, w), UNCHANGED faults PROVE Inv'
    BY <1>6, <2>1, DeliverInv DEF Dispatch
  <2>2. CASE Fault("lost") /\ request' = [request EXCEPT ![p] = Idle]
             /\ UNCHANGED worker
    BY <1>6, <2>2, IdleRequestInv DEF Dispatch, FaultKinds
  <2>3. CASE Fault("refused") /\ UNCHANGED worker
             /\ request' = [request EXCEPT ![p] =
                  IF request[p].pc = "dispatch" THEN y ELSE Idle]
    <3>1. \E kind \in FaultKinds : Fault(kind)
      BY <2>3 DEF FaultKinds
    <3>2. CASE request' = [request EXCEPT ![p] = y]
      <4> HIDE DEF y
      <4> QED
        BY <1>4, <1>6, <2>3, <3>1, <3>2 DEF Dispatch
    <3>3. CASE request' = [request EXCEPT ![p] = Idle]
      BY <1>6, <2>3, <3>1, <3>3, IdleRequestInv DEF Dispatch
    <3> QED
      BY <2>3, <3>2, <3>3
  <2> QED
    BY <1>6, <2>1, <2>2, <2>3 DEF Dispatch
<1> QED
  BY <1>5, <1>6

LEMMA StoreJobInv ==
    ASSUME Inv, NEW p \in Requests, NEW j \in Jobs, StoreJob(p, j)
    PROVE  Inv'
<1> DEFINE x == request[p]
           y == [pc |-> "lease", id |-> j, gen |-> x.gen, key |-> x.key]
           r == NewJob(x.gen)
<1>1. x.gen \in Gens /\ x.key \in Keys
  BY RequestFields DEF StoreJob, Inv
<1>2. r \in Job /\ r # NoJob /\ r.gen = x.gen
  BY <1>1 DEF NewJob, Job, NoJob, Phases, Early
<1>3. y \in RequestStates /\ y.pc = "lease" /\ y.id = j /\ y.gen = x.gen
  BY <1>1, RequestTargets
<1>4. request' = [request EXCEPT ![p] = y] /\ job' = [job EXCEPT ![j] = r]
        /\ ~ Exists(j) /\ UNCHANGED <<control, binding, worker, timer, stack, faults>>
  BY DEF StoreJob
<1> HIDE DEF y, r
<1>5. /\ request' \in [Requests -> RequestStates] /\ request'[p] = y
      /\ \A q \in Requests \ {p} : request'[q] = request[q]
  BY <1>3, <1>4 DEF Inv, TypeOK
<1>6. /\ job' \in [Jobs -> Job \cup {NoJob}] /\ job'[j] = r
      /\ \A k \in Jobs \ {j} : job'[k] = job[k]
  BY <1>2, <1>4 DEF Inv, TypeOK
<1>7. JobsKept
  BY <1>3, <1>4, <1>5, <1>6 DEF JobsKept, Published, Exists, New
<1>8. \A q \in Requests : New(q) => request[q].id \in Jobs \ {j}
  BY <1>4, RequestFields DEF Inv, NewJobsStored
<1>9. NewJobsStored'
  BY <1>2, <1>3, <1>5, <1>6, <1>8 DEF Inv, NewJobsStored, Exists, New
<1>10. RequestReferences'
  BY <1>3, <1>5, <1>7, RequestsKnow DEF Naming
<1>11. ProcessReferences'
  BY <1>4, <1>7, ProcessesKnow DEF Running
<1>12. TypeOK'
  BY <1>4, <1>5, <1>6 DEF Inv, TypeOK
<1> QED
  BY <1>4, <1>7, <1>9, <1>10, <1>11, <1>12, LeaseUnchanged, ImagesKept
  DEF Inv, ReferencesPublished

LEMMA TakeLeaseInv ==
    ASSUME Inv, NEW p \in Requests, TakeLease(p)
    PROVE  Inv'
<1> DEFINE x == request[p]
<1>1. New(p) /\ x \in [pc : {"lease", "delete"}, id : Jobs, gen : Gens, key : Keys]
        /\ UNCHANGED <<job, binding, worker, timer, stack, faults>>
  BY RequestFields DEF TakeLease, New, Inv
<1>2. JobsGrow
  BY <1>1, NotGrowing DEF Inv
<1>3. request \in [Requests -> RequestStates]
        /\ control \in [high : 0..MaxGen, lease : Lease \cup {NoLease}]
  BY DEF Inv, TypeOK
<1>4. CASE UNCHANGED control /\ request' = [request EXCEPT ![p].pc = "delete"]
  <2> DEFINE y == [x EXCEPT !.pc = "delete"]
  <2>1. y \in RequestStates /\ y.pc = "delete" /\ y.id = x.id /\ y.gen = x.gen
    BY <1>1 DEF RequestStates
  <2>2. request' = [request EXCEPT ![p] = y]
    BY <1>3, <1>4
  <2> HIDE DEF y
  <2>3. JobsKept /\ NewJobsStored' /\ request' \in [Requests -> RequestStates]
    BY <1>1, <1>2, <2>1, <2>2, RequestKeepsJobs
  <2>4. request'[p] = y /\ \A q \in Requests \ {p} : request'[q] = request[q]
    BY <1>3, <2>2
  <2>5. RequestReferences'
    BY <2>1, <2>3, <2>4, RequestsKnow DEF Naming
  <2>6. ProcessReferences'
    BY <1>1, <2>3, ProcessesKnow DEF Running
  <2>7. TypeOK'
    BY <1>1, <1>4, <2>3 DEF Inv, TypeOK
  <2> QED
    BY <1>1, <1>4, <2>3, <2>5, <2>6, <2>7, LeaseUnchanged, ImagesKept
    DEF Inv, ReferencesPublished
<1>5. ASSUME ~ BelowFloor(x.gen),
             NEW pc \in {"abandoned?", "bind"}, NEW i \in Jobs,
             i = x.id \/ Published(i),
             request' = [request EXCEPT ![p] = [pc |-> pc, id |-> x.id,
                                                key |-> x.key, old |-> i]],
             control' = [high  |-> Raised(control.high, x.gen),
                         lease |-> [job |-> x.id, live |-> TRUE,
                                    holder |-> NoHolder]]
      PROVE  Inv'
  <2> DEFINE y == [pc |-> pc, id |-> x.id, key |-> x.key, old |-> i]
  <2>1. PICK j \in Jobs : j = x.id
    BY <1>1
  <2>2. y \in RequestStates /\ y.pc = pc /\ y.id = j /\ y.old = i
    BY <1>1, <2>1, RequestTargets
  <2>3. request' = [request EXCEPT ![p] = y]
    BY <1>5
  <2> HIDE DEF y
  <2>4. JobsKept /\ NewJobsStored' /\ request' \in [Requests -> RequestStates]
    BY <1>2, <2>2, <2>3, RequestKeepsJobs
  <2>5. request'[p] = y /\ \A q \in Requests \ {p} : request'[q] = request[q]
    BY <1>3, <2>3
  <2>6. Exists(j) /\ job[j].gen = x.gen
          /\ \A q \in Requests \ {p} : New(q) => request[q].id # j
    BY <1>1, <2>1 DEF Inv, NewJobsStored
  <2>7. Published(j)'
    BY <1>1, <2>2, <2>5, <2>6 DEF Published, Exists, New
  <2>8. RequestReferences'
    BY <1>5, <2>1, <2>2, <2>4, <2>5, <2>7, RequestsKnow
  <2>9. ProcessReferences'
    BY <1>1, <2>4, ProcessesKnow DEF Running
  <2>10. /\ control' \in [high : 0..MaxGen, lease : Lease \cup {NoLease}]
         /\ control'.high = x.gen /\ control'.lease.job = j
    <3>1. x.gen \in 1..MaxGen /\ control.high \in 0..MaxGen
      BY <1>1, <1>3 DEF Gens
    <3>2. Raised(control.high, x.gen) = x.gen /\ x.gen \in 0..MaxGen
      BY <1>5, <3>1, SelfUpdateAssumption DEF Raised, BelowFloor
    <3>3. [job |-> x.id, live |-> TRUE, holder |-> NoHolder] \in Lease
      BY <1>1 DEF Lease
    <3> QED
      BY <1>5, <2>1, <3>2, <3>3
  <2>11. LeasePublished'
    BY <1>1, <2>6, <2>7, <2>10 DEF LeasePublished, Published, Exists, New
  <2>12. TypeOK'
    BY <1>1, <2>4, <2>10 DEF Inv, TypeOK
  <2> QED
    BY <1>1, <2>4, <2>8, <2>9, <2>11, <2>12, ImagesKept
    DEF Inv, ReferencesPublished
<1>6. control.lease # NoLease =>
        control.lease.job \in Jobs /\ Published(control.lease.job)
  BY <1>3 DEF Inv, LeasePublished, Lease
<1>7. CASE BelowFloor(x.gen) \/ ~ Available
  BY <1>4, <1>7 DEF TakeLease
<1>8. CASE ~ (BelowFloor(x.gen) \/ ~ Available)
  <2>1. /\ ~ BelowFloor(x.gen)
        /\ control' = [high  |-> Raised(control.high, x.gen),
                       lease |-> [job |-> x.id, live |-> TRUE,
                                  holder |-> NoHolder]]
        /\ request' = [request EXCEPT ![p] =
             IF control.lease = NoLease
             THEN [pc |-> "bind", id |-> x.id, key |-> x.key, old |-> x.id]
             ELSE [pc |-> "abandoned?", id |-> x.id, key |-> x.key,
                   old |-> control.lease.job]]
    BY <1>8 DEF TakeLease
  <2>2. CASE control.lease = NoLease
    BY <1>1, <1>5, <2>1, <2>2
  <2>3. CASE control.lease # NoLease
    BY <1>5, <1>6, <2>1, <2>3
  <2> QED
    BY <2>2, <2>3
<1> QED
  BY <1>7, <1>8

LEMMA DeleteJobInv ==
    ASSUME Inv, NEW p \in Requests, DeleteJob(p)
    PROVE  Inv'
<1> DEFINE j == request[p].id
<1>1. New(p) /\ j \in Jobs
  BY RequestFields DEF DeleteJob, New, Inv
<1>2. /\ request' = [request EXCEPT ![p] = Idle]
      /\ job' = [job EXCEPT ![j] = NoJob]
      /\ UNCHANGED <<control, binding, worker, timer, stack, faults>>
  BY DEF DeleteJob
<1>3. /\ request' \in [Requests -> RequestStates] /\ request'[p] = Idle
      /\ \A q \in Requests \ {p} : request'[q] = request[q]
  BY <1>2, RequestTargets DEF Inv, TypeOK
<1>4. /\ job' \in [Jobs -> Job \cup {NoJob}]
      /\ \A k \in Jobs \ {j} : job'[k] = job[k]
  BY <1>2 DEF Inv, TypeOK
<1>5. \A q \in Requests : New(q)' => New(q) /\ q # p /\ request'[q] = request[q]
  BY <1>3 DEF New, Idle
<1>6. JobsKept
  BY <1>1, <1>4, <1>5 DEF JobsKept, Published, Exists
<1>7. \A q \in Requests : New(q)' => request[q].id \in Jobs \ {j}
  BY <1>1, <1>5, RequestFields DEF Inv, NewJobsStored
<1>8. NewJobsStored'
  BY <1>4, <1>5, <1>7 DEF Inv, NewJobsStored, Exists
<1>9. RequestReferences'
  BY <1>3, <1>6, RequestsKnow DEF Naming, Idle
<1>10. ProcessReferences'
  BY <1>2, <1>6, ProcessesKnow DEF Running
<1>11. TypeOK'
  BY <1>2, <1>3, <1>4 DEF Inv, TypeOK
<1> QED
  BY <1>2, <1>6, <1>8, <1>9, <1>10, <1>11, LeaseUnchanged, ImagesKept
  DEF Inv, ReferencesPublished

LEMMA RequestStepInv ==
    ASSUME Inv, NEW p \in Requests, RequestStep(p)
    PROVE  Inv'
BY LookupInv, StoreJobInv, TakeLeaseInv, DeleteJobInv, AbandonInv, DispatchInv,
   FailDispatchedInv, ResumeInv DEF RequestStep

-----------------------------------------------------------------------------
(* Theorems                                                                *)

LEMMA InitInv == Init => Inv
<1> SUFFICES ASSUME Init PROVE Inv
  OBVIOUS
<1>1. TypeOK
  <2>1. Idle \in RequestStates /\ NotStarted \in WorkerStates
    BY RequestTargets DEF WorkerStates
  <2>2. stack \in Stack
    BY SelfUpdateAssumption DEF Init, Stack, Images
  <2> QED
    BY <2>1, <2>2, SelfUpdateAssumption DEF Init, TypeOK
<1>2. NewJobsStored /\ LeasePublished
  BY DEF Init, NewJobsStored, LeasePublished, New, Idle
<1>3. ReferencesPublished
  BY DEF Init, ReferencesPublished, RequestReferences, ProcessReferences,
         Naming, Running, Idle, NotStarted
<1>4. ImageKnown
  BY DEF Init, ImageKnown, PastCapture, ExecutorPcs, Beats, NotStarted
<1> QED
  BY <1>1, <1>2, <1>3, <1>4 DEF Inv

\* Nothing happens to the invariant when nothing happens.
LEMMA StutterInv ==
    ASSUME Inv, UNCHANGED vars
    PROVE  Inv'
<1>1. JobsKept /\ NewJobsStored'
  BY JobsUnchanged DEF vars
<1>2. TypeOK'
  BY DEF Inv, TypeOK, vars
<1>3. ProcessReferences'
  BY <1>1, ProcessesKnow DEF vars, Running
<1> QED
  BY <1>1, <1>2, <1>3, LeaseUnchanged, RequestsQuiet, ImagesKept
  DEF Inv, vars, ReferencesPublished

LEMMA Inductive == Inv /\ [Next]_vars => Inv'
<1> SUFFICES ASSUME Inv, [Next]_vars PROVE Inv'
  OBVIOUS
<1>1. CASE UNCHANGED vars
  BY <1>1, StutterInv
<1>2. CASE Next
  <2>1. ASSUME NEW p \in Requests,
               \/ \E g \in Gens, k \in Keys : Create(p, g, k)
               \/ \E j \in Jobs : Resume(p, j)
               \/ RequestStep(p) \/ RequestCrashes(p)
        PROVE  Inv'
    BY <2>1, LookupInv, RequestStepInv
  <2>2. ASSUME NEW w \in Workers,
               \/ ServiceStep(w) \/ ExecutorStep(w) \/ TimerFires(w)
               \/ TimerBeats(w) \/ WorkerKilled(w)
        PROVE  Inv'
    BY <2>2, ServiceInv, ExecutorInv, TimerFiresInv, TimerBeatsInv,
       WorkerKilledInv
  <2> QED
    BY <1>2, <2>1, <2>2, StackSettlesInv, LeaseExpiresInv DEF Next
<1> QED
  BY <1>1, <1>2

\* Job records, control record, bindings, requests, workers and the stack keep
\* their types in SelfUpdateService and SelfUpdateExecutor.
THEOREM UpdateTypeCorrect == Spec => []TypeOK
<1>1. Inv => TypeOK
  BY DEF Inv
<1> QED
  BY <1>1, InitInv, Inductive, PTL DEF Spec

\* Whatever fails and however many requests and workers there are, the lease
\* in the control record belongs to a stored job of the highest generation that
\* SelfUpdateService.create() has accepted.
THEOREM LeaseHeldAtHighWater == Spec => []LeaseAtHighWater
<1>1. Inv => LeaseAtHighWater
  BY DEF Inv, LeasePublished, LeaseAtHighWater, Published
<1> QED
  BY <1>1, InitInv, Inductive, PTL DEF Spec

\* Only create() raises the high-water mark; claims, heartbeats, resumptions and
\* the clearing of leases copy it.
LEMMA HighWaterStep == Inv /\ [Next]_vars => control'.high >= control.high
<1> SUFFICES ASSUME Inv, [Next]_vars PROVE control'.high >= control.high
  OBVIOUS
<1>1. control \in [high : 0..MaxGen, lease : Lease \cup {NoLease}]
  BY DEF Inv, TypeOK
<1>2. control.high \in Nat
  BY <1>1, SelfUpdateAssumption
<1>3. CASE UNCHANGED control
  BY <1>2, <1>3
<1>4. CASE control'.high = control.high
  BY <1>2, <1>4
<1>5. ASSUME NEW p \in Requests, TakeLease(p) PROVE control'.high >= control.high
  <2>1. request[p].gen \in 1..MaxGen
    BY <1>5, RequestFields DEF TakeLease, New, Inv, Gens
  <2>2. UNCHANGED control \/ control'.high = Raised(control.high, request[p].gen)
    BY <1>5 DEF TakeLease
  <2> QED
    BY <1>2, <2>1, <2>2, SelfUpdateAssumption DEF Raised
<1>6. ASSUME NEW p \in Requests, RequestStep(p) PROVE control'.high >= control.high
  <2>1. ClearDispatched(p) \/ RenewLease(p) => control'.high = control.high
    BY <1>1 DEF ClearDispatched, RenewLease, Cleared, Renewed
  <2>2. UNCHANGED control \/ TakeLease(p) \/ ClearDispatched(p) \/ RenewLease(p)
    BY <1>6 DEF RequestStep, FindBinding, StoreJob, DeleteJob, ReadAbandoned,
       FailAbandoned, Bind, Dispatch, DispatchReturns, DispatchThrows,
       FailDispatched, UnholdJob
  <2> QED
    BY <1>3, <1>4, <1>5, <2>1, <2>2
<1>7. ASSUME NEW w \in Workers, ServiceStep(w) PROVE control'.high = control.high
  BY <1>1, <1>7
  DEF ServiceStep, WorkerReads, ClaimLease, ClaimJob, BeatLease, BeatJob,
      AssertHolder, FinishJob, ClearLease, Cleared
<1>8. ASSUME NEW w \in Workers, TimerBeats(w) \/ TimerFires(w) \/ WorkerKilled(w)
      PROVE  control'.high = control.high
  BY <1>1, <1>8 DEF TimerBeats, TimerFires, WorkerKilled
<1>9. LeaseExpires => control'.high = control.high
  BY <1>1 DEF LeaseExpires
<1>10. CASE UNCHANGED vars
  BY <1>3, <1>10 DEF vars
<1>11. CASE Next
  BY <1>3, <1>4, <1>6, <1>7, <1>8, <1>9, <1>11
  DEF Next, Create, Resume, RequestCrashes, ExecutorStep, StackSettles
<1> QED
  BY <1>10, <1>11

\* No step of SelfUpdateService lowers the high-water mark of the control
\* record, so that a release older than one that had the lease is never leased.
THEOREM HighWaterKept == Spec => HighWaterNeverFalls
<1>1. Inv /\ [Next]_vars => [control'.high >= control.high]_control
  BY HighWaterStep
<1> QED
  BY <1>1, InitInv, Inductive, PTL DEF Spec, HighWaterNeverFalls

-----------------------------------------------------------------------------
(* One process at a time acts on the lease                                 *)

\* A lease is lost from under a process that lives: it expires while somebody attends
\* to it, or the dispatch of a worker that has not thrown is reported as failed.
Lapse == \/ LeaseExpires /\ Attended(control.lease.job)
         \/ \E p \in Requests :
              DispatchThrows(p) /\ worker[request[p].worker].pc # "threw"

\* A step that changes nothing is no lapse.
LEMMA StutterKeepsTime ==
    ASSUME Inv, UNCHANGED vars
    PROVE  ~ Lapse
<1>1. ASSUME LeaseExpires PROVE FALSE
  <2>1. control.lease.live /\ control' = [control EXCEPT !.lease.live = FALSE]
          /\ control' = control
    BY <1>1 DEF LeaseExpires, vars
  <2>2. /\ control.lease \in Lease \cup {NoLease}
        /\ control \in [high : 0..MaxGen, lease : Lease \cup {NoLease}]
    BY DEF Inv, TypeOK
  <2>3. control'.lease.live = FALSE
    BY <2>1, <2>2 DEF Lease, NoLease
  <2> QED
    BY <2>1, <2>3
<1>2. ASSUME NEW p \in Requests, DispatchThrows(p) PROVE FALSE
  <2>1. request' = request /\ request \in [Requests -> RequestStates]
    BY DEF vars, Inv, TypeOK
  <2>2. request[p].pc = "waiting" /\ request'[p] = [pc |-> "fail", id |-> request[p].id]
    BY <1>2, <2>1 DEF DispatchThrows
  <2> QED
    BY <2>1, <2>2
<1> QED
  BY <1>1, <1>2 DEF Lapse

\* The requests and workers that have still to act on a lease: a request between its
\* compare-and-set and its dispatch, or about to hear that its worker threw, a worker
\* that looks for an unclaimed lease, and one that has claimed it.
AttendPcs == {"abandoned?", "abandon", "bind", "dispatch", "unhold", "redispatch",
              "fail", "clear"}
OwnPcs    == {"claimed", "finish", "finishing", "clear"} \cup Beats \cup ExecutorPcs

Thrown(p)  == request[p].pc = "waiting" /\ worker[request[p].worker].pc = "threw"
Attends(p) == request[p].pc \in AttendPcs \/ Thrown(p)
Seeks(w)   == worker[w].pc \in {"read", "claim"}
Owns(w)    == worker[w].pc \in OwnPcs

Leased(j, h) == Holds(j) /\ control.lease.live /\ control.lease.holder = h

\* The lease of a request is unclaimed, or its claim was left by a worker that threw
\* after the dispatch.
PastDispatch == {"waiting", "fail", "clear"}
Left(h)      == h \in Workers /\ worker[h].pc = "threw"
HasLease(p)  == \/ Leased(request[p].id, NoHolder)
                \/ /\ request[p].pc \in PastDispatch
                   /\ Left(control.lease.holder)
                   /\ Leased(request[p].id, control.lease.holder)

\* Each of them has the lease, which is live, and nobody has claimed it but its owner.
ClaimsHold ==
    /\ \A p \in Requests : Attends(p) => HasLease(p)
    /\ \A w \in Workers : Seeks(w) => Leased(worker[w].id, NoHolder)
    /\ \A w \in Workers : Owns(w) => Leased(worker[w].id, w)

\* There is only one of them.  (An owner excludes the others by its holder.)
OneClaim ==
    /\ \A p, q \in Requests : Attends(p) /\ Attends(q) => p = q
    /\ \A v, w \in Workers : Seeks(v) /\ Seeks(w) => v = w
    /\ \A p \in Requests, w \in Workers : ~ (Attends(p) /\ Seeks(w))

LeaseInv == ClaimsHold /\ OneClaim

\* A request waits for a worker of its own, which works on its job.
WaitsFit ==
    /\ \A p \in Requests : request[p].pc = "waiting" =>
         /\ worker[request[p].worker].pc # "none"
         /\ Seeks(request[p].worker) \/ Owns(request[p].worker) =>
               worker[request[p].worker].id = request[p].id
    /\ \A p, q \in Requests :
         /\ request[p].pc = "waiting" /\ request[q].pc = "waiting"
         /\ request[p].worker = request[q].worker
         => p = q

\* A job is not finished while a request or a worker is going to finish it.
Creates(p) == \/ request[p].pc \in {"abandoned?", "abandon", "bind", "dispatch", "fail"}
              \/ Thrown(p)
Works(w)   == worker[w].pc \in {"claim"} \cup (OwnPcs \ {"clear"})

JobsUnderWay ==
    /\ \A p \in Requests : New(p) \/ Creates(p) => ~ Terminal(job[request[p].id])
    /\ \A p \in Requests : request[p].pc \in {"abandoned?", "abandon"}
                             => request[p].old # request[p].id
    /\ \A p \in Requests : request[p].pc = "abandon" => ~ Terminal(job[request[p].old])
    /\ \A w \in Workers : Works(w) => ~ Terminal(job[worker[w].id])

\* An executing worker knows what the job says of its release and its way back.
KnowsJob(w) ==
    /\ worker[w].pc \in ExecutorPcs \cup Beats =>
          worker[w].copy.gen = job[worker[w].id].gen
    /\ PastCapture(worker[w]) =>
          worker[w].copy.previous = job[worker[w].id].previous

\* The worker is at a call of the executor, or sends a heartbeat on its way there.
Toward(w, pc) == \/ worker[w].pc = pc
                 \/ worker[w].pc \in Beats /\ worker[w].next = pc

\* What a worker takes for granted of the stack: that it has settled where it is
\* probed, that a recovery under way leads to the previous image, and that the result it
\* is about to write is true.
ProbesSettled(w) == Toward(w, "probe") => Settled

Recovers(w) ==
    Toward(w, "watch") \/ Toward(w, "reprobe") =>
        /\ worker[w].pinned => Settled /\ stack.image = worker[w].copy.previous
        /\ stack.status \in {"progress", "complete"} =>
              stack.image = worker[w].copy.previous

SeesSettled(w) == Toward(w, "reprobe") => Settled /\ worker[w].stack = stack

PinsOnce(w) ==
    worker[w].pc \in ExecutorPcs \cup Beats /\ worker[w].pinned =>
        Toward(w, "watch") \/ Toward(w, "reprobe")

ResultTrue(w) ==
    worker[w].pc \in {"finish", "finishing"} =>
        /\ worker[w].recovery = "keep" => worker[w].status = "succeeded"
        /\ worker[w].status = "succeeded" =>
              Settled /\ stack.image = job[worker[w].id].gen
        /\ worker[w].status = "failed" /\ worker[w].recovery = "recovered"
           /\ Faults \cap {"expired", "aws"} = {} =>
              Settled /\ stack.image = job[worker[w].id].previous

KnowsStack(w) ==
    ProbesSettled(w) /\ Recovers(w) /\ SeesSettled(w) /\ PinsOnce(w) /\ ResultTrue(w)

ResultInv == \A w \in Workers : KnowsJob(w) /\ KnowsStack(w)

PromptInv == LeaseInv /\ WaitsFit /\ JobsUnderWay /\ ResultInv

-----------------------------------------------------------------------------
(* Who has a claim excludes the others                                     *)

\* Nobody but one process, or nobody at all, has still to act on a lease.
OnlyRequest(p) == /\ \A q \in Requests \ {p} : ~ Attends(q)
                  /\ \A w \in Workers : ~ Seeks(w) /\ ~ Owns(w)
OnlyWorker(w)  == /\ \A p \in Requests : ~ Attends(p)
                  /\ \A v \in Workers \ {w} : ~ Seeks(v) /\ ~ Owns(v)
Unclaimed == /\ \A p \in Requests : ~ Attends(p)
             /\ \A w \in Workers : ~ Seeks(w) /\ ~ Owns(w)

LEMMA RequestExcludes ==
    ASSUME LeaseInv, NEW p \in Requests, Attends(p)
    PROVE  OnlyRequest(p) /\ HasLease(p)
<1>1. HasLease(p)
  BY DEF LeaseInv, ClaimsHold
<1>2. ASSUME NEW w \in Workers PROVE ~ Owns(w)
  BY <1>1, NoHolderAssumption
  DEF LeaseInv, ClaimsHold, HasLease, Leased, Left, Owns, OwnPcs, Beats, ExecutorPcs
<1> QED
  BY <1>1, <1>2 DEF LeaseInv, OneClaim, OnlyRequest

LEMMA WorkerExcludes ==
    ASSUME LeaseInv, NEW w \in Workers, Seeks(w) \/ Owns(w)
    PROVE  /\ OnlyWorker(w)
           /\ Seeks(w) => Leased(worker[w].id, NoHolder)
           /\ Owns(w) => Leased(worker[w].id, w)
<1>1. /\ Seeks(w) => Leased(worker[w].id, NoHolder)
      /\ Owns(w) => Leased(worker[w].id, w)
  BY DEF LeaseInv, ClaimsHold
<1>2. \A p \in Requests : ~ Attends(p)
  BY RequestExcludes DEF OnlyRequest
<1>3. ASSUME NEW v \in Workers \ {w} PROVE ~ Seeks(v) /\ ~ Owns(v)
  BY <1>1, NoHolderAssumption DEF LeaseInv, ClaimsHold, OneClaim, Leased
<1> QED
  BY <1>1, <1>2, <1>3 DEF OnlyWorker

LEMMA ExpiredIsUnclaimed ==
    ASSUME LeaseInv, ~ control.lease.live
    PROVE  Unclaimed
BY DEF LeaseInv, ClaimsHold, Unclaimed, HasLease, Leased

\* A live lease stays as it is.
LeaseKept == control.lease # NoLease /\ control.lease.live =>
                /\ control'.lease # NoLease /\ control'.lease.live
                /\ control'.lease.job = control.lease.job
                /\ control'.lease.holder = control.lease.holder

\* What has thrown has ended.
ThrownStay == \A w \in Workers : worker[w].pc = "threw" => worker'[w].pc = "threw"

\* No claim is made, and those there are stay true.
LEMMA ClaimsKept ==
    ASSUME LeaseInv, ThrownStay,
           \A p \in Requests : Attends(p)' =>
             /\ Attends(p) /\ request'[p].id = request[p].id
             /\ request[p].pc \in PastDispatch => request'[p].pc \in PastDispatch,
           \A w \in Workers : Seeks(w)' =>
             Seeks(w) /\ worker'[w].id = worker[w].id,
           \A w \in Workers : Owns(w)' =>
             Owns(w) /\ worker'[w].id = worker[w].id,
           LeaseKept
    PROVE  LeaseInv'
<1>1. ASSUME NEW p \in Requests, Attends(p)' PROVE HasLease(p)'
  <2>1. HasLease(p) /\ request'[p].id = request[p].id
    BY <1>1 DEF LeaseInv, ClaimsHold
  <2> QED
    BY <1>1, <2>1 DEF HasLease, LeaseKept, Leased, Holds, Left, ThrownStay
<1>2. ClaimsHold'
  BY <1>1 DEF LeaseInv, ClaimsHold, LeaseKept, Leased, Holds
<1>3. OneClaim'
  BY DEF LeaseInv, OneClaim
<1> QED
  BY <1>2, <1>3 DEF LeaseInv

\* Somebody takes over a lease that nobody had a claim to.
LEMMA RequestClaims ==
    ASSUME NEW p \in Requests, OnlyRequest(p)', HasLease(p)'
    PROVE  LeaseInv'
BY DEF LeaseInv, ClaimsHold, OneClaim, OnlyRequest

LEMMA WorkerClaims ==
    ASSUME NEW w \in Workers, OnlyWorker(w)',
           Seeks(w)' => Leased(worker[w].id, NoHolder)',
           Owns(w)' => Leased(worker[w].id, w)'
    PROVE  LeaseInv'
BY DEF LeaseInv, ClaimsHold, OneClaim, OnlyWorker

-----------------------------------------------------------------------------
(* The claims are kept by requests                                         *)

\* A step of a request that makes no claim and leaves the lease and the workers
\* alone.
LEMMA RequestLeaves ==
    ASSUME Inv, LeaseInv, NEW p \in Requests, NEW y,
           request' = [request EXCEPT ![p] = y],
           y.pc # "waiting",
           y.pc \in AttendPcs => /\ Attends(p) /\ y.id = request[p].id
                                 /\ request[p].pc \in PastDispatch =>
                                      y.pc \in PastDispatch,
           UNCHANGED <<control, worker>>
    PROVE  LeaseInv'
<1>1. request'[p] = y /\ \A q \in Requests \ {p} : request'[q] = request[q]
  BY DEF Inv, TypeOK
<1>2. \A q \in Requests : Attends(q)' =>
        /\ Attends(q) /\ request'[q].id = request[q].id
        /\ request[q].pc \in PastDispatch => request'[q].pc \in PastDispatch
  BY <1>1 DEF Attends, Thrown
<1> QED
  BY <1>2, ClaimsKept DEF Seeks, Owns, LeaseKept, ThrownStay

LEMMA LookupLease ==
    ASSUME Inv, LeaseInv, NEW p \in Requests,
           \/ \E g \in Gens, k \in Keys : Create(p, g, k)
           \/ \E j \in Jobs : Resume(p, j)
           \/ \E j \in Jobs : StoreJob(p, j)
           \/ DeleteJob(p) \/ FindBinding(p) \/ DispatchReturns(p)
           \/ RequestCrashes(p)
    PROVE  LeaseInv'
<1> DEFINE Claiming == {"waiting"} \cup AttendPcs
<1>1. PICK y : /\ request' = [request EXCEPT ![p] = y] /\ y.pc \notin Claiming
               /\ UNCHANGED <<control, worker>>
  <2>0. {"idle", "bound?", "store", "lease", "expired?"} \cap Claiming = {}
    BY DEF AttendPcs
  <2> HIDE DEF Claiming
  <2>1. Idle.pc \notin Claiming
    BY <2>0 DEF Idle
  <2>2. CASE FindBinding(p)
    <3>1. request[p] \in [pc : {"bound?", "store"}, gen : Gens, key : Keys]
      BY <2>2, RequestFields DEF FindBinding, Inv
    <3>2. [request[p] EXCEPT !.pc = "store"].pc = "store"
      BY <3>1
    <3> QED
      BY <2>0, <2>1, <2>2, <3>2 DEF FindBinding
  <2>3. ASSUME NEW g \in Gens, NEW k \in Keys, Create(p, g, k)
        PROVE  \E y : /\ request' = [request EXCEPT ![p] = y] /\ y.pc \notin Claiming
                      /\ UNCHANGED <<control, worker>>
    <3> DEFINE y == [pc |-> "bound?", gen |-> g, key |-> k]
    <3>1. y.pc = "bound?"
      OBVIOUS
    <3>2. request' = [request EXCEPT ![p] = y] /\ UNCHANGED <<control, worker>>
      BY <2>3 DEF Create
    <3> HIDE DEF y
    <3> QED
      BY <2>0, <3>1, <3>2
  <2>4. ASSUME NEW j \in Jobs, Resume(p, j) \/ StoreJob(p, j)
        PROVE  \E y : /\ request' = [request EXCEPT ![p] = y] /\ y.pc \notin Claiming
                      /\ UNCHANGED <<control, worker>>
    <3> DEFINE x == [pc |-> "expired?", id |-> j]
               y == [pc |-> "lease", id |-> j, gen |-> request[p].gen,
                     key |-> request[p].key]
    <3>1. x.pc = "expired?" /\ y.pc = "lease"
      OBVIOUS
    <3>2. /\ request' = [request EXCEPT ![p] = x] \/ request' = [request EXCEPT ![p] = y]
          /\ UNCHANGED <<control, worker>>
      BY <2>4 DEF Resume, StoreJob
    <3> HIDE DEF x, y
    <3> QED
      BY <2>0, <3>1, <3>2
  <2>5. CASE DeleteJob(p) \/ DispatchReturns(p) \/ RequestCrashes(p)
    BY <2>1, <2>5 DEF DeleteJob, DispatchReturns, RequestCrashes
  <2> QED
    BY <2>2, <2>3, <2>4, <2>5
<1> QED
  BY <1>1, RequestLeaves

\* A request goes on with the claim it has.
LEMMA AttendingLease ==
    ASSUME Inv, LeaseInv, NEW p \in Requests,
           \/ ReadAbandoned(p) \/ FailAbandoned(p) \/ Bind(p)
           \/ FailDispatched(p) \/ UnholdJob(p)
    PROVE  LeaseInv'
<1>1. Attends(p) /\ UNCHANGED <<control, worker>>
  BY DEF ReadAbandoned, FailAbandoned, Bind, FailDispatched, UnholdJob,
         Attends, AttendPcs
<1>2. ASSUME NEW y, request' = [request EXCEPT ![p] = y], y.id = request[p].id,
             \/ request[p].pc \notin PastDispatch /\ y.pc # "waiting"
             \/ y.pc = "clear"
      PROVE  LeaseInv'
  BY <1>1, <1>2, RequestLeaves DEF PastDispatch
<1>3. CASE ReadAbandoned(p) \/ FailAbandoned(p)
  <2>1. request[p] \in [pc : {"abandoned?", "abandon", "bind"}, id : Jobs,
                        key : Keys, old : Jobs]
    BY <1>3, RequestFields DEF ReadAbandoned, FailAbandoned, Inv
  <2>2. PICK pc \in {"abandon", "bind"} : request' = [request EXCEPT ![p].pc = pc]
    BY <1>3 DEF ReadAbandoned, FailAbandoned
  <2> DEFINE y == [request[p] EXCEPT !.pc = pc]
  <2>3. request' = [request EXCEPT ![p] = y] /\ y.id = request[p].id /\ y.pc = pc
    BY <2>1, <2>2 DEF Inv, TypeOK
  <2>4. request[p].pc \notin PastDispatch
    BY <2>1 DEF PastDispatch
  <2> HIDE DEF y
  <2> QED
    BY <1>2, <2>3, <2>4
<1>4. CASE Bind(p)
  <2> DEFINE y == [pc |-> "dispatch", id |-> request[p].id]
  <2>1. request' = [request EXCEPT ![p] = y] /\ y.id = request[p].id
          /\ y.pc = "dispatch" /\ request[p].pc \notin PastDispatch
    BY <1>4 DEF Bind, PastDispatch
  <2> HIDE DEF y
  <2> QED
    BY <1>2, <2>1
<1>5. CASE FailDispatched(p) \/ UnholdJob(p)
  <2>1. PICK pc \in {"clear", "redispatch"} :
          /\ request' = [request EXCEPT ![p] = [pc |-> pc, id |-> request[p].id]]
          /\ pc = "redispatch" => request[p].pc \notin PastDispatch
    BY <1>5, RequestAtHand DEF FailDispatched, UnholdJob, Inv, PastDispatch
  <2> QED
    BY <1>2, <2>1
<1> QED
  BY <1>3, <1>4, <1>5

\* A request claims a lease that has expired, or was free.
LEMMA RequestTakes ==
    ASSUME Inv, LeaseInv, NEW p \in Requests, ~ control.lease.live,
           request'[p].pc \in AttendPcs, UNCHANGED worker,
           \A q \in Requests \ {p} : request'[q] = request[q],
           Leased(request[p].id, NoHolder)'
    PROVE  LeaseInv'
<1>1. OnlyRequest(p)'
  BY ExpiredIsUnclaimed DEF Unclaimed, OnlyRequest, Attends, Thrown, Seeks, Owns
<1> QED
  BY <1>1, RequestClaims DEF HasLease

LEMMA TakeLeaseLease ==
    ASSUME Inv, LeaseInv, NEW p \in Requests, TakeLease(p)
    PROVE  LeaseInv'
<1> DEFINE x == request[p]
<1>1. x \in [pc : {"lease", "delete"}, id : Jobs, gen : Gens, key : Keys]
        /\ request \in [Requests -> RequestStates]
  BY RequestFields DEF TakeLease, New, Inv, TypeOK
<1>2. CASE BelowFloor(x.gen) \/ ~ Available
  <2>1. request' = [request EXCEPT ![p] = [x EXCEPT !.pc = "delete"]]
    BY <1>1, <1>2 DEF TakeLease
  <2>2. [x EXCEPT !.pc = "delete"].pc = "delete"
    BY <1>1
  <2> QED
    BY <1>2, <2>1, <2>2, RequestLeaves DEF TakeLease, AttendPcs
<1>3. CASE ~ (BelowFloor(x.gen) \/ ~ Available)
  <2>1. PICK i : \E pc \in {"bind", "abandoned?"} :
           request' = [request EXCEPT ![p] = [pc |-> pc, id |-> x.id,
                                              key |-> x.key, old |-> i]]
    BY <1>3 DEF TakeLease
  <2>2. /\ request'[p].pc \in AttendPcs /\ request'[p].id = x.id
        /\ \A q \in Requests \ {p} : request'[q] = request[q]
    BY <1>1, <2>1 DEF AttendPcs
  <2>3. /\ control'.lease = [job |-> x.id, live |-> TRUE, holder |-> NoHolder]
        /\ ~ control.lease.live /\ UNCHANGED worker
    BY <1>3 DEF TakeLease, Available
  <2>4. control'.lease # NoLease
    <3>1. [job |-> x.id, live |-> TRUE, holder |-> NoHolder].live = TRUE
      OBVIOUS
    <3> QED
      BY <2>3, <3>1 DEF NoLease
  <2>5. Leased(request[p].id, NoHolder)'
    BY <2>2, <2>3, <2>4 DEF Leased, Holds
  <2> QED
    BY <2>2, <2>3, <2>5, RequestTakes
<1> QED
  BY <1>2, <1>3

LEMMA RenewLeaseLease ==
    ASSUME Inv, LeaseInv, NEW p \in Requests, RenewLease(p)
    PROVE  LeaseInv'
<1> DEFINE j == request[p].id
<1>1. CASE request' = [request EXCEPT ![p] = Idle] /\ UNCHANGED control
  <2>1. Idle.pc # "waiting" /\ Idle.pc \notin AttendPcs /\ UNCHANGED worker
    BY DEF RenewLease, Idle, AttendPcs
  <2> QED
    BY <1>1, <2>1, RequestLeaves
<1>2. CASE /\ Holds(j) /\ ~ control.lease.live /\ control' = Renewed
           /\ request' = [request EXCEPT ![p].pc = "unhold"]
  <2>1. /\ request'[p].pc \in AttendPcs /\ request'[p].id = j
        /\ \A q \in Requests \ {p} : request'[q] = request[q]
    BY <1>2, RequestAtHand DEF RenewLease, Inv, TypeOK, AttendPcs
  <2>2. control \in [high : 0..MaxGen, lease : Lease]
    BY <1>2 DEF Inv, TypeOK, Holds
  <2>3. /\ control'.lease.job = j /\ control'.lease.live
        /\ control'.lease.holder = NoHolder
    BY <1>2, <2>2 DEF Renewed, Lease, Holds
  <2>4. control'.lease # NoLease
    BY <2>3 DEF NoLease
  <2> QED
    BY <1>2, <2>1, <2>3, <2>4, RequestTakes DEF RenewLease, Leased, Holds
<1> QED
  BY <1>1, <1>2 DEF RenewLease

\* The claim is handed to the new worker, or the request keeps it.
LEMMA DispatchLease ==
    ASSUME Inv, LeaseInv, NEW p \in Requests, Dispatch(p)
    PROVE  LeaseInv'
<1> DEFINE j == request[p].id
<1>1. Attends(p) /\ UNCHANGED control /\ request[p].pc \notin PastDispatch
  BY DEF Dispatch, Attends, AttendPcs, PastDispatch
<1>2. ASSUME NEW w \in Workers, Deliver(p, w)
      PROVE  LeaseInv'
  <2>1. /\ worker'[w] = [pc |-> "read", id |-> j]
        /\ \A v \in Workers \ {w} : worker'[v] = worker[v]
    BY <1>2 DEF Deliver, Inv, TypeOK
  <2>2. /\ request'[p].pc \in {"waiting", "resumed"} /\ request'[p].worker = w
        /\ \A q \in Requests \ {p} : request'[q] = request[q]
    BY <1>2 DEF Deliver, Inv, TypeOK
  <2>3. OnlyRequest(p) /\ Leased(j, NoHolder)
    BY <1>1, RequestExcludes DEF HasLease
  <2>4. \A q \in Requests : request[q].pc = "waiting" => request[q].worker \in Workers
    BY RequestFields DEF Inv
  <2>5. \A q \in Requests : ~ Attends(q)'
    BY <2>1, <2>2, <2>3, <2>4 DEF OnlyRequest, Attends, Thrown, AttendPcs
  <2>6. \A v \in Workers \ {w} : ~ Seeks(v)' /\ ~ Owns(v)'
    BY <2>1, <2>3 DEF OnlyRequest, Seeks, Owns
  <2>7. OnlyWorker(w)'
    BY <2>5, <2>6 DEF OnlyWorker
  <2>8. ~ Owns(w)'
    BY <2>1 DEF Owns, OwnPcs, Beats, ExecutorPcs
  <2>9. Leased(worker[w].id, NoHolder)'
    BY <1>1, <2>1, <2>3 DEF Leased, Holds
  <2> QED
    BY <2>7, <2>8, <2>9, WorkerClaims
<1>3. CASE request' = [request EXCEPT ![p] = Idle] /\ UNCHANGED worker
  <2>1. Idle.pc # "waiting" /\ Idle.pc \notin AttendPcs
    BY DEF Idle, AttendPcs
  <2> QED
    BY <1>1, <1>3, <2>1, RequestLeaves
<1>4. CASE request' = [request EXCEPT ![p] = [pc |-> "fail", id |-> j]]
             /\ UNCHANGED worker
  <2> DEFINE y == [pc |-> "fail", id |-> j]
  <2>1. y.pc = "fail" /\ y.id = request[p].id
    OBVIOUS
  <2>2. request' = [request EXCEPT ![p] = y]
    BY <1>4
  <2> HIDE DEF y
  <2> QED
    BY <1>1, <1>4, <2>1, <2>2, RequestLeaves
<1> QED
  BY <1>2, <1>3, <1>4 DEF Dispatch

\* The request that has failed the job clears its lease.
LEMMA ClearDispatchedLease ==
    ASSUME Inv, LeaseInv, NEW p \in Requests, ClearDispatched(p)
    PROVE  LeaseInv'
<1>1. Attends(p)
  BY DEF ClearDispatched, Attends, AttendPcs
<1>2. /\ request'[p] = Idle /\ UNCHANGED worker
      /\ \A q \in Requests \ {p} : request'[q] = request[q]
  BY DEF ClearDispatched, Inv, TypeOK
<1>3. Unclaimed'
  BY <1>1, <1>2, RequestExcludes
  DEF Unclaimed, OnlyRequest, Attends, Thrown, Seeks, Owns, Idle, AttendPcs
<1> QED
  BY <1>2, <1>3 DEF Unclaimed, LeaseInv, ClaimsHold, OneClaim

\* The dispatch fails whose worker has thrown.
LEMMA DispatchThrowsLease ==
    ASSUME Inv, ~ Lapse, LeaseInv, NEW p \in Requests, DispatchThrows(p)
    PROVE  /\ LeaseInv' /\ Thrown(p) /\ UNCHANGED <<control, job, worker>>
           /\ request' = [request EXCEPT ![p] = [pc |-> "fail", id |-> request[p].id]]
<1>1. /\ Thrown(p) /\ UNCHANGED <<control, job, worker>>
      /\ request' = [request EXCEPT ![p] = [pc |-> "fail", id |-> request[p].id]]
  BY DEF DispatchThrows, Thrown, Lapse
<1> DEFINE y == [pc |-> "fail", id |-> request[p].id]
<1>2. y.pc = "fail" /\ y.id = request[p].id /\ "fail" \in PastDispatch
  BY DEF PastDispatch
<1>3. request' = [request EXCEPT ![p] = y]
  BY <1>1
<1>4. LeaseInv'
  <2> HIDE DEF y
  <2> QED
    BY <1>1, <1>2, <1>3, RequestLeaves DEF Attends
<1> QED
  BY <1>1, <1>4

LEMMA RequestStepLease ==
    ASSUME Inv, ~ Lapse, LeaseInv, NEW p \in Requests, RequestStep(p)
    PROVE  LeaseInv'
BY LookupLease, AttendingLease, TakeLeaseLease, RenewLeaseLease, DispatchLease,
   ClearDispatchedLease, DispatchThrowsLease DEF RequestStep

-----------------------------------------------------------------------------
(* The claims are kept by workers and the environment                      *)

\* A worker that owns the lease goes on with its job, or stops.
GoesOn(w) ==
    /\ \A v \in Workers \ {w} : worker'[v] = worker[v]
    /\ \/ worker'[w].pc \in {"done", "threw", "dead"}
       \/ worker'[w].pc \in OwnPcs /\ worker'[w].id = worker[w].id

\* If it throws, the request that waits for it takes the claim over.
LEMMA OwnerThrows ==
    ASSUME Inv, LeaseInv, WaitsFit, NEW w \in Workers, Owns(w), GoesOn(w), LeaseKept,
           UNCHANGED request, worker'[w].pc = "threw"
    PROVE  LeaseInv'
<1>1. OnlyWorker(w) /\ Leased(worker[w].id, w)
  BY WorkerExcludes
<1>2. \A v \in Workers : ~ Seeks(v)' /\ ~ Owns(v)'
  BY <1>1 DEF OnlyWorker, GoesOn, Seeks, Owns, OwnPcs, Beats, ExecutorPcs
<1>3. ASSUME NEW p \in Requests, Attends(p)'
      PROVE  request[p].pc = "waiting" /\ request[p].worker = w
  <2>1. request[p].pc = "waiting" => request[p].worker \in Workers
    BY RequestFields DEF Inv
  <2> QED
    BY <1>1, <1>3, <2>1 DEF OnlyWorker, Attends, Thrown, GoesOn
<1>4. ASSUME NEW p \in Requests, Attends(p)' PROVE HasLease(p)'
  <2>1. request[p].id = worker[w].id /\ request[p].pc \in PastDispatch
    BY <1>3, <1>4 DEF WaitsFit, PastDispatch
  <2>2. Leased(request[p].id, w)' /\ control'.lease.holder = w
    BY <1>1, <2>1 DEF Leased, Holds, LeaseKept
  <2> QED
    BY <2>1, <2>2 DEF HasLease, Left
<1>5. \A p, q \in Requests : Attends(p)' /\ Attends(q)' => p = q
  BY <1>3 DEF WaitsFit
<1> QED
  BY <1>2, <1>4, <1>5 DEF LeaseInv, ClaimsHold, OneClaim

LEMMA OwnerGoesOn ==
    ASSUME Inv, LeaseInv, WaitsFit, NEW w \in Workers, Owns(w), GoesOn(w), LeaseKept,
           UNCHANGED request
    PROVE  LeaseInv'
<1>1. CASE worker'[w].pc # "threw"
  <2>1. /\ \A v \in Workers : Owns(v)' => Owns(v) /\ worker'[v].id = worker[v].id
        /\ \A v \in Workers : Seeks(v)' => Seeks(v) /\ worker'[v].id = worker[v].id
    BY DEF Owns, Seeks, GoesOn, OwnPcs, Beats, ExecutorPcs
  <2>2. ThrownStay
    BY DEF ThrownStay, Owns, GoesOn, OwnPcs, Beats, ExecutorPcs
  <2>3. \A p \in Requests : request[p].pc = "waiting" => request[p].worker \in Workers
    BY RequestFields DEF Inv
  <2>4. \A p \in Requests : Attends(p)' => Attends(p)
    BY <1>1, <2>3 DEF Attends, Thrown, GoesOn
  <2> QED
    BY <2>1, <2>2, <2>4, ClaimsKept
<1> QED
  BY <1>1, OwnerThrows

\* A worker that looks for a lease finds its job, and may claim it.
LEMMA SeekingLease ==
    ASSUME Inv, LeaseInv, NEW w \in Workers, WorkerReads(w) \/ ClaimLease(w)
    PROVE  LeaseInv'
<1> DEFINE j == worker[w].id
<1>1. Seeks(w) /\ UNCHANGED request
  BY DEF WorkerReads, ClaimLease, Seeks
<1>2. OnlyWorker(w) /\ Leased(j, NoHolder)
  BY <1>1, WorkerExcludes
<1>3. j \in Jobs /\ Exists(j) /\ worker[w] = [pc |-> worker[w].pc, id |-> j]
        /\ worker \in [Workers -> WorkerStates]
  BY <1>1, JobAtHand, CallingFields DEF Seeks, Stopped, Published, Inv, TypeOK
<1>4. \A p \in Requests : request[p].pc = "waiting" => request[p].worker \in Workers
  BY RequestFields DEF Inv
<1>5. CASE WorkerReads(w)
  <2>1. /\ worker'[w].pc = "done" \/ worker'[w] = [pc |-> "claim", id |-> j]
        /\ \A v \in Workers \ {w} : worker'[v] = worker[v]
        /\ UNCHANGED control
    BY <1>3, <1>5 DEF WorkerReads, Stop
  <2>2. OnlyWorker(w)'
    BY <1>1, <1>2, <1>4, <2>1 DEF OnlyWorker, Attends, Thrown, Seeks, Owns
  <2>3. /\ Seeks(w)' => Leased(worker[w].id, NoHolder)'
        /\ ~ Owns(w)'
    BY <1>2, <2>1 DEF Seeks, Owns, OwnPcs, Beats, ExecutorPcs, Leased, Holds
  <2> QED
    BY <2>2, <2>3, WorkerClaims
<1>6. CASE ClaimLease(w)
  <2>1. Claimable(j)
    BY <1>2 DEF Leased, Claimable
  <2>2. /\ worker'[w] = [pc |-> "claimed", id |-> j]
        /\ \A v \in Workers \ {w} : worker'[v] = worker[v]
        /\ control' = [control EXCEPT !.lease.holder = w]
    BY <1>3, <1>6, <2>1 DEF ClaimLease
  <2>3. control \in [high : 0..MaxGen, lease : Lease]
    BY <1>2 DEF Inv, TypeOK, Leased, Holds
  <2>4. /\ control'.lease.job = j /\ control'.lease.live
        /\ control'.lease.holder = w /\ control'.lease \in Lease
    BY <1>2, <2>2, <2>3 DEF Lease, Leased, Holds
  <2>5. control'.lease # NoLease
    BY <2>4 DEF NoLease, Lease
  <2>6. OnlyWorker(w)'
    BY <1>1, <1>2, <1>4, <2>2 DEF OnlyWorker, Attends, Thrown, Seeks, Owns
  <2>7. ~ Seeks(w)' /\ Leased(worker[w].id, w)'
    BY <2>2, <2>4, <2>5 DEF Seeks, Leased, Holds
  <2> QED
    BY <2>6, <2>7, WorkerClaims
<1> QED
  BY <1>5, <1>6

\* The calls of a worker that has claimed its lease.
LEMMA ServiceGoesOn ==
    ASSUME Inv, NEW w \in Workers,
           ClaimJob(w) \/ BeatLease(w) \/ BeatJob(w) \/ AssertHolder(w) \/ FinishJob(w)
    PROVE  Owns(w) /\ GoesOn(w) /\ worker'[w].pc # "threw"
<1>1. worker[w] \in WorkerStates /\ worker \in [Workers -> WorkerStates]
  BY DEF Inv, TypeOK
<1>2. CASE ClaimJob(w)
  BY <1>1, <1>2 DEF ClaimJob, Owns, OwnPcs, GoesOn, ExecutorPcs
<1>3. CASE BeatLease(w) \/ BeatJob(w)
  <2>1. worker[w] \in Executing /\ worker[w].pc \in Beats
          /\ worker[w].next \in ExecutorPcs
    BY <1>1, <1>3, ExecutingFields DEF BeatLease, BeatJob, Beats, Inv, ImageKnown
  <2>2. \/ worker'[w].pc = "done"
        \/ worker'[w].pc \in {"beaten", worker[w].next} /\ worker'[w].id = worker[w].id
    BY <1>1, <1>3, <2>1 DEF BeatLease, BeatJob, Stop, Executing
  <2>3. \A v \in Workers \ {w} : worker'[v] = worker[v]
    BY <1>1, <1>3 DEF BeatLease, BeatJob, Stop
  <2> QED
    BY <2>1, <2>2, <2>3 DEF Owns, OwnPcs, GoesOn, Beats, ExecutorPcs
<1>4. CASE AssertHolder(w) \/ FinishJob(w)
  <2>1. worker[w] \in [pc : {"finish", "finishing"}, id : Jobs,
                       status : {"succeeded", "failed"},
                       recovery : {"keep", "recovered", "exhausted"}]
    BY <1>1, <1>4, CallingFields DEF AssertHolder, FinishJob
  <2>2. \/ worker'[w].pc = "done"
        \/ worker'[w].pc \in {"finishing", "clear"} /\ worker'[w].id = worker[w].id
    BY <1>1, <1>4, <2>1 DEF AssertHolder, FinishJob, Stop
  <2>3. \A v \in Workers \ {w} : worker'[v] = worker[v]
    BY <1>1, <1>4 DEF AssertHolder, FinishJob, Stop
  <2> QED
    BY <1>4, <2>2, <2>3 DEF AssertHolder, FinishJob, Owns, OwnPcs, GoesOn
<1> QED
  BY <1>2, <1>3, <1>4

\* A heartbeat leaves a live lease as it is.
LEMMA BeatKeepsLease ==
    ASSUME Inv, control.lease # NoLease,
           control' = [control EXCEPT !.lease.live = TRUE]
    PROVE  LeaseKept
<1>1. control \in [high : 0..MaxGen, lease : Lease]
  BY DEF Inv, TypeOK
<1>2. /\ control'.lease.job = control.lease.job /\ control'.lease.live
      /\ control'.lease.holder = control.lease.holder
  BY <1>1 DEF Lease
<1>3. control'.lease \in Lease
  BY <1>1 DEF Lease
<1>4. control'.lease # NoLease
  BY <1>3 DEF Lease, NoLease
<1> QED
  BY <1>2, <1>4 DEF LeaseKept

LEMMA ClearLeaseLease ==
    ASSUME Inv, LeaseInv, NEW w \in Workers, ClearLease(w)
    PROVE  LeaseInv'
<1>1. OnlyWorker(w)
  BY WorkerExcludes DEF ClearLease, Owns, OwnPcs
<1>2. /\ worker'[w].pc = "done" /\ UNCHANGED request
      /\ \A v \in Workers \ {w} : worker'[v] = worker[v]
  BY DEF ClearLease, Stop, Inv, TypeOK
<1>3. \A p \in Requests : request[p].pc = "waiting" => request[p].worker \in Workers
  BY RequestFields DEF Inv
<1>4. Unclaimed'
  BY <1>1, <1>2, <1>3
  DEF Unclaimed, OnlyWorker, Attends, Thrown, Seeks, Owns, OwnPcs, Beats, ExecutorPcs
<1> QED
  BY <1>4 DEF Unclaimed, LeaseInv, ClaimsHold, OneClaim

LEMMA ServiceLease ==
    ASSUME Inv, LeaseInv, WaitsFit, NEW w \in Workers, ServiceStep(w)
    PROVE  LeaseInv'
<1>1. CASE ClaimJob(w) \/ BeatLease(w) \/ BeatJob(w) \/ AssertHolder(w) \/ FinishJob(w)
  <2>1. Owns(w) /\ GoesOn(w) /\ UNCHANGED request
    BY <1>1, ServiceGoesOn
    DEF ClaimJob, BeatLease, BeatJob, AssertHolder, FinishJob
  <2>2. LeaseKept
    <3>1. \/ UNCHANGED control
          \/ control.lease # NoLease /\ control' = [control EXCEPT !.lease.live = TRUE]
      BY <1>1 DEF ClaimJob, BeatLease, BeatJob, AssertHolder, FinishJob, HeldBy, Holds
    <3> QED
      BY <3>1, BeatKeepsLease DEF LeaseKept
  <2> QED
    BY <2>1, <2>2, OwnerGoesOn
<1> QED
  BY <1>1, SeekingLease, ClearLeaseLease DEF ServiceStep

LEMMA TimerLease ==
    ASSUME Inv, LeaseInv, NEW w \in Workers, TimerFires(w) \/ TimerBeats(w)
    PROVE  LeaseInv'
<1>1. UNCHANGED <<request, worker>>
  BY DEF TimerFires, TimerBeats
<1>2. LeaseKept
  <2>1. \/ UNCHANGED control
        \/ control.lease # NoLease /\ control' = [control EXCEPT !.lease.live = TRUE]
    BY DEF TimerFires, TimerBeats, Holds
  <2> QED
    BY <2>1, BeatKeepsLease DEF LeaseKept
<1> QED
  BY <1>1, <1>2, ClaimsKept DEF Attends, Thrown, Seeks, Owns, ThrownStay

LEMMA WorkerKilledLease ==
    ASSUME Inv, LeaseInv, NEW w \in Workers, WorkerKilled(w)
    PROVE  LeaseInv'
<1>1. /\ worker'[w].pc = "dead" /\ UNCHANGED <<request, control>>
      /\ \A v \in Workers \ {w} : worker'[v] = worker[v]
  BY DEF WorkerKilled, Stop, Inv, TypeOK
<1>2. ThrownStay
  BY <1>1 DEF WorkerKilled, Running, ThrownStay
<1>3. \A p \in Requests : request[p].pc = "waiting" => request[p].worker \in Workers
  BY RequestFields DEF Inv
<1>4. \A p \in Requests : Attends(p)' => Attends(p)
  BY <1>1, <1>3 DEF Attends, Thrown
<1> QED
  BY <1>1, <1>2, <1>4, ClaimsKept
  DEF Seeks, Owns, LeaseKept, OwnPcs, Beats, ExecutorPcs

\* A lease expires only when nobody attends to it.
LEMMA LeaseExpiresLease ==
    ASSUME Inv, ~ Lapse, LeaseInv, LeaseExpires
    PROVE  LeaseInv'
<1>1. ~ Attended(control.lease.job) /\ UNCHANGED <<request, worker>>
  BY DEF LeaseExpires, Lapse
<1>2. Unclaimed
  BY <1>1
  DEF Attended, Unclaimed, LeaseInv, ClaimsHold, HasLease, Leased, Holds, Attends,
      Thrown, Seeks, Owns, AttendPcs, OwnPcs, Beats, ExecutorPcs, Running
<1> QED
  BY <1>1, <1>2
  DEF Unclaimed, LeaseInv, ClaimsHold, OneClaim, Attends, Thrown, Seeks, Owns

-----------------------------------------------------------------------------
(* Steps of the executor by a worker that owns the lease                   *)

\* What a step of the executor does to its worker.
Acts(w) ==
    /\ \A v \in Workers \ {w} : worker'[v] = worker[v]
    /\ \/ worker'[w].pc \in {"done", "threw"}
       \/ worker'[w].pc = "finish" /\ worker'[w].id = worker[w].id
       \/ /\ worker'[w].pc \in ExecutorPcs \cup {"beat"}
          /\ worker'[w].id = worker[w].id /\ worker'[w].copy = worker[w].copy

LEMMA BeatActs ==
    ASSUME TypeOK, NEW w \in Workers, worker[w].pc \in ExecutorPcs,
           NEW phase, NEW next, Beat(w, phase, next)
    PROVE  /\ Acts(w)
           /\ worker'[w].pc = "beat" /\ worker'[w].next = next
           /\ worker'[w].stack = worker[w].stack
           /\ worker'[w].pinned = worker[w].pinned
<1>1. worker[w] \in Executing /\ worker \in [Workers -> WorkerStates]
  BY AtWork DEF TypeOK
<1> QED
  BY <1>1 DEF Beat, Beating, Acts, Executing

LEMMA GoActs ==
    ASSUME TypeOK, NEW w \in Workers, worker[w].pc \in ExecutorPcs,
           NEW pc \in ExecutorPcs,
           \/ worker' = [worker EXCEPT ![w].pc = pc]
           \/ worker' = [worker EXCEPT ![w].pc = pc, ![w].stack = stack]
           \/ worker' = [worker EXCEPT ![w].pc = pc, ![w].stack = stack,
                                      ![w].catches = FALSE]
           \/ worker' = [worker EXCEPT ![w].pc = pc, ![w].tried = TRUE]
    PROVE  /\ Acts(w)
           /\ worker'[w].pc = pc /\ worker'[w].pinned = worker[w].pinned
<1>1. worker[w] \in Executing /\ worker \in [Workers -> WorkerStates]
  BY AtWork DEF TypeOK
<1> QED
  BY <1>1 DEF Acts, Executing

LEMMA FinishActs ==
    ASSUME TypeOK, NEW w \in Workers, NEW status, NEW recovery,
           Finish(w, status, recovery)
    PROVE  /\ Acts(w)
           /\ worker'[w].pc = "finish" /\ worker'[w].id = worker[w].id
           /\ worker'[w].status = status /\ worker'[w].recovery = recovery
BY DEF Finish, Acts, TypeOK

LEMMA StopActs ==
    ASSUME TypeOK, NEW w \in Workers, NEW pc \in {"done", "threw"}, Stop(w, pc)
    PROVE  Acts(w) /\ worker'[w].pc = pc
BY DEF Stop, Acts, TypeOK

\* Away from the probes and the recovery a worker takes nothing for granted.
LEMMA KnowsNothing ==
    ASSUME NEW w \in Workers,
           worker'[w].pc \in (ExecutorPcs \ {"probe", "watch", "reprobe"}) \cup {"beat"},
           worker'[w].pc = "beat" =>
             worker'[w].next \notin {"probe", "watch", "reprobe"},
           ~ worker'[w].pinned
    PROVE  KnowsStack(w)'
BY DEF KnowsStack, ProbesSettled, Recovers, SeesSettled, PinsOnce, ResultTrue,
       Toward, ExecutorPcs, Beats

LEMMA KnowsDone ==
    ASSUME NEW w \in Workers, worker'[w].pc \notin OwnPcs
    PROVE  KnowsStack(w)'
BY DEF KnowsStack, ProbesSettled, Recovers, SeesSettled, PinsOnce, ResultTrue,
       Toward, OwnPcs, ExecutorPcs, Beats

\* A result that claims nothing of the stack.
LEMMA KnowsResult ==
    ASSUME NEW w \in Workers, worker'[w].pc = "finish",
           worker'[w].recovery = "keep" => worker'[w].status = "succeeded",
           \/ /\ worker'[w].status = "failed"
              /\ \/ worker'[w].recovery = "exhausted"
                 \/ Faults \cap {"expired", "aws"} # {}
           \/ /\ worker'[w].status = "succeeded"
              /\ Settled' /\ stack'.image = job'[worker'[w].id].gen
           \/ /\ worker'[w].status = "failed"
              /\ Settled' /\ stack'.image = job'[worker'[w].id].previous
    PROVE  KnowsStack(w)'
BY DEF KnowsStack, ProbesSettled, Recovers, SeesSettled, PinsOnce, ResultTrue,
       Toward, ExecutorPcs, Beats

\* A call of AWS fails: nothing is taken for granted any more.
LEMMA StopKnows ==
    ASSUME TypeOK, NEW w \in Workers, NEW pc \in {"done", "threw"}, Stop(w, pc)
    PROVE  Acts(w) /\ KnowsStack(w)'
BY StopActs, KnowsDone DEF OwnPcs, ExecutorPcs, Beats

LEMMA ThrowKnows ==
    ASSUME TypeOK, NEW w \in Workers, worker[w].pc \in ExecutorPcs, Throw(w)
    PROVE  Acts(w) /\ KnowsStack(w)'
<1>1. CASE Stop(w, "threw")
  BY <1>1, StopKnows
<1>2. CASE worker' = [worker EXCEPT ![w].pc = "catch", ![w].pinned = FALSE,
                                    ![w].tried = FALSE]
  <2>1. worker[w] \in Executing /\ worker \in [Workers -> WorkerStates]
    BY AtWork DEF TypeOK
  <2>2. Acts(w) /\ worker'[w].pc = "catch" /\ ~ worker'[w].pinned
    BY <1>2, <2>1 DEF Acts, Executing, ExecutorPcs
  <2> QED
    BY <2>2, KnowsNothing DEF ExecutorPcs
<1> QED
  BY <1>1, <1>2 DEF Throw

\* A result "recovered" is reported on the evidence or after a failed call.
LEMMA FinishKnows ==
    ASSUME TypeOK, NEW w \in Workers, Fault("expired") \/ Fault("aws"),
           Finish(w, "failed", "recovered")
    PROVE  Acts(w) /\ KnowsStack(w)'
BY FinishActs, KnowsResult DEF Fault

\* Only a worker that watches its recovery has pinned its image.
LEMMA NotPinned ==
    ASSUME ResultInv, NEW w \in Workers,
           worker[w].pc \in ExecutorPcs \ {"watch", "reprobe"}
    PROVE  ~ worker[w].pinned
BY DEF ResultInv, KnowsStack, PinsOnce, Toward, ExecutorPcs, Beats

\* The steps up to the submission, and those of the recovery before it pins.
LEMMA PlainActs ==
    ASSUME Inv, ResultInv, NEW w \in Workers,
           \/ Verify(w) \/ Mirror(w) \/ Submit(w) \/ CatchError(w)
           \/ Recover(w) \/ AwaitSettled(w) \/ Look(w)
    PROVE  Acts(w) /\ KnowsStack(w)'
<1>1. /\ worker[w].pc \in ExecutorPcs \ {"watch", "reprobe"} /\ TypeOK
      /\ {"describe", "catch", "recover", "repin", "settle"} \subseteq
           ExecutorPcs \ {"probe", "watch", "reprobe"}
  BY DEF Verify, Mirror, Submit, CatchError, Recover, AwaitSettled, Look,
         ExecutorPcs, Inv
<1>2. ~ worker[w].pinned
  BY <1>1, NotPinned
<1>3. ASSUME NEW phase, NEW next \in {"submit", "wait", "settle", "look"},
             Beat(w, phase, next)
      PROVE  Acts(w) /\ KnowsStack(w)'
  BY <1>1, <1>2, <1>3, BeatActs, KnowsNothing
<1>4. ASSUME NEW pc \in {"describe", "catch", "recover", "repin", "settle"},
             \/ worker' = [worker EXCEPT ![w].pc = pc]
             \/ worker' = [worker EXCEPT ![w].pc = pc, ![w].stack = stack]
             \/ worker' = [worker EXCEPT ![w].pc = pc, ![w].stack = stack,
                                        ![w].catches = FALSE]
      PROVE  Acts(w) /\ KnowsStack(w)'
  <2>1. Acts(w) /\ worker'[w].pc = pc /\ worker'[w].pinned = worker[w].pinned
    BY <1>1, <1>4, GoActs
  <2> QED
    BY <1>1, <1>2, <2>1, KnowsNothing DEF ExecutorPcs
<1>5. CASE Verify(w) \/ Mirror(w)
  BY <1>1, <1>3, <1>4, <1>5, FinishKnows DEF Verify, Mirror
<1>6. CASE Submit(w) \/ CatchError(w) \/ Recover(w) \/ Look(w)
  BY <1>1, <1>3, <1>4, <1>6, StopKnows, ThrowKnows
  DEF Submit, CatchError, Recover, Look
<1>7. CASE AwaitSettled(w)
  <2>1. CASE Exhaust(w)
    BY <1>1, <2>1, FinishActs, KnowsResult DEF Exhaust
  <2> QED
    BY <1>1, <1>3, <1>4, <1>7, <2>1, StopKnows DEF AwaitSettled
<1> QED
  BY <1>5, <1>6, <1>7

LEMMA DescribeActs ==
    ASSUME Inv, ResultInv, NEW w \in Workers, Describe(w)
    PROVE  Acts(w) /\ KnowsStack(w)'
<1>1. worker[w].pc \in ExecutorPcs \ {"watch", "reprobe"} /\ TypeOK
  BY DEF Describe, ExecutorPcs, Inv
<1>2. ~ worker[w].pinned
  BY <1>1, NotPinned
<1>3. worker[w] \in Executing /\ worker \in [Workers -> WorkerStates]
  BY <1>1, AtWork DEF TypeOK
<1>4. ASSUME NEW phase, worker' = [worker EXCEPT ![w] =
                          [Beating(w, phase, "route") EXCEPT !.stack = stack]]
      PROVE  Acts(w) /\ KnowsStack(w)'
  <2>1. Acts(w) /\ worker'[w].pc = "beat" /\ worker'[w].next = "route"
          /\ ~ worker'[w].pinned
    BY <1>2, <1>3, <1>4 DEF Beating, Acts, Executing
  <2> QED
    BY <2>1, KnowsNothing
<1> QED
  BY <1>1, <1>4, FinishKnows DEF Describe

LEMMA RouteActs ==
    ASSUME Inv, ResultInv, NEW w \in Workers, Route(w)
    PROVE  Acts(w) /\ KnowsStack(w)'
<1>1. worker[w].pc \in ExecutorPcs \ {"watch", "reprobe"} /\ TypeOK
  BY DEF Route, ExecutorPcs, Inv
<1>2. ~ worker[w].pinned
  BY <1>1, NotPinned
<1>3. worker[w] \in Executing /\ worker \in [Workers -> WorkerStates]
  BY <1>1, AtWork DEF TypeOK
<1> DEFINE to == WhereTo(w)
           on == CASE to = "adopt"  -> Beating(w, "waiting-for-stack", "wait")
                   [] to = "mirror" -> Beating(w, "mirroring", "mirror")
                   [] OTHER         -> [worker[w] EXCEPT !.pc = to]
<1>4. to \in {"recover", "wait", "adopt", "submit", "mirror"}
  BY DEF WhereTo
<1>5. /\ DOMAIN on = DOMAIN worker[w]
      /\ on.id = worker[w].id /\ on.copy = worker[w].copy /\ ~ on.pinned
      /\ \/ on.pc = "beat" /\ on.next \in {"wait", "mirror"}
         \/ on.pc \in {"recover", "wait", "submit"}
  <2>1. CASE to = "adopt"
    BY <1>2, <1>3, <2>1 DEF Beating, Executing
  <2>2. CASE to = "mirror"
    BY <1>2, <1>3, <2>2 DEF Beating, Executing
  <2>3. CASE to \in {"recover", "wait", "submit"}
    <3>1. on = [worker[w] EXCEPT !.pc = to]
      BY <2>3
    <3> QED
      BY <1>2, <1>3, <2>3, <3>1 DEF Executing
  <2> QED
    BY <1>4, <2>1, <2>2, <2>3
<1>6. PICK m, c : worker' = [worker EXCEPT ![w] =
                    [on EXCEPT !.mutating = m, !.catches = c]]
  BY DEF Route
<1> HIDE DEF on
<1>7. /\ worker'[w] = [on EXCEPT !.mutating = m, !.catches = c]
      /\ \A v \in Workers \ {w} : worker'[v] = worker[v]
  BY <1>3, <1>6
<1>8. DOMAIN on = {"pc", "id", "copy", "stack", "phase", "next", "mutating",
                   "catches", "pinned", "tried"}
  BY <1>3, <1>5 DEF Executing
<1>9. /\ worker'[w].id = on.id /\ worker'[w].copy = on.copy
      /\ worker'[w].pinned = on.pinned /\ worker'[w].pc = on.pc
      /\ worker'[w].next = on.next
  BY <1>7, <1>8
<1>10. Acts(w)
  BY <1>5, <1>7, <1>9 DEF Acts, ExecutorPcs
<1>11. KnowsStack(w)'
  BY <1>5, <1>9, KnowsNothing DEF ExecutorPcs
<1> QED
  BY <1>10, <1>11

\* The target is probed where the stack has settled.
LEMMA WaitActs ==
    ASSUME Inv, ResultInv, NEW w \in Workers, WaitForTarget(w)
    PROVE  Acts(w) /\ KnowsStack(w)'
<1>1. worker[w].pc \in ExecutorPcs \ {"watch", "reprobe"} /\ TypeOK
        /\ UNCHANGED stack
  BY DEF WaitForTarget, ExecutorPcs, Inv
<1>2. ~ worker[w].pinned
  BY <1>1, NotPinned
<1>3. worker[w] \in Executing /\ worker \in [Workers -> WorkerStates]
  BY <1>1, AtWork DEF TypeOK
<1>4. CASE Beat(w, "waiting-for-stack", "wait")
  BY <1>1, <1>2, <1>4, BeatActs, KnowsNothing
<1>5. CASE /\ stack.status = "complete"
           /\ worker' = [worker EXCEPT ![w] =
                [Beating(w, "probing-health", "probe") EXCEPT !.stack = stack]]
  <2>1. Acts(w) /\ worker'[w].pc = "beat" /\ worker'[w].next = "probe"
          /\ ~ worker'[w].pinned
    BY <1>2, <1>3, <1>5 DEF Beating, Acts, Executing
  <2> QED
    BY <1>1, <1>5, <2>1
    DEF KnowsStack, ProbesSettled, Recovers, SeesSettled, PinsOnce, ResultTrue,
        Toward, Settled
<1>6. CASE worker' = [worker EXCEPT ![w] =
             [[worker[w] EXCEPT !.stack = stack] EXCEPT !.pc = "recover"]]
  <2>1. Acts(w) /\ worker'[w].pc = "recover" /\ ~ worker'[w].pinned
    BY <1>2, <1>3, <1>6 DEF Acts, Executing, ExecutorPcs
  <2> QED
    BY <2>1, KnowsNothing DEF ExecutorPcs
<1>7. CASE worker' = [worker EXCEPT ![w].pc = "catch"]
  <2>1. Acts(w) /\ worker'[w].pc = "catch" /\ ~ worker'[w].pinned
    BY <1>2, <1>3, <1>7 DEF Acts, Executing, ExecutorPcs
  <2> QED
    BY <2>1, KnowsNothing DEF ExecutorPcs
<1> QED
  BY <1>4, <1>5, <1>6, <1>7 DEF WaitForTarget

\* The job succeeds with its image on the settled stack.
LEMMA ProbeActs ==
    ASSUME Inv, ResultInv, NEW w \in Workers, ProbeTarget(w), UNCHANGED job
    PROVE  Acts(w) /\ KnowsStack(w)'
<1>1. worker[w].pc \in ExecutorPcs \ {"watch", "reprobe"} /\ TypeOK
        /\ UNCHANGED stack /\ "recover" \in ExecutorPcs /\ worker[w].pc = "probe"
  BY DEF ProbeTarget, ExecutorPcs, Inv
<1>2. Settled /\ worker[w].copy.gen = job[worker[w].id].gen
  BY <1>1 DEF ResultInv, KnowsStack, ProbesSettled, KnowsJob, Toward
<1>3. CASE Serves(worker[w].copy.gen) /\ Finish(w, "succeeded", "keep")
  BY <1>1, <1>2, <1>3, FinishActs, KnowsResult DEF Serves, Settled
<1>4. CASE worker' = [worker EXCEPT ![w].pc = "recover"]
  <2>1. Acts(w) /\ worker'[w].pc = "recover"
          /\ worker'[w].pinned = worker[w].pinned
    BY <1>1, <1>4, GoActs
  <2> QED
    BY <1>1, <2>1, NotPinned, KnowsNothing DEF ExecutorPcs
<1> QED
  BY <1>3, <1>4 DEF ProbeTarget

\* The previous image is submitted, or is there already.
LEMMA RepinActs ==
    ASSUME Inv, ResultInv, NEW w \in Workers, Repin(w)
    PROVE  Acts(w) /\ KnowsStack(w)'
<1> DEFINE previous == worker[w].copy.previous
           x == Beating(w, "waiting-for-recovery", "watch")
<1>1. worker[w].pc \in ExecutorPcs \ {"watch", "reprobe"} /\ TypeOK
        /\ "look" \in ExecutorPcs
  BY DEF Repin, ExecutorPcs, Inv
<1>2. ~ worker[w].pinned
  BY <1>1, NotPinned
<1>3. worker[w] \in Executing /\ worker \in [Workers -> WorkerStates]
  BY <1>1, AtWork DEF TypeOK
<1>4. CASE UpdateAccepted(previous) /\ worker' = [worker EXCEPT ![w] = x]
  <2>1. Acts(w) /\ worker'[w].pc = "beat" /\ worker'[w].next = "watch"
          /\ ~ worker'[w].pinned /\ worker'[w].copy = worker[w].copy
    BY <1>2, <1>3, <1>4 DEF Beating, Acts, Executing
  <2>2. stack'.image = previous
    BY <1>4 DEF UpdateAccepted
  <2> QED
    BY <2>1, <2>2
    DEF KnowsStack, ProbesSettled, Recovers, SeesSettled, PinsOnce, ResultTrue,
        Toward, Beats
<1>5. CASE /\ stack.status \in {"complete", "rolledback"}
           /\ stack.image = previous /\ UNCHANGED stack
           /\ worker' = [worker EXCEPT ![w] = [x EXCEPT !.pinned = TRUE]]
  <2>1. Acts(w) /\ worker'[w].pc = "beat" /\ worker'[w].next = "watch"
          /\ worker'[w].copy = worker[w].copy
    BY <1>3, <1>5 DEF Beating, Acts, Executing
  <2> QED
    BY <1>5, <2>1
    DEF KnowsStack, ProbesSettled, Recovers, SeesSettled, PinsOnce, ResultTrue,
        Toward, Beats, Settled
<1>6. CASE worker' = [worker EXCEPT ![w].pc = "look", ![w].tried = TRUE]
  <2>1. Acts(w) /\ worker'[w].pc = "look"
          /\ worker'[w].pinned = worker[w].pinned
    BY <1>1, <1>6, GoActs
  <2> QED
    BY <1>2, <2>1, KnowsNothing DEF ExecutorPcs
<1> QED
  BY <1>4, <1>5, <1>6 DEF Repin

\* The recovery leads to the previous image, if it completes.
LEMMA RecoveryActs ==
    ASSUME Inv, ResultInv, NEW w \in Workers, AwaitRecovery(w)
    PROVE  Acts(w) /\ KnowsStack(w)'
<1>1. worker[w].pc = "watch" /\ worker[w].pc \in ExecutorPcs /\ TypeOK
        /\ UNCHANGED stack
  BY DEF AwaitRecovery, ExecutorPcs, Inv
<1>2. worker[w] \in Executing /\ worker \in [Workers -> WorkerStates]
  BY <1>1, AtWork DEF TypeOK
<1>3. /\ worker[w].pinned => Settled /\ stack.image = worker[w].copy.previous
      /\ stack.status \in {"progress", "complete"} =>
           stack.image = worker[w].copy.previous
  BY <1>1 DEF ResultInv, KnowsStack, Recovers, Toward
<1>4. CASE Beat(w, "waiting-for-recovery", "watch")
  <2>1. Acts(w) /\ worker'[w].pc = "beat" /\ worker'[w].next = "watch"
          /\ worker'[w].pinned = worker[w].pinned
          /\ worker'[w].copy = worker[w].copy
    BY <1>1, <1>2, <1>4, BeatActs DEF Acts, ExecutorPcs
  <2> QED
    BY <1>1, <1>3, <2>1
    DEF KnowsStack, ProbesSettled, Recovers, SeesSettled, PinsOnce, ResultTrue,
        Toward, Beats, Settled
<1>5. CASE Stop(w, "done")
  BY <1>1, <1>5, StopKnows
<1>6. CASE Exhaust(w)
  BY <1>1, <1>6, FinishActs, KnowsResult DEF Exhaust
<1>7. CASE /\ stack.status \in {"complete", "rolledback"}
           /\ worker' = [worker EXCEPT ![w] =
                [Beating(w, "waiting-for-recovery", "reprobe")
                   EXCEPT !.stack = stack]]
  <2>1. Acts(w) /\ worker'[w].pc = "beat" /\ worker'[w].next = "reprobe"
          /\ worker'[w].pinned = worker[w].pinned
          /\ worker'[w].copy = worker[w].copy /\ worker'[w].stack = stack
    BY <1>2, <1>7 DEF Beating, Acts, Executing
  <2> QED
    BY <1>1, <1>3, <1>7, <2>1
    DEF KnowsStack, ProbesSettled, Recovers, SeesSettled, PinsOnce, ResultTrue,
        Toward, Beats, Settled
<1>8. CASE Throw(w)
  BY <1>1, <1>8, ThrowKnows
<1> QED
  BY <1>4, <1>5, <1>6, <1>7, <1>8 DEF AwaitRecovery

\* What is called recovered has the previous image on the settled stack.
LEMMA RecoveredActs ==
    ASSUME Inv, ResultInv, NEW w \in Workers, ProbeRecovered(w), UNCHANGED job
    PROVE  Acts(w) /\ KnowsStack(w)'
<1>1. worker[w].pc = "reprobe" /\ TypeOK /\ UNCHANGED stack
        /\ PastCapture(worker[w])
  BY DEF ProbeRecovered, Inv, PastCapture, ExecutorPcs
<1>2. /\ Settled /\ worker[w].stack = stack
      /\ worker[w].pinned => stack.image = worker[w].copy.previous
      /\ stack.status = "complete" => stack.image = worker[w].copy.previous
      /\ worker[w].copy.previous = job[worker[w].id].previous
  BY <1>1 DEF ResultInv, KnowsStack, KnowsJob, Recovers, SeesSettled, Toward
<1>3. CASE Restored(w) /\ Finish(w, "failed", "recovered")
  <2>1. stack.image = job[worker[w].id].previous
    BY <1>2, <1>3 DEF Restored
  <2> QED
    BY <1>1, <1>2, <1>3, <2>1, FinishActs, KnowsResult DEF Settled
<1>4. CASE Exhaust(w)
  BY <1>1, <1>4, FinishActs, KnowsResult DEF Exhaust
<1>5. CASE Stop(w, "done")
  BY <1>1, <1>5, StopKnows
<1> QED
  BY <1>3, <1>4, <1>5 DEF ProbeRecovered

LEMMA ExecutorActs ==
    ASSUME Inv, ResultInv, NEW w \in Workers, ExecutorStep(w)
    PROVE  Acts(w) /\ KnowsStack(w)'
BY PlainActs, DescribeActs, RouteActs, WaitActs, ProbeActs, RepinActs,
   RecoveryActs, RecoveredActs DEF ExecutorStep

\* A worker in the executor's code owns the lease and goes on.
LEMMA ExecutorGoesOn ==
    ASSUME NEW w \in Workers, ExecutorStep(w), Acts(w)
    PROVE  Owns(w) /\ GoesOn(w)
<1>1. worker[w].pc \in ExecutorPcs
  BY DEF ExecutorStep, Verify, Describe, Route, Mirror, Submit, WaitForTarget,
         ProbeTarget, CatchError, Recover, AwaitSettled, Look, Repin,
         AwaitRecovery, ProbeRecovered, ExecutorPcs
<1> QED
  BY <1>1 DEF Owns, OwnPcs, GoesOn, Acts, Beats

LEMMA ExecutorLease ==
    ASSUME Inv, LeaseInv, WaitsFit, ResultInv, NEW w \in Workers, ExecutorStep(w)
    PROVE  LeaseInv'
<1>1. UNCHANGED <<control, request>>
  BY DEF ExecutorStep
<1>2. Acts(w)
  BY ExecutorActs
<1> QED
  BY <1>1, <1>2, ExecutorGoesOn, OwnerGoesOn DEF LeaseKept

LEMMA LeaseStep ==
    ASSUME Inv, ~ Lapse, LeaseInv, WaitsFit, ResultInv, [Next]_vars
    PROVE  LeaseInv'
<1>1. ASSUME NEW p \in Requests,
             \/ \E g \in Gens, k \in Keys : Create(p, g, k)
             \/ \E j \in Jobs : Resume(p, j)
             \/ RequestStep(p) \/ RequestCrashes(p)
      PROVE  LeaseInv'
  BY <1>1, LookupLease, RequestStepLease
<1>2. ASSUME NEW w \in Workers,
             \/ ServiceStep(w) \/ ExecutorStep(w) \/ TimerFires(w)
             \/ TimerBeats(w) \/ WorkerKilled(w)
      PROVE  LeaseInv'
  BY <1>2, ServiceLease, ExecutorLease, TimerLease, WorkerKilledLease
<1>3. CASE UNCHANGED <<control, request, worker>>
  BY <1>3, ClaimsKept DEF Attends, Thrown, Seeks, Owns, LeaseKept, ThrownStay
<1>4. StackSettles \/ UNCHANGED vars => UNCHANGED <<control, request, worker>>
  BY DEF StackSettles, vars
<1> QED
  BY <1>1, <1>2, <1>3, <1>4, LeaseExpiresLease DEF Next

-----------------------------------------------------------------------------
(* Requests wait for the workers they have started                         *)

\* A worker goes on with its job, or stops.
StaysWithJob(w) ==
    /\ \A v \in Workers \ {w} : worker'[v] = worker[v]
    /\ worker'[w].pc # "none"
    /\ Seeks(w)' \/ Owns(w)' => /\ Seeks(w) \/ Owns(w)
                                /\ worker'[w].id = worker[w].id

LEMMA WorkerWaits ==
    ASSUME Inv, WaitsFit, NEW w \in Workers, StaysWithJob(w), UNCHANGED request
    PROVE  WaitsFit'
<1>1. \A p \in Requests : request[p].pc = "waiting" => request[p].worker \in Workers
  BY RequestFields DEF Inv
<1> QED
  BY <1>1 DEF WaitsFit, StaysWithJob, Seeks, Owns

LEMMA ServiceStays ==
    ASSUME Inv, NEW w \in Workers, ServiceStep(w)
    PROVE  StaysWithJob(w) /\ UNCHANGED request
<1>1. worker[w] \in WorkerStates /\ worker \in [Workers -> WorkerStates]
  BY DEF Inv, TypeOK
<1>2. CASE ClaimJob(w) \/ BeatLease(w) \/ BeatJob(w) \/ AssertHolder(w) \/ FinishJob(w)
  <2>1. Owns(w) /\ GoesOn(w)
    BY <1>2, ServiceGoesOn
  <2>2. worker'[w].pc # "none" /\ (Seeks(w)' \/ Owns(w)' => worker'[w].id = worker[w].id)
    BY <2>1 DEF GoesOn, Seeks, Owns, OwnPcs, Beats, ExecutorPcs
  <2> QED
    BY <1>2, <2>1, <2>2
    DEF StaysWithJob, GoesOn, ClaimJob, BeatLease, BeatJob, AssertHolder, FinishJob
<1>3. CASE WorkerReads(w) \/ ClaimLease(w) \/ ClearLease(w)
  <2>1. worker[w] = [pc |-> worker[w].pc, id |-> worker[w].id]
    BY <1>1, <1>3, CallingFields DEF WorkerReads, ClaimLease, ClearLease
  <2>2. \/ worker'[w].pc \in {"threw", "done"}
        \/ /\ Seeks(w) /\ worker'[w].pc \in {"claim", "claimed"}
           /\ worker'[w].id = worker[w].id
    BY <1>1, <1>3, <2>1 DEF WorkerReads, ClaimLease, ClearLease, Stop, Seeks
  <2>3. \A v \in Workers \ {w} : worker'[v] = worker[v]
    BY <1>1, <1>3 DEF WorkerReads, ClaimLease, ClearLease, Stop
  <2> QED
    BY <1>3, <2>2, <2>3
    DEF StaysWithJob, Seeks, Owns, OwnPcs, Beats, ExecutorPcs, WorkerReads,
        ClaimLease, ClearLease
<1> QED
  BY <1>2, <1>3 DEF ServiceStep

LEMMA ExecutorStays ==
    ASSUME NEW w \in Workers, ExecutorStep(w), Acts(w)
    PROVE  StaysWithJob(w) /\ UNCHANGED request
<1>1. Owns(w) /\ GoesOn(w) /\ UNCHANGED request
  BY ExecutorGoesOn DEF ExecutorStep
<1> QED
  BY <1>1 DEF StaysWithJob, GoesOn, Seeks, Owns, OwnPcs, Beats, ExecutorPcs

\* A request that waits for no worker.
LEMMA RequestWaits ==
    ASSUME Inv, WaitsFit, NEW p \in Requests, NEW y,
           request' = [request EXCEPT ![p] = y], y.pc # "waiting", UNCHANGED worker
    PROVE  WaitsFit'
<1>1. request'[p] = y /\ \A q \in Requests \ {p} : request'[q] = request[q]
  BY DEF Inv, TypeOK
<1> QED
  BY <1>1 DEF WaitsFit, Seeks, Owns

\* A new worker is waited for by the request that starts it.
LEMMA DeliverWaits ==
    ASSUME Inv, WaitsFit, NEW p \in Requests, NEW w \in Workers, Deliver(p, w)
    PROVE  WaitsFit'
<1>1. /\ worker'[w] = [pc |-> "read", id |-> request[p].id]
      /\ \A v \in Workers \ {w} : worker'[v] = worker[v]
      /\ worker[w].pc = "none"
  BY DEF Deliver, Inv, TypeOK, NotStarted
<1>2. /\ request'[p].worker = w /\ request'[p].id = request[p].id
      /\ \A q \in Requests \ {p} : request'[q] = request[q]
  BY DEF Deliver, Inv, TypeOK
<1>3. \A q \in Requests : request[q].pc = "waiting" =>
        request[q].worker \in Workers /\ request[q].worker # w
  BY <1>1, RequestFields DEF Inv, WaitsFit
<1>4. ASSUME NEW q \in Requests \ {p}, request'[q].pc = "waiting"
      PROVE  /\ request'[q] = request[q] /\ request[q].pc = "waiting"
             /\ request[q].worker # w
             /\ worker'[request[q].worker] = worker[request[q].worker]
  BY <1>1, <1>2, <1>3, <1>4
<1> QED
  BY <1>1, <1>2, <1>4 DEF WaitsFit, Seeks, Owns

LEMMA RequestStepWaits ==
    ASSUME Inv, WaitsFit, NEW p \in Requests,
           \/ \E g \in Gens, k \in Keys : Create(p, g, k)
           \/ \E j \in Jobs : Resume(p, j)
           \/ RequestStep(p) \/ RequestCrashes(p)
    PROVE  WaitsFit'
<1>1. ASSUME NEW w \in Workers, Deliver(p, w) PROVE WaitsFit'
  BY <1>1, DeliverWaits
<1>2. ASSUME ~ \E w \in Workers : Deliver(p, w)
      PROVE  WaitsFit'
  <2> DEFINE Quiet == /\ UNCHANGED worker /\ request'[p].pc # "waiting"
                      /\ request' = [request EXCEPT ![p] = request'[p]]
  <2>0. request \in [Requests -> RequestStates] /\ TypeOK
    BY DEF Inv, TypeOK
  <2>1. ASSUME NEW g \in Gens, NEW k \in Keys, Create(p, g, k)
        PROVE  Quiet
    BY <2>0, <2>1 DEF Create
  <2>2. ASSUME NEW j \in Jobs, Resume(p, j) \/ StoreJob(p, j)
        PROVE  Quiet
    BY <2>0, <2>2 DEF Resume, StoreJob
  <2>3. ASSUME FindBinding(p) PROVE Quiet
    <3>1. request[p] \in [pc : {"bound?", "store"}, gen : Gens, key : Keys]
      BY <2>0, <2>3, RequestFields DEF FindBinding
    <3> QED
      BY <2>0, <2>3, <3>1 DEF FindBinding, Idle
  <2>4. ASSUME TakeLease(p) PROVE Quiet
    <3>1. request[p] \in [pc : {"lease", "delete"}, id : Jobs, gen : Gens,
                           key : Keys]
      BY <2>0, <2>4, RequestFields DEF TakeLease, New
    <3> QED
      BY <2>0, <2>4, <3>1 DEF TakeLease
  <2>5. ASSUME ReadAbandoned(p) \/ FailAbandoned(p) \/ Bind(p) PROVE Quiet
    <3>1. request[p] \in [pc : {"abandoned?", "abandon", "bind"}, id : Jobs,
                           key : Keys, old : Jobs]
      BY <2>0, <2>5, RequestFields DEF ReadAbandoned, FailAbandoned, Bind
    <3> QED
      BY <2>0, <2>5, <3>1 DEF ReadAbandoned, FailAbandoned, Bind
  <2>6. ASSUME FailDispatched(p) \/ RenewLease(p) \/ UnholdJob(p) PROVE Quiet
    <3>1. request[p] \in [pc : {"dispatch", "fail", "clear", "expired?", "unhold",
                                "redispatch"}, id : Jobs]
      BY <2>0, <2>6, RequestFields DEF FailDispatched, RenewLease, UnholdJob
    <3> QED
      BY <2>0, <2>6, <3>1 DEF FailDispatched, RenewLease, UnholdJob, Idle
  <2>7. ASSUME \/ DeleteJob(p) \/ Dispatch(p) \/ DispatchReturns(p)
               \/ DispatchThrows(p) \/ ClearDispatched(p) \/ RequestCrashes(p)
        PROVE  Quiet
    BY <1>2, <2>0, <2>7
    DEF DeleteJob, Dispatch, DispatchReturns, DispatchThrows, ClearDispatched,
        RequestCrashes, Idle
  <2>8. Quiet
    BY <2>1, <2>2, <2>3, <2>4, <2>5, <2>6, <2>7 DEF RequestStep
  <2> QED
    BY <2>8, RequestWaits
<1> QED
  BY <1>1, <1>2

LEMMA EnvironmentWaits ==
    ASSUME Inv, WaitsFit,
           \/ \E w \in Workers : TimerFires(w) \/ TimerBeats(w) \/ WorkerKilled(w)
           \/ StackSettles \/ LeaseExpires \/ UNCHANGED vars
    PROVE  WaitsFit'
<1>1. ASSUME NEW w \in Workers, WorkerKilled(w) PROVE WaitsFit'
  <2>1. StaysWithJob(w) /\ UNCHANGED request
    BY <1>1
    DEF WorkerKilled, Stop, Inv, TypeOK, StaysWithJob, Seeks, Owns, OwnPcs, Beats,
        ExecutorPcs
  <2> QED
    BY <2>1, WorkerWaits
<1>2. CASE UNCHANGED <<request, worker>>
  BY <1>2 DEF WaitsFit, Seeks, Owns
<1> QED
  BY <1>1, <1>2 DEF TimerFires, TimerBeats, StackSettles, LeaseExpires, vars

LEMMA WaitsStep ==
    ASSUME Inv, WaitsFit, ResultInv, [Next]_vars
    PROVE  WaitsFit'
<1>1. ASSUME NEW w \in Workers, ServiceStep(w) \/ ExecutorStep(w) PROVE WaitsFit'
  BY <1>1, ServiceStays, ExecutorActs, ExecutorStays, WorkerWaits
<1> QED
  BY <1>1, RequestStepWaits, EnvironmentWaits DEF Next

-----------------------------------------------------------------------------
(* The jobs that somebody is going to finish                               *)

\* A step that finishes no jobs but those in F.
FinishesAtMost(F) == \A j \in Jobs : Terminal(job'[j]) => Terminal(job[j]) \/ j \in F

\* The jobs of the others are not finished.
OthersSpared(F, p, w) ==
    /\ \A q \in Requests \ {p} : New(q) \/ Creates(q) => request[q].id \notin F
    /\ \A q \in Requests \ {p} : request[q].pc = "abandon" => request[q].old \notin F
    /\ \A v \in Workers \ {w} : Works(v) => worker[v].id \notin F

LEMMA NamedJobs ==
    ASSUME Inv
    PROVE  /\ \A q \in Requests : New(q) \/ Creates(q) => request[q].id \in Jobs
           /\ \A q \in Requests : request[q].pc = "abandon" => request[q].old \in Jobs
           /\ \A v \in Workers : Works(v) => worker[v].id \in Jobs
<1>1. \A q \in Requests :
        /\ New(q) \/ Creates(q) => request[q].id \in Jobs
        /\ request[q].pc = "abandon" => request[q].old \in Jobs
  BY RequestFields DEF Inv, Creates, Thrown
<1>2. \A v \in Workers : Works(v) => worker[v].pc \notin Stopped
  BY DEF Works, OwnPcs, Beats, ExecutorPcs, Stopped
<1> QED
  BY <1>1, <1>2, JobAtHand

LEMMA RequestUnderWay ==
    ASSUME Inv, JobsUnderWay, NEW F, FinishesAtMost(F), NEW p \in Requests,
           OthersSpared(F, p, NoHolder),
           \A q \in Requests \ {p} : request'[q] = request[q],
           \A v \in Workers :
             worker'[v] # worker[v] => ~ Works(v)' /\ worker'[v].pc # "threw",
           (New(p) \/ Creates(p))' => ~ Terminal(job[request[p].id])',
           request'[p].pc \in {"abandoned?", "abandon"} =>
             request'[p].old # request'[p].id,
           request'[p].pc = "abandon" => ~ Terminal(job[request[p].old])'
    PROVE  JobsUnderWay'
<1>0. \A q \in Requests \ {p} : (New(q) \/ Creates(q))' => New(q) \/ Creates(q)
  <2>1. \A q \in Requests : request[q].pc = "waiting" => request[q].worker \in Workers
    BY RequestFields DEF Inv
  <2> QED
    BY <2>1 DEF New, Creates, Thrown
<1>1. \A q \in Requests \ {p} :
        /\ (New(q) \/ Creates(q))' => ~ Terminal(job[request[q].id])'
        /\ request'[q].pc \in {"abandoned?", "abandon"} =>
             request'[q].old # request'[q].id
        /\ request'[q].pc = "abandon" => ~ Terminal(job[request[q].old])'
  BY <1>0, NamedJobs DEF JobsUnderWay, FinishesAtMost, OthersSpared, Terminal
<1>2. \A v \in Workers : Works(v)' => ~ Terminal(job[worker[v].id])'
  BY NamedJobs, NoHolderAssumption
  DEF JobsUnderWay, FinishesAtMost, OthersSpared, Works, Terminal
<1> QED
  BY <1>1, <1>2 DEF JobsUnderWay

LEMMA WorkerUnderWay ==
    ASSUME Inv, JobsUnderWay, NEW F, FinishesAtMost(F), NEW w \in Workers,
           OthersSpared(F, w, w), UNCHANGED request,
           \A v \in Workers \ {w} : worker'[v] = worker[v],
           Works(w)' => ~ Terminal(job[worker[w].id])',
           worker'[w].pc = "threw" => WaitsFit /\ Owns(w) /\ Works(w) /\ F = {}
    PROVE  JobsUnderWay'
<1>1. w \notin Requests
  BY SelfUpdateAssumption
<1>2. ASSUME NEW q \in Requests, (New(q) \/ Creates(q))'
      PROVE  ~ Terminal(job[request[q].id])'
  <2>1. request[q].pc = "waiting" => request[q].worker \in Workers
    BY RequestFields DEF Inv
  <2>2. CASE New(q) \/ Creates(q)
    BY <1>1, <2>2, NamedJobs DEF JobsUnderWay, FinishesAtMost, OthersSpared, Terminal
  <2>3. CASE ~ (New(q) \/ Creates(q))
    <3>1. request[q].pc = "waiting" /\ request[q].worker = w /\ worker'[w].pc = "threw"
      BY <1>2, <2>1, <2>3 DEF New, Creates, Thrown
    <3>2. request[q].id = worker[w].id /\ Works(w) /\ F = {}
      BY <3>1 DEF WaitsFit
    <3> QED
      BY <3>2, NamedJobs DEF JobsUnderWay, FinishesAtMost, Terminal
  <2> QED
    BY <2>2, <2>3
<1>3. \A q \in Requests :
        /\ request'[q].pc \in {"abandoned?", "abandon"} =>
             request'[q].old # request'[q].id
        /\ request'[q].pc = "abandon" => ~ Terminal(job[request[q].old])'
  BY <1>1, NamedJobs DEF JobsUnderWay, FinishesAtMost, OthersSpared, Terminal
<1>4. \A v \in Workers \ {w} : Works(v)' => ~ Terminal(job[worker[v].id])'
  BY NamedJobs DEF JobsUnderWay, FinishesAtMost, OthersSpared, Works, Terminal
<1> QED
  BY <1>2, <1>3, <1>4 DEF JobsUnderWay

\* A step that finishes no job.
LEMMA FinishesNone ==
    ASSUME UNCHANGED job
    PROVE  FinishesAtMost({}) /\ \A p, w : OthersSpared({}, p, w)
BY DEF FinishesAtMost, OthersSpared

\* The steps of a request that finish no job and start none.
LEMMA RequestQuietUnderWay ==
    ASSUME Inv, JobsUnderWay, NEW p \in Requests, NEW y,
           request' = [request EXCEPT ![p] = y],
           y.pc \in {"lease", "delete", "bind", "dispatch", "fail"} =>
             (New(p) \/ Creates(p)) /\ y.id = request[p].id,
           y.pc \notin {"abandoned?", "abandon", "waiting"},
           UNCHANGED <<job, worker>>
    PROVE  JobsUnderWay'
<1>1. request'[p] = y /\ \A q \in Requests \ {p} : request'[q] = request[q]
  BY DEF Inv, TypeOK
<1>2. (New(p) \/ Creates(p))' => ~ Terminal(job[request[p].id])'
  BY <1>1 DEF JobsUnderWay, New, Creates, Thrown
<1>3. OthersSpared({}, p, NoHolder) /\ FinishesAtMost({})
  BY FinishesNone
<1> QED
  BY <1>1, <1>2, <1>3, RequestUnderWay

LEMMA LookupUnderWay ==
    ASSUME Inv, JobsUnderWay, NEW p \in Requests,
           \/ \E g \in Gens, k \in Keys : Create(p, g, k)
           \/ \E j \in Jobs : Resume(p, j)
           \/ FindBinding(p) \/ DispatchReturns(p) \/ RequestCrashes(p)
           \/ RenewLease(p)
    PROVE  JobsUnderWay'
<1>1. Idle.pc \notin {"lease", "delete", "bind", "dispatch", "fail"}
        /\ Idle.pc \notin {"abandoned?", "abandon", "waiting"}
  BY DEF Idle
<1>2. CASE FindBinding(p)
  <2>1. request[p] \in [pc : {"bound?", "store"}, gen : Gens, key : Keys]
    BY <1>2, RequestFields DEF FindBinding, Inv
  <2> DEFINE y == [request[p] EXCEPT !.pc = "store"]
  <2>2. y.pc = "store"
    BY <2>1
  <2>3. \/ request' = [request EXCEPT ![p] = Idle]
        \/ request' = [request EXCEPT ![p] = y]
    BY <1>2 DEF FindBinding
  <2> HIDE DEF y
  <2> QED
    BY <1>1, <1>2, <2>2, <2>3, RequestQuietUnderWay DEF FindBinding
<1>3. ASSUME NEW g \in Gens, NEW k \in Keys, Create(p, g, k) PROVE JobsUnderWay'
  BY <1>3, RequestQuietUnderWay DEF Create
<1>4. ASSUME NEW j \in Jobs, Resume(p, j) PROVE JobsUnderWay'
  BY <1>4, RequestQuietUnderWay DEF Resume
<1>5. CASE DispatchReturns(p) \/ RequestCrashes(p)
  BY <1>1, <1>5, RequestQuietUnderWay DEF DispatchReturns, RequestCrashes
<1>6. CASE RenewLease(p)
  <2> DEFINE y == [pc |-> "unhold", id |-> request[p].id]
  <2>1. \/ request' = [request EXCEPT ![p] = Idle]
        \/ request' = [request EXCEPT ![p] = y]
    BY <1>6, RequestAtHand DEF RenewLease, Inv
  <2> QED
    BY <1>1, <1>6, <2>1, RequestQuietUnderWay DEF RenewLease
<1> QED
  BY <1>2, <1>3, <1>4, <1>5, <1>6

\* A job is stored before anybody can finish it, and deleted by who stored it.
LEMMA StoreUnderWay ==
    ASSUME Inv, JobsUnderWay, NEW p \in Requests,
           DeleteJob(p) \/ \E j \in Jobs : StoreJob(p, j)
    PROVE  JobsUnderWay'
<1>1. PICK j \in Jobs : /\ job'[j].status \in {"queued", "Absent"}
                        /\ \A k \in Jobs \ {j} : job'[k] = job[k]
                        /\ request'[p].pc = "lease" => request'[p].id = j
                        /\ request'[p].pc \in {"idle", "lease"}
                        /\ \A q \in Requests \ {p} : request'[q] = request[q]
                        /\ UNCHANGED worker
  <2>1. ASSUME NEW j \in Jobs, StoreJob(p, j)
        PROVE  /\ job'[j].status \in {"queued", "Absent"}
               /\ \A k \in Jobs \ {j} : job'[k] = job[k]
               /\ (request'[p].pc = "lease" => request'[p].id = j)
               /\ request'[p].pc \in {"idle", "lease"}
               /\ \A q \in Requests \ {p} : request'[q] = request[q]
               /\ UNCHANGED worker
    BY <2>1 DEF StoreJob, NewJob, Inv, TypeOK
  <2>2. CASE DeleteJob(p)
    <3>1. request[p].id \in Jobs
      BY <2>2, RequestFields DEF DeleteJob, New, Inv
    <3> QED
      BY <2>2, <3>1 DEF DeleteJob, NoJob, Idle, Inv, TypeOK
  <2> QED
    BY <2>1, <2>2
<1>2. FinishesAtMost({})
  BY <1>1 DEF FinishesAtMost, Terminal
<1>3. OthersSpared({}, p, NoHolder)
  BY DEF OthersSpared
<1>4. (New(p) \/ Creates(p))' => ~ Terminal(job[request[p].id])'
  BY <1>1 DEF New, Creates, Thrown, Terminal
<1> QED
  BY <1>1, <1>2, <1>3, <1>4, RequestUnderWay

\* The job that takes a lease over is not the one that had it.
LEMMA TakeLeaseUnderWay ==
    ASSUME Inv, JobsUnderWay, NEW p \in Requests, TakeLease(p)
    PROVE  JobsUnderWay'
<1> DEFINE x == request[p]
<1>1. x \in [pc : {"lease", "delete"}, id : Jobs, gen : Gens, key : Keys]
        /\ request \in [Requests -> RequestStates] /\ New(p)
        /\ UNCHANGED <<job, worker>>
  BY RequestFields DEF TakeLease, New, Inv, TypeOK
<1>2. /\ request'[p].id = x.id
      /\ request'[p].pc = "abandoned?" => request'[p].old # x.id
      /\ request'[p].pc \in {"delete", "bind", "abandoned?"}
      /\ \A q \in Requests \ {p} : request'[q] = request[q]
  <2>1. CASE BelowFloor(x.gen) \/ ~ Available
    <3>1. request' = [request EXCEPT ![p].pc = "delete"]
      BY <2>1 DEF TakeLease
    <3> QED
      BY <1>1, <3>1
  <2>2. CASE ~ (BelowFloor(x.gen) \/ ~ Available) /\ control.lease = NoLease
    <3>1. request' = [request EXCEPT ![p] = [pc |-> "bind", id |-> x.id,
                                             key |-> x.key, old |-> x.id]]
      BY <2>2 DEF TakeLease
    <3> QED
      BY <1>1, <3>1
  <2>3. CASE ~ (BelowFloor(x.gen) \/ ~ Available) /\ control.lease # NoLease
    <3>1. request' = [request EXCEPT ![p] = [pc |-> "abandoned?", id |-> x.id,
                                             key |-> x.key,
                                             old |-> control.lease.job]]
      BY <2>3 DEF TakeLease
    <3>2. control.lease.job # x.id
      BY <1>1, <2>3 DEF Inv, LeasePublished, Published
    <3> QED
      BY <1>1, <3>1, <3>2
  <2> QED
    BY <2>1, <2>2, <2>3
<1>3. ~ Terminal(job[request[p].id])'
  BY <1>1, <1>2 DEF JobsUnderWay
<1> QED
  BY <1>1, <1>2, <1>3, FinishesNone, RequestUnderWay

\* A published job that only one process acts on is nobody else's.
LEMMA SoleFinisher ==
    ASSUME Inv, NEW p, NEW w, NEW j \in Jobs, Published(j),
           \A q \in Requests \ {p} : ~ Attends(q),
           \A v \in Workers \ {w} : ~ Seeks(v) /\ ~ Owns(v)
    PROVE  OthersSpared({j}, p, w)
<1>1. \A q \in Requests \ {p} : New(q) => request[q].id # j
  BY DEF Published
<1>2. \A q \in Requests \ {p} : ~ Creates(q) /\ request[q].pc # "abandon"
  BY DEF Attends, AttendPcs, Creates
<1>3. \A v \in Workers \ {w} : ~ Works(v)
  BY DEF Seeks, Owns, Works
<1> QED
  BY <1>1, <1>2, <1>3 DEF OthersSpared

LEMMA AbandonUnderWay ==
    ASSUME Inv, LeaseInv, JobsUnderWay, NEW p \in Requests,
           ReadAbandoned(p) \/ FailAbandoned(p) \/ Bind(p)
    PROVE  JobsUnderWay'
<1> DEFINE x == request[p]
<1>1. /\ x \in [pc : {"abandoned?", "abandon", "bind"}, id : Jobs, key : Keys,
                old : Jobs]
      /\ request \in [Requests -> RequestStates] /\ UNCHANGED worker
      /\ Creates(p) /\ Attends(p)
  BY RequestFields
  DEF ReadAbandoned, FailAbandoned, Bind, Inv, TypeOK, Creates, Attends, AttendPcs
<1>2. x.id \in Jobs /\ x.old \in Jobs /\ Published(x.old) /\ job[x.old] \in Job
  BY <1>1, RequestJobs DEF Naming
<1>3. ~ Terminal(job[x.id])
  BY <1>1 DEF JobsUnderWay
<1>4. CASE ReadAbandoned(p)
  <2>1. /\ request'[p].id = x.id /\ request'[p].old = x.old /\ UNCHANGED job
        /\ request'[p].pc \in {"abandon", "bind"}
        /\ request'[p].pc = "abandon" => ~ Terminal(job[x.old])
        /\ \A q \in Requests \ {p} : request'[q] = request[q]
    BY <1>1, <1>4 DEF ReadAbandoned, Unfinished
  <2>2. x.old # x.id
    BY <1>4 DEF ReadAbandoned, JobsUnderWay
  <2>3. /\ ~ Terminal(job[request[p].id])'
        /\ request'[p].pc = "abandon" => ~ Terminal(job[request[p].old])'
    BY <1>3, <2>1
  <2> QED
    BY <1>1, <2>1, <2>2, <2>3, FinishesNone, RequestUnderWay
<1>5. CASE FailAbandoned(p)
  <2>1. /\ request'[p].id = x.id /\ request'[p].pc = "bind"
        /\ \A q \in Requests \ {p} : request'[q] = request[q]
    BY <1>1, <1>5 DEF FailAbandoned
  <2>2. \A k \in Jobs \ {x.old} : job'[k] = job[k]
    BY <1>5 DEF FailAbandoned, Inv, TypeOK
  <2>3. x.old # x.id
    BY <1>5 DEF FailAbandoned, JobsUnderWay
  <2>4. ~ Terminal(job[request[p].id])'
    BY <1>2, <1>3, <2>1, <2>2, <2>3
  <2>5. FinishesAtMost({x.old})
    BY <2>2 DEF FinishesAtMost
  <2>6. OthersSpared({x.old}, p, NoHolder)
    BY <1>1, <1>2, RequestExcludes, SoleFinisher DEF OnlyRequest
  <2> QED
    BY <1>1, <2>1, <2>4, <2>5, <2>6, RequestUnderWay
<1>6. CASE Bind(p)
  <2> DEFINE y == [pc |-> "dispatch", id |-> x.id]
  <2>1. request' = [request EXCEPT ![p] = y] /\ UNCHANGED job
    BY <1>6 DEF Bind
  <2> QED
    BY <1>1, <2>1, RequestQuietUnderWay
<1> QED
  BY <1>4, <1>5, <1>6

LEMMA DispatchUnderWay ==
    ASSUME Inv, LeaseInv, JobsUnderWay, NEW p \in Requests,
           Dispatch(p) \/ FailDispatched(p) \/ ClearDispatched(p) \/ UnholdJob(p)
    PROVE  JobsUnderWay'
<1> DEFINE j == request[p].id
<1>1. j \in Jobs /\ Published(j) /\ job[j] \in Job
  BY RequestJobs DEF Dispatch, FailDispatched, ClearDispatched, UnholdJob, Naming
<1>2. CASE Dispatch(p)
  <2>1. ASSUME NEW w \in Workers, Deliver(p, w) PROVE JobsUnderWay'
    <3>1. /\ worker'[w] = [pc |-> "read", id |-> j]
          /\ \A v \in Workers \ {w} : worker'[v] = worker[v]
      BY <2>1 DEF Deliver, Inv, TypeOK
    <3>2. /\ request'[p].pc \in {"waiting", "resumed"} /\ request'[p].worker = w
          /\ \A q \in Requests \ {p} : request'[q] = request[q]
      BY <2>1 DEF Deliver, Inv, TypeOK
    <3>3. /\ \A v \in Workers :
               worker'[v] # worker[v] => ~ Works(v)' /\ worker'[v].pc # "threw"
          /\ ~ (New(p) \/ Creates(p))' /\ UNCHANGED job
      BY <1>2, <3>1, <3>2
      DEF Works, OwnPcs, Beats, ExecutorPcs, New, Creates, Thrown, Dispatch
    <3> QED
      BY <3>2, <3>3, FinishesNone, RequestUnderWay
  <2>2. CASE request' = [request EXCEPT ![p] = Idle] /\ UNCHANGED worker
    BY <1>2, <2>2, RequestQuietUnderWay DEF Dispatch, Idle
  <2>3. CASE /\ request[p].pc = "dispatch" /\ UNCHANGED worker
             /\ request' = [request EXCEPT ![p] = [pc |-> "fail", id |-> j]]
    BY <1>2, <2>3, RequestQuietUnderWay DEF Dispatch, Creates
  <2> QED
    BY <1>2, <2>1, <2>2, <2>3 DEF Dispatch
<1>3. CASE FailDispatched(p)
  <2>1. /\ request'[p].pc = "clear" /\ UNCHANGED worker /\ Attends(p)
        /\ \A q \in Requests \ {p} : request'[q] = request[q]
    BY <1>3, RequestAtHand DEF FailDispatched, Inv, TypeOK, Attends, AttendPcs
  <2>2. FinishesAtMost({j})
    BY <1>3 DEF FailDispatched, Inv, TypeOK, FinishesAtMost
  <2>3. OthersSpared({j}, p, NoHolder)
    BY <1>1, <2>1, RequestExcludes, SoleFinisher DEF OnlyRequest
  <2> QED
    BY <2>1, <2>2, <2>3, RequestUnderWay DEF New, Creates, Thrown
<1>4. CASE ClearDispatched(p)
  BY <1>4, RequestQuietUnderWay DEF ClearDispatched, Idle
<1>5. CASE UnholdJob(p)
  <2>1. /\ request'[p].pc = "redispatch" /\ UNCHANGED worker
        /\ \A q \in Requests \ {p} : request'[q] = request[q]
    BY <1>5, RequestAtHand DEF UnholdJob, Inv, TypeOK
  <2>2. FinishesAtMost({}) /\ OthersSpared({}, p, NoHolder)
    BY <1>1, <1>5
    DEF UnholdJob, Inv, TypeOK, FinishesAtMost, OthersSpared, Terminal, Job
  <2> QED
    BY <2>1, <2>2, RequestUnderWay DEF New, Creates, Thrown
<1> QED
  BY <1>2, <1>3, <1>4, <1>5

LEMMA DispatchThrowsUnderWay ==
    ASSUME Inv, ~ Lapse, LeaseInv, JobsUnderWay, NEW p \in Requests, DispatchThrows(p)
    PROVE  JobsUnderWay'
BY DispatchThrowsLease, RequestQuietUnderWay DEF Creates

LEMMA RequestStepUnderWay ==
    ASSUME Inv, ~ Lapse, LeaseInv, JobsUnderWay, NEW p \in Requests, RequestStep(p)
    PROVE  JobsUnderWay'
BY LookupUnderWay, StoreUnderWay, TakeLeaseUnderWay, AbandonUnderWay,
   DispatchUnderWay, DispatchThrowsUnderWay DEF RequestStep

\* The calls of a worker that finish no job.
LEMMA CallUnderWay ==
    ASSUME Inv, LeaseInv, JobsUnderWay, NEW w \in Workers,
           WorkerReads(w) \/ ClaimLease(w) \/ BeatLease(w) \/ AssertHolder(w)
             \/ ClearLease(w)
    PROVE  JobsUnderWay'
<1>1. worker[w] \in WorkerStates /\ worker \in [Workers -> WorkerStates]
  BY DEF Inv, TypeOK
<1>2. worker[w].pc \notin Stopped
  BY DEF WorkerReads, ClaimLease, BeatLease, AssertHolder, ClearLease, Stopped
<1>3. \A v \in Workers \ {w} : worker'[v] = worker[v]
  BY <1>1 DEF WorkerReads, ClaimLease, BeatLease, AssertHolder, ClearLease, Stop
<1>4. UNCHANGED <<job, request>>
  BY DEF WorkerReads, ClaimLease, BeatLease, AssertHolder, ClearLease
<1>5. Works(w)' => ~ Terminal(job[worker[w].id])'
  <2>1. CASE WorkerReads(w)
    <3>1. worker[w] = [pc |-> worker[w].pc, id |-> worker[w].id]
      BY <1>1, <2>1, CallingFields DEF WorkerReads
    <3>2. \/ worker'[w].pc \in {"threw", "done"}
          \/ worker'[w].id = worker[w].id /\ ~ Terminal(job[worker[w].id])
      BY <1>1, <2>1, <3>1 DEF WorkerReads, Stop
    <3> QED
      BY <1>4, <3>2 DEF Works, OwnPcs, Beats, ExecutorPcs
  <2>2. CASE ClaimLease(w) \/ BeatLease(w) \/ AssertHolder(w) \/ ClearLease(w)
    <3>1. \/ worker'[w].pc \in {"threw", "done"}
          \/ worker'[w].id = worker[w].id /\ Works(w)
      <4>1. CASE ClaimLease(w)
        <5>1. worker[w] = [pc |-> worker[w].pc, id |-> worker[w].id]
          BY <1>1, <4>1, CallingFields DEF ClaimLease
        <5> QED
          BY <1>1, <4>1, <5>1 DEF ClaimLease, Stop, Works
      <4>2. CASE BeatLease(w)
        <5>1. worker[w] \in Executing
          BY <1>1, <4>2, ExecutingFields DEF BeatLease, Beats
        <5> QED
          BY <1>1, <4>2, <5>1
          DEF BeatLease, Stop, Works, OwnPcs, Beats, Executing
      <4>3. CASE AssertHolder(w)
        <5>1. worker[w] \in [pc : {"finish", "finishing"}, id : Jobs,
                             status : {"succeeded", "failed"},
                             recovery : {"keep", "recovered", "exhausted"}]
          BY <1>1, <4>3, CallingFields DEF AssertHolder
        <5> QED
          BY <1>1, <4>3, <5>1 DEF AssertHolder, Stop, Works, OwnPcs
      <4>4. CASE ClearLease(w)
        BY <1>1, <4>4 DEF ClearLease, Stop
      <4> QED
        BY <2>2, <4>1, <4>2, <4>3, <4>4
    <3> QED
      BY <1>4, <3>1 DEF JobsUnderWay, Works, OwnPcs, Beats, ExecutorPcs
  <2> QED
    BY <2>1, <2>2
<1>6. worker'[w].pc # "threw"
  <2>1. Seeks(w) => Exists(worker[w].id) /\ Claimable(worker[w].id)
    BY <1>2, JobAtHand DEF LeaseInv, ClaimsHold, Leased, Claimable, Published
  <2>2. CASE WorkerReads(w) \/ ClaimLease(w)
    <3>1. worker[w] = [pc |-> worker[w].pc, id |-> worker[w].id]
      BY <1>1, <2>2, CallingFields DEF WorkerReads, ClaimLease
    <3> QED
      BY <1>1, <2>1, <2>2, <3>1 DEF WorkerReads, ClaimLease, Stop, Seeks
  <2>3. CASE BeatLease(w)
    <3>1. worker[w] \in Executing
      BY <1>1, <2>3, ExecutingFields DEF BeatLease, Beats
    <3> QED
      BY <1>1, <2>3, <3>1 DEF BeatLease, Stop, Executing
  <2>4. CASE AssertHolder(w)
    <3>1. worker[w] \in [pc : {"finish", "finishing"}, id : Jobs,
                         status : {"succeeded", "failed"},
                         recovery : {"keep", "recovered", "exhausted"}]
      BY <1>1, <2>4, CallingFields DEF AssertHolder
    <3> QED
      BY <1>1, <2>4, <3>1 DEF AssertHolder, Stop
  <2>5. CASE ClearLease(w)
    BY <1>1, <2>5 DEF ClearLease, Stop
  <2> QED
    BY <2>2, <2>3, <2>4, <2>5
<1> QED
  BY <1>3, <1>4, <1>5, <1>6, FinishesNone, WorkerUnderWay

\* The writes of a worker to its job.
LEMMA WriteUnderWay ==
    ASSUME Inv, LeaseInv, JobsUnderWay, NEW w \in Workers,
           ClaimJob(w) \/ BeatJob(w) \/ FinishJob(w)
    PROVE  JobsUnderWay'
<1> DEFINE j == worker[w].id
<1>1. j \in Jobs /\ Published(j) /\ job[j] \in Job /\ Works(w) /\ Owns(w)
  BY JobAtHand
  DEF ClaimJob, BeatJob, FinishJob, Stopped, Works, Owns, OwnPcs, Beats
<1>2. \A v \in Workers \ {w} : worker'[v] = worker[v]
  BY DEF ClaimJob, BeatJob, FinishJob, Stop, Inv, TypeOK
<1>3. ~ Terminal(job[j]) /\ UNCHANGED request
  BY <1>1 DEF JobsUnderWay, ClaimJob, BeatJob, FinishJob
<1>4. \A k \in Jobs \ {j} : job'[k] = job[k]
  BY DEF ClaimJob, BeatJob, FinishJob, Inv, TypeOK
<1>5. worker'[w].pc # "threw"
  BY ServiceGoesOn
<1>6. CASE ClaimJob(w) \/ BeatJob(w)
  <2>1. job'[j].status \in {job[j].status, "running"}
    <3>1. job \in [Jobs -> Job \cup {NoJob}]
      BY DEF Inv, TypeOK
    <3>2. CASE ClaimJob(w)
      BY <1>1, <3>1, <3>2 DEF ClaimJob, Job
    <3>3. ASSUME NEW r, job' = [job EXCEPT ![j] = r], r.status = job[j].status
          PROVE  job'[j].status = job[j].status
      BY <1>1, <3>1, <3>3
    <3>4. \A phase, previous, recovery :
            [job[j] EXCEPT !.phase = phase, !.previous = previous,
                           !.recovery = recovery].status = job[j].status
      BY <1>1 DEF Job
    <3>5. CASE BeatJob(w)
      <4> DEFINE r == [job[j] EXCEPT
                    !.phase    = worker[w].phase,
                    !.previous = IF worker[w].next = "route" THEN Captured(w) ELSE @,
                    !.recovery = IF worker[w].next = "settle" THEN "in-progress"
                                                              ELSE @]
      <4>1. UNCHANGED job \/ job' = [job EXCEPT ![j] = r]
        BY <3>5 DEF BeatJob
      <4>2. r.status = job[j].status
        BY <3>4
      <4> HIDE DEF r
      <4> QED
        BY <3>3, <4>1, <4>2
    <3> QED
      BY <1>6, <3>2, <3>5
  <2>2. FinishesAtMost({}) /\ ~ Terminal(job'[j])
    BY <1>3, <1>4, <2>1 DEF FinishesAtMost, Terminal
  <2>3. OthersSpared({}, w, w)
    BY DEF OthersSpared
  <2>4. worker'[w].id = j \/ ~ Works(w)'
    BY <1>6, ServiceGoesOn
    DEF GoesOn, Works, OwnPcs, Beats, ExecutorPcs
  <2>5. Works(w)' => ~ Terminal(job[worker[w].id])'
    BY <2>2, <2>4
  <2> QED
    BY <1>2, <1>3, <1>5, <2>2, <2>3, <2>5, WorkerUnderWay
<1>7. CASE FinishJob(w)
  <2>1. ~ Works(w)'
    BY <1>7 DEF FinishJob, Stop, Inv, TypeOK, Works, OwnPcs, Beats, ExecutorPcs
  <2>2. FinishesAtMost({j})
    BY <1>4 DEF FinishesAtMost
  <2>3. OthersSpared({j}, w, w)
    BY <1>1, WorkerExcludes, SoleFinisher DEF OnlyWorker
  <2> QED
    BY <1>2, <1>3, <1>5, <2>1, <2>2, <2>3, WorkerUnderWay
<1> QED
  BY <1>6, <1>7

LEMMA ExecutorUnderWay ==
    ASSUME Inv, WaitsFit, JobsUnderWay, NEW w \in Workers, ExecutorStep(w), Acts(w)
    PROVE  JobsUnderWay'
<1>1. UNCHANGED <<job, request>> /\ worker[w].pc \in ExecutorPcs
  BY DEF ExecutorStep, Verify, Describe, Route, Mirror, Submit, WaitForTarget,
         ProbeTarget, CatchError, Recover, AwaitSettled, Look, Repin,
         AwaitRecovery, ProbeRecovered, ExecutorPcs
<1>2. Works(w) /\ Owns(w) /\ (Works(w)' => worker'[w].id = worker[w].id)
  BY <1>1 DEF Acts, Works, Owns, OwnPcs, Beats, ExecutorPcs
<1>3. Works(w)' => ~ Terminal(job[worker[w].id])'
  BY <1>1, <1>2 DEF JobsUnderWay
<1> QED
  BY <1>1, <1>2, <1>3, FinishesNone, WorkerUnderWay DEF Acts

LEMMA EnvironmentUnderWay ==
    ASSUME Inv, JobsUnderWay,
           \/ \E w \in Workers : TimerFires(w) \/ TimerBeats(w) \/ WorkerKilled(w)
           \/ StackSettles \/ LeaseExpires \/ UNCHANGED vars
    PROVE  JobsUnderWay'
<1>1. \A k \in Jobs : job'[k] = job[k] \/ job'[k] = [job[k] EXCEPT !.phase = "mirroring"]
  BY DEF TimerFires, TimerBeats, WorkerKilled, StackSettles, LeaseExpires, vars,
         Inv, TypeOK
<1>2. \A k \in Jobs : job[k] \in Job \/ job[k] = NoJob
  BY DEF Inv, TypeOK
<1>3. \A k \in Jobs : job'[k].status = job[k].status
  BY <1>1, <1>2 DEF Job, NoJob
<1>4. UNCHANGED request
  BY DEF TimerFires, TimerBeats, WorkerKilled, StackSettles, LeaseExpires, vars
<1>5. \A v \in Workers :
        worker'[v] # worker[v] => ~ Works(v)' /\ worker'[v].pc # "threw"
  <2>1. ASSUME NEW w \in Workers, WorkerKilled(w)
        PROVE  \A v \in Workers : worker'[v] = worker[v] \/ worker'[v].pc = "dead"
    BY <2>1 DEF WorkerKilled, Stop, Inv, TypeOK
  <2>2. UNCHANGED worker \/ \E w \in Workers : WorkerKilled(w)
    BY DEF TimerFires, TimerBeats, StackSettles, LeaseExpires, vars
  <2> QED
    BY <2>1, <2>2 DEF Works, OwnPcs, Beats, ExecutorPcs
<1>6. \A q \in Requests : request[q].pc = "waiting" => request[q].worker \in Workers
  BY RequestFields DEF Inv
<1>7. \A q \in Requests : (New(q) \/ Creates(q))' => New(q) \/ Creates(q)
  BY <1>4, <1>5, <1>6 DEF New, Creates, Thrown
<1> QED
  BY <1>3, <1>4, <1>5, <1>7, NamedJobs DEF JobsUnderWay, Works, Terminal

LEMMA UnderWayStep ==
    ASSUME Inv, ~ Lapse, LeaseInv, WaitsFit, JobsUnderWay, ResultInv, [Next]_vars
    PROVE  JobsUnderWay'
<1>1. ASSUME NEW p \in Requests,
             \/ \E g \in Gens, k \in Keys : Create(p, g, k)
             \/ \E j \in Jobs : Resume(p, j)
             \/ RequestStep(p) \/ RequestCrashes(p)
      PROVE  JobsUnderWay'
  BY <1>1, LookupUnderWay, RequestStepUnderWay
<1>2. ASSUME NEW w \in Workers, ServiceStep(w) PROVE JobsUnderWay'
  BY <1>2, CallUnderWay, WriteUnderWay DEF ServiceStep
<1>3. ASSUME NEW w \in Workers, ExecutorStep(w) PROVE JobsUnderWay'
  BY <1>3, ExecutorActs, ExecutorUnderWay
<1> QED
  BY <1>1, <1>2, <1>3, EnvironmentUnderWay DEF Next

-----------------------------------------------------------------------------
(* The results of jobs                                                     *)

\* The states in which a worker relies on its job and on the stack.
Relies(w) == worker[w].pc \in {"finish", "finishing"} \cup ExecutorPcs \cup Beats

\* What no worker touches stays known.
LEMMA ResultKept ==
    ASSUME ResultInv, NEW w \in Workers, worker'[w] = worker[w], UNCHANGED stack,
           Relies(w) => /\ job'[worker[w].id].gen = job[worker[w].id].gen
                        /\ job'[worker[w].id].previous = job[worker[w].id].previous
    PROVE  KnowsJob(w)' /\ KnowsStack(w)'
<1>1. KnowsJob(w) /\ KnowsStack(w)
  BY DEF ResultInv
<1>2. KnowsJob(w)'
  BY <1>1 DEF KnowsJob, Relies, PastCapture
<1>3. KnowsStack(w)'
  BY <1>1 DEF KnowsStack, ProbesSettled, Recovers, SeesSettled, PinsOnce,
              ResultTrue, Toward, Settled, Relies
<1> QED
  BY <1>2, <1>3

LEMMA KnowsIdle ==
    ASSUME NEW w \in Workers, ~ Relies(w)'
    PROVE  KnowsJob(w)' /\ KnowsStack(w)'
BY DEF KnowsJob, KnowsStack, ProbesSettled, Recovers, SeesSettled, PinsOnce,
       ResultTrue, Toward, Relies, PastCapture, ExecutorPcs, Beats

\* A step in which workers move only to where they rely on nothing, and published
\* jobs keep their generation and their previous image.
LEMMA ResultUndisturbed ==
    ASSUME Inv, ResultInv, UNCHANGED stack,
           \A v \in Workers : worker'[v] = worker[v] \/ ~ Relies(v)',
           \A j \in Jobs : Published(j) => job'[j].gen = job[j].gen
                                           /\ job'[j].previous = job[j].previous
    PROVE  ResultInv'
<1>1. \A v \in Workers : Relies(v) =>
        worker[v].id \in Jobs /\ Published(worker[v].id)
  BY JobAtHand DEF Relies, ExecutorPcs, Beats, Stopped
<1> QED
  BY <1>1, ResultKept, KnowsIdle DEF ResultInv

LEMMA RequestResult ==
    ASSUME Inv, ResultInv, NEW p \in Requests,
           \/ \E g \in Gens, k \in Keys : Create(p, g, k)
           \/ \E j \in Jobs : Resume(p, j)
           \/ RequestStep(p) \/ RequestCrashes(p)
    PROVE  ResultInv'
<1>1. UNCHANGED stack
  BY DEF Create, Resume, RequestStep, RequestCrashes, FindBinding, StoreJob,
         TakeLease, DeleteJob, ReadAbandoned, FailAbandoned, Bind, Dispatch,
         DispatchReturns, DispatchThrows, FailDispatched, ClearDispatched,
         RenewLease, UnholdJob
<1>2. \A v \in Workers : worker'[v] = worker[v] \/ ~ Relies(v)'
  <2>1. ASSUME NEW w \in Workers, Deliver(p, w)
        PROVE  \A v \in Workers : worker'[v] = worker[v] \/ ~ Relies(v)'
    BY <2>1 DEF Deliver, Inv, TypeOK, Relies, ExecutorPcs, Beats
  <2>2. UNCHANGED worker \/ \E w \in Workers : Deliver(p, w)
    BY DEF Create, Resume, RequestStep, RequestCrashes, FindBinding, StoreJob,
           TakeLease, DeleteJob, ReadAbandoned, FailAbandoned, Bind, Dispatch,
           DispatchReturns, DispatchThrows, FailDispatched, ClearDispatched,
           RenewLease, UnholdJob
  <2> QED
    BY <2>1, <2>2
<1>3. \A j \in Jobs : Published(j) => job'[j].gen = job[j].gen
                                      /\ job'[j].previous = job[j].previous
  <2>1. CASE UNCHANGED job
    BY <2>1
  <2>2. CASE DeleteJob(p) \/ \E j \in Jobs : StoreJob(p, j)
    BY <2>2 DEF DeleteJob, StoreJob, Published, New, Exists, Inv, TypeOK
  <2>3. CASE FailAbandoned(p)
    <3>1. request[p].old \in Jobs /\ job[request[p].old] \in Job
      BY <2>3, RequestJobs DEF FailAbandoned, Naming
    <3> QED
      BY <2>3, <3>1 DEF FailAbandoned, Inv, TypeOK, Job
  <2>4. CASE FailDispatched(p) \/ UnholdJob(p)
    <3>1. request[p].id \in Jobs /\ job[request[p].id] \in Job
      BY <2>4, RequestJobs DEF FailDispatched, UnholdJob, Naming
    <3>2. job \in [Jobs -> Job \cup {NoJob}]
      BY DEF Inv, TypeOK
    <3>3. CASE FailDispatched(p)
      BY <3>1, <3>2, <3>3 DEF FailDispatched, Job
    <3>4. CASE UnholdJob(p)
      BY <3>1, <3>2, <3>4 DEF UnholdJob, Job
    <3> QED
      BY <2>4, <3>3, <3>4
  <2>5. \/ UNCHANGED job \/ DeleteJob(p) \/ \E j \in Jobs : StoreJob(p, j)
        \/ FailAbandoned(p) \/ FailDispatched(p) \/ UnholdJob(p)
    BY DEF Create, Resume, RequestStep, RequestCrashes, FindBinding, TakeLease,
           ReadAbandoned, Bind, Dispatch, DispatchReturns, DispatchThrows,
           ClearDispatched, RenewLease
  <2> QED
    BY <2>1, <2>2, <2>3, <2>4, <2>5
<1> QED
  BY <1>1, <1>2, <1>3, ResultUndisturbed

LEMMA EnvironmentResult ==
    ASSUME Inv, ResultInv,
           \/ \E w \in Workers : TimerFires(w) \/ TimerBeats(w) \/ WorkerKilled(w)
           \/ LeaseExpires \/ UNCHANGED vars
    PROVE  ResultInv'
<1>1. UNCHANGED stack
  BY DEF TimerFires, TimerBeats, WorkerKilled, LeaseExpires, vars
<1>2. \A v \in Workers : worker'[v] = worker[v] \/ ~ Relies(v)'
  <2>1. ASSUME NEW w \in Workers, WorkerKilled(w)
        PROVE  \A v \in Workers : worker'[v] = worker[v] \/ worker'[v].pc = "dead"
    BY <2>1 DEF WorkerKilled, Stop, Inv, TypeOK
  <2>2. UNCHANGED worker \/ \E w \in Workers : WorkerKilled(w)
    BY DEF TimerFires, TimerBeats, LeaseExpires, vars
  <2> QED
    BY <2>1, <2>2 DEF Relies, Beats, ExecutorPcs
<1>3. \A k \in Jobs : job'[k] = job[k] \/ job'[k] = [job[k] EXCEPT !.phase = "mirroring"]
  BY DEF TimerFires, TimerBeats, WorkerKilled, LeaseExpires, vars, Inv, TypeOK
<1>4. \A k \in Jobs : Published(k) => job[k] \in Job
  BY DEF Published, Exists, Inv, TypeOK
<1>5. \A k \in Jobs : Published(k) => job'[k].gen = job[k].gen
                                      /\ job'[k].previous = job[k].previous
  BY <1>3, <1>4 DEF Job
<1> QED
  BY <1>1, <1>2, <1>5, ResultUndisturbed

\* CloudFormation settles: nobody probes or has a result, and a recovery that it
\* completes has led back.
LEMMA StackSettlesResult ==
    ASSUME Inv, ResultInv, StackSettles
    PROVE  ResultInv'
<1>1. /\ ~ Settled /\ UNCHANGED <<job, worker>> /\ stack \in Stack
      /\ \/ stack' = [stack EXCEPT !.status = "complete"]
         \/ stack'.status \in {"rolledback", "failed"}
  BY DEF StackSettles, Inv, TypeOK, Stack
<1>2. /\ stack.status = "progress"
      /\ \/ stack'.status \in {"rolledback", "failed"}
         \/ stack'.status = "complete" /\ stack'.image = stack.image
  <2>1. stack.status = "progress"
    BY <1>1 DEF Settled
  <2>2. CASE stack' = [stack EXCEPT !.status = "complete"]
    BY <1>1, <2>1, <2>2 DEF Stack
  <2> QED
    BY <1>1, <2>1, <2>2
<1>3. ASSUME NEW w \in Workers PROVE KnowsJob(w)' /\ KnowsStack(w)'
  <2>1. KnowsJob(w) /\ KnowsStack(w)
    BY DEF ResultInv
  <2>2. KnowsJob(w)'
    BY <1>1, <2>1 DEF KnowsJob, PastCapture
  <2>3. ProbesSettled(w)' /\ SeesSettled(w)' /\ PinsOnce(w)'
    BY <1>1, <2>1 DEF KnowsStack, ProbesSettled, SeesSettled, PinsOnce, Toward
  <2>4. Recovers(w)'
    BY <1>1, <1>2, <2>1 DEF KnowsStack, Recovers, Toward
  <2>5. ResultTrue(w)'
    BY <1>1, <2>1 DEF KnowsStack, ResultTrue
  <2> QED
    BY <2>2, <2>3, <2>4, <2>5 DEF KnowsStack
<1> QED
  BY <1>3 DEF ResultInv

\* While a worker owns the lease the others rely on nothing.
LEMMA OthersRelyOnNothing ==
    ASSUME LeaseInv, NEW w \in Workers, Seeks(w) \/ Owns(w),
           \A v \in Workers \ {w} : worker'[v] = worker[v],
           KnowsJob(w)', KnowsStack(w)'
    PROVE  ResultInv'
<1>1. \A v \in Workers \ {w} : ~ Relies(v)'
  BY WorkerExcludes DEF OnlyWorker, Owns, OwnPcs, Relies
<1> QED
  BY <1>1, KnowsIdle DEF ResultInv

LEMMA ExecutorResult ==
    ASSUME Inv, LeaseInv, ResultInv, NEW w \in Workers, ExecutorStep(w)
    PROVE  ResultInv'
<1>1. Acts(w) /\ KnowsStack(w)' /\ Owns(w)
  BY ExecutorActs, ExecutorGoesOn
<1>2. worker[w].pc \in ExecutorPcs /\ UNCHANGED job
  BY DEF ExecutorStep, Verify, Describe, Route, Mirror, Submit, WaitForTarget,
         ProbeTarget, CatchError, Recover, AwaitSettled, Look, Repin,
         AwaitRecovery, ProbeRecovered, ExecutorPcs
<1>3. KnowsJob(w)'
  <2>1. PastCapture(worker'[w]) => PastCapture(worker[w])
    BY ExecutorMoves DEF Inv, Proceeds, Moves, Follows
  <2>2. worker'[w].pc \in ExecutorPcs \cup Beats =>
          worker'[w].copy = worker[w].copy /\ worker'[w].id = worker[w].id
    BY <1>1 DEF Acts, ExecutorPcs, Beats
  <2>3. PastCapture(worker'[w]) => worker'[w].pc \in ExecutorPcs \cup Beats
    BY DEF PastCapture
  <2> QED
    BY <1>2, <2>1, <2>2, <2>3 DEF ResultInv, KnowsJob
<1> QED
  BY <1>1, <1>3, OthersRelyOnNothing DEF Acts

LEMMA ServiceResult ==
    ASSUME Inv, LeaseInv, ResultInv, NEW w \in Workers, ServiceStep(w)
    PROVE  ResultInv'
<1> DEFINE j == worker[w].id
<1>1. /\ worker[w].pc \notin Stopped /\ (Seeks(w) \/ Owns(w)) /\ UNCHANGED stack
      /\ \A v \in Workers \ {w} : worker'[v] = worker[v]
  BY DEF ServiceStep, WorkerReads, ClaimLease, ClaimJob, BeatLease, BeatJob,
         AssertHolder, FinishJob, ClearLease, Stop, Inv, TypeOK, Seeks, Owns,
         OwnPcs, Beats, Stopped
<1>2. j \in Jobs /\ job[j] \in Job /\ worker[w] \in WorkerStates
        /\ worker \in [Workers -> WorkerStates] /\ job \in [Jobs -> Job \cup {NoJob}]
  BY <1>1, JobAtHand DEF Inv, TypeOK
<1>3. CASE ~ Relies(w)'
  BY <1>1, <1>3, KnowsIdle, OthersRelyOnNothing
<1>4. CASE WorkerReads(w) \/ ClaimLease(w) \/ FinishJob(w) \/ ClearLease(w)
  <2>1. CASE WorkerReads(w) \/ ClaimLease(w) \/ ClearLease(w)
    <3>1. worker[w] = [pc |-> worker[w].pc, id |-> worker[w].id]
      BY <1>2, <2>1, CallingFields DEF WorkerReads, ClaimLease, ClearLease
    <3>2. ~ Relies(w)'
      BY <1>2, <2>1, <3>1
      DEF WorkerReads, ClaimLease, ClearLease, Stop, Relies, ExecutorPcs, Beats
    <3> QED
      BY <1>3, <3>2
  <2>2. CASE FinishJob(w)
    <3>1. ~ Relies(w)'
      BY <1>2, <2>2 DEF FinishJob, Stop, Relies, ExecutorPcs, Beats
    <3> QED
      BY <1>3, <3>1
  <2> QED
    BY <1>4, <2>1, <2>2
<1>5. CASE ClaimJob(w)
  <2>1. /\ worker'[w].pc = "verify" /\ worker'[w].id = j /\ ~ worker'[w].pinned
        /\ worker'[w].copy = job'[j]
    BY <1>2, <1>5 DEF ClaimJob
  <2>2. KnowsJob(w)'
    BY <2>1 DEF KnowsJob, PastCapture, ExecutorPcs, Beats
  <2>3. KnowsStack(w)'
    BY <2>1, KnowsNothing DEF ExecutorPcs
  <2> QED
    BY <1>1, <2>2, <2>3, OthersRelyOnNothing
<1>6. CASE BeatLease(w) /\ Relies(w)'
  <2>1. worker[w] \in Executing /\ worker[w].pc = "beat"
    BY <1>2, <1>6, ExecutingFields DEF BeatLease, Beats
  <2>2. worker' = [worker EXCEPT ![w].pc = "beaten"] /\ UNCHANGED job
    BY <1>2, <1>6 DEF BeatLease, Stop, Relies, ExecutorPcs, Beats
  <2>3. /\ worker'[w].pc = "beaten" /\ worker'[w].id = j
        /\ worker'[w].copy = worker[w].copy /\ worker'[w].next = worker[w].next
        /\ worker'[w].stack = worker[w].stack
        /\ worker'[w].pinned = worker[w].pinned
    BY <1>2, <2>1, <2>2 DEF Executing
  <2>4. KnowsJob(w) /\ KnowsStack(w)
    BY DEF ResultInv
  <2>5. KnowsJob(w)'
    BY <2>1, <2>2, <2>3, <2>4 DEF KnowsJob, PastCapture, Beats, ExecutorPcs
  <2>6. KnowsStack(w)'
    BY <1>1, <2>1, <2>2, <2>3, <2>4
    DEF KnowsStack, ProbesSettled, Recovers, SeesSettled, PinsOnce, ResultTrue,
        Toward, Settled, Beats, ExecutorPcs
  <2> QED
    BY <1>1, <2>5, <2>6, OthersRelyOnNothing
<1>7. CASE BeatJob(w) /\ Relies(w)'
  <2> DEFINE beaten == [job[j] EXCEPT
               !.phase    = worker[w].phase,
               !.previous = IF worker[w].next = "route" THEN Captured(w) ELSE @,
               !.recovery = IF worker[w].next = "settle" THEN "in-progress" ELSE @]
  <2>1. worker[w] \in Executing /\ worker[w].pc = "beaten"
          /\ worker[w].next \in ExecutorPcs
    BY <1>2, <1>7, ExecutingFields DEF BeatJob, Beats, Inv, ImageKnown
  <2>2. /\ job' = [job EXCEPT ![j] = beaten]
        /\ worker' = [worker EXCEPT ![w].pc = worker[w].next, ![w].copy = beaten]
    BY <1>2, <1>7 DEF BeatJob, Stop, Relies, ExecutorPcs, Beats
  <2>3. worker[w].next # "route" => beaten.previous = job[j].previous
    BY <1>2 DEF Job
  <2> HIDE DEF beaten
  <2>4. /\ worker'[w].pc = worker[w].next /\ worker'[w].id = j
        /\ worker'[w].copy = beaten /\ job'[j] = beaten
        /\ worker'[w].stack = worker[w].stack
        /\ worker'[w].pinned = worker[w].pinned
    BY <1>2, <2>1, <2>2 DEF Executing
  <2>5. KnowsJob(w) /\ KnowsStack(w)
    BY DEF ResultInv
  <2>6. worker[w].next # "route" => beaten.previous = worker[w].copy.previous
    BY <2>1, <2>3, <2>5 DEF KnowsJob, PastCapture, Beats
  <2>7. KnowsJob(w)'
    BY <2>4 DEF KnowsJob
  <2>8. KnowsStack(w)'
    BY <1>1, <2>1, <2>4, <2>5, <2>6
    DEF KnowsStack, ProbesSettled, Recovers, SeesSettled, PinsOnce, ResultTrue,
        Toward, Settled, Beats, ExecutorPcs
  <2> QED
    BY <1>1, <2>7, <2>8, OthersRelyOnNothing
<1>8. CASE AssertHolder(w) /\ Relies(w)'
  <2>1. worker[w] \in [pc : {"finish", "finishing"}, id : Jobs,
                       status : {"succeeded", "failed"},
                       recovery : {"keep", "recovered", "exhausted"}]
    BY <1>2, <1>8, CallingFields DEF AssertHolder
  <2>2. worker' = [worker EXCEPT ![w].pc = "finishing"] /\ UNCHANGED job
          /\ worker[w].pc = "finish"
    BY <1>2, <1>8 DEF AssertHolder, Stop, Relies, ExecutorPcs, Beats
  <2>3. /\ worker'[w].pc = "finishing" /\ worker'[w].id = j
        /\ worker'[w].status = worker[w].status
        /\ worker'[w].recovery = worker[w].recovery
    BY <1>2, <2>1, <2>2
  <2>4. KnowsStack(w)
    BY DEF ResultInv
  <2>5. KnowsJob(w)'
    BY <2>3 DEF KnowsJob, PastCapture, ExecutorPcs, Beats
  <2>6. KnowsStack(w)'
    BY <1>1, <2>2, <2>3, <2>4
    DEF KnowsStack, ProbesSettled, Recovers, SeesSettled, PinsOnce, ResultTrue,
        Toward, Settled, Beats, ExecutorPcs
  <2> QED
    BY <1>1, <2>5, <2>6, OthersRelyOnNothing
<1> QED
  BY <1>3, <1>4, <1>5, <1>6, <1>7, <1>8 DEF ServiceStep

LEMMA ResultStep ==
    ASSUME Inv, LeaseInv, ResultInv, [Next]_vars
    PROVE  ResultInv'
BY RequestResult, ServiceResult, ExecutorResult, EnvironmentResult,
   StackSettlesResult DEF Next

-----------------------------------------------------------------------------
(* Theorems about prompt processes                                         *)

LEMMA InitPrompt == Init => PromptInv
<1> SUFFICES ASSUME Init PROVE PromptInv
  OBVIOUS
<1>1. /\ \A p \in Requests : request[p].pc = "idle"
      /\ \A w \in Workers : worker[w].pc = "none"
  BY DEF Init, Idle, NotStarted
<1>2. LeaseInv
  BY <1>1
  DEF LeaseInv, ClaimsHold, OneClaim, Attends, Thrown, Seeks, Owns,
      AttendPcs, OwnPcs, Beats, ExecutorPcs
<1>3. WaitsFit /\ JobsUnderWay
  BY <1>1
  DEF WaitsFit, JobsUnderWay, New, Creates, Thrown, Works, OwnPcs, Beats, ExecutorPcs
<1>4. ResultInv
  BY <1>1
  DEF ResultInv, KnowsJob, KnowsStack, ProbesSettled, Recovers, SeesSettled,
      PinsOnce, ResultTrue, Toward, PastCapture, Beats, ExecutorPcs
<1> QED
  BY <1>2, <1>3, <1>4 DEF PromptInv

LEMMA PromptStep ==
    Inv /\ PromptInv /\ [Next]_vars /\ [~ Lapse]_vars => PromptInv'
BY StutterKeepsTime, LeaseStep, WaitsStep, UnderWayStep, ResultStep DEF PromptInv

\* How the status of a job can change.
LEMMA StatusWriters ==
    ASSUME Inv, [Next]_vars, NEW j \in Jobs, job'[j].status # job[j].status
    PROVE  \/ \E p \in Requests : StoreJob(p, j)
           \/ \E p \in Requests : DeleteJob(p) /\ request[p].id = j
           \/ \E p \in Requests : FailAbandoned(p) /\ request[p].old = j
           \/ \E p \in Requests : FailDispatched(p) /\ request[p].id = j
           \/ \E w \in Workers : ClaimJob(w) /\ worker[w].id = j
           \/ \E w \in Workers : FinishJob(w) /\ worker[w].id = j
<1>0. job \in [Jobs -> Job \cup {NoJob}]
  BY DEF Inv, TypeOK
<1>1. ASSUME NEW p \in Requests, NEW k \in Jobs, StoreJob(p, k)
      PROVE  k = j
  BY <1>0, <1>1 DEF StoreJob
<1>2. ASSUME NEW p \in Requests, DeleteJob(p)
      PROVE  request[p].id = j
  BY <1>0, <1>2 DEF DeleteJob
<1>3. ASSUME NEW p \in Requests, FailAbandoned(p)
      PROVE  request[p].old = j
  BY <1>0, <1>3 DEF FailAbandoned
<1>4. ASSUME NEW p \in Requests, FailDispatched(p)
      PROVE  request[p].id = j
  BY <1>0, <1>4 DEF FailDispatched
<1>5. ASSUME NEW p \in Requests, UnholdJob(p)
      PROVE  FALSE
  <2>1. request[p].id \in Jobs /\ job[request[p].id] \in Job
    BY <1>5, RequestJobs DEF UnholdJob, Naming
  <2> QED
    BY <1>0, <1>5, <2>1 DEF UnholdJob, Job
<1>6. ASSUME NEW w \in Workers, ClaimJob(w) \/ FinishJob(w)
      PROVE  worker[w].id = j
  BY <1>0, <1>6 DEF ClaimJob, FinishJob
<1>7. ASSUME NEW w \in Workers, BeatJob(w)
      PROVE  FALSE
  <2>1. worker[w].id \in Jobs /\ job[worker[w].id] \in Job
    BY <1>7, JobAtHand DEF BeatJob, Stopped
  <2>2. \A phase, previous, recovery :
          [job[worker[w].id] EXCEPT !.phase = phase, !.previous = previous,
             !.recovery = recovery].status = job[worker[w].id].status
    BY <2>1 DEF Job
  <2> DEFINE r == [job[worker[w].id] EXCEPT
                !.phase    = worker[w].phase,
                !.previous = IF worker[w].next = "route" THEN Captured(w) ELSE @,
                !.recovery = IF worker[w].next = "settle" THEN "in-progress"
                                                          ELSE @]
  <2>3. UNCHANGED job \/ job' = [job EXCEPT ![worker[w].id] = r]
    BY <1>7 DEF BeatJob
  <2>4. r.status = job[worker[w].id].status
    BY <2>2
  <2> HIDE DEF r
  <2> QED
    BY <1>0, <2>3, <2>4
<1>8. ASSUME NEW w \in Workers, TimerBeats(w)
      PROVE  FALSE
  <2>1. job'[j] = job[j] \/ job'[j] = [job[j] EXCEPT !.phase = "mirroring"]
    BY <1>0, <1>8 DEF TimerBeats
  <2> QED
    BY <1>0, <2>1 DEF Job, NoJob
<1>9. CASE \E p \in Requests :
             \/ \E g \in Gens, k \in Keys : Create(p, g, k)
             \/ \E k \in Jobs : Resume(p, k)
             \/ RequestStep(p) \/ RequestCrashes(p)
  <2>1. \E p \in Requests :
          \/ \E k \in Jobs : StoreJob(p, k)
          \/ DeleteJob(p) \/ FailAbandoned(p) \/ FailDispatched(p) \/ UnholdJob(p)
    BY <1>9
    DEF Create, Resume, RequestStep, RequestCrashes, FindBinding, TakeLease,
        ReadAbandoned, Bind, Dispatch, DispatchReturns, DispatchThrows,
        ClearDispatched, RenewLease
  <2> QED
    BY <1>1, <1>2, <1>3, <1>4, <1>5, <2>1
<1>10. CASE \E w \in Workers : ServiceStep(w) \/ ExecutorStep(w) \/ TimerFires(w)
                              \/ TimerBeats(w) \/ WorkerKilled(w)
  <2>1. \E w \in Workers : ClaimJob(w) \/ FinishJob(w) \/ BeatJob(w) \/ TimerBeats(w)
    BY <1>10
    DEF ServiceStep, ExecutorStep, WorkerReads, ClaimLease, BeatLease,
        AssertHolder, ClearLease, TimerFires, WorkerKilled
  <2> QED
    BY <1>6, <1>7, <1>8, <2>1
<1>11. CASE StackSettles \/ LeaseExpires \/ UNCHANGED vars
  BY <1>11 DEF StackSettles, LeaseExpires, vars
<1> QED
  BY <1>9, <1>10, <1>11 DEF Next

\* A job that has finished is not written again, but by a stray heartbeat.
LEMMA TerminalStep ==
    ASSUME Inv, PromptInv, [Next]_vars, NEW j \in Jobs, Exists(j), Terminal(job[j])
    PROVE  job'[j].status = job[j].status
<1> SUFFICES ASSUME job'[j].status # job[j].status PROVE FALSE
  OBVIOUS
<1>1. ASSUME NEW p \in Requests, StoreJob(p, j) PROVE FALSE
  BY <1>1 DEF StoreJob
<1>2. ASSUME NEW p \in Requests, DeleteJob(p) /\ request[p].id = j PROVE FALSE
  BY <1>2 DEF DeleteJob, PromptInv, JobsUnderWay, New
<1>3. ASSUME NEW p \in Requests, FailAbandoned(p) /\ request[p].old = j PROVE FALSE
  BY <1>3 DEF FailAbandoned, PromptInv, JobsUnderWay
<1>4. ASSUME NEW p \in Requests, FailDispatched(p) /\ request[p].id = j PROVE FALSE
  BY <1>4 DEF FailDispatched, PromptInv, JobsUnderWay, Creates
<1>5. ASSUME NEW w \in Workers, ClaimJob(w) \/ FinishJob(w), worker[w].id = j
      PROVE  FALSE
  BY <1>5 DEF ClaimJob, FinishJob, PromptInv, JobsUnderWay, Works, OwnPcs
<1> QED
  BY <1>1, <1>2, <1>3, <1>4, <1>5, StatusWriters

\* What finishes a job, and as what.
LEMMA FinishWriters ==
    ASSUME Inv, PromptInv, [Next]_vars, NEW j \in Jobs,
           job'[j].status # job[j].status,
           \/ job'[j].status = "succeeded"
           \/ job'[j].status = "failed" /\ job'[j].recovery = "recovered"
    PROVE  \E w \in Workers :
             /\ worker[w].pc = "finishing" /\ worker[w].id = j
             /\ worker[w].status = job'[j].status
             /\ worker[w].status = "failed" => worker[w].recovery = "recovered"
<1>0. job \in [Jobs -> Job \cup {NoJob}]
  BY DEF Inv, TypeOK
<1>1. ASSUME NEW p \in Requests, StoreJob(p, j) PROVE FALSE
  BY <1>0, <1>1 DEF StoreJob, NewJob
<1>2. ASSUME NEW p \in Requests, DeleteJob(p) /\ request[p].id = j PROVE FALSE
  BY <1>0, <1>2 DEF DeleteJob, NoJob
<1>3. ASSUME NEW p \in Requests, FailAbandoned(p) /\ request[p].old = j PROVE FALSE
  <2>1. job[j] \in Job
    BY <1>3, RequestJobs DEF FailAbandoned, Naming
  <2> QED
    BY <1>0, <1>3, <2>1 DEF FailAbandoned, Job
<1>4. ASSUME NEW p \in Requests, FailDispatched(p) /\ request[p].id = j PROVE FALSE
  <2>1. job[j] \in Job
    BY <1>4, RequestJobs DEF FailDispatched, Naming
  <2> QED
    BY <1>0, <1>4, <2>1 DEF FailDispatched, Job
<1>5. ASSUME NEW w \in Workers, ClaimJob(w), worker[w].id = j PROVE FALSE
  <2>1. job[j] \in Job
    BY <1>5, JobAtHand DEF ClaimJob, Stopped
  <2> QED
    BY <1>0, <1>5, <2>1 DEF ClaimJob, Job
<1>6. ASSUME NEW w \in Workers, FinishJob(w), worker[w].id = j
      PROVE  /\ worker[w].pc = "finishing" /\ worker[w].id = j
             /\ worker[w].status = job'[j].status
             /\ worker[w].status = "failed" => worker[w].recovery = "recovered"
  <2>1. job[j] \in Job
    BY <1>6, JobAtHand DEF FinishJob, Stopped
  <2>2. worker[w].pc = "finishing"
          /\ (worker[w].recovery = "keep" => worker[w].status = "succeeded")
    BY <1>6 DEF FinishJob, PromptInv, ResultInv, KnowsStack, ResultTrue
  <2> DEFINE r == [job[j] EXCEPT
                !.status = worker[w].status, !.phase = "complete",
                !.recovery = IF worker[w].recovery = "keep"
                             THEN job[j].recovery ELSE worker[w].recovery]
  <2>3. job' = [job EXCEPT ![j] = r]
    BY <1>6 DEF FinishJob
  <2>4. /\ r.status = worker[w].status
        /\ worker[w].recovery # "keep" => r.recovery = worker[w].recovery
    BY <2>1 DEF Job
  <2>5. job'[j] = r
    BY <1>0, <2>3
  <2> HIDE DEF r
  <2> QED
    BY <1>6, <2>2, <2>4, <2>5
<1> QED
  BY <1>1, <1>2, <1>3, <1>4, <1>5, <1>6, StatusWriters

\* An update is submitted by a step of a worker that holds the lease.
LEMMA MutationStep ==
    ASSUME Inv, PromptInv, [Next]_vars,
           stack'.status = "progress", stack.status # "progress"
    PROVE  \E w \in Workers : worker'[w] # worker[w] /\ HeldBy(w)
<1>1. PICK w \in Workers : ExecutorStep(w) /\ (Submit(w) \/ Repin(w))
  <2>0. stack' # stack
    OBVIOUS
  <2>1. ASSUME NEW p \in Requests,
               \/ \E g \in Gens, k \in Keys : Create(p, g, k)
               \/ \E k \in Jobs : Resume(p, k)
               \/ RequestStep(p) \/ RequestCrashes(p)
        PROVE  UNCHANGED stack
    BY <2>1
    DEF Create, Resume, RequestStep, RequestCrashes, FindBinding, StoreJob,
        TakeLease, DeleteJob, ReadAbandoned, FailAbandoned, Bind, Dispatch,
        DispatchReturns, DispatchThrows, FailDispatched, ClearDispatched,
        RenewLease, UnholdJob
  <2>2. ASSUME NEW w \in Workers,
               ServiceStep(w) \/ TimerFires(w) \/ TimerBeats(w) \/ WorkerKilled(w)
        PROVE  UNCHANGED stack
    BY <2>2
    DEF ServiceStep, WorkerReads, ClaimLease, ClaimJob, BeatLease, BeatJob,
        AssertHolder, FinishJob, ClearLease, TimerFires, TimerBeats, WorkerKilled
  <2>3. ASSUME NEW w \in Workers, ExecutorStep(w)
        PROVE  UNCHANGED stack \/ Submit(w) \/ Repin(w)
    BY <2>3
    DEF ExecutorStep, Verify, Describe, Route, Mirror, WaitForTarget, ProbeTarget,
        CatchError, Recover, AwaitSettled, Look, AwaitRecovery, ProbeRecovered
  <2>4. StackSettles => stack'.status # "progress"
    <3>1. stack \in Stack
      BY DEF Inv, TypeOK
    <3> QED
      BY <3>1 DEF StackSettles, Stack
  <2>5. LeaseExpires \/ UNCHANGED vars => UNCHANGED stack
    BY DEF LeaseExpires, vars
  <2> QED
    BY <2>0, <2>1, <2>2, <2>3, <2>4, <2>5 DEF Next
<1>2. Owns(w)
  BY <1>1 DEF Submit, Repin, Owns, OwnPcs, ExecutorPcs
<1>3. HeldBy(w)
  BY <1>2 DEF PromptInv, LeaseInv, ClaimsHold, Leased, HeldBy, Holds
<1>4. worker[w] \in Executing /\ worker \in [Workers -> WorkerStates]
  <2>1. TypeOK /\ worker[w].pc \in ExecutorPcs
    BY <1>1 DEF Submit, Repin, ExecutorPcs, Inv
  <2> QED
    BY <2>1, AtWork DEF TypeOK
<1>5. worker'[w].pc # worker[w].pc
  BY <1>1, <1>4 DEF Submit, Repin, Beat, Beating, Executing
<1> QED
  BY <1>3, <1>5

\* Under every fault, a worker submits an update of the stack without holding the
\* lease of its job only after a lease was lost from under a living process: claim()
\* and heartbeat() in front of each UpdateStack keep all others out, also the worker
\* resume() starts for a job whose worker was killed or threw.
THEOREM HolderMutates == Spec /\ [][~ Lapse]_vars => MutatesAsHolder
<1>1. Inv /\ PromptInv /\ [Next]_vars =>
        [stack'.status = "progress" /\ stack.status # "progress" =>
           \E w \in Workers : worker'[w] # worker[w] /\ HeldBy(w)]_vars
  BY MutationStep
<1> QED
  BY <1>1, InitInv, Inductive, InitPrompt, PromptStep, PTL DEF Spec, MutatesAsHolder

\* Until a lease is lost from under a living process, a job that succeeded or failed
\* keeps its status: claim(), finish(), create()'s abandonment and dispatch()'s error
\* path write only jobs that are still under way, though each of them writes with no
\* regard for what the job says by then.  So a lapse is the one way to overwrite it.
THEOREM TerminalStays == Spec /\ [][~ Lapse]_vars => TerminalStaysTerminal
<1>1. Inv /\ PromptInv /\ [Next]_vars =>
        [\A j \in Jobs : Exists(j) /\ Terminal(job[j]) =>
           job'[j].status = job[j].status]_job
  BY TerminalStep
<1> QED
  BY <1>1, InitInv, Inductive, InitPrompt, PromptStep, PTL
  DEF Spec, TerminalStaysTerminal

\* Until a lease is lost from under a living process, when the executor's result makes
\* a job succeed the stack has settled on the image of the job: nothing moves it
\* between the health probe and finish().
THEOREM SucceededOnTarget == Spec /\ [][~ Lapse]_vars => SucceededMeansTarget
<1>1. ASSUME Inv, PromptInv, [Next]_vars, NEW j \in Jobs,
             job'[j].status = "succeeded", job[j].status # "succeeded"
      PROVE  Settled /\ stack.image = job[j].gen
  <2>1. PICK w \in Workers :
          worker[w].pc = "finishing" /\ worker[w].id = j
            /\ worker[w].status = "succeeded"
    BY <1>1, FinishWriters
  <2> QED
    BY <1>1, <2>1 DEF PromptInv, ResultInv, KnowsStack, ResultTrue
<1>2. Inv /\ PromptInv /\ [Next]_vars =>
        [\A j \in Jobs :
           job'[j].status = "succeeded" /\ job[j].status # "succeeded" =>
             Settled /\ stack.image = job[j].gen]_job
  BY <1>1
<1> QED
  BY <1>2, InitInv, Inductive, InitPrompt, PromptStep, PTL
  DEF Spec, SucceededMeansTarget

\* When moreover no call of AWS fails and no release evidence expires on its way
\* to the worker, a job that fails as recovered leaves the stack settled on the
\* image that captureStack() recorded. Both are needed: either error may keep a
\* worker that resumes the job from reading the stack before it reports.
THEOREM RecoveredOnPrevious ==
    ASSUME Faults \cap {"expired", "aws"} = {}
    PROVE  Spec /\ [][~ Lapse]_vars => RecoveredMeansRestored
<1>1. ASSUME Inv, PromptInv, [Next]_vars, NEW j \in Jobs,
             job'[j].status = "failed", job[j].status # "failed",
             job'[j].recovery = "recovered"
      PROVE  Settled /\ job[j].previous \in {stack.image, NoImage}
  <2>1. PICK w \in Workers :
          /\ worker[w].pc = "finishing" /\ worker[w].id = j
          /\ worker[w].status = "failed" /\ worker[w].recovery = "recovered"
    BY <1>1, FinishWriters
  <2> QED
    BY <1>1, <2>1 DEF PromptInv, ResultInv, KnowsStack, ResultTrue
<1>2. Inv /\ PromptInv /\ [Next]_vars =>
        [\A j \in Jobs :
           /\ job'[j].status = "failed" /\ job[j].status # "failed"
           /\ job'[j].recovery = "recovered"
           => /\ Settled
              /\ job[j].previous \in {stack.image, NoImage}]_job
  BY <1>1
<1> QED
  BY <1>2, InitInv, Inductive, InitPrompt, PromptStep, PTL
  DEF Spec, RecoveredMeansRestored

=============================================================================
