# A verification project for appliance.sh

TLA+ models of the parts of this repository where steps of several actors
interleave: TLC checks them on small instances, TLAPS proves the theorems for
every value of the constants.  Every definition is translated from the source;
`PROJECT.json` maps each one to the lines it stands for and lists the runs, the
mutants of the code that the properties must catch, the hazards and the theorems.

## The system

appliance.sh deploys applications to a cloud account or to a local cluster in a
micro-VM.  Its packages, the state each keeps, and what is hard about it:

| Part (`src/packages/...`) | State | Operations | Hard |
|---|---|---|---|
| `api-server`: deployments (`deployment.service`, `deployment-executor.service`, `environment.service`) | one stored record per deployment and per environment, the live Pulumi stack of a worker | execute, continue, cancel, the worker, updateStatus | API and worker are different invocations over storage without transactions; busy check and flip are separate awaits; a dispatch may fail, be aborted or be lost; workers die; edge deployments take several passes |
| `api-server`: self-update (`self-update.service`, `self-update-executor.service`, `-scheduler.service`) | control record (high-water mark, lease), jobs, idempotency bindings, the CloudFormation stack, the availability marker | create, get and resume, claim, heartbeat, finish, executor and its recovery, periodic check | leases that expire, zombies, recovery of an update whose worker was killed, rollback of releases |
| `api-server`: storage (`storage.service`, `filesystem-object-store`, `s3-object-store`) | objects with versions, `.lock` files | get, set, setIfAbsent, setIfVersion, delete, list | stale locks, delete beside compare-and-set |
| `api-server`: base config (`base-config.service`, `-writer`) | one S3 object, a shared cache, one in-flight read | resolve, update, clearCache | a late answer replaces a newer cache; 304 without a cache |
| `api-server`: keys, invites (`api-key.service`, `invite.service`) | one record each | create, rotate, revoke, redeem, note a use | read-modify-writes without versions, requests that die half-way |
| `api-server`: upload tokens, variables, tenancy, authentication, builds, health, workloads | a record per project, or none | per request | plain read-modify-writes |
| `sdk` | schemas, signing, HTTP client | pure | -- |
| `infra`, `install-aws` | Pulumi programs, a CloudFormation template, cluster objects | declarative; edge convergence under a soft deadline | the yield of an edge pass |
| `bootstrap` | the state of an installation in three phases | run, promote, demote, teardown | resuming after a crash |
| `cli`, `credential-store`, `credhelper`, `vm/profiles`, desktop `profiles_lock` | `profiles.json`, `credentials.json`, `profiles.json.lock`, `able.lock` | read-modify-write under a lock file shared by four programs | one of them steals stale locks and goes on unlocked, the others wait and give up |
| `credhelper/able` | account tokens and a generation | login, refresh, sign-out | a late login or refresh after a sign-out |
| `cli`: entitlements (`entitlements`, `entitlement-lock`, `credential-store`) | a signed history of grants, its anchor, the device key, a lock file | install, run, list, revoke, uninstall | two files that must agree, a lock that is reaped, copies put back |
| `cli`: app runtime (`appliance-runtime`) | a registry of installed apps, firewall rules, users | first run, allocate, revoke | registry read-modify-writes |
| `desktop` | cluster registry, heal records, catalogue floor | heal, sync, commands | copying its registry into the shared file |
| `vm`: engine | `vm.json`, a pidfile, `bringup.json`, readiness markers, host processes | up, start, stop, delete | commands and detached hosts that meet only in files; stale markers and pidfiles |
| `vm`: network stack | per flow a socket, a bridge and two threads | connect, serve, pump, reap | back-pressure across threads, half-closes, resets |
| `app`, `console`, `ui` | React state | views | -- |
| `helper`, `examples`, `docs`, `rfcs`, `scripts` | -- | installers, samples, text | -- |

They interact like this.  An API invocation writes a record and sends its id in
an HTTP event to a worker invocation; both then talk only through storage, the
worker by polling the record for a cancel.  The environment record is the lock
that keeps actions off each other's stack.  The self-update service puts a
compare-and-set lease in front of its worker, which alone talks to CloudFormation;
clients poll the job, and a poll that finds its lease expired starts another
worker.  An edge deployment attaches its result to the base config, which later
requests resolve through a per-process cache.  CLI, desktop, engine and credential
helper meet only in `~/.appliance`; the engine's commands and its host processes
only in the directory of a VM; a guest and the outside world only through a bridge
of two buffers.

What makes each part correct:

* deployments: no two actions on one stack; the environment is busy while one
  runs; every deployment settles and every environment is released; one edge pass
  at a time; a cancel converges.
* self-update: no rollback of the high-water mark; only the lease holder submits
  updates; a finished job keeps its result and the result is true of the stack; a
  leased job finishes and a dead worker never blocks the installation for ever.
* object store: every operation is atomic and returns, beside crashes.
* base config: no writer takes another one's fields back; nobody is answered with
  a config older than its read.
* keys and invites: a rotation loses no key, a deleted key stays deleted, the first
  key is created once (these two the code does not keep: "Divergences"), a spent invite
  gives no key.
* shared profiles and account: no torn file and no lost update among programs that hold
  the lock; `credentials.json` follows the active profile; a token that was given up
  is not sent again; a sign-out cancels logins under way.
* entitlements: nothing is granted unasked, no accepted history is undone, a
  mutation that returned stays, a refusal has a cause, every command returns.
* engine: a running VM is found; ready means this boot; an `up` comes to an end.
* network stack: an end of stream is the other end's own and complete (of an inspected
  flow it need not be); ends, resets and losses reach the other side; finished flows
  give their place back.

## The modules

| Module | What it is |
|---|---|
| `Deployment`, `MCDeployment`, `DeploymentProofs` | the deployment lifecycle |
| `SelfUpdate`, `MCSelfUpdate`, `SelfUpdateProofs` | control-plane self-update: job service, executor, stack |
| `AtomicStore` | abstract specification: what an `ObjectStore` promises its callers |
| `ObjectStore`, `MCObjectStore`, `ObjectStoreProofs` | the filesystem object store, which implements it |
| `BaseConfig`, `MCBaseConfig`, `BaseConfigProofs` | the base config, its cache, its edge and installer writers |
| `Credentials`, `MCCredentials`, `CredentialsProofs` | API keys and invites |
| `SharedProfiles`, `MCSharedProfiles`, `SharedProfilesProofs` | the shared files of `~/.appliance` under four programs, and the account |
| `Entitlements`, `MCEntitlements`, `EntitlementsProofs` | the signed history of grants |
| `Netstack`, `MCNetstack`, `VmProofs` | one TCP flow through the userspace network stack |
| `MicroVm`, `MCMicroVm`, `VmProofs` | the life of one micro-VM name |

An `MC` module gives TLC what a `.cfg` cannot write: symmetry, functions, a constraint.
`AtomicStore` is the link between the parts: `ObjectStore` is shown to implement it, and
the modules of the api-server take its promise for granted when they make one storage
call one step.  Beyond that the parts share no state.

Operators whose name ends in `_Something` (`RefusedStatuses_NoRefresh`,
`Available_Stolen`, `OpenLock_Truncating`) are faults: a plausible bug in the
definition they stand next to.  No action uses them; a property is kept only if one
of them makes TLC refute it.

### Deployment

State: `record` and `environment` are the stored objects; `handler`, `canceller`
and `worker` hold the local variables of POST /deployments and /continue, of POST
/cancel, and of the worker of pass n of deployment d (a job `<<d, n>>`); `flip` is
the `updateStatus` call a process is in; `edgeConfig` tells whether the edge config
is attached.

Every storage call is an action, so everything between two awaits is atomic and
everything else interleaves.  `Admit` is `execute` up to its first write, `CreateRecord`
writes the record and enters `updateStatus` (`ReadEnvironment`, `WriteEnvironment`),
`Dispatch` sends the event.  `DispatchReturns` is an answer or the abort after five
seconds, which counts as delivered; `DispatchThrows` and `FailDispatch` are the catch
block.  `ContinueEdge`, `LeasePass`, `DispatchPass`, `RereadPass` and `UnleasePass` are
`continueEdge` with its compare-and-set.  `CancelRead` and `CancelWrite` are `cancel`, a
read and an unconditional write.  `WorkerReads` ... `WorkerFails` are
`executeDeployment`; `PollCancel` is its poller, which fires once and cancels the
stack only if there is one at that moment.  `WorkerDies` and `HandlerDies` stop a
process between two storage calls.

Abstracted: the Pulumi program or cluster client is one outcome (`Settle`); messages,
timestamps, builds and listings are left out; a continuation carries no prior
environment status, so the "Deployed" the executor falls back to is used.  Dispatch
faults are named: `refused` (no worker runs), `reset` (an error, yet the worker runs),
`lost` (aborted before delivery).

### SelfUpdate

State: `control` (high-water mark and lease), `job`, `binding`, `request` (POST and
GET), `worker` (one invocation each, so its name is also its random holder),
`timer` (the heartbeat that the interval of `withHeartbeat` has in flight), `stack`
(CloudFormation) and `faults` (how many have happened).

`Create` ... `ClearDispatched` are `create` and `dispatchOrFail`; `Resume`,
`RenewLease`, `UnholdJob` are `getAndResume`; `WorkerReads`, `ClaimLease`, `ClaimJob`,
`BeatLease`, `BeatJob`, `AssertHolder`, `FinishJob`, `ClearLease` are the service's calls
from a worker, each a step on the control record and then one on the job; `Verify` ...
`ProbeRecovered` are the executor.  `StackSettles` is CloudFormation, which is not in
this repository: an accepted update completes, is rolled back or fails.

Abstracted: a read and its compare-and-set are one action, for a lost race is retried
(MAX_CAS_ATTEMPTS exhausted, an error, is left out); a release is its generation
and its image has the same number; time is the expiry of leases and the deadlines of
the executor; the rounds of `pollHealth` send one heartbeat; the scheduler's dispatch
in process is an ordinary one; a stack without an ImageUri, a job whose `targetImage`
contradicts its release and a recovery without a previous image are left out, because
the service that writes the records never makes them.

Faults come from a budget: every kind in `Faults` may happen, at most `MaxFaults` times
in all.  The expiry of a lease is a fault (`slow`) only while a process still
attends to it; without an attending process it is the passing of time.

### AtomicStore and ObjectStore

`AtomicStore` is `packages/sdk/src/object-store/types.ts` as a specification: a call
takes effect at one instant between its start and its return, or throws without effect;
the call of a client that crashes takes effect once more or never.

`ObjectStore` is `filesystem-object-store.ts`: `file`, `lock` and `temp` are the files of a
key, its `.lock` and a writer's `.tmp`; `pc`, `req`, `tries`, `outcome` and `data` are the
call a client is in; `litter` marks keys beside which a crash has left a temporary file.
Each file operation is a step: the attempts at the lock file, the condition's read, the
write of the temporary file, the rename, the unlink of the lock; `delete` and reads take
no lock.  `Crash` leaves the lock `Orphan` and the temporary file behind.  The
refinement (`Calls`, `Atomic`) maps a call to pending until its rename, unlink or read
has happened.  It holds for `Segregated` collections: where a key is both deleted and
written with `setIfVersion`, a delete between check and rename is lost; the api-server
has no such collection (the comment at `Segregated` lists them).

### BaseConfig

`stored` is the S3 object; `cache` and `inFlight` are the repository of each process;
`task` is a request that resolves the config or an edge deployment that attaches or
detaches; `installer` is a run of `cloud-install.ts`.  A request to S3 is sent,
takes effect and is answered in three steps.  `Resolve` joins or starts the shared read;
`ReceiveGet` is everything that happens when its answer arrives (200, 304, an error),
for all tasks that wait for it; `ServePut` and `ReceivePut` are `update` with its
retries on a failed precondition.  A PUT that the SDK repeats after a lost answer may report 412
although it is in force (`retried`).  An ETag is the hash of the content, so a config
that returns to an earlier content has that content's ETag.

### Credentials

`keys` and `invites` are the stored records, `req` the requests under way, `touch` the
calls of `updateLastUsed` that no one awaits.  Each await on the storage is a step:
list and scan of `create-key`, mint, delete, put, remove, mark, note.  A request
may end at each of them (`RequestDies`: the process stops or the storage throws).  The
expiry of an invite is a step at any time.  The variables under "no state of the code"
remember what the properties speak of: with which role a key was minted, and which were
replaced or revoked.

### SharedProfiles

`live` are `profiles.json` and `credentials.json` as a reader finds them (absent, torn or
whole), `tmp` the temporary files, one for all programs; `lock` is
`profiles.json.lock`, `flock` the OS lock on `able.lock`; `config` the desktop's
registry.  A process is one run of the CLI, the engine, the desktop or the
credential helper and does one operation: `StartCli` ... `StartAccount`, then steps
from the lock through read, change, open, fill, rename and mirror to the unlock.  The
engine steals an old lock (`Steal`) and goes on without one (`GoUnlocked`); the CLI, the
helper and the desktop's pruning wait and give up; the desktop's copy after a
change of its own takes no lock at all (`CopyRegistry`).  `Die` stops a run before any
step; `RemoveLock` is the user who does what the message of a run that gave up asks for.

`orderly` remembers whether every writer has held the lock so far, and nobody has
removed it from under a live run; the properties speak of that case.  `BeyondOrder` is a
bound: whether runs go on after it.  `wiped` remembers that the engine has rewritten
`credentials.json` without the account's generation.

### Entitlements

`file`, `anchor`, `lock` and `deviceKey` are the four files; `proc` the commands.  A
command (`Begin`) reads and verifies the history against the anchor (`ReadView`), asks
the user, takes the lock, reads again, compares, appends its record, writes the
anchor, renames the store into place, and gives the lock back by its token.  `JudgeLock`, `ReapLock`
and `GiveUp` are the waiting for the lock.  `Die` and `Restore` are a killed process and
an older copy of the file put back.  A lock is judged stale in one step and unlinked in
another, and by then it may be the lock of somebody else; with `Overdue` it may also
be judged by its age although its owner lives.  `usurped` remembers that a lock was
removed from under the process that holds it; the safety properties speak of the
time until then.  A run re-reads the history twice before it starts its app and stamps
the grants it uses twice (`appliance-runtime.ts`): each pair is one step here.

### Netstack

One flow: `sock` is the smoltcp socket (state and two buffers), `bridge` the `Bridge` under
its mutex, `engine` the place of the engine thread in its loop, `main` the thread of
`connect_to()` or of the egress guard and later tcp -> bridge, `up` the thread bridge ->
tcp, `guest` the other end.  `EngineStep` is `poll`, `service_flow` or the reaping;
`MainStep` and `UpStep` are one lock of the mutex, or one call on the `TcpStream`,
each.  Data is counted in units: one stands for a batch of bytes.

Behind `Connect` the egress guard either splices the flow to its upstream (`StartPump` ...
`Join`) or, when the policy asks for it, inspects it: `intercept()` and `intercept_observe()`
of `mitm.rs` take one request from the guest and write one response, in one thread
(`InspectorReads` ... `UpstreamEnds`).  Their result is ignored, so an inspected flow
always ends without an abort.  Of TLS and HTTP remains that the inspector may read
more, write to the guest, be done with the request, or give up.

### MicroVm

`dir`, `spec`, `pidfile`, `phase` and `marker` are the directory of a VM; `host[n]` is the
detached process the n-th command has spawned, with its main and its services
thread; `client` a caller inside a command.  Each read or write of a file, spawn,
signal and poll is a step.  `raced` notes that a command which had found no host spawned
one, or cleared files, when there was one by then: from there the properties claim
nothing.  An agent-only VM is a core VM with another marker; the phases Booting,
Network and Cluster are one "busy"; reuse of pids, the port wait after readiness, key
minting and the egress proxy are left out.  The host clears its pidfile and exits in one step.

## The runs

| Run | Instance | Question | Result |
|---|---|---|---|
| `deploy_serial` | 2 deployments, 1 environment, 1 API invocation at a time, 1 canceller, 1 crash, refused and lost dispatches | do actions overlap, does the environment stay busy? | never; it does |
| `deploy_live` | an edge deployment of 3 passes and a plain one, 2 racing invocations, refused dispatches | do two passes work at once; does every deployment settle, is every environment released? | no; yes |
| `update_faults` | 2 jobs, 2 releases, 2 racing requests, any one fault | can an older release lease? | no |
| `update_live` | 2 jobs, 3 workers, polling clients; a worker is killed, a request dies or an AWS call fails | do leased jobs finish, is the installation blocked; are updates the holder's, are results final and true? | they do, it is not; they are |
| `store` | 2 clients, a deleted key and a versioned one, crashes anywhere, 2 tries | is the file store the atomic one; does every call return? | yes |
| `base_config` | 1 process, 2 tasks, 1 installer, 2 boundaries, errors and repeated PUTs | is a field taken back, an answer stale? | no |
| `credentials` | 3 keys, 1 invite, 2 requests and 1 `updateLastUsed` at a time, deaths anywhere | is a key lost by a rotation, minted while one that `create-key` met stands, or given for a spent invite? | no |
| `profiles` | 2 runs of the CLI, the engine, the desktop, 2 names, 1 death | torn files, lost updates, a stale mirror? | none, while all hold the lock |
| `account` | 2 runs of the helper beside the CLI and the engine, 1 death | is a dead token sent, a cancelled login stored, the account lost to a CLI? | no, while all hold the lock and the engine has not dropped the generation |
| `netstack` | 2 units each way, buffers of one unit, spliced and inspected flows | are ends complete, do they arrive, are flows reaped? | yes, except for what an inspected upstream kept back and flows reset in their handshake |
| `entitlements` | 2 processes, 2 commands, 1 death, 1 restored copy | is history undone, a mutation lost, a refusal without cause, a grant unasked, a command stuck? | no, until a lock is removed from under its owner |
| `microvm` | 2 callers, 2 commands, 1 death | is a running VM lost, an old boot's readiness reported, an `up` stuck? | no, until two callers race |

Deadlock is checked in `netstack`, whose engine never stops.  Everywhere else the ids,
commands or runs are used up in the end, which is no deadlock of the program.  Ids,
processes and values are model values, interchangeable and symmetric in the runs
without liveness where nothing but the order of reading depends on them.

### Bounds

The bounds are the constants named in each module (`MaxPasses`, `MaxCrashes`, `MaxGen`,
`MaxFaults`, `MaxTries`, `MaxAttempts`, `MaxDeaths`, `MaxCalls`, `MaxRestores`,
`MaxUnits`, `BeyondOrder`) and the sizes of the sets of ids.

Two deployments of one environment are the smallest instance in which a busy check
can fail, a status be restored by a Refresh and a late write be overtaken;
different environments share nothing but the edge flag.  Three passes let a lease be
handed back and taken again.  One crash can hit every window between two writes; with
two the only new behaviours are two independent stuck records.  In SelfUpdate, two jobs
are a job and the one that takes its lease over; two generations an older and a newer
release; three workers a killed one, its replacement and that of the other job;
`update_faults` gives up two workers for a second concurrent request.  One fault
kills or fails a worker whose job another then resumes; the theorems have any number.

In `store`, two clients meet in every order at the lock, the condition and the rename,
and a crash leaves both kinds of litter; a third waits like the second.  In
`base_config`, two tasks share a read or cross a read with an update, while the
installer changes the object behind them.  `credentials` has the keys for a rotation
of a rotated key, and two requests that meet on an invite.  `profiles` and `account`
would be one run if it were small enough: the first has no helper, the second no
desktop and the engine and the CLI as the programs that rewrite `credentials.json`;
`SharedProfilesProofs` covers all of them together.  Buffers of one unit with two units
to send make each buffer of a flow full and empty while data waits behind it.  Two
commands of two processes meet at every call of the history's lock, with `Overdue` FALSE;
with it (1.0 million states), and with three commands (3.9 million), the safety
properties hold too, but that is too much for the liveness.  `microvm` with 3 commands and 2 deaths holds too, its safety
alone (1.9 million states).

### Fairness

`Deployment!FairSpec`: weak fairness of each process that has begun (an awaited promise
settles, an invocation that is not killed goes on), of the cancel poller's interval
and of the end of the action.  Clients owe nothing.

`SelfUpdate!FairSpec`: weak fairness of requests, workers, CloudFormation and time (an
unattended lease expires), and strong fairness of polls: `appliance` and the console
poll GET /self-update/:id until the job is finished, and a poll that meets a busy
request slot comes again.  Without polling nothing in the code would restart a killed
worker.

`ObjectStore!FairSpec`: a file operation that has been started completes.  The lock's
own retries are bounded by the code (`MaxTries`), so nothing else is needed.

`Netstack!FairSpec`: the engine loops, threads run, a requested connection is tried;
strong fairness of smoltcp's timers and of the acknowledgements of a guest that is
there, for both are enabled again and again between polls.  Nobody has to connect,
send or close, and an external stream may stay silent.  An inspector reads, writes and
hears the end of the guest's stream; that it has a whole request, answers it, or hears
from its upstream (`InspectStep`) is up to others, and not fair.

`Entitlements!FairSpec`: a running process takes its next step, and one that finds the
lock held again and again finds in the end that its five seconds are over (strong,
for each failed attempt disables the look at the clock and enables it again).

`MicroVm!VmFairSpec`: processes get to run.  Nobody has to call, die or power off, and
no `--timeout` has to fire: `EveryUpSettles` is about an `up` that ends by itself.

## The proofs

Eight modules hold theorems; each extends the module it is about.  All theorems are
for every number of ids, processes, commands, crashes and faults unless an assumption
is named.  Where a property holds only until something happens that the code does not
prevent, the theorem says so in its formula: `Spec /\ [][~ A]_vars => ...` of the
behaviours in which the step `A` does not occur (`Reset`, `Contest`, `Lapse`), or a
variable that remembers it (`usurped`, `orderly`, `raced`).  Nothing else is assumed of
those behaviours: they have every fault and any number of processes.  The pattern is one
everywhere: an inductive invariant, one lemma per action (under it one step per conjunct
the action can disturb), and a temporal step.  An invariant was first checked by TLC on an
instance of its module.

`DeploymentProofs`

* `TypeCorrect`: `Spec => []TypeOK`.  Inductive invariant `TypeInv`: `TypeOK` with
  `RecordsExist` (a handler past its create and every delivered job have a record,
  which is never deleted; without it a read of `record[d]` may be of no record) and
  `LeaseInBounds` (a pass that is leased is not the last).
* `PassesTakeTurns`: until a `Reset` (a dispatch is reported failed whose worker goes on)
  the passes of an edge deployment never work at the same time, for racing
  continuations, forced cancels and crashes anywhere.  The strengthening `PassInv` is
  about claims: as long as a deployment is open or somebody works on it, at most one
  job at hand or one handler that sends or takes back a pass is there, and it is for
  the pass the record asks for; a pass that has thrown leaves a finished
  deployment.  The compare-and-set of `continueEdge` is what a new claim rests on: its
  copy must still be the record (`CopiesFit`).
* `UncontestedRunsNeverOverlap` and `UncontestedRunsAreBusy`: until a `Contest` two actions
  never run on one environment, and it is busy or deleted while one does.  A contest is
  one of the steps which the busy check does not guard against: a request is admitted
  to an environment where another invocation has not yet finished its own
  (`Disputed`), a cancel is forced or meets an edge deployment, or a `Reset`.  Any number of
  invocations may be under way otherwise, on one environment also with the workers and
  cancels of earlier deployments.  So the theorems say that the busy check does its
  part, and that actions overlap in no other way than by those steps; the first kind,
  two racing POSTs, the code does not prevent ("Divergences").
  `NoOverlappingRuns` is far from inductive: it depends on what the handlers
  are about to do and on what waits.  The strengthening `SerialInv` says that
  invocations are under way on different environments (`OneInvocation`), which
  environment each process is concerned with (`SameEnvironment`), who may be inside
  `updateStatus` and that nothing else is at work or waits there (`FlipsOwned`), that a
  handler about to dispatch, or to lease, send or hand back a pass (`Carries`), has its
  environment busy (`ReadyToDispatch`), that a live job, one that acts or has still to
  settle its environment, has it to itself (`LiveJobsOwn`), and that so has an edge
  deployment between two passes, when no process is there to hold it (`WaitingOwn`).  A
  handler with a pass to send finds no deployment waiting because the record asks for
  that very pass, which is `PassInv` again: the proof rests on the one of
  `PassesTakeTurns`.  Cancels of edge deployments count as a contest because
  `BusyWhileActing` is false there: a cancel that reads the record between two passes and
  writes it when the next one is at work marks the environment Failed under the worker
  (`BusyWhileActing` with one edge deployment, handler and canceller, 3 passes, forces
  {FALSE}).

`SelfUpdateProofs`: `UpdateTypeCorrect`, `LeaseHeldAtHighWater` and `HighWaterKept`, under
faults of every kind, all from the inductive invariant `Inv`.  `LeaseAtHighWater` is not
inductive: a refused request deletes the job it stored, and the lease could belong to
that job.  So `NewJobsStored` says that a request which may still delete its job stored
it with its own generation and is the only one to know it, and `ReferencesPublished`
that every job a request, worker or late heartbeat may write is not such a job.
`LeasePublished` says the same of the lease.  `ImageKnown` is for the types alone: a
worker behind `captureStack` has an image to go back to, and so has every stored
job that got there, for `recover` submits it.

Four more theorems of `SelfUpdateProofs` hold until a `Lapse`: a lease expires under a
process that attends to it, or a dispatch fails whose worker has not thrown.  Before that
everything may happen: workers are killed or paused, requests crash, dispatches are
refused or lost, calls of AWS fail at any point, evidence and deadlines expire.  The lease
is what the service relies on, and nothing fences a worker that has lost it, so there
is nothing to claim beyond ("Divergences").  They are `HolderMutates`, `TerminalStays`,
`SucceededOnTarget`, and `RecoveredOnPrevious` (this one without `expired` and `aws`: a worker
that rejects the evidence, or whose first look at the stack fails, reports "recovered"
without having seen it).  Their invariant is `Inv` with `PromptInv`, in four layers:

* `LeaseInv`: every request that still has to dispatch, withdraw or renew a lease, every
  worker that looks for an unclaimed one and every worker that has claimed one finds it
  live and its own (`ClaimsHold`), and of those that find it unclaimed there is one
  (`OneClaim`).  So whoever acts on the lease excludes all others; `MutatesAsHolder` follows.
  A worker that throws leaves its claim behind: the request that waits for it, and no
  resumption, may still fail the job (`Thrown`), for its dispatch is answered or times out
  before the lease expires (`HasLease`).
* `WaitsFit`: a request waits for a worker of its own, which works on the job of the request.
  Without it a worker could throw under somebody else's request.
* `JobsUnderWay`: what a request has yet to dispatch or fail, and a worker to finish, has no
  result.  The writes of `finish`, `abandon` and the error path of `dispatch` do not look at the
  status they overwrite; that they overwrite none is this invariant.
* `ResultInv`: what the worker takes for granted of the stack from one await to the next:
  where it probes the stack has settled; after the re-pin the stack is on its way to the
  previous image or there, and nobody else can submit; its copy of the release and the
  previous image is the job's (`KnowsJob`); so the result it carries to `finish` is true
  of the stack (`ResultTrue`).

`ObjectStoreProofs`: `ObjectStoreTyped`; `WritesOfAKeyTakeTurns` (the lock file belongs to
exactly the writer that is inside a write of the key); and under `Segregated`
`FileStoreIsAtomic`, the refinement: initial states map to initial states, and each
step to a step of `AtomicStore` or a stutter.  The invariant adds that what is renamed
is the whole value (`RenamesWholeValue`) and that a condition which was checked still holds
at the rename (`CheckedStillHolds`), which is where `Segregated` is needed.

`BaseConfigProofs`: `BaseConfigTyped`, `FieldsKeepTheirWriters` and `AnswersAreNotStale`, with
S3 errors and repeated PUTs.  The invariant says that a task which writes, writes what
it read with its own edge (`WritesItsEdge`), and that what is stored, cached or
answered while a read is in flight is among the contents since it was sent, except the
cache it was conditional on (`ReadKnowsRecent`): a 304 can answer with such a
cache only when that content was in force.

`CredentialsProofs`: `CredentialsTyped`, `RotationLosesNoKey`, `GateOutwaits` and
`SpentInviteGivesNoKey`, for requests that die at any await.  The
invariant relates each request to what it has read: a rotation deletes only what it has
replaced (`ReplacedBeforeDeleted`), the keys a `create-key` found standing are those it has
yet to scan (`StandingIsStored`), and a redemption mints only for an invite it has spent
(`SpentStaysSpent`).

`SharedProfilesProofs`: `SharedProfilesTyped`, `ReadersFindWholeFiles`, `MirrorIsOfTheActive`,
`TokensAreSentOnce`, `SignOutIsFinal`, and the action properties `NoUpdateIsLost` and
`OnlyTheHelperMovesTheAccount`, for all four programs together.  The invariant is
`Typed /\ LockExcludes /\ InOrder /\ Generations`: who works on the files holds the lock
and is alone, as long as `orderly`; then what a process has read, put in the
temporary file and is about to rename follows from the files as they are (`WritesFit`),
so a rename is one update of what was there; and a sign-in has noted a generation not
newer than the stored one, and an older one once it has been overtaken (`Generations`).

`EntitlementsProofs`: `EntitlementsTyped`, `LockExcludes`, `HistoryIsOne`, `NeverGoesBack`,
`MutationsStay`, `RefusalsAreCaused` and `GrantsAreAsked`, whether or not owners may be
`Overdue` and however late a judged lock is unlinked, for any number of deaths and
restored copies.  All but the first speak of the time until a lock is removed from under its
owner (`usurped`): that the lock excludes until then, and that no command undoes or loses
anything as long as it does, is what they say.  The centre is `HistInv`: there is one chain of which every store that was ever in place is a beginning, and the
anchor is never behind it; so a copy that verifies is the whole history.  `WriterInv`
says what a process with the lock is about to write, `FloorInv` and `DoneInv` what a reader
has seen and what a finished command has left.

`VmProofs`, on the flows of `Netstack`: `FlowTypeCorrect`, `EofIsComplete` and `FinIsComplete`,
for buffers of any size and for flows that are spliced or inspected.
The invariant accounts for every unit (`SentIsAccounted`, `ReadIsAccounted`: each is in one
place between its source and its reader) and says where an end may be published
(`NothingAfterFin`, `EofIsLast`, `ExtFinIsLast`).

`VmProofs`, on the life of a VM name (`MicroVm`, which shares no state with the flows; its names
begin with `Vm` where `Netstack` has the same): `VmTypeCorrect`, `VmIsFound` and the action
property `ReadyIsNew`, for any number of commands and deaths.  Neither property is inductive.  As long as nothing has raced, `VmInv` says that one host lives (`SoleHost`), that
the pidfile is its own once it has written it (`PidIsOfTheHost`), that the phase and markers
it finds are its own (`FilesAreOwn`; a host of `start` is exempt until it has
wiped them itself, for `start` leaves the files of the last boot), and that an up which has
cleared the files or found a host sees nothing of a boot it knows to have ended
(`FilesAreNew`).  Whether anything raced or not, each command has a number of its own and
spawns the host of that number at most once (`CallsFit`), what is in the files was
written by a host that had been born (`WrittenByBorn`), and what an up took for ended has ended
(`OldHaveEnded`): so a new host is nobody's leftover.

The assumptions on the constants are those the modules name, and TLC evaluates them in each
run: the `...Assumption`s (the constants are of the kinds their comments say, and the name of
the absent lease holder is no worker's) and `ProcessesDistinct`.  `Segregated` (of
`FileStoreIsAtomic`) and the absence of the faults `expired` and `aws` (of `RecoveredOnPrevious`)
are assumed only by the theorems that state them.

Only model-checked:

* liveness: `EveryDeploymentSettles`, `EveryEnvironmentReleased`, `LeasedJobFinishes`,
  `NeverBlockedForever`, `EveryCallReturns` (twice), `GuestEndReachesTheReader`,
  `ExternalEndReachesTheGuest`, `FinishedFlowsAreReaped`, `EveryUpSettles`.  The provers have no
  ENABLED, so nothing follows for them from fairness.

## Divergences

Where a document, comment or test says more than the code does.  The models contain
the behaviour; each recipe is an instance on which TLC shows it.  No run keeps these:
the properties that the runs check are those that do hold.

Deployments

* "Only one deployment can be active per environment at a time." (`ARCHITECTURE.md:177`)
  The busy check and the flip are separate awaits (`deployment.service.ts:38-55`, 100), so two
  invocations both pass it.  `NoOverlappingRuns` with two handlers, two deployments, actions
  {"Deploy"}, no faults.
* A worker that dies between the terminal record and `updateStatus`
  (`deployment-executor.service.ts:205`) leaves a busy environment whose deployments are all
  finished; a forced cancel has nothing to cancel.  `BusyCanBeReleased` with one
  deployment, one handler, one crash, forces {FALSE, TRUE}.
* A deployment cancelled before its worker's first read is skipped by the worker and
  settled by nobody (`deployment-executor.service.ts:113`).  `EveryCancelSettles` with one
  deployment, one handler, one canceller, `FairSpec`.
* `cancel` writes the record it read several awaits ago (`deployment.service.ts:328`), the
  executor its own (`deployment-executor.service.ts:122`, 342); the edge is attached before
  the record says so (:189); after a broken connection `continueEdge` hands the lease
  back beside a running worker (`OnePassAtATime` with `reset`).

Self-update

* UpdateStack is not fenced by the lease: a worker paused after its heartbeat submits
  beside its replacement.  `NoZombieMutation` with one job, two workers, faults {"slow"}.
* A resumed worker whose AWS call fails reports a recovery that has not happened
  (`self-update-executor.service.ts:344`).  `RecoveredMeansRestored` with {"killed", "aws"} and
  two faults, or with {"aws"} and three.
* A request that dies between taking over an expired lease and failing the old job leaves
  that job running for ever (`self-update.service.ts:258`); with `reset` a finished job may
  be rewritten (`TerminalStaysTerminal`).

Network stack

* "Any waiter on this flow must unblock with an error rather than hang"
  (`engine.rs:497-503`): a guest that resets an established flow while its bridge is full
  leaves the writer waiting.  `WaitersUnblock` on the instance of `netstack`.
* "Reap half-open / dead flows" (`engine.rs:261`, and 54-58): a guest that sends a SYN and then
  a RST puts the socket back to Listen, where smoltcp has no timer; `service_flow` reaps only
  Closed sockets (:602), so the flow counts against the cap (:287-294, 427) for ever.
  `HalfOpenFlowsAreReaped` on the instance of `netstack`; `FinishedFlowsAreReaped` leaves that
  case out.
* "any error aborts the flow so the other half unblocks" (`mod.rs:282-283`): an error of the
  thread bridge -> tcp is dropped (:303-308).  And the result of an inspection is ignored
  before `mark_ext_fin` (`guard.rs:595-597`): an upstream that breaks off ends in a clean FIN
  to the guest.  `FinMeansAllReceived` claims it of pumped flows alone.

Base config

* An ETag is the hash of the content.  A read that was sent conditional on one content
  may be answered 304 because the object has it again, and then returns the cache as it
  is by then, the result of an update of the same process: `AnswersAreRecent` counts
  what an update of the process has reported meanwhile.  A PUT that was repeated may be reported as failed
  although it is in force.

Shared files

* The engine removes a lock it takes for stale and goes on unlocked, and the desktop's
  copy takes none: with `BeyondOrder` TRUE, one CLI and one desktop, `NeverHalfWritten` is
  violated through the common temporary file (`lib.rs:1635-1637`, `vm/profiles.rs:333-334`).
* "leftover lock is reaped as stale" (`profiles-lock.ts:45`): the CLI reaps nothing, it asks its
  user to (`RemoveLock`).
* The engine rewrites `credentials.json` with three fields and drops the account and its
  generation, so a cancelled sign-in can commit (`able.rs:552`): `SignOutCancels` with one
  engine and two accounts.  The desktop's copy never updates `credentials.json`.

Credentials

* "the old secret stops verifying immediately" (`keys/index.ts:98-99`), "Permanently delete a
  key" (`api-key.service.ts:118`): `updateLastUsed`, which nobody awaits, reads the key and
  writes it back (:107-116), so a key that was deleted or rotated away in between is stored
  again and verifies, until it is deleted once more.  The request that rotates a key
  has started such a note itself.  `DeletedKeysStayDeleted` on the instance of `credentials`.
* "Appliance is already initialized" (`bootstrap/index.ts:22`): the gate lists the keys, reads
  them one by one, and mints some awaits later.  Two requests that both find none both mint;
  and a rotation that mints its replacement and deletes the old key after the list and
  before the read leaves none to find, though a key stood at all times.
  `FirstKeyIsFirst` on the instance of `credentials`.  `GateOutwaitsTheKeysItMet` is what is left:
  the gate waits for the keys that were there when the request arrived.
* Two redemptions that both read an invite before either marks it get two keys;
  `LateRedeemGetsNoKey` is about those that arrive after the mark.

Entitlements

* "never proceed unlocked" (`entitlement-lock.ts:20-22`) and the test "serializes
  cross-process writers without losing a CAS mutation": a lock is judged and unlinked in
  two calls, and its age decides even if its owner lives.  Without `usurped` in them
  `ReturnedMutationsStay` and `RefusalsHaveACause` are violated, with `Overdue` TRUE or with
  3 commands, one death and no restored copy.
* A reader without the lock, between anchor and rename, reports "Entitlement rollback
  detected"; a death there refuses every later command (`torn`; it fails closed).

Micro-VM

* An unreadable `bringup.json` counts as that of an older engine, and `fs::write`
  truncates first: a poll in between, with a marker there, reports ready.
* Preparing the boot may outlast the ten seconds `up` allows it (`Slow` TRUE): a second
  `up` spawns a second host.  So do a `start` directly followed by `up`, and two `up`s that
  both find nobody; the refused host clears the other's pidfile.  A delete removes the
  directory under a host that has come since.  These are the two races that
  `RunningVmIsFound` excuses by `raced`.
* `start` clears neither markers nor phase, so an `up` or `status` sees those of the old
  boot until the new host wipes them.
* `appliance vm reset`: its stop returns before the VM is down, so its delete refuses.
* An `up --cluster` that finds a host booted as core waits in vain (`InVain`) until its
  `--timeout`.

## Not modelled, and why

* `env-var.service` and `project.service`: a record is read, changed and written without a
  version, so of two concurrent changes of the variables of a project one is lost.  That
  is plain from three lines of code; a model would restate them.  Upload tokens are
  pure functions of a secret and the clock.
* The self-update scheduler: one more client that requests a release at any time, which
  `SelfUpdate` lets clients do.
* Tenancy, authentication, schemas, signing, clients and views are functions of one
  request or of React state.  Builds, health and workloads call external APIs and keep
  nothing.
* `infra` and `install-aws` declare resources.  The deployment through Kubernetes reads and
  replaces cluster objects: a scale that is set between `getDeploymentReplicas` and the
  replace is lost, which is the same three lines again.
* The app runtime (`appliance-runtime.ts`): its registry is read, changed and written
  without a lock, so two first runs can be given the same address, user and ports, and
  a concurrent registration is lost; the re-read before the policy is installed
  (:559-560) does not see a revocation that comes between the two.
* `bootstrap` is one process that runs three child programs in a row.
* Credential stores hold one secret per entry, each written by one program.  The models of
  the shared files are of the platforms where those files hold the secrets.
* The desktop's `migrate_legacy`, `seed_desktop_profiles`, `sync_microvm_cluster`,
  `unregister_microvm_cluster`, `persist_vm_profile_entry` and `set_cluster_state_backend`
  are further writers of the kind `CopyRegistry` and the engine are.  The healing of
  rejected keys is left out.
* The engine's other backends, its images (a copy and a normalisation that are not one
  step, downloads that share a `.partial` file), its network leases and hypervisor I/O.
* In the network stack the cap on flows, DNS and DHCP answers, and the text of the policy.

## The plan

1. `Deployment`: an abstract specification of environment ownership (idle, busy with one
   deployment, settled) that `Deployment` implements until a `Contest`.
2. The cap on flows of the network stack.
