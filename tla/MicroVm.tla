------------------------------ MODULE MicroVm -------------------------------
(* The life of one micro-VM name (packages/vm): the commands up,           *)
(* up --cluster, start, stop and delete, each a short-lived process of its *)
(* own, and the detached host process (the command run) that holds the     *)
(* hypervisor session.  They meet only in the files of the VM's directory: *)
(* the spec, the pidfile, bringup.json and the readiness markers.          *)
(* A spec is core or cluster; an agent-only VM differs from core in the    *)
(* name of its marker alone.  The backend is vz.                           *)
EXTENDS Naturals

CONSTANTS
    Clients,    \* callers of the commands: terminals, the desktop, scripts
    MaxCalls,   \* bound: commands; the n-th spawns host n, if it spawns one
    MaxDeaths,  \* bound: processes killed
    Slow,       \* preparing the boot may outlast the grace up gives it
    None

ASSUME MicroVmAssumption ==
    /\ MaxCalls \in Nat \ {0}
    /\ MaxDeaths \in Nat
    /\ Slow \in BOOLEAN
    /\ None \notin 1..MaxCalls /\ None \notin {"core", "cluster"}

Hosts == 1..MaxCalls
Kinds == {"core", "cluster"}

VARIABLES
    dir,      \* the VM's directory is there
    spec,     \* vm.json
    pidfile,  \* vm.pid: a host, or None
    phase,    \* bringup.json: None, or who wrote what
    marker,   \* core-ready and kubeconfig.yaml: None, or who wrote them
    host,     \* per host process: its main and its services thread
    client,   \* per client: where it is in its command
    calls,    \* commands begun
    deaths,   \* processes killed
    raced     \* noted: a command that had found no host spawned one, or
              \* cleared files, when there was one after all

files == <<dir, spec, pidfile, phase, marker>>
vmVars == <<files, host, client, calls, deaths, raced>>

\* "busy" is every phase but the two that end a bring-up.  bringup.json is
\* truncated, then filled: while it is empty it reads like none at all.
Phases == {None} \cup [by : Hosts, name : {"busy", "ready", "failed"}]

\* Before "boot" the default action of SIGTERM ends the process, from then
\* on the handler asks the main loop to.
Early  == {"prepare", "fetch", "clear", "media", "assemble"}
Guest  == {"park", "halt"}
Living == Early \cup {"boot", "unpid"} \cup Guest
HostPcs == {"unborn", "gone"} \cup Living
ServicePcs == {"none", "shell", "core", "api", "kube", "ingress", "last",
               "ready", "failed", "done"}

Host == [pc : HostPcs, svc : ServicePcs, kind : Kinds, half : BOOLEAN,
         term : BOOLEAN, wild : BOOLEAN]
Unborn == [pc |-> "unborn", svc |-> "none", kind |-> "core", half |-> FALSE,
           term |-> FALSE, wild |-> FALSE]

ClientPcs == {"idle", "load", "pid", "await", "check", "clear", "spawn",
              "poll", "look", "seek", "remove"}
Client == [pc : ClientPcs, op : {"up", "start", "stop", "delete"},
           kind : Kinds, call : {None} \cup Hosts, saw : Phases,
           old : SUBSET Hosts]
Idle == [pc |-> "idle", op |-> "up", kind |-> "core", call |-> None,
         saw |-> None, old |-> {}]

VmInit ==
    /\ dir = FALSE
    /\ spec = None
    /\ pidfile = None
    /\ phase = None
    /\ marker = [k \in Kinds |-> None]
    /\ host = [h \in Hosts |-> Unborn]
    /\ client = [c \in Clients |-> Idle]
    /\ calls = 0
    /\ deaths = 0
    /\ raced = FALSE

-----------------------------------------------------------------------------
(* What is read and written by all of them.                                *)

Lives(h) == host[h].pc \in Living
VmOn(h) == host[h].pc \in Guest

\* Fault: the process the pidfile names is not probed.
LivePid_Unprobed(h) == pidfile = h

LivePid(h) == pidfile = h /\ Lives(h)

NoLivePid == \A h \in Hosts : ~LivePid(h)

Exited == [Unborn EXCEPT !.pc = "gone"]

Main(h, pc) == host' = [host EXCEPT ![h].pc = pc]
Serve(h, svc) == host' = [host EXCEPT ![h].svc = svc]
Exit(h) == host' = [host EXCEPT ![h] = Exited]

\* fs::write of bringup.json, by a boot that then goes on; without the
\* directory nothing happens, and nobody is told.
Empties(h) ==
    /\ ~host[h].half
    /\ phase' = None
    /\ host' = [host EXCEPT ![h].half = TRUE]

Fills(h, name) ==
    /\ host[h].half
    /\ phase' = IF dir THEN [by |-> h, name |-> name] ELSE None

\* A readiness marker: only that it is there matters.
Mark(h, kind) ==
    /\ dir
    /\ marker' = [marker EXCEPT ![kind] = h]

-----------------------------------------------------------------------------
(* The main thread of a host process: run, then run_foreground().          *)

HostOnly == UNCHANGED <<client, calls, deaths, raced>>
NotPhase == UNCHANGED <<dir, spec, pidfile, marker>>

HostReadsSpec(h) ==
    /\ host[h].pc = "prepare"
    /\ spec' = IF spec = None THEN "core" ELSE spec
    /\ dir' = TRUE
    /\ host' = [host EXCEPT ![h].pc = "fetch", ![h].kind = spec']
    /\ UNCHANGED <<pidfile, phase, marker>> /\ HostOnly

\* The disks and the boot artifacts, which may have to be downloaded.
HostWritesPid(h) ==
    /\ host[h].pc = "fetch"
    /\ dir' = TRUE
    /\ pidfile' = h
    /\ Main(h, "clear")
    /\ UNCHANGED <<spec, phase, marker>> /\ HostOnly

HostFetchFails(h) ==
    /\ host[h].pc = "fetch"
    /\ Exit(h)
    /\ UNCHANGED files /\ HostOnly

HostClears(h) ==
    /\ host[h].pc = "clear"
    /\ phase' = None
    /\ Main(h, "media")
    /\ NotPhase /\ HostOnly

HostEntersMedia(h) ==
    /\ host[h].pc = "media"
    /\ \/ Empties(h)
       \/ /\ Fills(h, "busy")
          /\ host' = [host EXCEPT ![h].half = FALSE, ![h].pc = "assemble"]
    /\ NotPhase /\ HostOnly

\* The boot media is built, then the markers of the last boot go.
HostWipes(h) ==
    /\ host[h].pc = "assemble"
    /\ dir
    /\ marker' = [k \in Kinds |-> None]
    /\ host' = [host EXCEPT ![h].pc = "boot", ![h].wild = FALSE]
    /\ UNCHANGED <<dir, spec, pidfile, phase>> /\ HostOnly

HostAssemblyFails(h) ==
    /\ host[h].pc = "assemble"
    /\ Main(h, "unpid")
    /\ UNCHANGED files /\ HostOnly

\* start_vm(): the hypervisor starts the guest, and the services with it ...
HostBoots(h) ==
    /\ host[h].pc = "boot"
    /\ host' = [host EXCEPT ![h].pc = "park", ![h].svc = "shell"]
    /\ UNCHANGED files /\ HostOnly

\* ... or refuses.
HostIsRefused(h) ==
    /\ host[h].pc = "boot"
    /\ Main(h, "unpid")
    /\ UNCHANGED files /\ HostOnly

\* The guest powers itself off.
GuestStops(h) ==
    /\ host[h].pc = "park"
    /\ Main(h, "unpid")
    /\ UNCHANGED files /\ HostOnly

\* Fault: the pidfile goes when the stop is heard, before the guest is down.
HostHears_Unpids(h) ==
    /\ host[h].pc = "park"
    /\ host[h].term
    /\ pidfile' = None
    /\ Main(h, "halt")
    /\ UNCHANGED <<dir, spec, phase, marker>> /\ HostOnly

HostHears(h) ==
    /\ host[h].pc = "park"
    /\ host[h].term
    /\ Main(h, "halt")
    /\ UNCHANGED files /\ HostOnly

\* stop_vm(): up to 25 s during which the services keep running.
HostHalts(h) ==
    /\ host[h].pc = "halt"
    /\ Main(h, "unpid")
    /\ UNCHANGED files /\ HostOnly

\* clear_pidfile() removes the file, whomever it names, and run returns.
HostExits(h) ==
    /\ host[h].pc = "unpid"
    /\ pidfile' = None
    /\ Exit(h)
    /\ UNCHANGED <<dir, spec, phase, marker>> /\ HostOnly

-----------------------------------------------------------------------------
(* Its services thread: host_services(), then wait_platform_ready().  The  *)
(* phases between Media and Ready are one, "busy"; that one of them is     *)
(* written anew matters once a marker is there, hence at "ingress".        *)

Serving(h, svc) == host[h].svc = svc /\ host[h].pc \in {"park", "halt", "unpid"}

Publishes(h, at, name, next) ==
    /\ Serving(h, at)
    /\ \/ Empties(h)
       \/ /\ Fills(h, name)
          /\ host' = [host EXCEPT ![h].half = FALSE, ![h].svc = next]
    /\ NotPhase /\ HostOnly

\* Each wait has a deadline of its own: the guest answers, or it passes.
Waits(h, at, next) ==
    /\ Serving(h, at)
    /\ Serve(h, next)
    /\ UNCHANGED files /\ HostOnly

Writes(h, at, kind, next) ==
    /\ Serving(h, at)
    /\ Mark(h, kind)
    /\ Serve(h, next)
    /\ UNCHANGED <<dir, spec, pidfile, phase>> /\ HostOnly

\* The address, the forwards, then the core vsock shell.
ServiceGetsShell(h) == Waits(h, "shell", "core")

\* What the spec the host read asks of the boot beyond the shell.
AfterShell(h) == IF host[h].kind = "cluster" THEN "api" ELSE "ready"

ServiceMarksCore(h) == Writes(h, "core", "core", AfterShell(h))

ServiceGetsApi(h) == Waits(h, "api", "kube")

ServiceMarksCluster(h) == Writes(h, "kube", "cluster", "ingress")

ServiceEntersIngress(h) == Publishes(h, "ingress", "busy", "last")

ServiceGetsRoutes(h) == Waits(h, "last", "ready")

ServiceIsReady(h) == Publishes(h, "ready", "ready", "done")

\* A port that is taken, a wait that runs out, a marker not written.
ServiceGivesUp(h) ==
    /\ \E at \in {"shell", "core", "api", "kube", "last"} : Serving(h, at)
    /\ ~host[h].half
    /\ Serve(h, "failed")
    /\ UNCHANGED files /\ HostOnly

ServiceFails(h) == Publishes(h, "failed", "failed", "done")

-----------------------------------------------------------------------------
(* The commands.                                                           *)

ClientOnly == UNCHANGED <<calls, deaths, raced>>
Counts == UNCHANGED <<calls, deaths>>

\* A command that had found no host acts as if there still were none;
\* noted is whether there is one, or was one since an up looked.
Assumes(c) ==
    raced' = (raced \/ \E h \in Hosts :
                \/ Lives(h)
                \/ client[c].op = "up" /\ host[h].pc = "gone" /\ h \notin client[c].old)

Goes(c, pc) == client' = [client EXCEPT ![c].pc = pc]
Rests(c) == client' = [client EXCEPT ![c] = Idle]

\* Anyone may run any command next.
Begin(c) ==
    /\ client[c].pc = "idle"
    /\ calls < MaxCalls
    /\ calls' = calls + 1
    /\ \E op \in {"up", "start", "stop", "delete"}, kind \in Kinds :
         /\ op # "up" => kind = "core"
         /\ client' = [client EXCEPT ![c] =
              [Idle EXCEPT !.op = op, !.kind = kind,
                           !.call = IF op \in {"up", "start"} THEN calls' ELSE None,
                           !.pc = CASE op = "up" -> "load"
                                    [] op = "delete" -> "seek"
                                    [] OTHER -> "pid"]]
    /\ UNCHANGED <<files, host, deaths, raced>>

\* ensure_spec_for_up(), and for --cluster the promotion of what it found:
\* it is stored, and what runs is then stopped first.
LoadSpec(c) ==
    /\ client[c].pc = "load"
    /\ dir' = TRUE
    /\ spec' = IF client[c].kind = "cluster" THEN "cluster"
               ELSE IF spec = None THEN "core" ELSE spec
    /\ client' = [client EXCEPT
         ![c].kind = IF client[c].op = "up" THEN spec' ELSE @,
         ![c].pc = IF client[c].op = "start" THEN "spawn"
                   ELSE IF spec' = "cluster" /\ spec # "cluster" THEN "pid"
                   ELSE "check"]
    /\ UNCHANGED <<pidfile, phase, marker, host>> /\ ClientOnly

\* SIGTERM ends a host at once or is noted for its main loop.
Terminated(h) ==
    IF host[h].pc \in Early THEN Exited ELSE [host[h] EXCEPT !.term = TRUE]

\* stop and the promotion ask the host they find to stop; start is content
\* with it.
FindHost(c, h) ==
    /\ client[c].pc = "pid"
    /\ LivePid(h)
    /\ IF client[c].op = "start" THEN UNCHANGED host
       ELSE host' = [host EXCEPT ![h] = Terminated(h)]
    /\ IF client[c].op = "up" THEN Goes(c, "await") ELSE Rests(c)
    /\ UNCHANGED files /\ ClientOnly

FindNone(c) ==
    /\ client[c].pc = "pid"
    /\ NoLivePid
    /\ CASE client[c].op = "start" -> Goes(c, "load")
         [] client[c].op = "stop" -> Rests(c)
         [] OTHER -> Goes(c, "check")
    /\ UNCHANGED <<files, host>> /\ ClientOnly

\* The promotion waits, 30 s at most, until nothing runs.
AwaitStop(c) ==
    /\ client[c].pc = "await"
    /\ NoLivePid
    /\ Goes(c, "check")
    /\ UNCHANGED <<files, host>> /\ ClientOnly

\* Noted with it: the boots that have ended by now, whose files the poll
\* must not go by.  A host of start, which clears nothing, is excepted
\* until it wipes them itself (README, "Divergences").
Check(c) ==
    /\ client[c].pc = "check"
    /\ client' = [client EXCEPT
         ![c].pc = IF NoLivePid THEN "clear" ELSE "poll",
         ![c].old = {h \in Hosts : /\ host[h].pc = "gone"
                                   /\ \A g \in Hosts : LivePid(g) => ~host[g].wild}]
    /\ UNCHANGED <<files, host>> /\ ClientOnly

\* Fault: up spawns the host without clearing the last boot's files.
ClearBringup_Skipped(c) ==
    /\ client[c].pc = "clear"
    /\ Assumes(c)
    /\ Goes(c, "spawn")
    /\ UNCHANGED <<files, host>> /\ Counts

\* The markers and the phase of the last boot.
ClearBringup(c) ==
    /\ client[c].pc = "clear"
    /\ marker' = [k \in Kinds |-> None]
    /\ phase' = None
    /\ Assumes(c)
    /\ Goes(c, "spawn")
    /\ UNCHANGED <<dir, spec, pidfile, host>> /\ Counts

Spawn(c) ==
    /\ client[c].pc = "spawn"
    /\ dir' = TRUE
    /\ host' = [host EXCEPT ![client[c].call].pc = "prepare",
                            ![client[c].call].wild = client[c].op = "start"]
    /\ Assumes(c)
    /\ IF client[c].op = "start" THEN Rests(c) ELSE Goes(c, "poll")
    /\ UNCHANGED <<spec, pidfile, phase, marker>> /\ Counts

\* The poll loop of up: the phase is read, and Failed comes first ...
Poll(c) ==
    /\ client[c].pc = "poll"
    /\ IF phase # None /\ phase.name = "failed"
       THEN Rests(c)
       ELSE client' = [client EXCEPT ![c].pc = "look", ![c].saw = phase]
    /\ UNCHANGED <<files, host>> /\ ClientOnly

\* A phase that cannot be read is taken for an engine that wrote none.
ReadyPhase(p) == p \in {None} \cup [by : Hosts, name : {"ready"}]

\* ... then up_bringup_ready(), with the marker its spec calls for.
LooksReady(c) == ReadyPhase(client[c].saw) /\ marker[client[c].kind] # None

ReportReady(c) ==
    /\ client[c].pc = "look"
    /\ LooksReady(c)
    /\ Rests(c)
    /\ UNCHANGED <<files, host>> /\ ClientOnly

\* The host up spawned may still be on its way to its pidfile.
InGrace(c) == ~Slow /\ host[client[c].call].pc \in {"prepare", "fetch"}

PollAgain(c) ==
    /\ client[c].pc = "look"
    /\ ~LooksReady(c)
    /\ Slow \/ InGrace(c) \/ ~NoLivePid
    /\ client' = [client EXCEPT ![c].pc = "poll", ![c].saw = None]
    /\ UNCHANGED <<files, host>> /\ ClientOnly

\* "VM host process exited during startup", once the grace is over.
ReportExit(c) ==
    /\ client[c].pc = "look"
    /\ ~LooksReady(c)
    /\ NoLivePid /\ ~InGrace(c)
    /\ Rests(c)
    /\ UNCHANGED <<files, host>> /\ ClientOnly

\* Its --timeout, and the 30 s of the promotion.
TimesOut(c) ==
    /\ client[c].pc \in {"poll", "await"}
    /\ Rests(c)
    /\ UNCHANGED <<files, host>> /\ ClientOnly

\* delete: refused while a host lives ...
SeekHost(c) ==
    /\ client[c].pc = "seek"
    /\ IF NoLivePid THEN Goes(c, "remove") ELSE Rests(c)
    /\ UNCHANGED <<files, host>> /\ ClientOnly

\* ... then the whole directory goes.
RemoveDir(c) ==
    /\ client[c].pc = "remove"
    /\ dir' = FALSE
    /\ spec' = None
    /\ pidfile' = None
    /\ phase' = None
    /\ marker' = [k \in Kinds |-> None]
    /\ Assumes(c)
    /\ Rests(c)
    /\ UNCHANGED host /\ Counts

\* A command is interrupted, or a host process killed.
ClientDies(c) ==
    /\ client[c].pc # "idle"
    /\ deaths < MaxDeaths
    /\ deaths' = deaths + 1
    /\ Rests(c)
    /\ UNCHANGED <<files, host, calls, raced>>

HostDies(h) ==
    /\ Lives(h)
    /\ deaths < MaxDeaths
    /\ deaths' = deaths + 1
    /\ Exit(h)
    /\ UNCHANGED <<files, client, calls, raced>>

-----------------------------------------------------------------------------
HostMainStep(h) ==
    \/ HostReadsSpec(h) \/ HostWritesPid(h) \/ HostFetchFails(h)
    \/ HostClears(h) \/ HostEntersMedia(h) \/ HostWipes(h)
    \/ HostAssemblyFails(h) \/ HostBoots(h) \/ HostIsRefused(h)
    \/ HostHears(h) \/ HostHalts(h) \/ HostExits(h)

ServiceStep(h) ==
    \/ ServiceGetsShell(h) \/ ServiceMarksCore(h) \/ ServiceGetsApi(h)
    \/ ServiceMarksCluster(h) \/ ServiceEntersIngress(h) \/ ServiceGetsRoutes(h)
    \/ ServiceIsReady(h) \/ ServiceGivesUp(h) \/ ServiceFails(h)

CommandStep(c) ==
    \/ LoadSpec(c) \/ (\E h \in Hosts : FindHost(c, h)) \/ FindNone(c)
    \/ AwaitStop(c) \/ Check(c) \/ ClearBringup(c) \/ Spawn(c) \/ Poll(c)
    \/ ReportReady(c) \/ PollAgain(c) \/ ReportExit(c) \/ SeekHost(c)
    \/ RemoveDir(c)

VmNext ==
    \/ \E c \in Clients : Begin(c) \/ CommandStep(c) \/ TimesOut(c) \/ ClientDies(c)
    \/ \E h \in Hosts : HostMainStep(h) \/ ServiceStep(h) \/ GuestStops(h) \/ HostDies(h)

VmSpec == VmInit /\ [][VmNext]_vmVars

\* Processes get to run; nobody has to call, to die or to power off, and
\* no timeout of a command has to fire.
VmFairSpec ==
    /\ VmSpec
    /\ \A c \in Clients : WF_vmVars(CommandStep(c))
    /\ \A h \in Hosts : WF_vmVars(HostMainStep(h)) /\ WF_vmVars(ServiceStep(h))

-----------------------------------------------------------------------------
VmTypeOK ==
    /\ dir \in BOOLEAN
    /\ spec \in {None} \cup Kinds
    /\ pidfile \in {None} \cup Hosts
    /\ phase \in Phases
    /\ marker \in [Kinds -> {None} \cup Hosts]
    /\ host \in [Hosts -> Host]
    /\ client \in [Clients -> Client]
    /\ calls \in 0..MaxCalls
    /\ deaths \in 0..MaxDeaths
    /\ raced \in BOOLEAN

\* A VM that is on can be found - by stop, status, delete and the next up -
\* through the pidfile, unless a second host was spawned beside a first or
\* the directory was removed under a host (the two races of the README).
RunningVmIsFound ==
    raced \/ \A h \in Hosts : VmOn(h) => LivePid(h)

\* What an up reports ready on - the phase it read, the marker it saw - is
\* not left over from a boot that had ended before the up looked for a
\* host, unless there was one of the two races.  To an up that finds a host
\* of start that has not yet wiped the files, no boot counts as ended.
Reports(c) ==
    client[c].pc = "look" /\ LooksReady(c) /\ client'[c].pc = "idle" /\ deaths' = deaths

Fresh(c) ==
    LET saw == client[c].saw IN
    /\ saw # None => saw.by \notin client[c].old
    /\ marker[client[c].kind] \notin client[c].old

ReadyIsOfThisBoot ==
    [][\A c \in Clients : Reports(c) => Fresh(c) \/ raced]_vmVars

\* An up that polls comes to an end without its --timeout, unless the host
\* it watches booted as core while it waits for the cluster, or a second
\* host was spawned beside a first.
Polling(c) == client[c].pc \in {"poll", "look"}

InVain(c) ==
    client[c].kind = "cluster" /\ \E h \in Hosts : LivePid(h) /\ host[h].kind = "core"

EveryUpSettles ==
    \A c \in Clients : []<>(~Polling(c) \/ InVain(c) \/ raced)

=============================================================================
