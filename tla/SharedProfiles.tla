---------------------------- MODULE SharedProfiles ----------------------------
(***************************************************************************)
(* The files of ~/.appliance that four programs share: profiles.json, with  *)
(* the credentials of every cluster and the active one, and credentials.json *)
(* with a copy of the active profile and, beside it, the able account.       *)
(*   - a run of the CLI changes a profile (cli/src/utils/profile-store.ts);  *)
(*   - the micro-VM engine stores the key of its VM (vm/src/profiles.rs);    *)
(*   - the desktop copies its clusters there (desktop/src-tauri/src/lib.rs); *)
(*   - the credential helper signs in, refreshes and signs out               *)
(*     (credhelper/src/able.rs).                                             *)
(* Each process here is one such run or command, and does one operation.     *)
(* Every file operation is a step of its own, and a process may die before   *)
(* any of them.  A profile is abstracted to the key it holds, named after    *)
(* the process that stored it.  The platform is one whose credentials are    *)
(* in these files (not Windows, and no Keychain).                            *)
(***************************************************************************)
EXTENDS Naturals, FiniteSets

CONSTANTS
    Clis, Engines, Desktops, Accounts,   \* the processes, by program
    Ids,          \* names of profiles
    DefaultId,    \* the profile that an older credentials.json becomes
    VmId,         \* the profile of the engine's VM
    MaxDeaths,    \* how many runs may be killed: a bound
    BeyondOrder,  \* whether runs go on once one has written without the lock: a bound
    Old,          \* the key of a profile that is there from the start
    None          \* nothing: no key, no profile, no holder

Writers == Clis \cup Engines \cup Desktops
Processes == Writers \cup Accounts

ASSUME SharedProfilesAssumption ==
    /\ IsFiniteSet(Accounts)
    \* A process runs one program.
    /\ Clis \cap Engines = {} /\ (Clis \cup Engines) \cap Desktops = {}
    /\ Writers \cap Accounts = {}
    /\ {DefaultId, VmId} \subseteq Ids
    /\ {Old, None} \cap (Processes \cup Ids) = {}
    /\ Old # None
    /\ MaxDeaths \in Nat /\ BeyondOrder \in BOOLEAN

VARIABLES
    live,      \* the two files as a reader finds them
    tmp,       \* profiles.json.tmp and credentials.json.tmp
    lock,      \* profiles.json.lock: the process that created it, or None
    flock,     \* the OS lock on able.lock: its holder, or None
    config,    \* the desktop's own registry: its clusters with their keys, and the selected one
    issued,    \* generations and tokens handed out so far
    proc,      \* [Processes -> the run]
    \* No state of the code, the properties speak of them:
    orderly,   \* nobody has written without the lock, or removed that of a live process
    wiped,     \* the engine has dropped a generation from credentials.json
    replaced   \* refresh tokens a newer one has been stored for

files == <<live, tmp>>
locks == <<lock, flock>>
ghosts == <<orderly, wiped, replaced>>
vars == <<files, locks, config, issued, proc, ghosts>>

--------------------------------------------------------------------------------

Keys == Processes \cup {Old}

\* profiles.json; `ours` are the entries that say they are managed by the desktop.
Profiles(state, names, ours, active) ==
    [state |-> state, names |-> names, ours |-> ours, active |-> active]

NoNames == [i \in Ids |-> None]
NoProfiles == Profiles("absent", NoNames, {}, None)
EmptyProfiles == Profiles("whole", NoNames, {}, None)
TornProfiles == Profiles("torn", NoNames, {}, None)

\* credentials.json: the copy of the active profile's key, the able account by its
\* refresh token, and able_generation; 0 is a field that is not there.
Creds(state, mirror, able, generation) ==
    [state |-> state, mirror |-> mirror, able |-> able, generation |-> generation]

NoCreds == Creds("absent", None, 0, 0)
EmptyCreds == Creds("whole", None, 0, 0)
TornCreds == Creds("torn", None, 0, 0)

Torn == [profiles |-> TornProfiles, credentials |-> TornCreds]
Absent == [profiles |-> NoProfiles, credentials |-> NoCreds]

Stored(p) == {i \in Ids : p.names[i] # None}
ActiveKey(p) == IF p.active = None THEN None ELSE p.names[p.active]

Blank == [pc |-> "ready", op |-> "none", id |-> None, flag |-> FALSE, holds |-> FALSE,
          file |-> "profiles", new |-> NoProfiles, creds |-> NoCreds, fd |-> "none",
          gone |-> {}, generation |-> 0, late |-> FALSE, wrote |-> FALSE]

Ended(p, how) == [proc EXCEPT ![p] = [Blank EXCEPT !.pc = how]]

\* A run that has done its work has only its locks to give back.
Leaving(run, wrote) ==
    [Blank EXCEPT !.pc = "unlock", !.holds = run.holds, !.wrote = wrote]

\* A sign-in that is under way when another run has signed in or out.
Overtaken(run) == [run EXCEPT !.late = @ \/ run.op \in {"pending", "commit"}]

Fresh == issued + 1

\* A fresh home, one from before there were profiles, and one in use: with a profile
\* and an account.  The desktop knows of no cluster yet.
Init ==
    /\ \E able \in {0, 1}, mirror \in {None, Old} :
          /\ able = 1 => mirror = Old
          /\ issued = able
          /\ live = [profiles |-> IF able = 0 THEN NoProfiles
                                  ELSE Profiles("whole", [NoNames EXCEPT ![VmId] = Old], {}, VmId),
                     credentials |-> IF mirror = None THEN NoCreds
                                     ELSE Creds("whole", mirror, able, able)]
    /\ tmp = Absent
    /\ lock = None /\ flock = None
    /\ config = [clusters |-> NoNames, selected |-> None]
    /\ proc = [p \in Processes |-> Blank]
    /\ orderly = TRUE /\ wiped = FALSE /\ replaced = {}

At(p, pc) == proc[p].pc = pc /\ (orderly \/ BeyondOrder)

Running == {p \in Processes : proc[p].pc \notin {"ready", "done", "dead"}}

--------------------------------------------------------------------------------
(* The lock file: created exclusively, removed by whoever thinks it is his.  *)

\* Fault: the lock file is opened without asking that it be new.
TakeLock_Shared(p) ==
    /\ At(p, "lock")
    /\ lock' = p
    /\ proc' = [proc EXCEPT ![p].pc = "read", ![p].holds = TRUE]
    /\ UNCHANGED <<files, flock, config, issued, ghosts>>

TakeLock(p) ==
    /\ At(p, "lock") /\ lock = None
    /\ lock' = p
    /\ proc' = [proc EXCEPT ![p].pc = "read", ![p].holds = TRUE]
    /\ UNCHANGED <<files, flock, config, issued, ghosts>>

\* The CLI, the desktop and the helper give up after 20 s.
GiveUp(p) ==
    /\ p \notin Engines
    /\ \/ At(p, "lock") /\ lock # None
       \/ At(p, "flock") /\ flock # None
    /\ proc' = Ended(p, "done")
    /\ flock' = IF flock = p THEN None ELSE flock
    /\ UNCHANGED <<files, lock, config, issued, ghosts>>

\* The engine goes on without it after 2 s.
GoUnlocked(e) ==
    /\ e \in Engines /\ At(e, "lock") /\ lock # None
    /\ proc' = [proc EXCEPT ![e].pc = "read"]
    /\ orderly' = FALSE
    /\ UNCHANGED <<files, locks, config, issued, wiped, replaced>>

\* The engine finds the lock more than 10 s old, and then removes the lock it finds.
SeesStale(e) ==
    /\ e \in Engines /\ At(e, "lock") /\ lock # None
    /\ proc' = [proc EXCEPT ![e].pc = "steal"]
    /\ UNCHANGED <<files, locks, config, issued, ghosts>>

Dropped == IF lock \in Running THEN FALSE ELSE orderly

Steal(e) ==
    /\ At(e, "steal")
    /\ lock' = None
    /\ orderly' = Dropped
    /\ proc' = [proc EXCEPT ![e].pc = "lock"]
    /\ UNCHANGED <<files, flock, config, issued, wiped, replaced>>

\* The end of a run: a lock file is removed by those who created one, whosever it is
\* by now.  A sign-in that waits for its browser goes on after it.
Unlock(p) ==
    /\ At(p, "unlock")
    /\ lock' = IF proc[p].holds THEN None ELSE lock
    /\ orderly' = IF proc[p].holds /\ lock # p THEN Dropped ELSE orderly
    /\ flock' = IF flock = p THEN None ELSE flock
    /\ proc' = IF proc[p].op = "pending"
               THEN [proc EXCEPT ![p].pc = "browser", ![p].holds = FALSE]
               ELSE [q \in Processes |->
                       IF q = p THEN [Blank EXCEPT !.pc = "done"]
                       ELSE IF proc[p].op = "signout" THEN Overtaken(proc[q]) ELSE proc[q]]
    /\ UNCHANGED <<files, config, issued, wiped, replaced>>

\* What the message of a run that gave up asks its user to do.
RemoveLock ==
    /\ lock # None /\ Running = {}
    /\ lock' = None
    /\ UNCHANGED <<files, flock, config, issued, proc, ghosts>>

Die(p) ==
    /\ p \in Running
    /\ Cardinality({q \in Processes : proc[q].pc = "dead"}) < MaxDeaths
    /\ proc' = Ended(p, "dead")
    /\ flock' = IF flock = p THEN None ELSE flock
    /\ UNCHANGED <<files, lock, config, issued, ghosts>>

--------------------------------------------------------------------------------
(* Replacing a file by way of its .tmp, which has one name for all programs. *)

\* Fault: without a temporary file.
OpenTmp_InPlace(p) ==
    /\ At(p, "open")
    /\ LET f == proc[p].file IN live' = [live EXCEPT ![f] = Torn[f]]
    /\ proc' = [proc EXCEPT ![p].pc = "fill", ![p].fd = "live"]
    /\ UNCHANGED <<tmp, locks, config, issued, ghosts>>

\* The temporary file is opened, and emptied by that.
OpenTmp(p) ==
    /\ At(p, "open")
    /\ LET f == proc[p].file IN tmp' = [tmp EXCEPT ![f] = Torn[f]]
    /\ proc' = [proc EXCEPT ![p].pc = "fill", ![p].fd = "tmp"]
    /\ UNCHANGED <<live, locks, config, issued, ghosts>>

\* What is written goes to the file that was opened, which another process may have
\* renamed into place meanwhile; over what another one wrote there, the shorter text
\* leaves a rest of the longer one.
FillTmp(p) ==
    /\ At(p, "fill")
    /\ LET f == proc[p].file
           text == IF f = "profiles" THEN proc[p].new ELSE proc[p].creds
           Over(old) == IF old.state = "whole" THEN {text, Torn[f]} ELSE {text}
       IN  CASE proc[p].fd = "tmp" -> /\ \E c \in Over(tmp[f]) : tmp' = [tmp EXCEPT ![f] = c]
                                      /\ UNCHANGED live
             [] proc[p].fd = "live" -> /\ \E c \in Over(live[f]) : live' = [live EXCEPT ![f] = c]
                                       /\ UNCHANGED tmp
             [] OTHER -> UNCHANGED files
    /\ proc' = [proc EXCEPT ![p].pc = "rename"]
    /\ UNCHANGED <<locks, config, issued, ghosts>>

\* The open files of the others after file f has been replaced.
Moved(f, by) ==
    [p \in Processes |->
        IF p # by /\ proc[p].pc = "fill" /\ proc[p].file = f
        THEN [proc[p] EXCEPT !.fd = IF @ = "tmp" /\ by \in Writers THEN "live" ELSE
                                    IF @ = "live" THEN "gone" ELSE @]
        ELSE proc[p]]

\* Where a writer goes on after its rename.
After(p) ==
    CASE proc[p].file = "credentials" -> "unlock"
      [] p \in Desktops -> IF proc[p].op = "prune" THEN "registry" ELSE "unlock"
      [] OTHER -> "mirror"

\* The rename fails when another process has renamed the file away.
RenameTmp(p) ==
    /\ At(p, "rename")
    /\ LET f == proc[p].file IN
       IF tmp[f].state = "absent"
       THEN /\ proc' = [proc EXCEPT ![p] = Leaving(@, FALSE)]
            /\ UNCHANGED <<files, wiped>>
       ELSE /\ live' = [live EXCEPT ![f] = tmp[f]]
            /\ tmp' = [tmp EXCEPT ![f] = Absent[f]]
            /\ proc' = [Moved(f, p) EXCEPT ![p] = IF After(p) = "unlock" THEN Leaving(@, TRUE)
                                                  ELSE [@ EXCEPT !.pc = After(p)]]
            /\ wiped' = (wiped \/ (f = "credentials" /\ p \in Engines
                                     /\ live.credentials.generation # 0))
    /\ UNCHANGED <<locks, config, issued, orderly, replaced>>

--------------------------------------------------------------------------------
(* The CLI and the engine change one profile.                                *)

Start(p, run) ==
    /\ At(p, "ready")
    /\ proc' = [proc EXCEPT ![p] = run]
    /\ UNCHANGED <<files, locks, config, issued, ghosts>>

\* upsertProfile as a login calls it (with the flag: makeActive and managed by the CLI)
\* and as `keys rotate` does, removeProfile and setActiveProfile.
StartCli(c) ==
    /\ c \in Clis
    /\ \E op \in {"upsert", "remove", "activate"}, id \in Ids, flag \in BOOLEAN :
          /\ flag => op = "upsert"
          /\ Start(c, [Blank EXCEPT !.pc = "lock", !.op = op, !.id = id, !.flag = flag])

StartEngine(e) ==
    /\ e \in Engines
    /\ \E op \in {"upsert", "remove"} :
          Start(e, [Blank EXCEPT !.pc = "lock", !.op = op, !.id = VmId])

\* What the operation of p makes of a profiles.json: nothing when it has no effect.
\* "First remaining" is whichever was inserted first, of which nothing is known here.
Edited(p, base) ==
    LET id == proc[p].id IN
    IF proc[p].op = "upsert"
    THEN {Profiles("whole", [base.names EXCEPT ![id] = p],
                   IF proc[p].flag THEN base.ours \ {id} ELSE base.ours,
                   IF proc[p].flag \/ base.active = None THEN id ELSE base.active)}
    ELSE IF id \notin Stored(base) THEN {}
    ELSE IF proc[p].op = "remove"
    THEN LET rest == Stored(base) \ {id}
             next == IF base.active # id THEN {base.active}
                     ELSE IF rest = {} THEN {None} ELSE rest
         IN  {Profiles("whole", [base.names EXCEPT ![id] = None], base.ours \ {id}, a) : a \in next}
    ELSE {[base EXCEPT !.active = id]}

\* readProfiles without a readable profiles.json: a complete credentials.json becomes
\* the profile "default".
Migrated == IF live.credentials.mirror = None THEN EmptyProfiles
            ELSE Profiles("whole", [NoNames EXCEPT ![DefaultId] = live.credentials.mirror],
                          {}, DefaultId)

Edit(p, base) ==
    \/ /\ Edited(p, base) = {}
       /\ proc' = [proc EXCEPT ![p] = Leaving(@, FALSE)]
    \/ \E new \in Edited(p, base) :
          proc' = [proc EXCEPT ![p].pc = "open", ![p].new = new]

\* The engine starts over when it cannot parse the file.
ReadProfiles(p) ==
    /\ p \in Clis \cup Engines
    /\ \/ /\ At(p, "read") /\ live.profiles.state = "whole"
          /\ Edit(p, live.profiles)
       \/ /\ At(p, "read") /\ live.profiles.state # "whole"
          /\ IF p \in Engines THEN Edit(p, EmptyProfiles)
             ELSE proc' = [proc EXCEPT ![p].pc = "legacy"]
       \/ /\ At(p, "legacy")
          /\ Edit(p, Migrated)
    /\ UNCHANGED <<files, locks, config, issued, ghosts>>

\* Fault: nothing is cleared when no profile is active.
MirrorOfCli_NeverClears(c) ==
    /\ c \in Clis /\ At(c, "mirror")
    /\ LET key == ActiveKey(proc[c].new)
           existing == IF live.credentials.state = "whole" THEN live.credentials ELSE EmptyCreds
       IN  proc' = [proc EXCEPT ![c].file = "credentials",
                                ![c].creds = [existing EXCEPT !.mirror = key],
                                ![c].wrote = TRUE,
                                ![c].pc = IF key # None THEN "open" ELSE "unlock"]
    /\ UNCHANGED <<files, locks, config, issued, ghosts>>

\* Fault: it writes nothing but the mirror.
MirrorOfCli_Anew(c) ==
    /\ c \in Clis /\ At(c, "mirror")
    /\ LET key == ActiveKey(proc[c].new) IN
       proc' = [proc EXCEPT ![c].file = "credentials", ![c].creds = Creds("whole", key, 0, 0),
                            ![c].pc = IF key # None THEN "open" ELSE "unlink"]
    /\ UNCHANGED <<files, locks, config, issued, ghosts>>

\* The active profile is copied to credentials.json.  The CLI keeps the fields it does
\* not know, and removes a file in which nothing would be left.
MirrorOfCli(c) ==
    /\ c \in Clis /\ At(c, "mirror")
    /\ LET key == ActiveKey(proc[c].new)
           existing == IF live.credentials.state = "whole" THEN live.credentials ELSE EmptyCreds
           next == [existing EXCEPT !.mirror = key]
       IN  proc' = [proc EXCEPT ![c].file = "credentials", ![c].creds = next,
                                ![c].wrote = key = None /\ live.credentials.state = "absent",
                                ![c].pc = IF next # EmptyCreds THEN "open"
                                          ELSE IF live.credentials.state = "absent" THEN "unlock"
                                          ELSE "unlink"]
    /\ UNCHANGED <<files, locks, config, issued, ghosts>>

\* The engine writes the copy and nothing else.
MirrorOfEngine(e) ==
    /\ e \in Engines /\ At(e, "mirror")
    /\ LET key == ActiveKey(proc[e].new) IN
       proc' = [proc EXCEPT ![e].file = "credentials", ![e].creds = Creds("whole", key, 0, 0),
                            ![e].wrote = key = None /\ proc[e].op = "upsert",
                            ![e].pc = IF key # None THEN "open"
                                      ELSE IF proc[e].op = "remove" THEN "unlink" ELSE "unlock"]
    /\ UNCHANGED <<files, locks, config, issued, ghosts>>

Unlink(p) ==
    /\ At(p, "unlink")
    /\ live' = [live EXCEPT !.credentials = NoCreds]
    /\ proc' = [q \in Processes |->
                  IF q = p THEN Leaving(proc[p], TRUE)
                  ELSE IF proc[q].pc = "fill" /\ proc[q].file = "credentials" /\ proc[q].fd = "live"
                  THEN [proc[q] EXCEPT !.fd = "gone"] ELSE proc[q]]
    /\ wiped' = (wiped \/ (p \in Engines /\ live.credentials.generation # 0))
    /\ UNCHANGED <<tmp, locks, config, issued, orderly, replaced>>

--------------------------------------------------------------------------------
(* The desktop copies its registry into profiles.json: after every change of *)
(* its own, without the lock, and when it removes the clusters of VMs that   *)
(* are gone, with it.  config_lock keeps its commands apart.                 *)

StartDesktop(d) ==
    /\ d \in Desktops /\ Running \cap Desktops = {}
    /\ \/ Start(d, [Blank EXCEPT !.op = "save", !.pc = "read"])
       \/ Start(d, [Blank EXCEPT !.op = "prune", !.pc = "lock"])

Clusters == {i \in Ids : config.clusters[i] # None}

Registry(clusters, selected) == [clusters |-> clusters, selected |-> selected]

\* read_persisted_config: an empty registry takes over the shared profiles.
ReadRegistry(d) ==
    /\ d \in Desktops /\ At(d, "read")
    /\ config' = IF Clusters = {} /\ Stored(live.profiles) # {}
                 THEN Registry(live.profiles.names, live.profiles.active) ELSE config
    /\ proc' = [proc EXCEPT ![d].pc = "change"]
    /\ UNCHANGED <<files, locks, issued, ghosts>>

\* add_cluster (under a new id), select_cluster and remove_cluster.
SaveRegistry(d) ==
    /\ d \in Desktops /\ At(d, "change") /\ proc[d].op = "save"
    /\ \/ \E i \in Ids \ (Clusters \cup Stored(live.profiles) \cup {VmId, DefaultId}) :
             config' = Registry([config.clusters EXCEPT ![i] = d], i)
       \/ \E i \in Clusters \cup {None} : config' = [config EXCEPT !.selected = i]
       \/ \E i \in Clusters :
             LET rest == Clusters \ {i}
                 selected == IF config.selected # i THEN {config.selected}
                             ELSE IF rest = {} THEN {None} ELSE rest
             IN  \E s \in selected : config' = Registry([config.clusters EXCEPT ![i] = None], s)
    /\ proc' = [proc EXCEPT ![d].pc = "copy"]
    /\ UNCHANGED <<files, locks, issued, ghosts>>

Pruned(base, gone) ==
    [base EXCEPT !.names = [i \in Ids |-> IF i \in gone THEN None ELSE @[i]],
                 !.ours = @ \ gone,
                 !.active = IF @ \in gone THEN None ELSE @]

\* get_config: the VM behind a profile may have disappeared.
FindGone(d) ==
    /\ d \in Desktops /\ At(d, "change") /\ proc[d].op = "prune"
    /\ \E gone \in SUBSET ({VmId} \cap (Clusters \cup Stored(live.profiles))) :
          proc' = [proc EXCEPT ![d].gone = gone, ![d].new = Pruned(live.profiles, gone),
                               ![d].pc = IF gone = {} THEN "unlock"
                                         ELSE IF live.profiles.state = "whole" THEN "open"
                                         ELSE "registry"]
    /\ UNCHANGED <<files, locks, config, issued, ghosts>>

PruneRegistry(d) ==
    /\ d \in Desktops /\ At(d, "registry")
    /\ config' = Registry([i \in Ids |-> IF i \in proc[d].gone THEN None ELSE config.clusters[i]],
                          IF config.selected \in proc[d].gone THEN None ELSE config.selected)
    /\ proc' = [proc EXCEPT ![d].pc = "copy"]
    /\ UNCHANGED <<files, locks, issued, ghosts>>

\* mirror_to_shared_profiles: the entries of others stay, those of the desktop are its
\* clusters, and its selection becomes the active profile.
Mirrored(base) ==
    LET mine == Clusters \ (Stored(base) \ base.ours) IN
    Profiles("whole",
             [i \in Ids |-> IF i \in mine THEN config.clusters[i]
                            ELSE IF i \in base.ours THEN None ELSE base.names[i]],
             mine, config.selected)

BaseOfCopy == IF live.profiles.state = "whole" THEN live.profiles ELSE EmptyProfiles

CopyRegistry(d) ==
    /\ d \in Desktops /\ At(d, "copy")
    /\ proc' = [proc EXCEPT ![d].op = "copy", ![d].new = Mirrored(BaseOfCopy), ![d].pc = "open"]
    /\ orderly' = (orderly /\ proc[d].holds)
    /\ UNCHANGED <<files, locks, config, issued, wiped, replaced>>

--------------------------------------------------------------------------------
(* The account, under both locks for every access to the file.               *)

StartAccount(a) ==
    /\ a \in Accounts
    /\ \E op \in {"login", "refresh", "signout"} :
          Start(a, [Blank EXCEPT !.pc = "flock", !.op = op])

TakeFlock(a) ==
    /\ At(a, "flock") /\ flock = None
    /\ flock' = a
    /\ proc' = [proc EXCEPT ![a].pc = "lock"]
    /\ UNCHANGED <<files, lock, config, issued, ghosts>>

Account == live.credentials

Goto(a, pc) == proc' = [proc EXCEPT ![a].pc = pc] /\ UNCHANGED issued

\* The file as this run is going to leave it; able_generation is drawn anew.
Prepare(a, able) ==
    /\ proc' = [proc EXCEPT ![a].pc = "put",
                            ![a].creds = Creds("whole", Account.mirror, able, Fresh)]
    /\ issued' = Fresh

Fail(a) == proc' = [proc EXCEPT ![a].op = "failed", ![a].pc = "unlock"] /\ UNCHANGED issued

Reading(a, op) == a \in Accounts /\ At(a, "read") /\ proc[a].op = op

\* login notes the generation before it opens the browser,
BeginLogin(a) ==
    /\ Reading(a, "login")
    /\ IF Account.state = "torn" THEN Fail(a)
       ELSE /\ proc' = [proc EXCEPT ![a].op = "pending", ![a].pc = "unlock",
                                    ![a].generation = Account.generation]
            /\ UNCHANGED issued
    /\ UNCHANGED <<files, locks, config, ghosts>>

\* looks at it again while it waits,
PollLogin(a) ==
    /\ Reading(a, "pending")
    /\ IF Account.state = "torn" \/ Account.generation # proc[a].generation
       THEN Fail(a) ELSE Goto(a, "unlock")
    /\ UNCHANGED <<files, locks, config, ghosts>>

\* and before it stores the account; replacing another account needs a confirmation.
CommitLogin(a) ==
    /\ Reading(a, "commit")
    /\ \/ /\ Account.state # "torn" /\ Account.generation = proc[a].generation
          /\ Prepare(a, Fresh)
       \/ /\ \/ Account.state = "torn" \/ Account.generation # proc[a].generation
             \/ Account.able # 0
          /\ Fail(a)
    /\ UNCHANGED <<files, locks, config, ghosts>>

\* In the browser: the user looks on, comes back with a code that is exchanged for
\* tokens, or is denied, or lets the five minutes pass.
WaitForUser(a) ==
    /\ At(a, "browser")
    /\ \E op \in {"pending", "commit"} : proc' = [proc EXCEPT ![a].pc = "flock", ![a].op = op]
    /\ UNCHANGED <<files, locks, config, issued, ghosts>>

AbandonLogin(a) ==
    /\ At(a, "browser")
    /\ proc' = Ended(a, "done")
    /\ UNCHANGED <<files, locks, config, issued, ghosts>>

\* Fault: without an account there is nothing to clear.
SignOut_IfIn(a) ==
    /\ Reading(a, "signout")
    /\ IF Account.state = "torn" THEN Fail(a)
       ELSE IF Account.able = 0 THEN Goto(a, "unlock") ELSE Prepare(a, 0)
    /\ UNCHANGED <<files, locks, config, ghosts>>

SignOut(a) ==
    /\ Reading(a, "signout")
    /\ IF Account.state = "torn" THEN Fail(a) ELSE Prepare(a, 0)
    /\ UNCHANGED <<files, locks, config, ghosts>>

\* Fault: the locks are let go of while the token is exchanged.
Refresh_Unlocked(a) ==
    /\ Reading(a, "refresh")
    /\ \/ Account.state = "torn" /\ Fail(a) /\ UNCHANGED locks
       \/ Account.state # "torn" /\ Goto(a, "unlock") /\ UNCHANGED locks
       \/ Account.able # 0 /\ Prepare(a, 0) /\ UNCHANGED locks
       \/ /\ Account.able # 0
          /\ proc' = [proc EXCEPT ![a].creds = Account, ![a].pc = "exchange", ![a].holds = FALSE]
          /\ lock' = None /\ flock' = None
          /\ UNCHANGED issued
    /\ UNCHANGED <<files, config, ghosts>>

\* refresh: an account whose refresh token has expired is cleared, one whose access token
\* still holds is left alone, and otherwise the refresh token goes to the server.
Refresh(a) ==
    /\ Reading(a, "refresh")
    /\ \/ Account.state = "torn" /\ Fail(a)
       \/ Account.state # "torn" /\ Goto(a, "unlock")
       \/ Account.able # 0 /\ Prepare(a, 0)
       \/ /\ Account.able # 0
          /\ proc' = [proc EXCEPT ![a].creds = Account, ![a].pc = "exchange"]
          /\ UNCHANGED issued
    /\ UNCHANGED <<files, locks, config, ghosts>>

\* The server refuses the token for good, does not answer, answers with the same
\* refresh token, or with a new one.  The rest of the file is what was read before.
Exchange(a) ==
    /\ At(a, "exchange")
    /\ LET Answer(able, generation) ==
              proc' = [proc EXCEPT ![a].pc = "put", ![a].creds.able = able,
                                   ![a].creds.generation = generation]
       IN  \/ Answer(0, Fresh) /\ issued' = Fresh
           \/ Goto(a, "unlock")
           \/ Answer(proc[a].creds.able, proc[a].creds.generation) /\ UNCHANGED issued
           \/ Answer(Fresh, proc[a].creds.generation) /\ issued' = Fresh
    /\ UNCHANGED <<files, locks, config, ghosts>>

\* The helper's own temporary file replaces credentials.json.  Every sign-in that is
\* under way is cancelled by that, when the generation changes.
PutAccount(a) ==
    /\ At(a, "put")
    /\ LET next == proc[a].creds
           moved == Moved("credentials", a)
       IN  /\ live' = [live EXCEPT !.credentials = next]
           /\ replaced' = replaced \cup ({Account.able} \ {next.able, 0})
           /\ proc' = [p \in Processes |->
                 IF p = a THEN [moved[p] EXCEPT !.pc = "unlock"]
                 ELSE IF next.generation # Account.generation THEN Overtaken(moved[p])
                 ELSE moved[p]]
    /\ UNCHANGED <<tmp, locks, config, issued, orderly, wiped>>

--------------------------------------------------------------------------------

\* What a process does by itself once it runs.
Step(p) ==
    \/ TakeLock(p) \/ GiveUp(p) \/ GoUnlocked(p) \/ SeesStale(p) \/ Steal(p) \/ Unlock(p)
    \/ OpenTmp(p) \/ FillTmp(p) \/ RenameTmp(p)
    \/ ReadProfiles(p) \/ MirrorOfCli(p) \/ MirrorOfEngine(p) \/ Unlink(p)
    \/ ReadRegistry(p) \/ SaveRegistry(p) \/ FindGone(p) \/ PruneRegistry(p) \/ CopyRegistry(p)
    \/ TakeFlock(p) \/ BeginLogin(p) \/ PollLogin(p) \/ CommitLogin(p) \/ SignOut(p)
    \/ Refresh(p) \/ Exchange(p) \/ PutAccount(p)

Next ==
    \/ \E p \in Processes :
          \/ StartCli(p) \/ StartEngine(p) \/ StartDesktop(p) \/ StartAccount(p)
          \/ Step(p) \/ WaitForUser(p) \/ AbandonLogin(p) \/ Die(p)
    \/ RemoveLock

Spec == Init /\ [][Next]_vars

--------------------------------------------------------------------------------
(* Properties                                                                *)

ProfilesType == [state : {"absent", "torn", "whole"}, names : [Ids -> Keys \cup {None}],
                 ours : SUBSET Ids, active : Ids \cup {None}]
CredsType == [state : {"absent", "torn", "whole"}, mirror : Keys \cup {None},
              able : 0..issued, generation : 0..issued]
FilesType == [profiles : ProfilesType, credentials : CredsType]

Pcs == {"ready", "flock", "lock", "steal", "read", "legacy", "change", "registry", "copy",
        "open", "fill", "rename", "mirror", "unlink", "browser", "exchange", "put", "unlock",
        "done", "dead"}
Ops == {"none", "upsert", "remove", "activate", "save", "prune", "copy", "login", "pending",
        "commit", "refresh", "signout", "failed"}

RunType ==
    [pc : Pcs, op : Ops,
     id : Ids \cup {None}, flag : BOOLEAN, holds : BOOLEAN, file : {"profiles", "credentials"},
     new : ProfilesType, creds : CredsType, fd : {"none", "tmp", "live", "gone"},
     gone : SUBSET Ids, generation : 0..issued, late : BOOLEAN, wrote : BOOLEAN]

\* The files, the locks and the runs are of their types; a profile that is managed by
\* the desktop, or that is active, has an entry.
TypeOK ==
    /\ live \in FilesType /\ tmp \in FilesType
    /\ lock \in Processes \cup {None} /\ flock \in Accounts \cup {None}
    /\ config \in [clusters : [Ids -> Keys \cup {None}], selected : Ids \cup {None}]
    /\ issued \in Nat
    /\ proc \in [Processes -> RunType]
    /\ orderly \in BOOLEAN /\ wiped \in BOOLEAN /\ replaced \subseteq 1..issued
    /\ \A p \in {live.profiles, tmp.profiles} :
          p.ours \cup ({p.active} \ {None}) \subseteq Stored(p)

\* No reader ever finds half a profiles.json or credentials.json: writeProfiles,
\* atomic_write_json and write_shared_profiles rename a finished file into place.
NeverHalfWritten == live.profiles.state # "torn" /\ live.credentials.state # "torn"

\* It holds as long as every writer held the lock and nobody removed it from under a live
\* one, although all programs write through one temporary file.
NeverHalfWrittenInOrder == orderly => NeverHalfWritten

\* In the same order, what profiles.json becomes is what it was, changed by the operation of
\* the process that renames: no update of another one is lost.
EveryWriteIsOneUpdate ==
    [][orderly' /\ live'.profiles # live.profiles =>
         \E p \in Writers :
            /\ proc[p].pc = "rename"
            /\ live'.profiles \in
                  CASE p \in Clis -> Edited(p, IF live.profiles.state = "whole"
                                               THEN live.profiles ELSE Migrated)
                    [] p \in Engines -> Edited(p, BaseOfCopy)
                    [] proc[p].op = "prune" -> {Pruned(live.profiles, proc[p].gone)}
                    [] OTHER -> {Mirrored(BaseOfCopy)}]_vars

\* A run of the CLI or of the engine that has finished its writes leaves the key of the
\* active profile in credentials.json, and none when no profile is active.
MirrorFollowsActive ==
    \A p \in Clis \cup Engines :
       orderly /\ proc[p].pc = "unlock" /\ proc[p].wrote =>
          live.credentials.mirror = ActiveKey(live.profiles)

\* Only the helper touches the account: the CLI carries it through its writes.  (The
\* engine does not, see SignOutCancels.)
AccountSurvivesTheCli ==
    [][orderly' /\ ~wiped' /\ (live'.credentials.able # live.credentials.able
                                 \/ live'.credentials.generation # live.credentials.generation)
         => \E a \in Accounts : proc[a].pc = "put" /\ proc'[a].pc = "unlock"]_vars

\* A refresh token that was replaced or given up is not sent again: able.lock keeps the
\* runs of the helper apart, and the file is read anew by each.
ReplacedTokenIsNotSent ==
    orderly => \A a \in Accounts : proc[a].pc = "exchange" => proc[a].creds.able \notin replaced

\* A sign-in that was begun before a sign-out, or before another sign-in was finished,
\* does not store its account.
SignOutCancels ==
    \A a \in Accounts : proc[a].pc = "put" /\ proc[a].op = "commit" => ~proc[a].late

\* It holds as long as the engine has not dropped the generation.
SignOutCancelsUnlessWiped == orderly /\ ~wiped => SignOutCancels

================================================================================
