------------------------------ MODULE Entitlements ------------------------------
(***************************************************************************)
(* The entitlement history of the CLI: which controls each installed app    *)
(* has been granted on this device (packages/cli/src/utils/entitlements.ts, *)
(* the lock of entitlement-lock.ts, the device key and the rollback anchor  *)
(* of credential-store.ts, and the commands that install, run, list, revoke *)
(* and uninstall).                                                          *)
(*                                                                          *)
(* The history is one file, ~/.appliance/entitlements.json: a chain of      *)
(* records, each signed with the device key and naming the hash of the one  *)
(* before it.  A second file, the anchor, names the sequence and the hash   *)
(* of the head.  Commands run as processes of their own and share nothing   *)
(* else; each call of the file system is a step, a process may be killed at *)
(* any of them, and an older copy of the history may be put back.           *)
(*                                                                          *)
(* A record is known by the command that appended it: `call' stands for its *)
(* bytes, and so for its hash and its signature.  A grant is one meaning    *)
(* (control and value) of a grant id, so a changed value is another grant.  *)
(* A record's usage, version and license are left out.                      *)
(***************************************************************************)
EXTENDS Integers, Sequences, FiniteSets

CONSTANTS
    Procs,        \* processes of the CLI that run at the same time
    Apps,
    Grants,       \* the grants that manifests ask for
    Optional,     \* those whose control is a mount: the only optional ones
    Manifests,    \* what a manifest may ask for: sets of grants
    MaxCalls,     \* bound: commands that are ever run
    MaxAttempts,  \* MAX_CAS_ATTEMPTS
    MaxDeaths,    \* bound: processes that are killed
    MaxRestores,  \* bound: times that an older copy of the file is put back
    Overdue,      \* a live owner may hold the lock for more than 60 s
    None

ASSUME EntitlementsAssumption ==
    /\ None \notin Procs \cup Apps \cup Grants
    /\ Optional \subseteq Grants
    /\ Manifests \subseteq SUBSET Grants
    /\ MaxCalls \in Nat /\ MaxAttempts \in Nat \ {0}
    /\ MaxDeaths \in Nat /\ MaxRestores \in Nat
    /\ Overdue \in BOOLEAN

VARIABLES
    file,        \* entitlements.json: None, or its revision, device key and records
    anchor,      \* device-entitlement-anchor.json: None, or the head's sequence and hash
    lock,        \* entitlements.json.lock: None, or its owner (None: gone) and whether it is written
    deviceKey,   \* device-entitlement-key.json: None, or the command that created it
    proc,        \* [Procs -> the command the process is running]
    calls,       \* commands run so far
    deaths, restores,
    \* No state of the code, the properties speak of them:
    chain,       \* the records of the last store that a writer put in place
    copies,      \* every store that was ever in place
    torn,        \* a writer died between the anchor and the store
    usurped,     \* a lock was removed from under the process that holds it
    approvals,   \* [call -> the grants whose ids the user approved]
    done         \* commands that returned a record they had appended

files == <<file, anchor, lock, deviceKey>>
bounds == <<calls, deaths, restores>>
ghosts == <<chain, copies, torn, usurped, approvals, done>>
vars == <<files, proc, bounds, ghosts>>

--------------------------------------------------------------------------------

\* The commands, in the order in which they begin; 0 ran before the others.
Calls == 0 .. MaxCalls
Kinds == {"install", "uninstall", "revoke", "run"}

Entry == [call : Calls, prev : Calls \cup {None}, seq : Nat, app : Apps,
          installed : BOOLEAN, grants : SUBSET Grants]
Store == [rev : Nat, key : Calls, records : Seq(Entry)]

Heads == [seq : Nat, hash : Calls]
Locks == [owner : Procs \cup {None}, written : BOOLEAN]

\* What a process knows: `asks' is what its manifest asks for, or the grant to
\* revoke; `head' the anchor it has read, `view' the records it has accepted,
\* `before' the store it has read under the lock, `next' the records it is about
\* to write; `floor' the length of the history when the command began.
Process ==
    [pc : {"idle", "link", "head", "view", "decide", "acquire", "judge", "reap", "write", "read",
           "check", "compare", "anchor", "store", "token", "unlock", "return"},
     kind : Kinds, call : Calls, app : Apps \cup {None}, asks : SUBSET Grants,
     approved : SUBSET Grants, key : Calls, head : Heads \cup {None}, view : Seq(Entry),
     before : Store \cup {None}, next : Seq(Entry), attempts : Nat,
     result : {"none", "appended", "same", "refused", "integrity", "failed"}, floor : Nat]

Idle == [pc |-> "idle", kind |-> "run", call |-> 0, app |-> None, asks |-> {}, approved |-> {},
         key |-> 0, head |-> None, view |-> <<>>, before |-> None, next |-> <<>>, attempts |-> 0,
         result |-> "none", floor |-> 0]

\* Nothing is none of the things that may be there.
ASSUME NoneAssumption == None \notin Store \cup Heads \cup Locks \cup Entry \cup Calls

--------------------------------------------------------------------------------
(* The history and what is computed from it.                                 *)

HeadOf(records) == records[Len(records)]

HashOf(entry) == entry.call

\* latestEntitlement: the last record of the app.
Latest(records, app) ==
    LET its == {i \in DOMAIN records : records[i].app = app}
    IN  IF its = {} THEN None ELSE records[CHOOSE i \in its : \A j \in its : j <= i]

\* The grants in force: those of the latest record while it says installed.
Active(records, app) ==
    LET latest == Latest(records, app)
    IN  {g \in Grants : latest # None /\ latest.installed /\ g \in latest.grants}

RecordsOf(store) == IF store = None THEN <<>> ELSE store.records

\* parseAndVerify: the chain of one device key, from the first record on.
Chained(store, key) ==
    /\ store.key = key
    /\ \A i \in DOMAIN store.records :
          /\ store.records[i].seq = i
          /\ store.records[i].prev = IF i = 1 THEN None ELSE HashOf(store.records[i - 1])

\* assertStoreAtAnchor.
AtAnchor(records, head) ==
    \/ head = None
    \/ /\ Len(records) >= head.seq
       /\ Len(records) = head.seq => HashOf(HeadOf(records)) = head.hash

\* readAndVerify: a missing store is empty, unless there is an anchor.
Verified(store, key, head) ==
    IF store = None THEN head = None
    ELSE Chained(store, key) /\ AtAnchor(store.records, head)

AnchorFor(records) == [seq |-> Len(records), hash |-> HashOf(HeadOf(records))]

\* appendRecord.
Appended(records, call, app, installed, grants) ==
    Append(records, [call |-> call, seq |-> Len(records) + 1,
                     prev |-> IF records = <<>> THEN None ELSE HashOf(HeadOf(records)),
                     app |-> app, installed |-> installed, grants |-> grants])

--------------------------------------------------------------------------------
(* A new device, or one on which an app has been installed before.            *)

StartsWith(records, approved) ==
    /\ file = IF records = <<>> THEN None ELSE [rev |-> 1, key |-> 0, records |-> records]
    /\ anchor = IF records = <<>> THEN None ELSE AnchorFor(records)
    /\ deviceKey = IF records = <<>> THEN None ELSE 0
    /\ chain = records /\ copies = {None, file}
    /\ approvals = [c \in Calls |-> IF c = 0 THEN approved ELSE {}]
    /\ done = IF records = <<>> THEN {} ELSE {0}

Init ==
    /\ \/ StartsWith(<<>>, {})
       \/ \E app \in Apps, asks \in Manifests :
             \E granted \in SUBSET asks :
                /\ asks \ Optional \subseteq granted
                /\ StartsWith(Appended(<<>>, 0, app, TRUE, granted), granted)
    /\ lock = None /\ torn = FALSE /\ usurped = FALSE
    /\ proc = [p \in Procs |-> Idle]
    /\ calls = 0 /\ deaths = 0 /\ restores = 0

\* Where a process holds the lock, unless it was taken from it.
Locked == {"write", "read", "check", "compare", "anchor", "store", "token", "unlock"}

At(p, pc) == proc[p].pc = pc

Does(p, update) == proc' = [proc EXCEPT ![p] = update]

\* The command ends without having asked for the lock.
Ends(p) == Does(p, Idle)

--------------------------------------------------------------------------------
(* A command begins: the device key, made at first use (getOrCreate...).     *)

\* The commands install (with a manifest), uninstall, revoke (one grant) and run
\* (with a manifest).  The key file is read first.
Begin(p, kind, app, asks) ==
    /\ At(p, "idle") /\ calls < MaxCalls
    /\ kind = "revoke" => Cardinality(asks) = 1
    /\ kind \in {"install", "run"} => asks \in Manifests
    /\ kind = "uninstall" => asks = {}
    /\ calls' = calls + 1
    /\ Does(p, [Idle EXCEPT !.kind = kind, !.app = app, !.asks = asks, !.call = calls + 1,
                            !.floor = Len(chain),
                            !.key = IF deviceKey = None THEN calls + 1 ELSE deviceKey,
                            !.pc = IF deviceKey = None THEN "link"
                                   ELSE IF kind = "uninstall" THEN "acquire" ELSE "head"])
    /\ UNCHANGED <<files, deaths, restores, ghosts>>

\* Fault: the new key file is renamed into place instead of linked.
LinkKey_Renamed(p) ==
    /\ At(p, "link")
    /\ deviceKey' = proc[p].call
    /\ Does(p, [proc[p] EXCEPT !.pc = IF proc[p].kind = "uninstall" THEN "acquire" ELSE "head"])
    /\ UNCHANGED <<file, anchor, lock, bounds, ghosts>>

\* linkSync fails when the file exists: then the key that is there is read.
LinkKey(p) ==
    /\ At(p, "link")
    /\ deviceKey' = IF deviceKey = None THEN proc[p].call ELSE deviceKey
    /\ Does(p, [proc[p] EXCEPT !.key = deviceKey',
                               !.pc = IF proc[p].kind = "uninstall" THEN "acquire" ELSE "head"])
    /\ UNCHANGED <<file, anchor, lock, bounds, ghosts>>

--------------------------------------------------------------------------------
(* readEntitlementStore, which takes no lock, and what the commands do next.  *)

\* The anchor is read before the store.
ReadHead(p) ==
    /\ At(p, "head")
    /\ Does(p, [proc[p] EXCEPT !.head = anchor, !.pc = "view"])
    /\ UNCHANGED <<files, bounds, ghosts>>

\* Fault: the reader checks the chain and not the anchor.
ReadView_NoAnchor(p) ==
    /\ At(p, "view")
    /\ IF file = None \/ Chained(file, proc[p].key)
       THEN Does(p, [proc[p] EXCEPT !.view = RecordsOf(file), !.head = None, !.pc = "decide"])
       ELSE Ends(p)
    /\ UNCHANGED <<files, bounds, ghosts>>

\* The store is read and verified; an EntitlementIntegrityError ends the command.
ReadView(p) ==
    /\ At(p, "view")
    /\ IF Verified(file, proc[p].key, proc[p].head)
       THEN Does(p, [proc[p] EXCEPT !.view = RecordsOf(file), !.head = None, !.pc = "decide"])
       ELSE Ends(p)
    /\ UNCHANGED <<files, bounds, ghosts>>

\* entitlementGrantPrompt: the additions are shown and the user approves all of
\* them, or the caller passes the ids it approves of.  Nobody is asked when
\* there are none.
Approve(p, approved) ==
    /\ At(p, "decide") /\ proc[p].kind = "install"
    /\ approved \subseteq proc[p].asks \ Active(proc[p].view, proc[p].app)
    /\ Does(p, [proc[p] EXCEPT !.approved = approved, !.pc = "acquire"])
    /\ approvals' = [approvals EXCEPT ![proc[p].call] = approved]
    /\ UNCHANGED <<files, bounds, chain, copies, torn, usurped, done>>

\* The user declines the prompt, or the revocation; a list ends here as well.
Decline(p) ==
    /\ At(p, "decide") /\ proc[p].kind \in {"install", "revoke"}
    /\ Ends(p)
    /\ UNCHANGED <<files, bounds, ghosts>>

\* confirmRevoke.
Confirm(p) ==
    /\ At(p, "decide") /\ proc[p].kind = "revoke"
    /\ Does(p, [proc[p] EXCEPT !.pc = "acquire"])
    /\ UNCHANGED <<files, bounds, ghosts>>

\* assertManifestEntitled; the grants that are in force are stamped as used.
Admit(p) ==
    /\ At(p, "decide") /\ proc[p].kind = "run"
    /\ LET used == proc[p].asks \cap Active(proc[p].view, proc[p].app)
       IN  IF proc[p].asks \ Optional \subseteq used /\ used # {}
           THEN Does(p, [proc[p] EXCEPT !.asks = used, !.pc = "acquire"])
           ELSE Ends(p)
    /\ UNCHANGED <<files, bounds, ghosts>>

--------------------------------------------------------------------------------
(* acquireLock and releaseLock.                                              *)

\* Fault: the lock file is opened without 'wx', and truncated if it is there.
OpenLock_Truncating(p) ==
    /\ At(p, "acquire")
    /\ lock' = [owner |-> p, written |-> FALSE]
    /\ Does(p, [proc[p] EXCEPT !.pc = "write"])
    /\ UNCHANGED <<file, anchor, deviceKey, bounds, ghosts>>

\* openSync with 'wx'.
OpenLock(p) ==
    /\ At(p, "acquire")
    /\ IF lock = None
       THEN /\ lock' = [owner |-> p, written |-> FALSE]
            /\ Does(p, [proc[p] EXCEPT !.pc = "write"])
       ELSE /\ Does(p, [proc[p] EXCEPT !.pc = "judge"])
            /\ UNCHANGED lock
    /\ UNCHANGED <<file, anchor, deviceKey, bounds, ghosts>>

\* The pid and the token go to the file that was opened, whoever unlinked it.
WriteLock(p) ==
    /\ At(p, "write")
    /\ lock' = IF lock = [owner |-> p, written |-> FALSE] THEN [owner |-> p, written |-> TRUE]
               ELSE lock
    /\ Does(p, [proc[p] EXCEPT !.pc = "read"])
    /\ UNCHANGED <<file, anchor, deviceKey, bounds, ghosts>>

\* staleLock: the lock has gone, or its pid has, or it is more than 60 s old.  The
\* lock of a dead process grows old, that of a live one only if it is overdue.
Stale(l) == l # None => l.owner = None /\ l.written
MayBeOld(l) == l # None /\ (l.owner = None \/ Overdue)

\* A stale lock is unlinked; otherwise the process waits and tries again.
JudgeLock(p) ==
    /\ At(p, "judge")
    /\ \/ /\ Stale(lock) \/ MayBeOld(lock)
          /\ Does(p, [proc[p] EXCEPT !.pc = "reap"])
       \/ ~Stale(lock) /\ Does(p, [proc[p] EXCEPT !.pc = "acquire"])
    /\ UNCHANGED <<files, bounds, ghosts>>

\* Fault: the deadline is looked at only while the owner of the lock is alive.
GiveUp_OnTheLiving(p) ==
    /\ At(p, "judge") /\ ~Stale(lock) /\ lock.owner # None
    /\ Ends(p)
    /\ UNCHANGED <<files, bounds, ghosts>>

\* The lock is not stale and the deadline has passed.
GiveUp(p) ==
    /\ At(p, "judge") /\ ~Stale(lock)
    /\ Ends(p)
    /\ UNCHANGED <<files, bounds, ghosts>>

\* unlinkSync removes the lock that is there now, which may be another one than
\* the lock that was judged.
ReapLock(p) ==
    /\ At(p, "reap")
    /\ lock' = None
    /\ usurped' = (usurped \/ (lock # None /\ lock.owner # None))
    /\ Does(p, [proc[p] EXCEPT !.pc = "acquire"])
    /\ UNCHANGED <<file, anchor, deviceKey, bounds, chain, copies, torn, approvals, done>>

\* The token is read back; without it, or with another, nothing is removed.
\* A lock that its owner has yet to write cannot be parsed, and that throws.
CheckToken(p) ==
    /\ At(p, "token")
    /\ IF lock = [owner |-> p, written |-> TRUE]
       THEN Does(p, [proc[p] EXCEPT !.pc = "unlock"])
       ELSE Does(p, [proc[p] EXCEPT !.pc = "return",
                        !.result = IF lock # None /\ ~lock.written THEN "failed" ELSE @])
    /\ UNCHANGED <<files, bounds, ghosts>>

DropLock(p) ==
    /\ At(p, "unlock")
    /\ lock' = None
    /\ Does(p, [proc[p] EXCEPT !.pc = "return"])
    /\ UNCHANGED <<file, anchor, deviceKey, bounds, ghosts>>

Return(p) ==
    /\ At(p, "return")
    /\ done' = IF proc[p].result = "appended" THEN done \cup {proc[p].call} ELSE done
    /\ Ends(p)
    /\ UNCHANGED <<files, bounds, chain, copies, torn, usurped, approvals>>

--------------------------------------------------------------------------------
(* mutateStore, from the lock to the new store.                              *)

ReadBefore(p) ==
    /\ At(p, "read")
    /\ Does(p, [proc[p] EXCEPT !.before = file, !.pc = "check"])
    /\ UNCHANGED <<files, bounds, ghosts>>

\* Fault: the grants that are not among the additions the user was shown are
\* taken for granted already.
GrantedTo_AsShown(p, records) ==
    {g \in proc[p].asks :
        \/ g \in proc[p].approved
        \/ g \in Active(proc[p].view, proc[p].app)}

\* The grants of an install: those in force, and of the rest those approved.
GrantedTo(p, records) ==
    {g \in proc[p].asks :
        \/ g \in proc[p].approved
        \/ g \in Active(records, proc[p].app)}

\* The mutation of each command, on the records it has read under the lock: the
\* error it throws, or the records it leaves.  A stamp may find that the usage
\* is not older than its clock.
Refuses(p, records) ==
    \/ /\ proc[p].kind = "install"
       /\ ~(proc[p].asks \ Optional \subseteq GrantedTo(p, records))
    \/ /\ proc[p].kind = "revoke"
       /\ ~(proc[p].asks \subseteq Active(records, proc[p].app))

Mutations(p, records) ==
    LET app == proc[p].app
        active == Active(records, app)
        latest == Latest(records, app)
        Add(installed, grants) == Appended(records, proc[p].call, app, installed, grants)
        unused == proc[p].asks \cap active = {}
    IN  CASE proc[p].kind = "install" -> {Add(TRUE, GrantedTo(p, records))}
          [] proc[p].kind = "uninstall" ->
                {IF latest = None \/ ~latest.installed THEN records ELSE Add(FALSE, active)}
          [] proc[p].kind = "revoke" -> {Add(TRUE, active \ proc[p].asks)}
          [] proc[p].kind = "run" -> {records} \cup (IF unused THEN {} ELSE {Add(TRUE, active)})

\* The anchor is read and the store verified against it; the mutation follows.
CheckBefore(p) ==
    LET before == proc[p].before
        records == RecordsOf(before)
        Fails(why) == Does(p, [proc[p] EXCEPT !.result = why, !.pc = "token"])
    IN  /\ At(p, "check")
        /\ IF ~Verified(before, proc[p].key, anchor) THEN Fails("integrity")
           ELSE IF Refuses(p, records) THEN Fails("refused")
           ELSE \E next \in Mutations(p, records) :
                   Does(p, [proc[p] EXCEPT !.next = next, !.pc = "compare"])
        /\ UNCHANGED <<files, bounds, ghosts>>

\* The store is read again; if it has changed, the next attempt begins.
Compare(p) ==
    /\ At(p, "compare")
    /\ Does(p, IF file = proc[p].before
               THEN [proc[p] EXCEPT !.pc = "anchor"]
               ELSE [proc[p] EXCEPT !.attempts = @ + 1, !.next = <<>>, !.before = None,
                        !.pc = IF proc[p].attempts + 1 < MaxAttempts THEN "read" ELSE "token",
                        !.result = IF proc[p].attempts + 1 < MaxAttempts THEN @ ELSE "failed"])
    /\ UNCHANGED <<files, bounds, ghosts>>

\* The anchor advances before the store is renamed into place, if there is a
\* record to name.
WriteAnchor(p) ==
    /\ At(p, "anchor")
    /\ anchor' = IF proc[p].next = <<>> THEN anchor ELSE AnchorFor(proc[p].next)
    /\ Does(p, [proc[p] EXCEPT !.pc = "store"])
    /\ UNCHANGED <<file, lock, deviceKey, bounds, ghosts>>

\* writeAtomic.
WriteStore(p) ==
    LET me == proc[p]
    IN  /\ At(p, "store")
        /\ file' = [rev |-> IF me.before = None THEN 1 ELSE me.before.rev + 1,
                    key |-> me.key, records |-> me.next]
        /\ chain' = me.next
        /\ copies' = copies \cup {file'}
        /\ Does(p, [me EXCEPT !.pc = "token",
                       !.result = IF me.next = RecordsOf(me.before) THEN "same" ELSE "appended"])
        /\ UNCHANGED <<anchor, lock, deviceKey, bounds, torn, usurped, approvals, done>>

--------------------------------------------------------------------------------
(* The environment.                                                          *)

\* A process is killed after it took the lock; the lock stays, and its pid is
\* gone.  Killed earlier, it would leave no trace.
Die(p) ==
    /\ proc[p].pc \in Locked /\ deaths < MaxDeaths
    /\ deaths' = deaths + 1
    /\ Ends(p)
    /\ lock' = IF lock # None /\ lock.owner = p THEN [lock EXCEPT !.owner = None] ELSE lock
    /\ torn' = (torn \/ At(p, "store"))
    /\ UNCHANGED <<file, anchor, deviceKey, calls, restores, chain, copies, usurped, approvals, done>>

\* An older copy of the store is put back, or the store is removed.
Restore ==
    /\ restores < MaxRestores
    /\ restores' = restores + 1
    /\ \E copy \in copies \ {file} : file' = copy
    /\ UNCHANGED <<anchor, lock, deviceKey, proc, calls, deaths, ghosts>>

Steps(p) ==
    \/ LinkKey(p) \/ ReadHead(p) \/ ReadView(p)
    \/ (\E approved \in SUBSET Grants : Approve(p, approved)) \/ Decline(p) \/ Confirm(p) \/ Admit(p)
    \/ OpenLock(p) \/ WriteLock(p) \/ JudgeLock(p) \/ GiveUp(p) \/ ReapLock(p)
    \/ ReadBefore(p) \/ CheckBefore(p) \/ Compare(p) \/ WriteAnchor(p) \/ WriteStore(p)
    \/ CheckToken(p) \/ DropLock(p) \/ Return(p)

Next ==
    \/ \E p \in Procs :
          \/ Steps(p) \/ Die(p)
          \/ \E kind \in Kinds, app \in Apps, asks \in SUBSET Grants : Begin(p, kind, app, asks)
    \/ Restore

Spec == Init /\ [][Next]_vars

\* A running process takes its next step; one that finds the lock held again and
\* again finds in the end that five seconds are over.
FairSpec == Spec /\ \A p \in Procs : WF_vars(Steps(p)) /\ SF_vars(GiveUp(p))

--------------------------------------------------------------------------------
(* Properties.                                                               *)

TypeOK ==
    /\ file \in Store \cup {None} /\ copies \subseteq Store \cup {None}
    /\ anchor \in Heads \cup {None}
    /\ lock \in Locks \cup {None}
    /\ deviceKey \in Calls \cup {None}
    /\ proc \in [Procs -> Process]
    /\ calls \in Calls /\ deaths \in 0 .. MaxDeaths /\ restores \in 0 .. MaxRestores
    /\ chain \in Seq(Entry) /\ torn \in BOOLEAN /\ usurped \in BOOLEAN
    /\ approvals \in [Calls -> SUBSET Grants] /\ done \subseteq Calls

\* As long as no lock was removed from under its owner, a command never acts on a
\* history that lacks a record which was in place when it began, whatever copy of
\* the file it is handed: a revocation that has returned holds for every later
\* run (the reason for the anchor, entitlements.ts 441-455).
AcceptedNeverGoesBack ==
    usurped \/ \A p \in Procs :
        /\ proc[p].pc = "decide" =>
              /\ Len(proc[p].view) >= proc[p].floor
              /\ \A i \in 1 .. proc[p].floor : proc[p].view[i] = chain[i]
        /\ proc[p].pc \in {"compare", "anchor", "store"} =>
              /\ Len(RecordsOf(proc[p].before)) >= proc[p].floor
              /\ \A i \in 1 .. proc[p].floor : RecordsOf(proc[p].before)[i] = chain[i]

\* While nobody puts an older copy back and no lock was removed from under its
\* owner, the record of every command that returned one is in the store
\* (entitlements.spec.ts: "serializes cross-process writers without losing a CAS
\* mutation").
ReturnedMutationsStay ==
    restores = 0 /\ ~usurped => \A c \in done : \E i \in DOMAIN RecordsOf(file) : file.records[i].call = c

\* A writer is refused for the integrity of the store only after a process has
\* died between the anchor and the store, an older copy was put back, or a lock
\* was removed from under its owner: writers that merely overlap never lock the
\* user out.
RefusalsHaveACause ==
    (\E p \in Procs : proc[p].result = "integrity") => torn \/ restores > 0 \/ usurped

\* Every grant of a record was in force before it, or its user approved it in
\* the very command: no grant that was revoked while a prompt was open, or while
\* an app was running, comes back (entitlements.ts 187-220, 259-286).  Two writers
\* in the lock may bring one back.
NothingGrantedUnasked ==
    usurped \/ \A i \in DOMAIN chain :
        chain[i].grants \subseteq
            Active(SubSeq(chain, 1, i - 1), chain[i].app) \cup approvals[chain[i].call]

\* Every command ends.
EveryCallReturns == \A p \in Procs : proc[p].pc # "idle" ~> proc[p].pc = "idle"

================================================================================
