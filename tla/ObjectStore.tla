------------------------------ MODULE ObjectStore ------------------------------
(***************************************************************************)
(* The filesystem object store of the api-server                            *)
(* (packages/api-server/src/services/filesystem-object-store.ts) under the  *)
(* operations of StorageService: a file per object, an exclusively created  *)
(* `.lock` file around every write, a temporary file that is renamed into   *)
(* place, and processes that die anywhere.                                  *)
(***************************************************************************)
EXTENDS Naturals, FiniteSets

CONSTANTS
    Clients,     \* processes and requests that use the store
    Keys,        \* object keys
    Values,      \* serialised contents; the version of an object is the hash
                 \* of its content, so a version is a value here
    Absent,      \* no such file
    Torn,        \* a file that has been created and not yet filled
    Free,        \* no lock file
    Orphan,      \* a lock file whose process has died
    MaxTries,    \* attempts to create the lock file (200 in the code)
    Deletable,   \* keys of collections whose records are deleted
    Versioned    \* keys of collections that are written with setIfVersion

ASSUME ObjectStoreAssumption ==
    /\ MaxTries \in Nat \ {0}
    /\ Absent \notin Values /\ Torn \notin Values /\ Torn # Absent
    /\ Free \notin Clients /\ Orphan \notin Clients /\ Free # Orphan
    /\ Deletable \subseteq Keys /\ Versioned \subseteq Keys

\* The self-update control record and deployments are written with setIfVersion
\* and never deleted; keys, invites, environments, projects and the availability
\* marker are deleted and written with set.  (A self-update job is deleted only
\* by the request that created it, before anyone else knows its id.)
Segregated == Deletable \cap Versioned = {}

VARIABLES
    file,        \* [Keys -> Values \cup {Absent, Torn}]
    lock,        \* [Keys -> Clients \cup {Free, Orphan}]: who created <key>.lock
    temp,        \* [Clients -> Values \cup {Absent, Torn}]: <key>.tmp-<uuid>
    litter,      \* keys beside which a crash has left a temporary file
    pc, req, tries, outcome, data      \* [Clients -> ...]: the call it is in

callVars == <<pc, req, tries, outcome, data>>
vars == <<file, lock, temp, litter, pc, req, tries, outcome, data>>

--------------------------------------------------------------------------------

Writers == {"set", "setIfAbsent", "setIfVersion"}

Request ==
    [op : {"list"}]
      \cup [op : {"get"}, key : Keys]
      \cup [op : {"delete"}, key : Deletable]
      \cup [op : {"set", "setIfAbsent"}, key : Keys, value : Values]
      \cup [op : {"setIfVersion"}, key : Versioned, value : Values, version : Values]
NoRequest == [op |-> "none"]

\* Where a call is: locked .. release lie inside withWriteLock.
Held == {"locked", "checked", "writing", "written", "release"}
PCs == Held \cup {"idle", "called", "returned"}

Init ==
    /\ file \in [Keys -> Values \cup {Absent}]
    /\ lock = [k \in Keys |-> Free]
    /\ temp = [c \in Clients |-> Absent]
    /\ litter = {}
    /\ pc = [c \in Clients |-> "idle"]
    /\ req = [c \in Clients |-> NoRequest]
    /\ tries = [c \in Clients |-> 0]
    /\ outcome = [c \in Clients |-> "none"]
    /\ data = [c \in Clients |-> {}]

Goto(c, l) == pc' = [pc EXCEPT ![c] = l]

Finish(c, result, read) ==
    /\ Goto(c, "returned")
    /\ outcome' = [outcome EXCEPT ![c] = result]
    /\ data' = [data EXCEPT ![c] = read]

Call(c) ==
    /\ pc[c] = "idle"
    /\ \E r \in Request : req' = [req EXCEPT ![c] = r]
    /\ Goto(c, "called")
    /\ UNCHANGED <<file, lock, temp, litter, tries, outcome, data>>

\* get, getWithVersion.
ReadFile(c) ==
    /\ pc[c] = "called" /\ req[c].op = "get"
    /\ LET value == file[req[c].key]
       IN  Finish(c, "ok", IF value = Absent THEN {} ELSE {value})
    /\ UNCHANGED <<file, lock, temp, litter, req, tries>>

\* The names in the directory of a collection.
Directory ==
    [kind : {"object"}, key : {k \in Keys : file[k] # Absent}]
      \cup [kind : {".lock"}, key : {k \in Keys : lock[k] # Free}]
      \cup [kind : {".tmp-"},
            key : litter \cup {req[c].key : c \in {d \in Clients : temp[d] # Absent}}]

\* Lock and temporary files are no objects.
Listed == {n \in Directory : n.kind = "object"}

ListFiles(c) ==
    /\ pc[c] = "called" /\ req[c].op = "list"
    /\ Finish(c, "ok", {n.key : n \in Listed})
    /\ UNCHANGED <<file, lock, temp, litter, req, tries>>

\* delete takes no lock.
UnlinkFile(c) ==
    /\ pc[c] = "called" /\ req[c].op = "delete"
    /\ file' = [file EXCEPT ![req[c].key] = Absent]
    /\ Finish(c, "ok", {})
    /\ UNCHANGED <<lock, temp, litter, req, tries>>

\* Fault: the lock file is opened without asking that it be new.
CreateLock_Anyway(c) ==
    /\ pc[c] = "called" /\ req[c].op \in Writers
    /\ lock' = [lock EXCEPT ![req[c].key] = c]
    /\ Goto(c, "locked")
    /\ tries' = [tries EXCEPT ![c] = 0]
    /\ UNCHANGED <<file, temp, litter, req, outcome, data>>

CreateLock(c) ==
    /\ pc[c] = "called" /\ req[c].op \in Writers
    /\ lock[req[c].key] = Free
    /\ lock' = [lock EXCEPT ![req[c].key] = c]
    /\ Goto(c, "locked")
    /\ tries' = [tries EXCEPT ![c] = 0]
    /\ UNCHANGED <<file, temp, litter, req, outcome, data>>

\* Fault: the attempts are not counted.
AwaitLock_ForEver(c) ==
    /\ pc[c] = "called" /\ req[c].op \in Writers
    /\ lock[req[c].key] # Free
    /\ tries' = [tries EXCEPT ![c] = (@ + 1) % MaxTries]
    /\ UNCHANGED <<file, lock, temp, litter, req, pc, outcome, data>>

\* The lock file exists: try again, and throw after the last attempt.
AwaitLock(c) ==
    /\ pc[c] = "called" /\ req[c].op \in Writers
    /\ lock[req[c].key] # Free
    /\ IF tries[c] + 1 < MaxTries
       THEN /\ tries' = [tries EXCEPT ![c] = @ + 1]
            /\ UNCHANGED <<pc, outcome, data>>
       ELSE /\ tries' = [tries EXCEPT ![c] = 0]
            /\ Finish(c, "threw", {})
    /\ UNCHANGED <<file, lock, temp, litter, req>>

\* Fault: any version of the object will do.
Condition_AnyVersion(r) ==
    /\ r.op = "setIfAbsent" => file[r.key] = Absent
    /\ r.op = "setIfVersion" => file[r.key] # Absent

\* The re-reads of setIfAbsent and setIfVersion under the lock.
Condition(r) ==
    /\ r.op = "setIfAbsent" => file[r.key] = Absent
    /\ r.op = "setIfVersion" => file[r.key] = r.version

CheckCondition(c) ==
    /\ pc[c] = "locked"
    /\ IF Condition(req[c])
       THEN Goto(c, "checked") /\ UNCHANGED outcome
       ELSE /\ Goto(c, "release")
            /\ outcome' = [outcome EXCEPT ![c] = "refused"]
    /\ UNCHANGED <<file, lock, temp, litter, req, tries, data>>

\* writeAtomic: fs.writeFile creates and then fills the temporary file.
CreateTemp(c) ==
    /\ pc[c] = "checked"
    /\ temp' = [temp EXCEPT ![c] = Torn]
    /\ Goto(c, "writing")
    /\ UNCHANGED <<file, lock, litter, req, tries, outcome, data>>

FillTemp(c) ==
    /\ pc[c] = "writing"
    /\ temp' = [temp EXCEPT ![c] = req[c].value]
    /\ Goto(c, "written")
    /\ UNCHANGED <<file, lock, litter, req, tries, outcome, data>>

RenameTemp(c) ==
    /\ pc[c] = "written"
    /\ file' = [file EXCEPT ![req[c].key] = temp[c]]
    /\ temp' = [temp EXCEPT ![c] = Absent]
    /\ Goto(c, "release")
    /\ outcome' = [outcome EXCEPT ![c] = "ok"]
    /\ UNCHANGED <<lock, litter, req, tries, data>>

\* The finally block.
RemoveLock(c) ==
    /\ pc[c] = "release"
    /\ lock' = [lock EXCEPT ![req[c].key] = Free]
    /\ Goto(c, "returned")
    /\ UNCHANGED <<file, temp, litter, req, tries, outcome, data>>

Reset(c) ==
    /\ Goto(c, "idle")
    /\ req' = [req EXCEPT ![c] = NoRequest]
    /\ tries' = [tries EXCEPT ![c] = 0]
    /\ outcome' = [outcome EXCEPT ![c] = "none"]
    /\ data' = [data EXCEPT ![c] = {}]

Leave(c) ==
    /\ pc[c] = "returned"
    /\ Reset(c)
    /\ UNCHANGED <<file, lock, temp, litter>>

\* The process dies and another one takes its place.
Crash(c) ==
    /\ pc[c] \notin {"idle", "returned"}
    /\ lock' = IF pc[c] \in Held
               THEN [lock EXCEPT ![req[c].key] = Orphan] ELSE lock
    /\ litter' = IF temp[c] = Absent THEN litter ELSE litter \cup {req[c].key}
    /\ temp' = [temp EXCEPT ![c] = Absent]
    /\ Reset(c)
    /\ UNCHANGED file

Step(c) ==
    \/ ReadFile(c) \/ ListFiles(c) \/ UnlinkFile(c)
    \/ CreateLock(c) \/ AwaitLock(c) \/ CheckCondition(c)
    \/ CreateTemp(c) \/ FillTemp(c) \/ RenameTemp(c) \/ RemoveLock(c)

Next == \E c \in Clients : Call(c) \/ Step(c) \/ Leave(c) \/ Crash(c)

Spec == Init /\ [][Next]_vars

\* A file operation that has been started completes.
FairSpec == Spec /\ \A c \in Clients : WF_vars(Step(c))

--------------------------------------------------------------------------------

TypeOK ==
    /\ file \in [Keys -> Values \cup {Absent}]
    /\ lock \in [Keys -> Clients \cup {Free, Orphan}]
    /\ temp \in [Clients -> Values \cup {Absent, Torn}]
    /\ litter \subseteq Keys
    /\ pc \in [Clients -> PCs]
    /\ req \in [Clients -> Request \cup {NoRequest}]
    /\ tries \in [Clients -> 0..MaxTries]
    /\ outcome \in [Clients -> {"none", "ok", "refused", "threw"}]
    /\ data \in [Clients -> SUBSET (Keys \cup Values)]
    /\ \A c \in Clients : pc[c] = "idle" <=> req[c] = NoRequest

\* A lock file whose process lives is held by exactly that process, inside a
\* write of that very key: so no two writes of a key overlap, and only a crash
\* leaves a lock behind (withWriteLock).
LockedByItsWriter ==
    /\ \A k \in Keys : lock[k] \in Clients =>
          pc[lock[k]] \in Held /\ req[lock[k]].key = k
    /\ \A c \in Clients : pc[c] \in Held => lock[req[c].key] = c

\* The refinement: a call of the file store is pending until its file operation
\* has taken effect.
CallOf(c) ==
    IF pc[c] = "idle" THEN [state |-> "idle", data |-> {}]
    ELSE IF pc[c] \in {"release", "returned"}
         THEN [state |-> outcome[c], req |-> req[c], data |-> data[c]]
         ELSE [state |-> "pending", req |-> req[c], data |-> {}]

Calls == [c \in Clients |-> CallOf(c)]

Atomic == INSTANCE AtomicStore WITH object <- file, call <- Calls

\* Where deletes and conditional writes meet on no key, the file store is the
\* ObjectStore of sdk/src/object-store/types.ts: every operation is atomic, also
\* beside crashes, lock timeouts and left-over files.
StoreIsAtomic == Atomic!Spec

\* Every call returns, also when the lock of its key belongs to a dead process:
\* a crash costs later writes of the key an error and never a hang.
EveryCallReturns ==
    \A c \in Clients : pc[c] = "called" ~> pc[c] \in {"returned", "idle"}
================================================================================
