--------------------------- MODULE ObjectStoreProofs ---------------------------
(***************************************************************************)
(* Theorems of ObjectStore: the lock file serialises the writers of a key,  *)
(* and the file store implements the atomic one.                            *)
(***************************************************************************)
EXTENDS ObjectStore, TLAPS

\* A condition that has been checked holds until the rename: other writers are
\* locked out, and the keys of setIfVersion are not deleted.
CheckedStillHolds ==
    \A c \in Clients :
        pc[c] \in {"checked", "writing", "written"} =>
            req[c].op \in Writers /\ Condition(req[c])

\* What is renamed into place is the whole value.
RenamesWholeValue ==
    \A c \in Clients : pc[c] = "written" => temp[c] = req[c].value

\* Only writers lock.
WritersLock == \A c \in Clients : pc[c] \in Held => req[c].op \in Writers

\* A temporary file belongs to a write under way.
TempsOfWriters ==
    \A c \in Clients : temp[c] # Absent => pc[c] \in {"writing", "written"}

\* Only a finished read has data to return.
DataOfReads == \A c \in Clients : pc[c] # "returned" => data[c] = {}

Inv ==
    /\ TypeOK /\ LockedByItsWriter
    /\ WritersLock /\ RenamesWholeValue /\ DataOfReads /\ TempsOfWriters

--------------------------------------------------------------------------------

\* Requests of writers name a key and a value, those of setIfVersion a versioned
\* key.
LEMMA RequestFields ==
    ASSUME NEW r \in Request
    PROVE  /\ r.op \in Writers => r.key \in Keys /\ r.value \in Values
           /\ r.op = "get" => r.key \in Keys
           /\ r.op = "delete" => r.key \in Deletable /\ r.key \in Keys
           /\ r.op = "setIfVersion" => r.key \in Versioned
           /\ r.op \in Writers \cup {"get", "list", "delete"}
           /\ r # NoRequest
  BY ObjectStoreAssumption DEF Request, Writers, NoRequest

\* In every step one client moves and the others stay where they are.
LEMMA OneMoves ==
    ASSUME TypeOK, NEW c \in Clients, Call(c) \/ Step(c) \/ Leave(c) \/ Crash(c)
    PROVE  \A d \in Clients \ {c} :
              /\ pc'[d] = pc[d] /\ req'[d] = req[d] /\ outcome'[d] = outcome[d]
              /\ data'[d] = data[d] /\ temp'[d] = temp[d] /\ CallOf(d)' = CallOf(d)
  BY DEF TypeOK, Call, Step, Leave, Crash, Reset, Finish, Goto, ReadFile, ListFiles,
         UnlinkFile, CreateLock, AwaitLock, CheckCondition, CreateTemp, FillTemp,
         RenameTemp, RemoveLock, CallOf

LEMMA InitInv == Init => Inv
  BY ObjectStoreAssumption
     DEF Init, Inv, TypeOK, LockedByItsWriter, WritersLock, RenamesWholeValue,
         DataOfReads, TempsOfWriters, Held, PCs

LEMMA StepInv == Inv /\ [Next]_vars => Inv'
  <1> SUFFICES ASSUME Inv, [Next]_vars PROVE Inv'
    OBVIOUS
  <1> USE ObjectStoreAssumption
  <1>1. CASE UNCHANGED vars
    BY <1>1 DEF vars, Inv, TypeOK, LockedByItsWriter, WritersLock,
                RenamesWholeValue, DataOfReads, TempsOfWriters
  <1>2. ASSUME NEW c \in Clients, Call(c) PROVE Inv'
    BY <1>2, RequestFields
       DEF Call, Goto, Inv, TypeOK, LockedByItsWriter, WritersLock,
           RenamesWholeValue, DataOfReads, TempsOfWriters, Held, PCs
  <1>3. ASSUME NEW c \in Clients, ReadFile(c) PROVE Inv'
    BY <1>3, RequestFields
       DEF ReadFile, Finish, Goto, Inv, TypeOK, LockedByItsWriter, WritersLock,
           RenamesWholeValue, DataOfReads, TempsOfWriters, Held, PCs
  <1>4. ASSUME NEW c \in Clients, ListFiles(c) PROVE Inv'
    <2>1. {n.key : n \in Listed} \subseteq Keys
      BY <1>4 DEF Listed, Directory
    <2> QED
      BY <1>4, <2>1
         DEF ListFiles, Finish, Goto, Inv, TypeOK, LockedByItsWriter, WritersLock,
             RenamesWholeValue, DataOfReads, TempsOfWriters, Held, PCs
  <1>5. ASSUME NEW c \in Clients, UnlinkFile(c) PROVE Inv'
    BY <1>5, RequestFields
       DEF UnlinkFile, Finish, Goto, Inv, TypeOK, LockedByItsWriter, WritersLock,
           RenamesWholeValue, DataOfReads, TempsOfWriters, Held, PCs
  <1>6. ASSUME NEW c \in Clients, CreateLock(c) PROVE Inv'
    BY <1>6, RequestFields
       DEF CreateLock, Goto, Inv, TypeOK, LockedByItsWriter, WritersLock,
           RenamesWholeValue, DataOfReads, TempsOfWriters, Held, PCs
  <1>7. ASSUME NEW c \in Clients, AwaitLock(c) PROVE Inv'
    BY <1>7, RequestFields
       DEF AwaitLock, Finish, Goto, Inv, TypeOK, LockedByItsWriter, WritersLock,
           RenamesWholeValue, DataOfReads, TempsOfWriters, Held, PCs
  <1>8. ASSUME NEW c \in Clients, CheckCondition(c) PROVE Inv'
    BY <1>8, RequestFields
       DEF CheckCondition, Goto, Inv, TypeOK, LockedByItsWriter, WritersLock,
           RenamesWholeValue, DataOfReads, TempsOfWriters, Held, PCs
  <1>9. ASSUME NEW c \in Clients, CreateTemp(c) PROVE Inv'
    BY <1>9, RequestFields
       DEF CreateTemp, Goto, Inv, TypeOK, LockedByItsWriter, WritersLock,
           RenamesWholeValue, DataOfReads, TempsOfWriters, Held, PCs
  <1>10. ASSUME NEW c \in Clients, FillTemp(c) PROVE Inv'
    BY <1>10, RequestFields
       DEF FillTemp, Goto, Inv, TypeOK, LockedByItsWriter, WritersLock,
           RenamesWholeValue, DataOfReads, TempsOfWriters, Held, PCs
  <1>11. ASSUME NEW c \in Clients, RenameTemp(c) PROVE Inv'
    BY <1>11, RequestFields
       DEF RenameTemp, Goto, Inv, TypeOK, LockedByItsWriter, WritersLock,
           RenamesWholeValue, DataOfReads, TempsOfWriters, Held, PCs
  <1>12. ASSUME NEW c \in Clients, RemoveLock(c) PROVE Inv'
    BY <1>12, RequestFields
       DEF RemoveLock, Goto, Inv, TypeOK, LockedByItsWriter, WritersLock,
           RenamesWholeValue, DataOfReads, TempsOfWriters, Held, PCs
  <1>13. ASSUME NEW c \in Clients, Leave(c) PROVE Inv'
    BY <1>13, RequestFields
       DEF Leave, Reset, Goto, Inv, TypeOK, LockedByItsWriter, WritersLock,
           RenamesWholeValue, DataOfReads, TempsOfWriters, Held, PCs
  <1>14. ASSUME NEW c \in Clients, Crash(c) PROVE Inv'
    <2> USE <1>14 DEF Crash, Reset, Goto
    <2>1. pc[c] \in Held => lock[req[c].key] = c /\ req[c].key \in Keys
      BY RequestFields DEF Inv, TypeOK, LockedByItsWriter, WritersLock, Held
    <2>2. temp[c] # Absent => litter' \subseteq Keys
      BY RequestFields DEF Inv, TypeOK, TempsOfWriters, WritersLock, Held
    <2>3. TypeOK'
      BY <2>1, <2>2, RequestFields DEF Inv, TypeOK, Held, PCs
    <2>4. /\ pc'[c] = "idle" /\ temp'[c] = Absent /\ data'[c] = {}
          /\ \A d \in Clients \ {c} :
                /\ pc'[d] = pc[d] /\ req'[d] = req[d] /\ temp'[d] = temp[d]
                /\ data'[d] = data[d]
      BY DEF Inv, TypeOK
    <2>5. \A k \in Keys : lock'[k] = lock[k] \/ (lock[k] = c /\ lock'[k] = Orphan)
      BY <2>1 DEF Inv, TypeOK
    <2>6. LockedByItsWriter'
      <3>1. ASSUME NEW k \in Keys, lock'[k] \in Clients
            PROVE  pc'[lock'[k]] \in Held /\ req'[lock'[k]].key = k
        <4>1. lock'[k] = lock[k]
          BY <2>5, <3>1
        <4>2. lock[k] # c
          BY <2>1, <4>1, <3>1 DEF Inv, LockedByItsWriter, TypeOK
        <4> QED
          BY <4>1, <4>2, <2>4, <3>1 DEF Inv, LockedByItsWriter
      <3>2. ASSUME NEW d \in Clients, pc'[d] \in Held
            PROVE  lock'[req'[d].key] = d
        <4>1. d # c
          BY <2>4, <3>2 DEF Held
        <4>2. pc[d] \in Held /\ req'[d] = req[d] /\ lock[req[d].key] = d
          BY <4>1, <2>4, <3>2 DEF Inv, LockedByItsWriter
        <4>3. req[d].key \in Keys
          BY <4>2, RequestFields DEF Inv, TypeOK, WritersLock, Held
        <4> QED
          BY <4>1, <4>2, <4>3, <2>5
      <3> QED
        BY <3>1, <3>2 DEF LockedByItsWriter
    <2>7. (WritersLock /\ RenamesWholeValue /\ DataOfReads /\ TempsOfWriters)'
      BY <2>4 DEF Inv, WritersLock, RenamesWholeValue, DataOfReads, TempsOfWriters, Held
    <2> QED
      BY <2>3, <2>6, <2>7 DEF Inv
  <1> QED
    BY <1>1, <1>2, <1>3, <1>4, <1>5, <1>6, <1>7, <1>8, <1>9, <1>10, <1>11, <1>12,
       <1>13, <1>14 DEF Next, Step

--------------------------------------------------------------------------------

\* Every reachable state is well typed: no process loses track of the file, the
\* lock or the temporary copy it works on, for every number of crashes.
THEOREM ObjectStoreTyped == Spec => []TypeOK
<1>1. Inv => TypeOK
  BY DEF Inv
<1> QED
  BY <1>1, InitInv, StepInv, PTL DEF Spec

\* The lock serialises the writes of a key, for every number of clients and keys.
THEOREM WritesOfAKeyTakeTurns == Spec => []LockedByItsWriter
<1>1. Inv => LockedByItsWriter
  BY DEF Inv
<1> QED
  BY <1>1, InitInv, StepInv, PTL DEF Spec

--------------------------------------------------------------------------------

\* The condition can change under a writer only by a write of its key, which the
\* lock excludes, or by a delete, which makes setIfAbsent right all the more and
\* never meets setIfVersion.
LEMMA InitChecked == Init => CheckedStillHolds
  BY DEF Init, CheckedStillHolds

LEMMA StepChecked ==
    ASSUME Segregated PROVE Inv /\ CheckedStillHolds /\ [Next]_vars => CheckedStillHolds'
  <1> SUFFICES ASSUME Inv, CheckedStillHolds, [Next]_vars PROVE CheckedStillHolds'
    OBVIOUS
  <1> USE ObjectStoreAssumption
  <1>1. CASE UNCHANGED vars
    BY <1>1 DEF vars, CheckedStillHolds, Condition
  <1>2. ASSUME NEW c \in Clients, Call(c) \/ Step(c) \/ Leave(c) \/ Crash(c)
        PROVE  CheckedStillHolds'
    <2>1. \A d \in Clients \ {c} : pc'[d] = pc[d] /\ req'[d] = req[d]
      BY <1>2, OneMoves DEF Inv
    <2>2. CASE UnlinkFile(c)
      <3>1. pc[c] = "called" /\ pc'[c] = "returned" /\ req' = req
        BY <2>2 DEF UnlinkFile, Finish, Goto, Inv, TypeOK
      <3>2. req[c].key \in Deletable /\ req[c].key \in Keys
        BY <2>2, RequestFields DEF UnlinkFile, Inv, TypeOK, NoRequest
      <3>3. \A k \in Keys : file'[k] = file[k] \/ (k \in Deletable /\ file'[k] = Absent)
        BY <2>2, <3>2 DEF UnlinkFile, Inv, TypeOK
      <3> QED
        BY <2>1, <3>1, <3>3, RequestFields
           DEF CheckedStillHolds, Condition, Inv, TypeOK, Segregated, Writers, NoRequest
    <2>3. CASE RenameTemp(c)
      <3>1. /\ pc[c] = "written" /\ pc'[c] = "release" /\ req' = req
            /\ \A k \in Keys \ {req[c].key} : file'[k] = file[k]
        BY <2>3 DEF RenameTemp, Goto, Inv, TypeOK
      <3>2. lock[req[c].key] = c
        BY <3>1 DEF Inv, LockedByItsWriter, Held
      <3>3. ASSUME NEW d \in Clients, pc'[d] \in {"checked", "writing", "written"}
            PROVE  req'[d].op \in Writers /\ Condition(req[d])'
        <4>1. d # c /\ pc[d] = pc'[d] /\ req'[d] = req[d]
          BY <3>1, <3>3, <2>1
        <4>2. req[d].op \in Writers /\ Condition(req[d]) /\ req[d].key \in Keys
          BY <4>1, <3>3, RequestFields DEF CheckedStillHolds, Inv, TypeOK
        <4>3. lock[req[d].key] = d
          BY <4>1, <3>3 DEF Inv, LockedByItsWriter, Held
        <4>4. file'[req[d].key] = file[req[d].key]
          BY <4>1, <4>2, <4>3, <3>1, <3>2
        <4> QED
          BY <4>1, <4>2, <4>4 DEF Condition
      <3> QED
        BY <3>3 DEF CheckedStillHolds
    <2>4. CASE ~UnlinkFile(c) /\ ~RenameTemp(c)
      <3>1. file' = file
        BY <1>2, <2>4 DEF Call, Step, Leave, Crash, ReadFile, ListFiles, CreateLock,
           AwaitLock, CheckCondition, CreateTemp, FillTemp, RemoveLock
      <3>2. pc'[c] \in {"checked", "writing", "written"} =>
               req'[c].op \in Writers /\ Condition(req[c])'
        BY <1>2, <2>4, <3>1
           DEF Call, Step, Leave, Crash, Reset, Finish, Goto, ReadFile, ListFiles,
               CreateLock, AwaitLock, CheckCondition, CreateTemp, FillTemp, RemoveLock,
               Inv, TypeOK, CheckedStillHolds, WritersLock, Condition, Held
      <3>3. \A d \in Clients \ {c} : Condition(req[d])' = Condition(req[d])
        BY <2>1, <3>1 DEF Condition
      <3> QED
        BY <2>1, <3>2, <3>3 DEF CheckedStillHolds
    <2> QED
      BY <2>2, <2>3, <2>4
  <1> QED
    BY <1>1, <1>2 DEF Next

--------------------------------------------------------------------------------

\* What a step does to the abstract calls is what it does to that of its client.
LEMMA CallMoves ==
    ASSUME TypeOK, NEW c \in Clients, Call(c) \/ Step(c) \/ Leave(c) \/ Crash(c)
    PROVE  Calls' = [Calls EXCEPT ![c] = CallOf(c)']
  BY OneMoves DEF Calls

LEMMA InitRefines == Init => Atomic!Init
  BY DEF Init, Atomic!Init, Atomic!Idle, Calls, CallOf

LEMMA StepRefines ==
    ASSUME Segregated
    PROVE  Inv /\ CheckedStillHolds /\ [Next]_vars => [Atomic!Next]_(Atomic!vars)
  <1> SUFFICES ASSUME Inv, CheckedStillHolds, [Next]_vars
               PROVE  [Atomic!Next]_(Atomic!vars)
    OBVIOUS
  <1> USE ObjectStoreAssumption
  <1>1. CASE UNCHANGED vars
    BY <1>1 DEF vars, Atomic!vars, Calls, CallOf
  <1>2. ASSUME NEW c \in Clients, Call(c) \/ Step(c) \/ Leave(c) \/ Crash(c)
        PROVE  [Atomic!Next]_(Atomic!vars)
    <2>1. Calls' = [Calls EXCEPT ![c] = CallOf(c)'] /\ Calls[c] = CallOf(c)
      BY <1>2, CallMoves DEF Inv, Calls
    <2>2. SUFFICES \/ CallOf(c)' = CallOf(c) /\ file' = file
                   \/ Atomic!Call(c) \/ Atomic!Read(c) \/ Atomic!Write(c)
                   \/ Atomic!Refuse(c) \/ Atomic!Delete(c) \/ Atomic!Throw(c)
                   \/ Atomic!Leave(c)
      <3>1. CASE CallOf(c)' = CallOf(c) /\ file' = file
        <4>1. Calls' = Calls
          BY <2>1, <3>1 DEF Calls
        <4> QED
          BY <4>1, <3>1 DEF Atomic!vars
      <3> QED
        BY <2>2, <3>1 DEF Atomic!Next
    <2>3. pc[c] \in {"called", "locked", "checked", "writing", "written"} =>
             Calls[c].state = "pending" /\ Calls[c].req = req[c]
      BY <2>1 DEF CallOf
    <2>4. CASE Call(c)
      <3>1. PICK r \in Request : req' = [req EXCEPT ![c] = r]
        BY <2>4 DEF Call
      <3>2. CallOf(c) = Atomic!Idle /\ CallOf(c)' = Atomic!Pending(r) /\ file' = file
        BY <2>4, <3>1 DEF Call, Goto, CallOf, Atomic!Idle, Atomic!Pending, Inv, TypeOK
      <3>3. r \in Atomic!Request
        BY DEF Request, Atomic!Request
      <3> QED
        BY <3>2, <3>3, <2>1 DEF Atomic!Call
    <2>5. CASE ReadFile(c)
      <3>1. CallOf(c)' = Atomic!Done(req[c], "ok", Atomic!ReadOf(req[c])) /\ file' = file
        BY <2>5 DEF ReadFile, Finish, Goto, CallOf, Atomic!Done, Atomic!ReadOf, Inv, TypeOK
      <3> QED
        BY <2>5, <3>1, <2>1, <2>3 DEF ReadFile, Atomic!Read
    <2>6. CASE ListFiles(c)
      <3>1. {n.key : n \in Listed} = Atomic!Present
        <4>1. \A n \in Listed : n.key \in Atomic!Present
          BY DEF Listed, Directory, Atomic!Present
        <4>2. \A k \in Atomic!Present : [kind |-> "object", key |-> k] \in Listed
          BY DEF Listed, Directory, Atomic!Present
        <4>3. \A k \in Atomic!Present : \E n \in Listed : n.key = k
          BY <4>2
        <4> QED
          BY <4>1, <4>3
      <3>2. CallOf(c)' = Atomic!Done(req[c], "ok", Atomic!ReadOf(req[c])) /\ file' = file
        BY <2>6, <3>1
           DEF ListFiles, Finish, Goto, CallOf, Atomic!Done, Atomic!ReadOf, Inv, TypeOK
      <3> QED
        BY <2>6, <3>2, <2>1, <2>3 DEF ListFiles, Atomic!Read
    <2>7. CASE UnlinkFile(c)
      <3>1. CallOf(c)' = Atomic!Done(req[c], "ok", {})
        BY <2>7 DEF UnlinkFile, Finish, Goto, CallOf, Atomic!Done, Inv, TypeOK
      <3> QED
        BY <2>7, <3>1, <2>1, <2>3 DEF UnlinkFile, Atomic!Delete
    <2>8. CASE AwaitLock(c) /\ pc'[c] = "returned"
      <3>1. CallOf(c)' = Atomic!Done(req[c], "threw", {}) /\ file' = file
        BY <2>8 DEF AwaitLock, Finish, Goto, CallOf, Atomic!Done, Inv, TypeOK
      <3> QED
        BY <2>8, <3>1, <2>1, <2>3 DEF AwaitLock, Atomic!Throw, Writers, Atomic!Writers
    <2>9. CASE CheckCondition(c) /\ pc'[c] = "release"
      <3>1. CallOf(c)' = Atomic!Done(req[c], "refused", {}) /\ file' = file
        BY <2>9 DEF CheckCondition, Finish, Goto, CallOf, Atomic!Done, Inv, TypeOK,
                    DataOfReads
      <3>2. req[c].op \in Atomic!Writers /\ ~Atomic!Holds(req[c])
        BY <2>9 DEF CheckCondition, Goto, Inv, TypeOK, WritersLock, Held, Writers,
                    Atomic!Writers, Condition, Atomic!Holds
      <3> QED
        BY <2>9, <3>1, <3>2, <2>1, <2>3 DEF CheckCondition, Atomic!Refuse
    <2>10. CASE RenameTemp(c)
      <3>1. CallOf(c)' = Atomic!Done(req[c], "ok", {})
        BY <2>10 DEF RenameTemp, Goto, CallOf, Atomic!Done, Inv, TypeOK, DataOfReads
      <3>2. /\ req[c].op \in Atomic!Writers /\ Atomic!Holds(req[c])
            /\ file' = [file EXCEPT ![req[c].key] = req[c].value]
        BY <2>10 DEF RenameTemp, Inv, RenamesWholeValue, CheckedStillHolds, Condition,
                     Writers, Atomic!Writers, Atomic!Holds
      <3> QED
        BY <2>10, <3>1, <3>2, <2>1, <2>3 DEF RenameTemp, Atomic!Write
    <2>11. CASE Leave(c) \/ Crash(c)
      <3>1. CallOf(c)' = Atomic!Idle /\ file' = file
        BY <2>11 DEF Leave, Crash, Reset, Goto, CallOf, Atomic!Idle, Inv, TypeOK
      <3>2. CallOf(c) # Atomic!Idle
        BY <2>11 DEF Leave, Crash, CallOf, Atomic!Idle, Inv, TypeOK
      <3> QED
        BY <3>1, <3>2, <2>1 DEF Atomic!Leave
    <2>12. CASE \/ CreateLock(c) \/ CreateTemp(c) \/ FillTemp(c) \/ RemoveLock(c)
                \/ AwaitLock(c) /\ pc'[c] # "returned"
                \/ CheckCondition(c) /\ pc'[c] # "release"
      <3>1. file' = file
        BY <2>12 DEF CreateLock, CreateTemp, FillTemp, RemoveLock, AwaitLock, CheckCondition
      <3>2. CallOf(c)' = CallOf(c)
        BY <2>12 DEF CreateLock, CreateTemp, FillTemp, RemoveLock, AwaitLock,
                     CheckCondition, Finish, Goto, CallOf, Inv, TypeOK
      <3> QED
        BY <3>1, <3>2
    <2> QED
      BY <1>2, <2>4, <2>5, <2>6, <2>7, <2>8, <2>9, <2>10, <2>11, <2>12 DEF Step
  <1> QED
    BY <1>1, <1>2 DEF Next

\* For every number of clients, keys, values, attempts and crashes, the file store
\* is an atomic ObjectStore where deletes and conditional writes do not meet.
THEOREM FileStoreIsAtomic == ASSUME Segregated PROVE Spec => StoreIsAtomic
<1>1. Segregated
  OBVIOUS
<1> QED
  BY <1>1, InitInv, StepInv, InitChecked, StepChecked, InitRefines, StepRefines, PTL
     DEF Spec, StoreIsAtomic, Atomic!Spec
================================================================================
