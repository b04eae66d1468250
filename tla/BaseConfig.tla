------------------------------- MODULE BaseConfig -------------------------------
(***************************************************************************)
(* The base config of a cloud installation: one S3 object, read through a   *)
(* per-process cache by every request and job, changed by edge deployments  *)
(* (packages/api-server/src/services/base-config.service.ts and             *)
(* base-config-writer.service.ts) and by the installer                      *)
(* (packages/install-aws/src/cloud-install.ts).                             *)
(*                                                                          *)
(* A request to S3 is sent, takes effect, and is answered, in three steps,  *)
(* and answers of different requests arrive in any order.  What the code    *)
(* does when an answer arrives is one step: nothing but microtasks run      *)
(* between the settling of a read and the tasks that await it.              *)
(***************************************************************************)
EXTENDS Integers, FiniteSets

CONSTANTS
    Processes,   \* api-server and worker processes, each with its repository
    Tasks,       \* what runs in them: a request or job that resolves the config at
                 \* its boundary, or an edge deployment that attaches or detaches
    Installers,  \* runs of the installer or of the cloud update
    Home,        \* [Tasks -> Processes]
    Edges,       \* edge outputs: domain, certificate, distribution, ...
    Boundaries,  \* permissions boundaries of the substrate
    NoEdge,      \* the fields are not there: epoch 1
    None,        \* nothing: no object, no cache, no read, no answer
    MaxAttempts, \* attempts of an update (3 in the code)
    Faults       \* subset of {"error", "retried"}: what may go wrong with S3

ASSUME BaseConfigAssumption ==
    /\ Home \in [Tasks -> Processes]
    /\ NoEdge \notin Edges
    /\ MaxAttempts \in Nat \ {0}
    /\ Faults \subseteq {"error", "retried"}

VARIABLES
    stored,      \* the object, or None; its ETag is the hash of its content
    cache,       \* [Processes -> config or None]
    inFlight,    \* [Processes -> the shared read, or None]
    task,        \* [Tasks -> [pc, ...]]
    installer    \* [Installers -> the config it has read, or None]

vars == <<stored, cache, inFlight, task, installer>>

--------------------------------------------------------------------------------

Config == [boundary : Boundaries, edge : Edges \cup {NoEdge}]

\* The read a process shares among its tasks.
Read == [pc : {"sent", "served"}, known : Config \cup {None},
         status : {"none", "error", "notModified", "ok"}, body : Config \cup {None},
         recent : SUBSET (Config \cup {None})]

ASSUME NoneAssumption == None \notin Config \cup Read

\* attempt, etag, next and reply are locals of update().
Idle == [pc |-> "idle", kind |-> "none", edge |-> NoEdge, attempt |-> 0, etag |-> None,
         next |-> None, reply |-> "none"]

Init ==
    /\ stored \in {None} \cup [boundary : Boundaries, edge : {NoEdge}]
    /\ cache = [p \in Processes |-> None]
    /\ inFlight = [p \in Processes |-> None]
    /\ task = [t \in Tasks |-> Idle]
    /\ installer = [i \in Installers |-> None]

\* resolve(): join the read in flight, or send one that is conditional on what is
\* cached now.  recent is no state of the code: the contents that have been stored,
\* or reported by an update of this process, since the read was sent.
Resolve(p, cached) ==
    inFlight' = IF inFlight[p] # None THEN inFlight
                ELSE [inFlight EXCEPT ![p] =
                        [pc |-> "sent", known |-> cached, status |-> "none",
                         body |-> None, recent |-> {stored}]]

\* A request, or a job of the worker, takes its snapshot.
StartRequest(t) ==
    /\ task[t].pc \in {"idle", "failed"}
    /\ task' = [task EXCEPT ![t] = [Idle EXCEPT !.pc = "waiting", !.kind = "request"]]
    /\ Resolve(Home[t], cache[Home[t]])
    /\ UNCHANGED <<stored, cache, installer>>

\* attachEdgeBaseConfig, or detachEdgeBaseConfig (NoEdge), enters update().
StartUpdate(t) ==
    /\ task[t].pc \in {"idle", "failed"}
    /\ \E e \in Edges \cup {NoEdge} :
          task' = [task EXCEPT ![t] =
                     [Idle EXCEPT !.pc = "waiting", !.kind = "update", !.edge = e,
                                  !.attempt = 1]]
    /\ Resolve(Home[t], cache[Home[t]])
    /\ UNCHANGED <<stored, cache, installer>>

\* S3 serves the read: 304 when the object is the one that is known.
ServeGet(p) ==
    /\ inFlight[p] # None /\ inFlight[p].pc = "sent"
    /\ \E fault \in {FALSE} \cup {f = "error" : f \in Faults} :
          inFlight' = [inFlight EXCEPT
             ![p].pc = "served",
             ![p].status = IF fault \/ stored = None THEN "error"
                           ELSE IF stored = inFlight[p].known THEN "notModified"
                           ELSE "ok",
             ![p].body = stored]
    /\ UNCHANGED <<stored, cache, task, installer>>

\* What the read resolves with, None when it throws: a 304 stands for the cache
\* as it is now, and without a cache it is thrown.
Answer(p) ==
    CASE inFlight[p].status = "error" -> None
      [] inFlight[p].status = "notModified" -> cache[p]
      [] inFlight[p].status = "ok" -> inFlight[p].body

\* The transforms replace the fields of the edge and keep the rest.
Transform(current, e) == [current EXCEPT !.edge = e]

\* What a task that awaits the read does with it: a request is done, an update
\* sends its PUT, conditional on the ETag of what it has read.
Resumed(t, config) ==
    IF config = None THEN [Idle EXCEPT !.pc = "failed"]
    ELSE IF task[t].kind = "request" THEN Idle
    ELSE [task[t] EXCEPT !.pc = "putting", !.etag = config,
                         !.next = Transform(config, task[t].edge)]

\* Fault: what is cached is not replaced.
ReceiveGet_KeepsCache(p) ==
    /\ inFlight[p] # None /\ inFlight[p].pc = "served"
    /\ LET config == IF cache[p] = None THEN Answer(p) ELSE cache[p]
       IN  /\ task' = [t \in Tasks |->
                  IF Home[t] = p /\ task[t].pc = "waiting"
                  THEN Resumed(t, config) ELSE task[t]]
           /\ cache' = [cache EXCEPT ![p] = config]
    /\ inFlight' = [inFlight EXCEPT ![p] = None]
    /\ UNCHANGED <<stored, installer>>

ReceiveGet(p) ==
    /\ inFlight[p] # None /\ inFlight[p].pc = "served"
    /\ task' = [t \in Tasks |->
                  IF Home[t] = p /\ task[t].pc = "waiting"
                  THEN Resumed(t, Answer(p)) ELSE task[t]]
    /\ cache' = [cache EXCEPT ![p] = IF Answer(p) = None THEN @ ELSE Answer(p)]
    /\ inFlight' = [inFlight EXCEPT ![p] = None]
    /\ UNCHANGED <<stored, installer>>

\* A new content replaces the object; a read in flight may answer with it.
Store(config) ==
    /\ stored' = config
    /\ inFlight' = [p \in Processes |->
          IF inFlight[p] = None THEN None
          ELSE [inFlight[p] EXCEPT !.recent = @ \cup {config}]]

\* Fault: the write carries no IfMatch.
PutOutcomes_NoIfMatch(etag, next) == {<<TRUE, "ok">>}

\* What S3 does with a PUT that carries IfMatch: whether it stores, and what it
\* answers.  A PUT whose answer gets lost is sent again by the client library and
\* meets its own content.
PutOutcomes(etag, next) ==
    (IF stored = etag
     THEN {<<TRUE, "ok">>}
            \cup {<<TRUE, IF next = etag THEN "ok" ELSE "precondition">> :
                    f \in Faults \cap {"retried"}}
            \cup {<<TRUE, "error">> : f \in Faults \cap {"error"}}
     ELSE {<<FALSE, "precondition">>})
    \cup {<<FALSE, "error">> : f \in Faults \cap {"error"}}

ServePut(t) ==
    /\ task[t].pc = "putting"
    /\ \E outcome \in PutOutcomes(task[t].etag, task[t].next) :
          /\ Store(IF outcome[1] THEN task[t].next ELSE stored)
          /\ task' = [task EXCEPT ![t].pc = "put", ![t].reply = outcome[2]]
    /\ UNCHANGED <<cache, installer>>

\* The last attempt throws, the others forget the cache and begin again.
MayRetry(t) == task[t].attempt < MaxAttempts

\* S3 returns the new ETag: the cache holds what has been written.
Cached(t) == task[t].next

ReceivePut(t) ==
    /\ task[t].pc = "put"
    /\ LET p == Home[t]
       IN  \/ /\ task[t].reply = "ok"
              /\ cache' = [cache EXCEPT ![p] = Cached(t)]
              /\ task' = [task EXCEPT ![t] = Idle]
              /\ inFlight' = IF inFlight[p] = None THEN inFlight
                             ELSE [inFlight EXCEPT ![p].recent = @ \cup {task[t].next}]
           \/ /\ task[t].reply = "precondition" /\ MayRetry(t)
              /\ cache' = [cache EXCEPT ![p] = None]
              /\ task' = [task EXCEPT
                    ![t] = [task[t] EXCEPT !.pc = "waiting", !.attempt = @ + 1,
                                           !.etag = None, !.next = None, !.reply = "none"]]
              /\ Resolve(p, None)
           \/ /\ task[t].reply = "error"
                   \/ (task[t].reply = "precondition" /\ ~MayRetry(t))
              /\ task' = [task EXCEPT ![t] = [Idle EXCEPT !.pc = "failed"]]
              /\ UNCHANGED <<cache, inFlight>>
    /\ UNCHANGED <<stored, installer>>

\* The installer creates the object, or reads it and writes its boundary back
\* under IfMatch (writeBaseConfigIfAbsent, updateBaseConfigBoundary).
InstallerCreates(i) ==
    /\ installer[i] = None /\ stored = None
    /\ \E b \in Boundaries : Store([boundary |-> b, edge |-> NoEdge])
    /\ UNCHANGED <<cache, task, installer>>

InstallerReads(i) ==
    /\ installer[i] = None /\ stored # None
    /\ installer' = [installer EXCEPT ![i] = stored]
    /\ UNCHANGED <<stored, cache, inFlight, task>>

InstallerWrites(i) ==
    /\ installer[i] # None
    /\ IF stored = installer[i]
       THEN \E b \in Boundaries : Store([stored EXCEPT !.boundary = b])
       ELSE UNCHANGED <<stored, inFlight>>
    /\ installer' = [installer EXCEPT ![i] = None]
    /\ UNCHANGED <<cache, task>>

RepositoryStep ==
    \/ \E p \in Processes : ServeGet(p) \/ ReceiveGet(p)
    \/ \E t \in Tasks : ServePut(t) \/ ReceivePut(t)

Next ==
    \/ \E t \in Tasks : StartRequest(t) \/ StartUpdate(t)
    \/ RepositoryStep
    \/ \E i \in Installers :
          InstallerCreates(i) \/ InstallerReads(i) \/ InstallerWrites(i)

Spec == Init /\ [][Next]_vars

--------------------------------------------------------------------------------

Locals == [pc : {"idle", "waiting", "putting", "put", "failed"},
           kind : {"none", "request", "update"}, edge : Edges \cup {NoEdge},
           attempt : 0..MaxAttempts, etag : Config \cup {None}, next : Config \cup {None},
           reply : {"none", "ok", "precondition", "error"}]

\* The shape of the state; whoever waits is going to be resumed by a read.
TypeOK ==
    /\ stored \in Config \cup {None}
    /\ cache \in [Processes -> Config \cup {None}]
    /\ inFlight \in [Processes -> Read \cup {None}]
    /\ task \in [Tasks -> Locals]
    /\ installer \in [Installers -> Config \cup {None}]
    /\ \A t \in Tasks : task[t].pc = "waiting" => inFlight[Home[t]] # None

\* No write takes another writer's fields back: the edge is changed by attach and
\* detach alone, the boundary by the installer alone (IfMatch on both sides).
FieldsHaveOneWriter ==
    [][stored # None =>
         /\ stored'.edge # stored.edge =>
               \E t \in Tasks : task[t].pc = "putting" /\ task[t].edge = stored'.edge
         /\ stored'.boundary # stored.boundary =>
               \E i \in Installers : installer[i] # None /\ installer'[i] = None]_vars

\* Whatever a request or update is answered was the base config at a moment after the read
\* it has joined was sent, or is what an update of its process has reported
\* meanwhile, however the answers of reads and updates cross: readConditional
\* replaces the cache, or answers a 304 with it, as it is when the answer arrives.
AnswersAreRecent ==
    [][\A t \in Tasks :
         task[t].pc = "waiting" /\ task'[t].pc \in {"idle", "putting"} =>
            cache'[Home[t]] \in inFlight[Home[t]].recent]_vars

================================================================================
