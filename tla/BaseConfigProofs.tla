---------------------------- MODULE BaseConfigProofs ----------------------------
(***************************************************************************)
(* Theorems of BaseConfig: the fields of the object have one writer each,   *)
(* and what a request or update resolves the config to was in force after   *)
(* the read it has joined was sent.                                         *)
(***************************************************************************)
EXTENDS BaseConfig, TLAPS

\* An update writes what it has read, with its own edge: the boundary is not its.
WritesItsEdge ==
    \A t \in Tasks : task[t].pc \in {"putting", "put"} =>
        /\ task[t].etag \in Config
        /\ task[t].next = Transform(task[t].etag, task[t].edge)

\* While a read is in flight, what is stored is among the recent contents; so is what
\* the cache holds, unless that is what the read was conditional on; and so is what S3
\* has answered it with.
ReadKnowsRecent ==
    \A p \in Processes : inFlight[p] # None =>
        /\ stored \in inFlight[p].recent
        /\ cache[p] \in {None, inFlight[p].known} \cup inFlight[p].recent
        /\ inFlight[p].pc = "served" => inFlight[p].status # "none"
        /\ inFlight[p].status = "ok" =>
              inFlight[p].body # None /\ inFlight[p].body \in inFlight[p].recent
        /\ inFlight[p].status = "notModified" => inFlight[p].known \in inFlight[p].recent

IInv == TypeOK /\ WritesItsEdge /\ ReadKnowsRecent

--------------------------------------------------------------------------------

\* A transform yields a config.
LEMMA TransformTyped ==
    ASSUME NEW c \in Config, NEW e \in Edges \cup {NoEdge}
    PROVE  /\ Transform(c, e) \in Config /\ Transform(c, e) # None
           /\ Transform(c, e).boundary = c.boundary /\ Transform(c, e).edge = e
  BY NoneAssumption DEF Transform, Config

\* A read as it is sent, and as it is answered.
LEMMA ReadTyped ==
    ASSUME NEW r \in Read
    PROVE  /\ r.known \in Config \cup {None} /\ r.body \in Config \cup {None}
           /\ r.recent \in SUBSET (Config \cup {None}) /\ r # None
           /\ \A c \in Config \cup {None} : [r EXCEPT !.recent = @ \cup {c}] \in Read
           /\ \A b \in Config \cup {None}, status \in {"error", "notModified", "ok"} :
                 [r EXCEPT !.pc = "served", !.status = status, !.body = b] \in Read
  BY NoneAssumption DEF Read

LEMMA SentTyped ==
    ASSUME NEW known \in Config \cup {None}, NEW c \in Config \cup {None}
    PROVE  [pc |-> "sent", known |-> known, status |-> "none", body |-> None,
            recent |-> {c}] \in Read
  BY DEF Read

\* Whoever resolves the config has a read in flight to wait for; the others are not
\* concerned.
LEMMA ResolveReads ==
    ASSUME TypeOK, NEW p \in Processes, NEW cached \in Config \cup {None}, Resolve(p, cached)
    PROVE  /\ inFlight' \in [Processes -> Read \cup {None}]
           /\ inFlight'[p] # None
           /\ \A q \in Processes : inFlight[q] # None => inFlight'[q] = inFlight[q]
           /\ \A q \in Processes : inFlight[q] = None /\ inFlight'[q] # None =>
                 /\ q = p /\ inFlight'[q].known = cached /\ inFlight'[q].recent = {stored}
                 /\ inFlight'[q].status = "none" /\ inFlight'[q].pc = "sent"
  <1>1. [pc |-> "sent", known |-> cached, status |-> "none", body |-> None,
         recent |-> {stored}] \in Read
    BY SentTyped DEF TypeOK
  <1>2. CASE inFlight[p] # None
    BY <1>2 DEF Resolve, TypeOK
  <1>3. CASE inFlight[p] = None
    BY <1>1, <1>3, ReadTyped DEF Resolve, TypeOK
  <1>4. QED
    BY <1>2, <1>3

\* A content that is stored joins the recent ones of every read.
LEMMA StoreReads ==
    ASSUME TypeOK, NEW c \in Config \cup {None}, Store(c)
    PROVE  /\ stored' = c
           /\ inFlight' \in [Processes -> Read \cup {None}]
           /\ \A q \in Processes : inFlight'[q] = None <=> inFlight[q] = None
           /\ \A q \in Processes : inFlight[q] # None =>
                 /\ inFlight'[q].known = inFlight[q].known
                 /\ inFlight'[q].status = inFlight[q].status
                 /\ inFlight'[q].pc = inFlight[q].pc
                 /\ inFlight'[q].body = inFlight[q].body
                 /\ inFlight'[q].recent = inFlight[q].recent \cup {c}
  <1>1. ASSUME NEW q \in Processes, inFlight[q] # None
        PROVE  [inFlight[q] EXCEPT !.recent = @ \cup {c}] \in Read
    BY <1>1, ReadTyped DEF TypeOK
  <1>2. ASSUME NEW q \in Processes, inFlight[q] # None
        PROVE  /\ inFlight'[q] = [inFlight[q] EXCEPT !.recent = @ \cup {c}]
               /\ inFlight'[q].recent = inFlight[q].recent \cup {c}
    BY <1>2 DEF Store, TypeOK, Read
  <1>3. ASSUME NEW q \in Processes, inFlight[q] = None
        PROVE  inFlight'[q] = None
    BY <1>3 DEF Store
  <1>4. /\ stored' = c /\ DOMAIN inFlight' = Processes
        /\ inFlight' = [q \in Processes |-> inFlight'[q]]
    BY DEF Store
  <1>5. \A q \in Processes : inFlight'[q] \in Read \cup {None}
    BY <1>1, <1>2, <1>3
  <1>6. ASSUME NEW q \in Processes, inFlight[q] # None
        PROVE  /\ inFlight'[q] # None
               /\ inFlight'[q].known = inFlight[q].known
               /\ inFlight'[q].status = inFlight[q].status
               /\ inFlight'[q].pc = inFlight[q].pc
               /\ inFlight'[q].body = inFlight[q].body
    <2>1. inFlight[q] \in Read /\ [inFlight[q] EXCEPT !.recent = @ \cup {c}] \in Read
      BY <1>1, <1>6 DEF TypeOK
    <2>2. [inFlight[q] EXCEPT !.recent = @ \cup {c}] # None
      BY <2>1, ReadTyped
    <2>3. QED
      BY <1>2, <1>6, <2>1, <2>2 DEF Read
  <1>7. QED
    BY <1>2, <1>3, <1>4, <1>5, <1>6

\* The locals of a task that waits for nothing, or has just begun.
LEMMA IdleTyped ==
    /\ Idle \in Locals /\ [Idle EXCEPT !.pc = "failed"] \in Locals
    /\ [Idle EXCEPT !.pc = "waiting", !.kind = "request"] \in Locals
    /\ \A e \in Edges \cup {NoEdge} :
          [Idle EXCEPT !.pc = "waiting", !.kind = "update", !.edge = e, !.attempt = 1]
             \in Locals
  <1>1. 0 \in 0..MaxAttempts /\ 1 \in 0..MaxAttempts
    BY BaseConfigAssumption
  <1>2. QED
    BY <1>1 DEF Idle, Locals

\* The locals of a task keep their types when a step moves it on.
LEMMA LocalsTyped ==
    ASSUME NEW l \in Locals
    PROVE  /\ l.edge \in Edges \cup {NoEdge}
           /\ l.etag \in Config \cup {None} /\ l.next \in Config \cup {None}
           /\ \A r \in {"ok", "precondition", "error"} :
                 [l EXCEPT !.pc = "put", !.reply = r] \in Locals
           /\ \A c, d \in Config :
                 [l EXCEPT !.pc = "putting", !.etag = c, !.next = d] \in Locals
           /\ l.attempt < MaxAttempts =>
                 [l EXCEPT !.pc = "waiting", !.attempt = @ + 1, !.etag = None,
                           !.next = None, !.reply = "none"] \in Locals
  <1>1. l.attempt < MaxAttempts => l.attempt + 1 \in 0..MaxAttempts
    BY BaseConfigAssumption DEF Locals
  <1>2. QED
    BY <1>1 DEF Locals

--------------------------------------------------------------------------------

\* The invariant holds before anything is read.
LEMMA InitIInv == Init => IInv
  BY BaseConfigAssumption
     DEF Init, IInv, TypeOK, WritesItsEdge, ReadKnowsRecent, Idle, Locals, Config

\* A request or an update begins with a read.
LEMMA StartStep ==
    ASSUME IInv, NEW t \in Tasks, StartRequest(t) \/ StartUpdate(t)
    PROVE  IInv'
  <1>1. /\ TypeOK /\ Home[t] \in Processes /\ cache[Home[t]] \in Config \cup {None}
        /\ Resolve(Home[t], cache[Home[t]]) /\ UNCHANGED <<stored, cache, installer>>
    BY BaseConfigAssumption DEF IInv, TypeOK, StartRequest, StartUpdate
  <1>2. PICK l \in Locals : l.pc = "waiting" /\ task' = [task EXCEPT ![t] = l]
    BY IdleTyped DEF StartRequest, StartUpdate, Idle
  <1> DEFINE p == Home[t]
             cached == cache[p]
             Reads ==
                /\ inFlight' \in [Processes -> Read \cup {None}]
                /\ inFlight'[p] # None
                /\ \A q \in Processes : inFlight[q] # None => inFlight'[q] = inFlight[q]
                /\ \A q \in Processes : inFlight[q] = None /\ inFlight'[q] # None =>
                      /\ q = p /\ inFlight'[q].known = cached
                      /\ inFlight'[q].recent = {stored} /\ inFlight'[q].status = "none"
                      /\ inFlight'[q].pc = "sent"
  <1>9. Reads
    BY <1>1, ResolveReads
  <1>3. TypeOK'
    BY <1>1, <1>2, <1>9, BaseConfigAssumption DEF TypeOK
  <1>4. WritesItsEdge'
    BY <1>2 DEF IInv, TypeOK, WritesItsEdge
  <1>5. ReadKnowsRecent'
    BY <1>1, <1>9 DEF IInv, ReadKnowsRecent
  <1>6. QED
    BY <1>3, <1>4, <1>5 DEF IInv

\* S3 answers a read with what is stored, which is among the recent contents.
LEMMA ServeGetStep ==
    ASSUME IInv, NEW p \in Processes, ServeGet(p)
    PROVE  IInv'
  <1>1. PICK status \in {"error", "notModified", "ok"} :
           /\ inFlight' = [inFlight EXCEPT ![p] = [inFlight[p] EXCEPT
                 !.pc = "served", !.status = status, !.body = stored]]
           /\ status = "ok" => stored # None
           /\ status = "notModified" => stored = inFlight[p].known
    BY DEF ServeGet
  <1>2. inFlight[p] \in Read /\ stored \in Config \cup {None} /\ inFlight[p] # None
    BY DEF ServeGet, IInv, TypeOK
  <1> DEFINE r == [inFlight[p] EXCEPT !.pc = "served", !.status = status, !.body = stored]
  <1>3. /\ r \in Read /\ r # None
        /\ r.known = inFlight[p].known /\ r.recent = inFlight[p].recent
        /\ r.status = status /\ r.body = stored
    <2>1. r \in Read /\ r # None
      BY <1>2, ReadTyped
    <2>2. QED
      BY <1>2, <2>1 DEF Read
  <1> HIDE DEF r
  <1>4. inFlight' = [inFlight EXCEPT ![p] = r] /\ UNCHANGED <<stored, cache, task, installer>>
    BY <1>1 DEF ServeGet, r
  <1>5. TypeOK'
    BY <1>2, <1>3, <1>4, BaseConfigAssumption DEF IInv, TypeOK
  <1>6. WritesItsEdge'
    BY <1>4 DEF IInv, WritesItsEdge
  <1>7. ReadKnowsRecent'
    BY <1>1, <1>2, <1>3, <1>4 DEF IInv, TypeOK, ReadKnowsRecent
  <1>8. QED
    BY <1>5, <1>6, <1>7 DEF IInv

\* What a served read resolves with, unless it throws, is recent: a 304 stands for a
\* cache that is.
LEMMA AnswerIsRecent ==
    ASSUME IInv, NEW p \in Processes, ReceiveGet(p)
    PROVE  /\ Answer(p) \in Config \cup {None}
           /\ Answer(p) # None => Answer(p) \in inFlight[p].recent
  <1>1. /\ inFlight[p] \in Read /\ inFlight[p] # None /\ inFlight[p].pc = "served"
        /\ cache[p] \in Config \cup {None}
    BY DEF ReceiveGet, IInv, TypeOK
  <1>2. inFlight[p].status # "none"
    BY DEF ReceiveGet, IInv, ReadKnowsRecent
  <1>3. /\ cache[p] \in {None, inFlight[p].known} \cup inFlight[p].recent
        /\ inFlight[p].status = "ok" => inFlight[p].body \in inFlight[p].recent
        /\ inFlight[p].status = "notModified" => inFlight[p].known \in inFlight[p].recent
    BY <1>1 DEF IInv, ReadKnowsRecent
  <1>4. CASE inFlight[p].status = "error"
    BY <1>4 DEF Answer
  <1>5. CASE inFlight[p].status = "notModified"
    BY <1>1, <1>3, <1>5 DEF Answer
  <1>6. CASE inFlight[p].status = "ok"
    BY <1>1, <1>3, <1>6, ReadTyped DEF Answer
  <1>7. QED
    BY <1>1, <1>2, <1>4, <1>5, <1>6 DEF Read

\* The read resumes every task that waits for it, and none is left waiting.
LEMMA ReceiveGetStep ==
    ASSUME IInv, NEW p \in Processes, ReceiveGet(p)
    PROVE  IInv'
  <1>1. Answer(p) \in Config \cup {None}
    BY AnswerIsRecent
  <1>2. ASSUME NEW t \in Tasks
        PROVE  /\ Resumed(t, Answer(p)) \in Locals
               /\ Resumed(t, Answer(p)).pc \in {"failed", "idle", "putting"}
               /\ Resumed(t, Answer(p)).pc = "putting" =>
                     /\ Resumed(t, Answer(p)).etag \in Config
                     /\ Resumed(t, Answer(p)).next =
                           Transform(Resumed(t, Answer(p)).etag, Resumed(t, Answer(p)).edge)
    <2>1. task[t] \in Locals
      BY DEF IInv, TypeOK
    <2>2. CASE Answer(p) = None
      BY <2>1, <2>2, IdleTyped DEF Resumed, Idle
    <2>3. CASE Answer(p) # None /\ task[t].kind = "request"
      BY <2>1, <2>3, IdleTyped DEF Resumed, Idle
    <2>4. CASE Answer(p) # None /\ task[t].kind # "request"
      <3>1. /\ Answer(p) \in Config /\ task[t].edge \in Edges \cup {NoEdge}
            /\ Transform(Answer(p), task[t].edge) \in Config
        BY <1>1, <2>1, <2>4, LocalsTyped, TransformTyped
      <3> DEFINE l == [task[t] EXCEPT !.pc = "putting", !.etag = Answer(p),
                                      !.next = Transform(Answer(p), task[t].edge)]
      <3>2. Resumed(t, Answer(p)) = l
        BY <2>4 DEF Resumed
      <3>3. l \in Locals
        BY <2>1, <3>1, LocalsTyped
      <3>4. /\ l.pc = "putting" /\ l.etag = Answer(p) /\ l.edge = task[t].edge
            /\ l.next = Transform(Answer(p), task[t].edge)
        BY <2>1 DEF Locals
      <3>5. QED
        BY <3>1, <3>2, <3>3, <3>4
    <2>5. QED
      BY <2>2, <2>3, <2>4
  <1> HIDE DEF Resumed, Answer
  <1>3. TypeOK'
    BY <1>1, <1>2, BaseConfigAssumption DEF IInv, TypeOK, ReceiveGet
  <1>4. WritesItsEdge'
    BY <1>2 DEF IInv, TypeOK, WritesItsEdge, ReceiveGet
  <1>5. ReadKnowsRecent'
    BY DEF IInv, TypeOK, ReadKnowsRecent, ReceiveGet
  <1>6. QED
    BY <1>3, <1>4, <1>5 DEF IInv

\* A PUT stores what was read with another edge, or nothing.
LEMMA PutStores ==
    ASSUME IInv, NEW t \in Tasks, ServePut(t)
    PROVE  \E c \in Config \cup {None}, reply \in {"ok", "precondition", "error"} :
              /\ Store(c)
              /\ c = stored \/ (c = task[t].next /\ stored = task[t].etag)
              /\ task' = [task EXCEPT ![t] = [task[t] EXCEPT !.pc = "put", !.reply = reply]]
  <1>1. PICK outcome \in PutOutcomes(task[t].etag, task[t].next) :
           /\ Store(IF outcome[1] THEN task[t].next ELSE stored)
           /\ task' = [task EXCEPT ![t] = [task[t] EXCEPT !.pc = "put", !.reply = outcome[2]]]
    BY DEF ServePut
  <1>2. /\ outcome[2] \in {"ok", "precondition", "error"}
        /\ outcome[1] \in BOOLEAN
        /\ outcome[1] => stored = task[t].etag
    <2>1. CASE stored = task[t].etag
      <3>1. \E b \in BOOLEAN, r \in {"ok", "precondition", "error"} : outcome = <<b, r>>
        BY <2>1 DEF PutOutcomes
      <3>2. QED
        BY <2>1, <3>1
    <2>2. CASE stored # task[t].etag
      <3>1. \E r \in {"precondition", "error"} : outcome = <<FALSE, r>>
        BY <2>2 DEF PutOutcomes
      <3>2. QED
        BY <3>1
    <2>3. QED
      BY <2>1, <2>2
  <1>3. stored \in Config \cup {None} /\ task[t].next \in Config \cup {None}
    BY LocalsTyped DEF IInv, TypeOK
  <1>4. CASE outcome[1]
    BY <1>1, <1>2, <1>3, <1>4
  <1>5. CASE ~ outcome[1]
    BY <1>1, <1>2, <1>3, <1>5
  <1>6. QED
    BY <1>4, <1>5

LEMMA ServePutStep ==
    ASSUME IInv, NEW t \in Tasks, ServePut(t)
    PROVE  IInv'
  <1>1. PICK c \in Config \cup {None}, reply \in {"ok", "precondition", "error"} :
           /\ Store(c)
           /\ task' = [task EXCEPT ![t] = [task[t] EXCEPT !.pc = "put", !.reply = reply]]
    BY PutStores
  <1>2. /\ task[t] \in Locals /\ task[t].pc = "putting" /\ TypeOK
        /\ UNCHANGED <<cache, installer>>
    BY DEF IInv, TypeOK, ServePut
  <1> DEFINE l == [task[t] EXCEPT !.pc = "put", !.reply = reply]
  <1>3. /\ l \in Locals /\ l.pc = "put"
        /\ l.etag = task[t].etag /\ l.next = task[t].next /\ l.edge = task[t].edge
    <2>1. l \in Locals
      BY <1>2, LocalsTyped
    <2>2. QED
      BY <1>2, <2>1 DEF Locals
  <1> HIDE DEF l
  <1>4. task' = [task EXCEPT ![t] = l]
    BY <1>1 DEF l
  <1>9. /\ stored' = c
        /\ inFlight' \in [Processes -> Read \cup {None}]
        /\ \A q \in Processes : inFlight'[q] = None <=> inFlight[q] = None
        /\ \A q \in Processes : inFlight[q] # None =>
              /\ inFlight'[q].known = inFlight[q].known
              /\ inFlight'[q].status = inFlight[q].status
              /\ inFlight'[q].pc = inFlight[q].pc
              /\ inFlight'[q].body = inFlight[q].body
              /\ inFlight'[q].recent = inFlight[q].recent \cup {c}
    BY <1>1, <1>2, StoreReads
  <1>5. TypeOK'
    BY <1>9, <1>2, <1>3, <1>4, BaseConfigAssumption DEF TypeOK
  <1>6. WritesItsEdge'
    BY <1>2, <1>3, <1>4 DEF IInv, TypeOK, WritesItsEdge
  <1>7. ReadKnowsRecent'
    BY <1>9, <1>2 DEF IInv, ReadKnowsRecent
  <1>8. QED
    BY <1>5, <1>6, <1>7 DEF IInv

\* What an update has reported is cached, and joins the recent contents.
LEMMA ReceivePutStep ==
    ASSUME IInv, NEW t \in Tasks, ReceivePut(t)
    PROVE  IInv'
  <1> DEFINE p == Home[t]
  <1>1. /\ p \in Processes /\ task[t] \in Locals /\ TypeOK /\ task[t].pc = "put"
        /\ task[t].next \in Config /\ UNCHANGED <<stored, installer>>
    <2>1. p \in Processes /\ task[t] \in Locals /\ TypeOK /\ task[t].pc = "put"
      BY BaseConfigAssumption DEF IInv, TypeOK, ReceivePut
    <2>2. task[t].next \in Config
      <3>1. /\ task[t].edge \in Edges \cup {NoEdge} /\ task[t].etag \in Config
            /\ task[t].next = Transform(task[t].etag, task[t].edge)
        BY <2>1, LocalsTyped DEF IInv, WritesItsEdge
      <3>2. QED
        BY <3>1, TransformTyped
    <2>3. QED
      BY <2>1, <2>2 DEF ReceivePut
  <1>2. CASE /\ task[t].reply = "ok"
             /\ cache' = [cache EXCEPT ![p] = task[t].next]
             /\ task' = [task EXCEPT ![t] = Idle]
             /\ inFlight' = IF inFlight[p] = None THEN inFlight
                            ELSE [inFlight EXCEPT ![p] =
                                    [inFlight[p] EXCEPT !.recent = @ \cup {task[t].next}]]
    <2>1. Idle \in Locals /\ Idle.pc = "idle"
      BY IdleTyped DEF Idle
    <2>2. ASSUME inFlight[p] # None
          PROVE  /\ inFlight'[p] \in Read /\ inFlight'[p] # None
                 /\ inFlight'[p].known = inFlight[p].known
                 /\ inFlight'[p].status = inFlight[p].status
                 /\ inFlight'[p].pc = inFlight[p].pc
                 /\ inFlight'[p].body = inFlight[p].body
                 /\ inFlight'[p].recent = inFlight[p].recent \cup {task[t].next}
      <3>1. inFlight[p] \in Read
        BY <1>1, <2>2 DEF TypeOK
      <3>2. inFlight'[p] = [inFlight[p] EXCEPT !.recent = @ \cup {task[t].next}]
        BY <1>1, <1>2, <2>2 DEF TypeOK
      <3>3. [inFlight[p] EXCEPT !.recent = @ \cup {task[t].next}] \in Read
        BY <1>1, <3>1, ReadTyped
      <3>4. inFlight'[p] # None
        BY <3>2, <3>3, ReadTyped
      <3>5. QED
        BY <3>1, <3>2, <3>3, <3>4 DEF Read
    <2>3. \A q \in Processes : q # p \/ inFlight[p] = None => inFlight'[q] = inFlight[q]
      BY <1>1, <1>2 DEF TypeOK
    <2>4. inFlight' \in [Processes -> Read \cup {None}]
      <3>1. CASE inFlight[p] = None
        BY <1>1, <1>2, <3>1 DEF TypeOK
      <3>2. CASE inFlight[p] # None
        <4>1. inFlight' = [inFlight EXCEPT ![p] = inFlight'[p]]
          BY <1>1, <1>2, <3>2 DEF TypeOK
        <4>2. QED
          BY <1>1, <2>2, <3>2, <4>1 DEF TypeOK
      <3>3. QED
        BY <3>1, <3>2
    <2>5. \A q \in Processes : inFlight'[q] = None <=> inFlight[q] = None
      BY <2>2, <2>3
    <2> HIDE DEF p
    <2>6. TypeOK'
      BY <1>1, <1>2, <2>1, <2>4, <2>5, BaseConfigAssumption DEF TypeOK
    <2>7. WritesItsEdge'
      BY <1>1, <1>2, <2>1 DEF IInv, TypeOK, WritesItsEdge
    <2>8. ReadKnowsRecent'
      BY <1>1, <1>2, <2>2, <2>3 DEF IInv, TypeOK, ReadKnowsRecent
    <2>9. QED
      BY <2>6, <2>7, <2>8 DEF IInv
  <1>3. CASE /\ MayRetry(t)
             /\ cache' = [cache EXCEPT ![p] = None]
             /\ task' = [task EXCEPT ![t] =
                   [task[t] EXCEPT !.pc = "waiting", !.attempt = @ + 1, !.etag = None,
                                   !.next = None, !.reply = "none"]]
             /\ Resolve(p, None)
    <2> DEFINE l == [task[t] EXCEPT !.pc = "waiting", !.attempt = @ + 1, !.etag = None,
                                    !.next = None, !.reply = "none"]
    <2>1. l \in Locals /\ l.pc = "waiting"
      <3>1. l \in Locals
        BY <1>1, <1>3, LocalsTyped DEF MayRetry
      <3>2. QED
        BY <1>1, <3>1 DEF Locals
    <2>2. task' = [task EXCEPT ![t] = l]
      BY <1>3
    <2> HIDE DEF l
    <2>9. /\ inFlight' \in [Processes -> Read \cup {None}]
          /\ inFlight'[p] # None
          /\ \A q \in Processes : inFlight[q] # None => inFlight'[q] = inFlight[q]
          /\ \A q \in Processes : inFlight[q] = None /\ inFlight'[q] # None =>
                /\ q = p /\ inFlight'[q].known = None
                /\ inFlight'[q].recent = {stored} /\ inFlight'[q].status = "none"
                /\ inFlight'[q].pc = "sent"
      BY <1>1, <1>3, ResolveReads
    <2>3. TypeOK'
      <3>1. /\ cache' \in [Processes -> Config \cup {None}]
            /\ task' \in [Tasks -> Locals]
        BY <1>1, <1>3, <2>1, <2>2 DEF TypeOK
      <3>2. ASSUME NEW u \in Tasks, task'[u].pc = "waiting" PROVE inFlight'[Home[u]] # None
        <4>1. CASE u = t
          BY <2>9, <4>1
        <4>2. CASE u # t
          BY <1>1, <2>2, <2>9, <3>2, <4>2, BaseConfigAssumption DEF TypeOK
        <4>3. QED
          BY <4>1, <4>2
      <3>3. QED
        BY <1>1, <2>9, <3>1, <3>2 DEF TypeOK
    <2>4. WritesItsEdge'
      BY <1>1, <2>1, <2>2 DEF IInv, TypeOK, WritesItsEdge
    <2>5. ReadKnowsRecent'
      BY <1>1, <1>3, <2>9 DEF IInv, TypeOK, ReadKnowsRecent
    <2>6. QED
      BY <2>3, <2>4, <2>5 DEF IInv
  <1>4. CASE task' = [task EXCEPT ![t] = [Idle EXCEPT !.pc = "failed"]]
             /\ UNCHANGED <<cache, inFlight>>
    <2>1. [Idle EXCEPT !.pc = "failed"] \in Locals /\ [Idle EXCEPT !.pc = "failed"].pc = "failed"
      BY IdleTyped DEF Idle
    <2>2. TypeOK'
      BY <1>1, <1>4, <2>1, BaseConfigAssumption DEF TypeOK
    <2>3. WritesItsEdge'
      BY <1>1, <1>4, <2>1 DEF IInv, TypeOK, WritesItsEdge
    <2>4. ReadKnowsRecent'
      BY <1>1, <1>4 DEF IInv, TypeOK, ReadKnowsRecent
    <2>5. QED
      BY <2>2, <2>3, <2>4 DEF IInv
  <1>5. QED
    BY <1>1, <1>2, <1>3, <1>4 DEF ReceivePut, Cached

\* The installer stores a config, and leaves the tasks and the caches alone.
LEMMA InstallerStores ==
    ASSUME IInv, NEW i \in Installers, InstallerCreates(i) \/ InstallerWrites(i)
    PROVE  /\ UNCHANGED <<cache, task>>
           /\ installer' \in [Installers -> Config \cup {None}]
           /\ UNCHANGED <<stored, inFlight>> \/ \E c \in Config \cup {None} :
                 /\ Store(c)
                 /\ stored # None => c.edge = stored.edge /\ installer[i] # None
                                     /\ installer'[i] = None
  <1>1. CASE InstallerCreates(i)
    <2>1. \A b \in Boundaries : [boundary |-> b, edge |-> NoEdge] \in Config
      BY DEF Config
    <2>2. QED
      BY <1>1, <2>1 DEF InstallerCreates, IInv, TypeOK
  <1>2. CASE InstallerWrites(i)
    <2>1. installer' \in [Installers -> Config \cup {None}] /\ installer'[i] = None
      BY <1>2 DEF InstallerWrites, IInv, TypeOK
    <2>2. CASE stored = installer[i]
      <3>1. stored \in Config
        BY <1>2, <2>2 DEF InstallerWrites, IInv, TypeOK
      <3>2. ASSUME NEW b \in Boundaries
            PROVE  /\ [stored EXCEPT !.boundary = b] \in Config
                   /\ [stored EXCEPT !.boundary = b].edge = stored.edge
        BY <3>1 DEF Config
      <3>3. QED
        BY <1>2, <2>1, <2>2, <3>2 DEF InstallerWrites
    <2>3. CASE stored # installer[i]
      BY <1>2, <2>1, <2>3 DEF InstallerWrites
    <2>4. QED
      BY <2>2, <2>3
  <1>3. QED
    BY <1>1, <1>2

LEMMA InstallerStep ==
    ASSUME IInv, NEW i \in Installers,
           InstallerCreates(i) \/ InstallerReads(i) \/ InstallerWrites(i)
    PROVE  IInv'
  <1>1. CASE InstallerReads(i)
    BY <1>1 DEF InstallerReads, IInv, TypeOK, WritesItsEdge, ReadKnowsRecent
  <1>2. CASE InstallerCreates(i) \/ InstallerWrites(i)
    <2>1. UNCHANGED <<cache, task>> /\ installer' \in [Installers -> Config \cup {None}]
      BY <1>2, InstallerStores
    <2>2. WritesItsEdge'
      BY <2>1 DEF IInv, WritesItsEdge
    <2>3. CASE UNCHANGED <<stored, inFlight>>
      BY <2>1, <2>2, <2>3 DEF IInv, TypeOK, ReadKnowsRecent
    <2>4. ASSUME NEW c \in Config \cup {None}, Store(c) PROVE IInv'
      <3>9. /\ stored' = c
            /\ inFlight' \in [Processes -> Read \cup {None}]
            /\ \A q \in Processes : inFlight'[q] = None <=> inFlight[q] = None
            /\ \A q \in Processes : inFlight[q] # None =>
                  /\ inFlight'[q].known = inFlight[q].known
                  /\ inFlight'[q].status = inFlight[q].status
                  /\ inFlight'[q].pc = inFlight[q].pc
                  /\ inFlight'[q].body = inFlight[q].body
                  /\ inFlight'[q].recent = inFlight[q].recent \cup {c}
        BY <2>4, StoreReads DEF IInv
      <3>1. TypeOK'
        BY <2>1, <3>9, BaseConfigAssumption DEF IInv, TypeOK
      <3>2. ReadKnowsRecent'
        BY <2>1, <3>9 DEF IInv, ReadKnowsRecent
      <3>3. QED
        BY <2>2, <3>1, <3>2 DEF IInv
    <2>5. QED
      BY <1>2, <2>3, <2>4, InstallerStores
  <1>3. QED
    BY <1>1, <1>2

\* The inductive invariant.
LEMMA IInvStep == IInv /\ [Next]_vars => IInv'
  <1>1. CASE UNCHANGED vars
    BY <1>1 DEF vars, IInv, TypeOK, WritesItsEdge, ReadKnowsRecent
  <1>2. QED
    BY <1>1, StartStep, ServeGetStep, ReceiveGetStep, ServePutStep, ReceivePutStep,
       InstallerStep DEF Next, RepositoryStep

THEOREM BaseConfigInvariant == Spec => []IInv
  BY InitIInv, IInvStep, PTL DEF Spec

--------------------------------------------------------------------------------

\* Every reachable state is well typed, and a task that waits for the config has a read
\* in flight that will resume it.
THEOREM BaseConfigTyped == Spec => []TypeOK
  <1>1. IInv => TypeOK
    BY DEF IInv
  <1>2. QED
    BY BaseConfigInvariant, <1>1, PTL

\* Edge deployments change the edge of the object and the installer changes its boundary,
\* each under IfMatch, so that neither takes the fields of the other back.
THEOREM FieldsKeepTheirWriters == Spec => FieldsHaveOneWriter
  <1> DEFINE Guarded ==
         stored # None =>
         /\ stored'.edge # stored.edge =>
               \E t \in Tasks : task[t].pc = "putting" /\ task[t].edge = stored'.edge
         /\ stored'.boundary # stored.boundary =>
               \E i \in Installers : installer[i] # None /\ installer'[i] = None
  <1>1. ASSUME IInv, Next PROVE Guarded
    <2>1. CASE stored' = stored
      BY <2>1
    <2>2. ASSUME NEW t \in Tasks, ServePut(t) PROVE Guarded
      <3>1. PICK c \in Config \cup {None} :
               stored' = c /\ (c = stored \/ (c = task[t].next /\ stored = task[t].etag))
        BY <1>1, <2>2, PutStores DEF Store
      <3>2. task[t].pc = "putting" /\ task[t].edge \in Edges \cup {NoEdge}
        BY <1>1, <2>2, LocalsTyped DEF ServePut, IInv, TypeOK
      <3>3. task[t].etag \in Config /\ task[t].next = Transform(task[t].etag, task[t].edge)
        BY <1>1, <3>2 DEF IInv, WritesItsEdge
      <3>4. QED
        BY <3>1, <3>2, <3>3, TransformTyped
    <2>3. ASSUME NEW i \in Installers, InstallerCreates(i) \/ InstallerWrites(i)
          PROVE  Guarded
      BY <1>1, <2>3, InstallerStores DEF Store
    <2>4. QED
      BY <1>1, <2>1, <2>2, <2>3
         DEF Next, RepositoryStep, StartRequest, StartUpdate, ServeGet, ReceiveGet,
             ReceivePut, InstallerReads
  <1>2. ASSUME IInv, [Next]_vars PROVE [Guarded]_vars
    BY <1>1, <1>2
  <1>3. QED
    BY BaseConfigInvariant, <1>2, PTL DEF Spec, FieldsHaveOneWriter

\* Whatever a request or update resolves the config to was in force after the read it
\* has joined was sent, or is what an update of its own process reported meanwhile.
THEOREM AnswersAreNotStale == Spec => AnswersAreRecent
  <1> DEFINE Recent ==
         \A t \in Tasks :
           task[t].pc = "waiting" /\ task'[t].pc \in {"idle", "putting"} =>
              cache'[Home[t]] \in inFlight[Home[t]].recent
  <1>1. ASSUME IInv, Next PROVE Recent
    <2> SUFFICES ASSUME NEW t \in Tasks, task[t].pc = "waiting",
                        task'[t].pc \in {"idle", "putting"}
                 PROVE  cache'[Home[t]] \in inFlight[Home[t]].recent
      OBVIOUS
    <2>1. TypeOK /\ task'[t] # task[t]
      BY <1>1 DEF IInv
    <2>2. PICK p \in Processes : ReceiveGet(p)
      BY <1>1, <2>1
         DEF Next, RepositoryStep, StartRequest, StartUpdate, ServeGet, ServePut, ReceivePut,
             InstallerCreates, InstallerReads, InstallerWrites, TypeOK
    <2>3. Home[t] = p /\ task'[t] = Resumed(t, Answer(p))
      BY <2>1, <2>2 DEF ReceiveGet
    <2>4. Answer(p) # None
      BY <2>3 DEF Resumed, Idle
    <2>5. cache'[p] = Answer(p)
      BY <2>1, <2>2, <2>4 DEF ReceiveGet, TypeOK
    <2>6. QED
      BY <1>1, <2>2, <2>3, <2>4, <2>5, AnswerIsRecent
  <1>2. ASSUME IInv, [Next]_vars PROVE [Recent]_vars
    BY <1>1, <1>2
  <1>3. QED
    BY BaseConfigInvariant, <1>2, PTL DEF Spec, AnswersAreRecent

================================================================================
