------------------------------ MODULE AtomicStore ------------------------------
(***************************************************************************)
(* What an ObjectStore promises its callers (packages/sdk/src/object-store/ *)
(* types.ts): an operation takes effect at one instant between its call and *)
(* its return, or throws and has no effect.  A caller that crashes leaves   *)
(* an operation behind that took effect or never will.                      *)
(***************************************************************************)
EXTENDS Naturals

CONSTANTS
    Clients,     \* processes that use the store
    Keys,        \* object keys
    Values,      \* serialised contents
    Absent       \* what get returns for a key without an object

VARIABLES
    object,      \* [Keys -> Values \cup {Absent}]
    call         \* [Clients -> a call]: the operation a client is in

vars == <<object, call>>

\* A request: setIfVersion names the version an earlier read has returned.
Request ==
    [op : {"list"}]
      \cup [op : {"get", "delete"}, key : Keys]
      \cup [op : {"set", "setIfAbsent"}, key : Keys, value : Values]
      \cup [op : {"setIfVersion"}, key : Keys, value : Values, version : Values]

Writers == {"set", "setIfAbsent", "setIfVersion"}

Present == {k \in Keys : object[k] # Absent}

\* Whether a conditional write finds its condition fulfilled.
Holds(req) ==
    /\ req.op = "setIfAbsent" => object[req.key] = Absent
    /\ req.op = "setIfVersion" => object[req.key] = req.version

\* What a read returns: the value of a key, or the keys there are.
ReadOf(req) ==
    IF req.op = "list" THEN Present
    ELSE IF object[req.key] = Absent THEN {} ELSE {object[req.key]}

Idle == [state |-> "idle", data |-> {}]
Pending(req) == [state |-> "pending", req |-> req, data |-> {}]
Done(req, state, data) == [state |-> state, req |-> req, data |-> data]

Init ==
    /\ object \in [Keys -> Values \cup {Absent}]
    /\ call = [c \in Clients |-> Idle]

Call(c) ==
    /\ call[c] = Idle
    /\ \E req \in Request : call' = [call EXCEPT ![c] = Pending(req)]
    /\ UNCHANGED object

\* The instant at which an operation takes effect.
Read(c) ==
    /\ call[c].state = "pending" /\ call[c].req.op \in {"get", "list"}
    /\ call' = [call EXCEPT ![c] = Done(call[c].req, "ok", ReadOf(call[c].req))]
    /\ UNCHANGED object

Write(c) ==
    /\ call[c].state = "pending" /\ call[c].req.op \in Writers
    /\ Holds(call[c].req)
    /\ object' = [object EXCEPT ![call[c].req.key] = call[c].req.value]
    /\ call' = [call EXCEPT ![c] = Done(call[c].req, "ok", {})]

Refuse(c) ==
    /\ call[c].state = "pending" /\ call[c].req.op \in Writers
    /\ ~Holds(call[c].req)
    /\ call' = [call EXCEPT ![c] = Done(call[c].req, "refused", {})]
    /\ UNCHANGED object

Delete(c) ==
    /\ call[c].state = "pending" /\ call[c].req.op = "delete"
    /\ object' = [object EXCEPT ![call[c].req.key] = Absent]
    /\ call' = [call EXCEPT ![c] = Done(call[c].req, "ok", {})]

Throw(c) ==
    /\ call[c].state = "pending" /\ call[c].req.op \in Writers
    /\ call' = [call EXCEPT ![c] = Done(call[c].req, "threw", {})]
    /\ UNCHANGED object

\* The client goes on, or has crashed and starts again.
Leave(c) ==
    /\ call[c] # Idle
    /\ call' = [call EXCEPT ![c] = Idle]
    /\ UNCHANGED object

Next ==
    \E c \in Clients :
        Call(c) \/ Read(c) \/ Write(c) \/ Refuse(c) \/ Delete(c) \/ Throw(c) \/ Leave(c)

Spec == Init /\ [][Next]_vars
================================================================================
