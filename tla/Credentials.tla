------------------------------ MODULE Credentials ------------------------------
(***************************************************************************)
(* API keys and invites of the api-server: the first key of a server, keys  *)
(* minted, revoked and rotated by their holders, invites redeemed for a     *)
(* key, and the note of its last use that every signed request leaves       *)
(* behind (services/api-key.service.ts, services/invite.service.ts,         *)
(* middleware/auth.ts and the routes keys, invites and bootstrap).          *)
(*                                                                          *)
(* Every await on the storage is a step of its own; requests interleave at  *)
(* them, and a request may die at any of them (the process stops, or the    *)
(* storage throws and the route answers 500).  A record is read and written *)
(* as a whole.  A key is abstracted to its role, an invite to its role and  *)
(* whether it is open, redeemed, or past its expiresAt.                     *)
(***************************************************************************)
EXTENDS Naturals, FiniteSets

CONSTANTS
    Keys,        \* ids of API keys; each is minted once: the bound on mints
    Invites,     \* ids of invites; each is created once
    Requests,    \* requests that are handled at the same time
    Touches,     \* calls of updateLastUsed under way at the same time
    Asked,       \* roles that a mint or an invite may be asked for
    None         \* nothing: no record, no key

ASSUME CredentialsAssumption ==
    /\ None \notin Keys \cup Invites
    /\ Asked \subseteq {"admin", "member"}

VARIABLES
    keys,        \* [Keys -> role or None]: the collection api-keys
    invites,     \* [Invites -> record or None]: the collection invites
    held,        \* keys whose secret has been answered to a client
    req,         \* [Requests -> the request being handled]
    touch,       \* [Touches -> updateLastUsed, which nobody awaits]
    \* No state of the code, the properties speak of them:
    born,        \* [Keys -> the role the key was minted with, or None]
    offer,       \* [Invites -> the role that was offered, or None]
    spent,       \* invites that were marked, used, revoked, or have expired
    replaced,    \* keys a replacement was minted for
    revoked      \* keys another key has revoked

ghosts == <<born, offer, spent, replaced, revoked>>
vars == <<keys, invites, held, req, touch, ghosts>>

--------------------------------------------------------------------------------

Roles == {"admin", "member"}

Record == [role : Roles, state : {"open", "redeemed", "expired"}]

ASSUME NoneAssumption == None \notin Roles \cup Record

Idle == [kind |-> "none", pc |-> "idle", target |-> None, role |-> "member",
         todo |-> {}, made |-> None, late |-> FALSE, standing |-> {}]

Untouched == [pc |-> "idle", key |-> None, saw |-> None]

\* A server without a key, or one whose first key is in the hands of its operator.
Init ==
    /\ \E first \in SUBSET Keys :
          /\ Cardinality(first) <= 1
          /\ keys = [k \in Keys |-> IF k \in first THEN "admin" ELSE None]
          /\ born = keys
          /\ held = first
    /\ invites = [i \in Invites |-> None]
    /\ offer = [i \in Invites |-> None]
    /\ spent = {} /\ replaced = {} /\ revoked = {}
    /\ req = [r \in Requests |-> Idle]
    /\ touch = [u \in Touches |-> Untouched]

Stored == {k \in Keys : keys[k] # None}
Minted == {k \in Keys : born[k] # None}

--------------------------------------------------------------------------------
(* Requests arrive.                                                          *)

\* POST /bootstrap/create-key and /bootstrap/redeem-invite carry no key.  Every
\* invite that was created has a token, and stays redeemable only in the store.
ArriveCreate(r) ==
    /\ req[r].pc = "idle"
    /\ req' = [req EXCEPT ![r] = [Idle EXCEPT !.kind = "create", !.pc = "list",
                                              !.role = "admin", !.standing = Stored]]
    /\ UNCHANGED <<keys, invites, held, touch, ghosts>>

ArriveRedeem(r) ==
    /\ req[r].pc = "idle"
    /\ \E i \in Invites :
          /\ offer[i] # None
          /\ req' = [req EXCEPT ![r] = [Idle EXCEPT !.kind = "redeem", !.pc = "find",
                                                    !.target = i, !.late = i \in spent]]
    /\ UNCHANGED <<keys, invites, held, touch, ghosts>>

\* The locals of the handler a signed request is routed to, Idle for one that is no
\* concern of this module; the management of keys and invites sits behind requireAdmin,
\* and a key does not revoke itself.
Handler(k) ==
    LET admin == keys[k] = "admin"
        With(kind, pc) == [Idle EXCEPT !.kind = kind, !.pc = pc]
    IN  {Idle, [With("rotate", "find") EXCEPT !.target = k]}
        \cup {[With("mint", "mint") EXCEPT !.role = role] : role \in {x \in Asked : admin}}
        \cup {[With("revoke", "find") EXCEPT !.target = x]
                 : x \in {x \in Minted \ {k} : admin}}
        \cup {[With("invite", "put") EXCEPT !.role = role] : role \in {x \in Asked : admin}}
        \cup {[With("uninvite", "remove") EXCEPT !.target = i]
                 : i \in {i \in Invites : admin /\ offer[i] # None}}

\* signatureAuth: the key that signed is looked up; when it is there the request goes
\* on with its role, and updateLastUsed starts beside it.  One that fails has changed
\* nothing, and is as good as one that never started.
ArriveSigned(r) ==
    /\ req[r].pc = "idle"
    /\ \E k \in held :
          /\ keys[k] # None
          /\ req' \in {[req EXCEPT ![r] = h] : h \in Handler(k)}
          /\ touch' \in {touch} \cup
                {[touch EXCEPT ![u] = [pc |-> "read", key |-> k, saw |-> None]]
                    : u \in {u \in Touches : touch[u].pc = "idle"}}
    /\ UNCHANGED <<keys, invites, held, ghosts>>

--------------------------------------------------------------------------------
(* updateLastUsed                                                            *)

ReadUsed(u) ==
    /\ touch[u].pc = "read"
    /\ LET saw == keys[touch[u].key] IN
       touch' = [touch EXCEPT ![u] = IF saw = None THEN Untouched
                                     ELSE [@ EXCEPT !.pc = "write", !.saw = saw]]
    /\ UNCHANGED <<keys, invites, held, req, ghosts>>

WriteUsed(u) ==
    /\ touch[u].pc = "write"
    /\ keys' = [keys EXCEPT ![touch[u].key] = touch[u].saw]
    /\ touch' = [touch EXCEPT ![u] = Untouched]
    /\ UNCHANGED <<invites, held, req, ghosts>>

--------------------------------------------------------------------------------
(* The operations on keys                                                    *)

\* exists(): the ids are listed, then read one after the other.
ListKeys(r) ==
    /\ req[r].pc = "list"
    /\ req' = [req EXCEPT ![r].pc = "scan", ![r].todo = Stored]
    /\ UNCHANGED <<keys, invites, held, touch, ghosts>>

\* Fault: keys of members do not count.
ScanKey_AdminsOnly(r) ==
    /\ req[r].pc = "scan"
    /\ \E k \in req[r].todo :
          req' = [req EXCEPT ![r] = IF keys[k] = "admin" THEN Idle
                                    ELSE [req[r] EXCEPT !.todo = @ \ {k}]]
    /\ UNCHANGED <<keys, invites, held, touch, ghosts>>

\* One that is still there decides the answer: 409.
ScanKey(r) ==
    /\ req[r].pc = "scan"
    /\ \E k \in req[r].todo :
          req' = [req EXCEPT ![r] = IF keys[k] # None THEN Idle
                                    ELSE [req[r] EXCEPT !.todo = @ \ {k}]]
    /\ UNCHANGED <<keys, invites, held, touch, ghosts>>

FoundNone(r) ==
    /\ req[r].pc = "scan" /\ req[r].todo = {}
    /\ req' = [req EXCEPT ![r].pc = "mint"]
    /\ UNCHANGED <<keys, invites, held, touch, ghosts>>

\* What a request does once its key is minted.
AfterMint(kind) == CASE kind = "rotate" -> "delete"
                     [] kind = "redeem" -> "note"
                     [] OTHER -> "answer"

\* create(): a fresh id and secret.
MintKey(r) ==
    /\ req[r].pc = "mint"
    /\ \E k \in Keys \ Minted :
          /\ keys' = [keys EXCEPT ![k] = req[r].role]
          /\ req' = [req EXCEPT ![r].pc = AfterMint(req[r].kind), ![r].made = k]
          /\ born' = [born EXCEPT ![k] = req[r].role]
    /\ spent' = spent \cup (IF req[r].kind = "redeem" THEN {req[r].target} ELSE {})
    /\ replaced' = replaced \cup (IF req[r].kind = "rotate" THEN {req[r].target} ELSE {})
    /\ UNCHANGED <<invites, held, touch, offer, revoked>>

\* Fault: the key goes first, its replacement is minted afterwards.
FindKey_RevokesFirst(r) ==
    /\ req[r].pc = "find" /\ req[r].kind \in {"rotate", "revoke"}
    /\ LET k == req[r].target IN
       /\ req' = [req EXCEPT ![r] =
                    IF keys[k] = None THEN Idle
                    ELSE IF req[r].kind = "revoke" THEN [@ EXCEPT !.pc = "delete"]
                    ELSE [@ EXCEPT !.pc = "mint", !.role = keys[k]]]
       /\ keys' = IF req[r].kind = "rotate" THEN [keys EXCEPT ![k] = None] ELSE keys
    /\ UNCHANGED <<invites, held, touch, ghosts>>

\* rotate() and the route of a revocation read the key they are about.
FindKey(r) ==
    /\ req[r].pc = "find" /\ req[r].kind \in {"rotate", "revoke"}
    /\ LET saw == keys[req[r].target] IN
       req' = [req EXCEPT ![r] =
                 IF saw = None THEN Idle
                 ELSE IF req[r].kind = "revoke" THEN [@ EXCEPT !.pc = "delete"]
                 ELSE [@ EXCEPT !.pc = "mint", !.role = saw]]
    /\ UNCHANGED <<keys, invites, held, touch, ghosts>>

\* The answer carries the key that was made; without one there is nothing to tell.
Answered(r) == IF req[r].made = None THEN Idle ELSE [req[r] EXCEPT !.pc = "answer"]

\* delete(), by a revocation or at the end of a rotation.  standing is no state of the
\* code: the keys that were there when a create-key arrived, and have been since.
DeleteKey(r) ==
    /\ req[r].pc = "delete"
    /\ LET k == req[r].target IN
       /\ keys' = [keys EXCEPT ![k] = None]
       /\ revoked' = revoked \cup (IF req[r].kind = "revoke" THEN {k} ELSE {})
       /\ req' = [q \in Requests |->
                    IF q = r THEN Answered(r)
                    ELSE [req[q] EXCEPT !.standing = @ \ {k}]]
    /\ UNCHANGED <<invites, held, touch, born, offer, spent, replaced>>

\* The client has its answer, and the secret of the key that was made for it.
AnswerRequest(r) ==
    /\ req[r].pc = "answer"
    /\ held' = held \cup ({req[r].made} \ {None})
    /\ req' = [req EXCEPT ![r] = Idle]
    /\ UNCHANGED <<keys, invites, touch, ghosts>>

--------------------------------------------------------------------------------
(* The operations on invites                                                 *)

PutInvite(r) ==
    /\ req[r].pc = "put"
    /\ \E i \in Invites :
          /\ offer[i] = None
          /\ invites' = [invites EXCEPT ![i] = [role |-> req[r].role, state |-> "open"]]
          /\ offer' = [offer EXCEPT ![i] = req[r].role]
    /\ req' = [req EXCEPT ![r] = Idle]
    /\ UNCHANGED <<keys, held, touch, born, spent, replaced, revoked>>

RemoveInvite(r) ==
    /\ req[r].pc = "remove"
    /\ invites' = [invites EXCEPT ![req[r].target] = None]
    /\ spent' = spent \cup {req[r].target}
    /\ req' = [req EXCEPT ![r] = Idle]
    /\ UNCHANGED <<keys, held, touch, born, offer, replaced, revoked>>

\* Time passes; of an invite that is no longer open the expiry is not looked at.
InviteExpires ==
    /\ \E i \in Invites :
          /\ invites[i] # None /\ invites[i].state = "open"
          /\ invites' = [invites EXCEPT ![i].state = "expired"]
          /\ spent' = spent \cup {i}
    /\ UNCHANGED <<keys, held, req, touch, born, offer, replaced, revoked>>

\* redeem(): the invite of the token, unless it is unknown, redeemed or expired.
FindInvite(r) ==
    /\ req[r].pc = "find" /\ req[r].kind = "redeem"
    /\ LET saw == invites[req[r].target] IN
       req' = [req EXCEPT ![r] =
                 IF saw = None THEN Idle
                 ELSE IF saw.state # "open" THEN Idle
                 ELSE [@ EXCEPT !.pc = "mark", !.role = saw.role]]
    /\ UNCHANGED <<keys, invites, held, touch, ghosts>>

\* The invite as it was read, with redeemedAt: written before the key is minted ...
MarkRedeemed(r) ==
    /\ req[r].pc = "mark"
    /\ invites' = [invites EXCEPT ![req[r].target] = [role |-> req[r].role, state |-> "redeemed"]]
    /\ spent' = spent \cup {req[r].target}
    /\ req' = [req EXCEPT ![r].pc = "mint"]
    /\ UNCHANGED <<keys, held, touch, born, offer, replaced, revoked>>

\* Fault: the invite as it was read, with the id of the key only.
NoteKey_AsRead(r) ==
    /\ req[r].pc = "note"
    /\ invites' = [invites EXCEPT ![req[r].target] = [role |-> req[r].role, state |-> "open"]]
    /\ req' = [req EXCEPT ![r].pc = "answer"]
    /\ UNCHANGED <<keys, held, touch, ghosts>>

\* ... and once more after it, with the id of the key.
NoteKey(r) ==
    /\ req[r].pc = "note"
    /\ invites' = [invites EXCEPT ![req[r].target] = [role |-> req[r].role, state |-> "redeemed"]]
    /\ req' = [req EXCEPT ![r].pc = "answer"]
    /\ UNCHANGED <<keys, held, touch, ghosts>>

--------------------------------------------------------------------------------
(* Failures                                                                  *)

\* A request dies where it waits; what it has stored stays, its answer is lost.
RequestDies(r) ==
    /\ req[r].pc # "idle"
    /\ req' = [req EXCEPT ![r] = Idle]
    /\ UNCHANGED <<keys, invites, held, touch, ghosts>>

Step(r) ==
    \/ ArriveCreate(r) \/ ArriveRedeem(r) \/ ArriveSigned(r)
    \/ ListKeys(r) \/ ScanKey(r) \/ FoundNone(r)
    \/ MintKey(r) \/ FindKey(r) \/ DeleteKey(r) \/ AnswerRequest(r)
    \/ PutInvite(r) \/ RemoveInvite(r)
    \/ FindInvite(r) \/ MarkRedeemed(r) \/ NoteKey(r)
    \/ RequestDies(r)

Touch(u) == ReadUsed(u) \/ WriteUsed(u)

Next ==
    \/ InviteExpires
    \/ \E r \in Requests : Step(r)
    \/ \E u \in Touches : Touch(u)

Spec == Init /\ [][Next]_vars

--------------------------------------------------------------------------------
(* Correctness                                                               *)

Request == [kind : {"none", "create", "redeem", "rotate", "mint", "revoke", "invite",
                    "uninvite"},
            pc : {"idle", "list", "scan", "find", "mint", "delete", "put", "remove", "mark",
                  "note", "answer"},
            target : Keys \cup Invites \cup {None}, role : Roles,
            todo : SUBSET Keys, made : Keys \cup {None}, late : BOOLEAN,
            standing : SUBSET Keys]

\* The shape of the state; what is stored under an id is one of the records written
\* under that id.
TypeOK ==
    /\ keys \in [Keys -> Roles \cup {None}]
    /\ invites \in [Invites -> Record \cup {None}]
    /\ spent \subseteq Invites
    /\ held \cup replaced \cup revoked \subseteq Keys
    /\ req \in [Requests -> Request]
    /\ touch \in [Touches -> [pc : {"idle", "read", "write"}, key : Keys \cup {None},
                               saw : Roles \cup {None}]]
    /\ born \in [Keys -> Roles \cup {None}]
    /\ offer \in [Invites -> Roles \cup {None}]
    /\ \A k \in Keys : keys[k] \in {born[k], None}

\* A rotation, even one that dies half-way, loses no key: one that was minted is in the
\* store, or another key has revoked it, or a replacement was minted for it, of which
\* the same holds.  Mint-then-revoke in rotate().
NoneLostByRotation ==
    \A k \in Minted :
        \/ keys[k] # None
        \/ k \in revoked
        \/ k \in replaced

\* create-key mints only when each key that was stored at its arrival has been deleted
\* since: writing over a key, or rotating one of several, does not open the gate.  Keys
\* that were minted since do not keep it shut: see FirstKeyIsFirst.
GateOutwaitsTheKeysItMet ==
    \A r \in Requests :
        req[r].kind = "create" /\ req[r].pc \in {"mint", "answer"} => req[r].standing = {}

\* An invite that was marked, used or revoked, or that has expired, before a redemption
\* arrives gives that redemption no key: whichever other redemptions, revocations and
\* deaths between mark, mint and note came before, or run beside it.
LateRedeemGetsNoKey ==
    \A r \in Requests :
        req[r].kind = "redeem" /\ req[r].late => req[r].made = None

\* "Appliance is already initialized" (bootstrap/index.ts): create-key mints a key only
\* for a server that has none.
FirstKeyIsFirst ==
    [][\A r \in Requests : req[r].kind = "create" /\ MintKey(r) => Stored = {}]_vars

\* "Permanently delete a key" (api-key.service.ts): it is not stored again.
DeletedKeysStayDeleted ==
    [][\A k \in Minted : keys[k] = None => keys'[k] = None]_vars

================================================================================
