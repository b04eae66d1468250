--------------------------- MODULE CredentialsProofs ---------------------------
(***************************************************************************)
(* Theorems of Credentials: a rotation loses no key, create-key mints only  *)
(* when no key it found standing is left, and an invite that is spent gives *)
(* nobody who comes later a key.                                            *)
(***************************************************************************)
EXTENDS Credentials, TLAPS

\* The invites that were created, whether or not they are still stored.
Offered == {i \in Invites : offer[i] # None}

\* What a request does next fits what it was asked for, and is about a key that was
\* minted or an invite that was created.
RequestFits(q) ==
    /\ q.pc \in {"list", "scan"} => q.kind = "create"
    /\ q.pc = "find" => q.kind \in {"redeem", "rotate", "revoke"}
    /\ q.pc = "mint" => q.kind \in {"create", "redeem", "rotate", "mint"}
    /\ q.pc = "delete" => q.kind \in {"rotate", "revoke"}
    /\ q.pc = "remove" => q.kind = "uninvite"
    /\ q.pc \in {"mark", "note"} => q.kind = "redeem"
    /\ q.kind \in {"rotate", "revoke"} => q.target \in Minted
    /\ q.kind \in {"redeem", "uninvite"} => q.target \in Offered

RequestsFit == \A r \in Requests : RequestFits(req[r])

\* updateLastUsed is about a key that was minted, and what it is about to write is the
\* record of that key.
TouchFits(t) ==
    /\ t.pc # "idle" => t.key \in Minted
    /\ t.pc = "write" => t.saw = born[t.key]

TouchesFit == \A u \in Touches : TouchFits(touch[u])

\* A rotation deletes the key only after its replacement was minted.
ReplacedBeforeDeleted ==
    \A r \in Requests :
        req[r].kind = "rotate" /\ req[r].pc = "delete" => req[r].target \in replaced

\* The keys that stood when a create-key arrived, and still do, are stored; while it
\* scans, they are among those it has yet to read.
StandingIsStored ==
    \A r \in Requests :
        /\ req[r].standing \subseteq Stored
        /\ req[r].kind # "create" => req[r].standing = {}
        /\ req[r].kind = "create" /\ req[r].pc = "scan" => req[r].standing \subseteq req[r].todo

\* An invite that is spent is gone for good from the open ones; a redemption mints only
\* for an invite it has spent, and one that came late does not get beyond looking.
SpentStaysSpent ==
    /\ spent \subseteq Offered
    /\ \A i \in Invites : invites[i] # None => i \in Offered
    /\ \A i \in spent : invites[i] # None => invites[i].state # "open"
    /\ \A r \in Requests :
          /\ req[r].kind = "redeem" /\ req[r].pc = "mint" => req[r].target \in spent
          /\ req[r].kind = "redeem" /\ req[r].late =>
                req[r].pc = "find" /\ req[r].target \in spent /\ req[r].made = None

IInv ==
    /\ TypeOK /\ RequestsFit /\ TouchesFit
    /\ NoneLostByRotation /\ ReplacedBeforeDeleted
    /\ GateOutwaitsTheKeysItMet /\ StandingIsStored
    /\ SpentStaysSpent

--------------------------------------------------------------------------------

\* A signed request begins with locals that fit, and with nothing made yet.
Fresh(h) ==
    /\ h \in Request /\ RequestFits(h)
    /\ h.kind \notin {"create", "redeem"} /\ h.standing = {} /\ h.made = None
    /\ h.pc # "delete"

LEMMA HandlerIsFresh ==
    ASSUME TypeOK, NEW k \in Keys, keys[k] # None, NEW h \in Handler(k)
    PROVE  Fresh(h)
  <1>1. k \in Minted
    BY DEF TypeOK, Minted
  <1>2. \/ h = Idle
        \/ h = [Idle EXCEPT !.kind = "rotate", !.pc = "find", !.target = k]
        \/ \E role \in Asked : h = [Idle EXCEPT !.kind = "mint", !.pc = "mint", !.role = role]
        \/ \E x \in Minted : h = [Idle EXCEPT !.kind = "revoke", !.pc = "find", !.target = x]
        \/ \E role \in Asked : h = [Idle EXCEPT !.kind = "invite", !.pc = "put", !.role = role]
        \/ \E i \in Offered : h = [Idle EXCEPT !.kind = "uninvite", !.pc = "remove",
                                         !.target = i]
    BY DEF Handler, Idle, Offered
  <1>3. Minted \subseteq Keys /\ Offered \subseteq Invites
    BY DEF Minted, Offered
  <1> USE <1>1, <1>3, CredentialsAssumption DEF Fresh, Idle, Request, Roles, RequestFits
  <1>4. CASE h = Idle
    BY <1>4
  <1>5. CASE h = [Idle EXCEPT !.kind = "rotate", !.pc = "find", !.target = k]
    BY <1>5
  <1>6. CASE \E role \in Asked : h = [Idle EXCEPT !.kind = "mint", !.pc = "mint", !.role = role]
    BY <1>6
  <1>7. CASE \E x \in Minted : h = [Idle EXCEPT !.kind = "revoke", !.pc = "find", !.target = x]
    BY <1>7
  <1>8. CASE \E role \in Asked : h = [Idle EXCEPT !.kind = "invite", !.pc = "put", !.role = role]
    BY <1>8
  <1>9. CASE \E i \in Offered : h = [Idle EXCEPT !.kind = "uninvite", !.pc = "remove", !.target = i]
    BY <1>9
  <1>10. QED
    BY <1>2, <1>4, <1>5, <1>6, <1>7, <1>8, <1>9

--------------------------------------------------------------------------------

\* The invariant holds of a server without a key and of one with a first key.
LEMMA InitIInv == Init => IInv
  BY NoneAssumption
     DEF Init, IInv, TypeOK, RequestsFit, RequestFits, TouchesFit, TouchFits,
         NoneLostByRotation, ReplacedBeforeDeleted,
         GateOutwaitsTheKeysItMet, StandingIsStored, SpentStaysSpent, Idle, Untouched,
         Request, Roles, Record, Minted, Stored, Offered, ghosts

\* The locals of a request that is not under way.
LEMMA IdleIsRequest == Idle \in Request
  BY DEF Idle, Request, Roles

\* The fields of a request.
LEMMA RequestFields ==
    ASSUME NEW q \in Request
    PROVE  /\ q.role \in Roles /\ q.made \in Keys \cup {None}
           /\ q.todo \in SUBSET Keys /\ q.standing \in SUBSET Keys
  BY DEF Request

\* A request keeps its type when a step moves it on.
LEMMA RequestUpdates ==
    ASSUME NEW q \in Request, NEW pc \in {"scan", "mint", "delete", "mark", "note", "answer"}
    PROVE  /\ [q EXCEPT !.pc = pc] \in Request
           /\ \A role \in Roles : [q EXCEPT !.pc = pc, !.role = role] \in Request
           /\ \A k \in Keys : [q EXCEPT !.pc = pc, !.made = k] \in Request
           /\ \A S \in SUBSET Keys : [q EXCEPT !.pc = pc, !.todo = S] \in Request
           /\ \A S \in SUBSET Keys : [q EXCEPT !.todo = S] \in Request
  BY DEF Request

\* Every step of a request leaves requests behind.
LEMMA RequestsTyped ==
    ASSUME IInv, NEW r \in Requests, Step(r)
    PROVE  req' \in [Requests -> Request]
  <1>1. req \in [Requests -> Request] /\ req[r] \in Request
    BY DEF IInv, TypeOK
  <1>2. ASSUME NEW q \in Request, req' = [req EXCEPT ![r] = q] PROVE req' \in [Requests -> Request]
    BY <1>1, <1>2
  <1>3. CASE req' = [req EXCEPT ![r] = Idle]
    BY <1>2, <1>3, IdleIsRequest
  <1>4. CASE ArriveCreate(r)
    <2>1. Stored \in SUBSET Keys
      BY DEF Stored
    <2>2. [Idle EXCEPT !.kind = "create", !.pc = "list", !.role = "admin",
         !.standing = Stored] \in Request
      BY <2>1 DEF Idle, Request, Roles
    <2>3. QED
      BY <1>2, <1>4, <2>2 DEF ArriveCreate
  <1>5. CASE ArriveRedeem(r)
    <2>1. ASSUME NEW i \in Invites
          PROVE  [Idle EXCEPT !.kind = "redeem", !.pc = "find", !.target = i,
          !.late = (i \in spent)] \in Request
      <3>1. (i \in spent) \in BOOLEAN
        OBVIOUS
      <3>2. QED
        BY <3>1 DEF Idle, Request, Roles
    <2>2. QED
      BY <1>2, <1>5, <2>1 DEF ArriveRedeem
  <1>6. CASE ArriveSigned(r)
    BY <1>2, <1>6, HandlerIsFresh DEF ArriveSigned, Fresh, IInv, TypeOK
  <1>7. CASE ListKeys(r)
    <2>1. [req[r] EXCEPT !.pc = "scan", !.todo = Stored] \in Request
      <3>1. Stored \in SUBSET Keys
        BY DEF Stored
      <3>2. QED
        BY <1>1, <3>1, RequestUpdates
    <2>2. QED
      BY <1>1, <1>2, <1>7, <2>1 DEF ListKeys
  <1>8. CASE ScanKey(r)
    <2>1. ASSUME NEW k PROVE [req[r] EXCEPT !.todo = @ \ {k}] \in Request
      <3>1. req[r].todo \ {k} \in SUBSET Keys
        BY <1>1, RequestFields
      <3>2. QED
        BY <1>1, <3>1, RequestUpdates
    <2>2. PICK k : req' = [req EXCEPT ![r] = IF keys[k] # None THEN Idle
                                             ELSE [req[r] EXCEPT !.todo = @ \ {k}]]
      BY <1>8 DEF ScanKey
    <2>3. CASE keys[k] # None
      BY <1>3, <2>2, <2>3
    <2>4. CASE keys[k] = None
      <3>1. req' = [req EXCEPT ![r] = [req[r] EXCEPT !.todo = @ \ {k}]]
        BY <2>2, <2>4
      <3>2. QED
        BY <1>2, <2>1, <3>1
    <2>5. QED
      BY <2>3, <2>4
  <1>9. CASE FoundNone(r)
    BY <1>1, <1>2, <1>9, RequestUpdates DEF FoundNone
  <1>10. CASE MintKey(r)
    <2>1. ASSUME NEW k \in Keys
          PROVE  [req[r] EXCEPT !.pc = AfterMint(req[r].kind), !.made = k] \in Request
      BY <1>1, RequestUpdates DEF AfterMint
    <2>2. QED
      BY <1>1, <1>2, <1>10, <2>1 DEF MintKey
  <1>11. CASE FindKey(r)
    <2>1. /\ [req[r] EXCEPT !.pc = "delete"] \in Request
          /\ \A role \in Roles : [req[r] EXCEPT !.pc = "mint", !.role = role] \in Request
      BY <1>1, RequestUpdates
    <2>2. keys[req[r].target] \in Roles \cup {None}
      BY <1>11 DEF FindKey, IInv, TypeOK, RequestsFit, RequestFits, Minted
    <2>3. QED
      BY <1>2, <1>11, <2>1, <2>2, IdleIsRequest DEF FindKey
  <1>12. CASE DeleteKey(r)
    <2>1. ASSUME NEW q \in Requests, NEW k
          PROVE  Answered(q) \in Request /\ [req[q] EXCEPT !.standing = @ \ {k}] \in Request
      BY <1>1, IdleIsRequest DEF Answered, Request
    <2>2. QED
      BY <1>12, <2>1 DEF DeleteKey
  <1>13. CASE FindInvite(r)
    <2>1. \A role \in Roles : [req[r] EXCEPT !.pc = "mark", !.role = role] \in Request
      BY <1>1, RequestUpdates
    <2>2. invites[req[r].target] \in Record \cup {None}
      BY <1>13 DEF FindInvite, IInv, TypeOK, RequestsFit, RequestFits, Offered
    <2>3. QED
      BY <1>2, <1>13, <2>1, <2>2, IdleIsRequest DEF FindInvite, Record
  <1>14. CASE MarkRedeemed(r) \/ NoteKey(r)
    BY <1>1, <1>2, <1>14, RequestUpdates DEF MarkRedeemed, NoteKey
  <1>15. QED
    BY <1>3, <1>4, <1>5, <1>6, <1>7, <1>8, <1>9, <1>10, <1>11, <1>12, <1>13, <1>14
       DEF Step, AnswerRequest, PutInvite, RemoveInvite, RequestDies

\* The locals of updateLastUsed.
Noting == [pc : {"idle", "read", "write"}, key : Keys \cup {None}, saw : Roles \cup {None}]

\* What has read a record is about to write one.
LEMMA NotingUpdate ==
    ASSUME NEW t \in Noting, NEW role \in Roles
    PROVE  [t EXCEPT !.pc = "write", !.saw = role] \in Noting
  BY DEF Noting

\* Every step preserves the types, and that a record is what was written under its id.
LEMMA TypesStep == IInv /\ [Next]_vars => TypeOK'
  <1> SUFFICES ASSUME IInv, [Next]_vars PROVE TypeOK'
    OBVIOUS
  <1> USE NoneAssumption, CredentialsAssumption DEF IInv, TypeOK, RequestsFit, RequestFits,
       TouchesFit, TouchFits, Untouched, Roles, Record, Step, Minted, Stored, Offered
  <1>1. CASE UNCHANGED vars
    BY <1>1 DEF vars, ghosts
  <1>2. ASSUME InviteExpires PROVE TypeOK'
    BY <1>2 DEF InviteExpires
  <1>3. ASSUME NEW r \in Requests, ArriveCreate(r) PROVE TypeOK'
    BY <1>3, RequestsTyped, RequestFields DEF ArriveCreate, ghosts
  <1>4. ASSUME NEW r \in Requests, ArriveRedeem(r) PROVE TypeOK'
    BY <1>4, RequestsTyped, RequestFields DEF ArriveRedeem, ghosts
  <1>5. ASSUME NEW r \in Requests, ArriveSigned(r) PROVE TypeOK'
    <2>1. req' \in [Requests -> Request]
      BY <1>5, RequestsTyped DEF Step
    <2>2. req[r].role \in Roles /\ req[r].made \in Keys \cup {None}
      BY RequestFields
    <2>3. QED
      BY <1>5, <2>1, <2>2 DEF ArriveSigned, ghosts
  <1>6. ASSUME NEW r \in Requests, ListKeys(r) PROVE TypeOK'
    BY <1>6, RequestsTyped, RequestFields DEF ListKeys, ghosts
  <1>7. ASSUME NEW r \in Requests, ScanKey(r) PROVE TypeOK'
    BY <1>7, RequestsTyped, RequestFields DEF ScanKey, ghosts
  <1>8. ASSUME NEW r \in Requests, FoundNone(r) PROVE TypeOK'
    BY <1>8, RequestsTyped, RequestFields DEF FoundNone, ghosts
  <1>9. ASSUME NEW r \in Requests, MintKey(r) PROVE TypeOK'
    <2>1. req' \in [Requests -> Request]
      BY <1>9, RequestsTyped DEF Step
    <2>2. req[r].role \in Roles /\ req[r].made \in Keys \cup {None}
      BY RequestFields
    <2>3. QED
      BY <1>9, <2>1, <2>2 DEF MintKey, ghosts
  <1>10. ASSUME NEW r \in Requests, FindKey(r) PROVE TypeOK'
    BY <1>10, RequestsTyped, RequestFields DEF FindKey, ghosts
  <1>11. ASSUME NEW r \in Requests, DeleteKey(r) PROVE TypeOK'
    <2>1. req' \in [Requests -> Request]
      BY <1>11, RequestsTyped DEF Step
    <2>2. req[r].role \in Roles /\ req[r].made \in Keys \cup {None}
      BY RequestFields
    <2>3. QED
      BY <1>11, <2>1, <2>2 DEF DeleteKey, ghosts
  <1>12. ASSUME NEW r \in Requests, AnswerRequest(r) PROVE TypeOK'
    <2>1. req' \in [Requests -> Request]
      BY <1>12, RequestsTyped DEF Step
    <2>2. req[r].role \in Roles /\ req[r].made \in Keys \cup {None}
      BY RequestFields
    <2>3. QED
      BY <1>12, <2>1, <2>2 DEF AnswerRequest, ghosts
  <1>13. ASSUME NEW r \in Requests, PutInvite(r) PROVE TypeOK'
    <2>1. req' \in [Requests -> Request]
      BY <1>13, RequestsTyped DEF Step
    <2>2. req[r].role \in Roles /\ req[r].made \in Keys \cup {None}
      BY RequestFields
    <2>3. [role |-> req[r].role, state |-> "open"] \in Record
      BY <2>2
    <2>4. QED
      BY <1>13, <2>1, <2>2, <2>3 DEF PutInvite, ghosts
  <1>14. ASSUME NEW r \in Requests, RemoveInvite(r) PROVE TypeOK'
    BY <1>14, RequestsTyped, RequestFields DEF RemoveInvite, ghosts
  <1>15. ASSUME NEW r \in Requests, FindInvite(r) PROVE TypeOK'
    BY <1>15, RequestsTyped, RequestFields DEF FindInvite, ghosts
  <1>16. ASSUME NEW r \in Requests, MarkRedeemed(r) PROVE TypeOK'
    <2>1. req' \in [Requests -> Request]
      BY <1>16, RequestsTyped DEF Step
    <2>2. req[r].role \in Roles /\ req[r].made \in Keys \cup {None}
      BY RequestFields
    <2>3. [role |-> req[r].role, state |-> "redeemed"] \in Record
      BY <2>2
    <2>4. QED
      BY <1>16, <2>1, <2>2, <2>3 DEF MarkRedeemed, ghosts
  <1>17. ASSUME NEW r \in Requests, NoteKey(r) PROVE TypeOK'
    BY <1>17, RequestsTyped, RequestFields DEF NoteKey, ghosts
  <1>18. ASSUME NEW r \in Requests, RequestDies(r) PROVE TypeOK'
    BY <1>18, RequestsTyped, RequestFields DEF RequestDies, ghosts
  <1>19. ASSUME NEW u \in Touches, ReadUsed(u) PROVE TypeOK'
    <2>1. keys[touch[u].key] \in Roles \cup {None} /\ touch[u].key \in Keys
      BY <1>19 DEF ReadUsed
    <2>2. touch' \in [Touches -> [pc : {"idle", "read", "write"}, key : Keys \cup {None},
                                 saw : Roles \cup {None}]]
      <3>1. CASE keys[touch[u].key] = None
        BY <1>19, <3>1 DEF ReadUsed
      <3>2. CASE keys[touch[u].key] # None
        <4>1. touch' = [touch EXCEPT ![u] = [touch[u] EXCEPT !.pc = "write",
             !.saw = keys[touch[u].key]]]
          BY <1>19, <3>2 DEF ReadUsed
        <4>2. [touch[u] EXCEPT !.pc = "write", !.saw = keys[touch[u].key]] \in Noting
          <5>1. touch[u] \in Noting /\ keys[touch[u].key] \in Roles
            BY <2>1, <3>2 DEF Noting
          <5>2. QED
            BY <5>1, NotingUpdate
        <4>3. QED
          BY <2>1, <3>2, <4>1, <4>2 DEF Noting
      <3>3. QED
        BY <3>1, <3>2
    <2>3. QED
      BY <1>19, <2>2 DEF ReadUsed, ghosts
  <1>20. ASSUME NEW u \in Touches, WriteUsed(u) PROVE TypeOK'
    BY <1>20 DEF WriteUsed, ghosts
  <1>21. QED
    BY <1>1, <1>2, <1>3, <1>4, <1>5, <1>6, <1>7, <1>8, <1>9, <1>10, <1>11, <1>12, <1>13, <1>14,
         <1>15, <1>16, <1>17, <1>18, <1>19, <1>20 DEF Next, Step, Touch

\* A step leads to one that fits what the request was asked for.
LEMMA FitStep == IInv /\ [Next]_vars => RequestsFit'
  <1> SUFFICES ASSUME IInv, [Next]_vars PROVE RequestsFit'
    OBVIOUS
  <1> USE NoneAssumption, CredentialsAssumption DEF IInv, TypeOK, RequestsFit, RequestFits,
       Request, Idle, Minted, Offered, Fresh
  <1>1. CASE UNCHANGED vars
    BY <1>1 DEF vars, ghosts
  <1>2. ASSUME InviteExpires PROVE RequestsFit'
    BY <1>2 DEF InviteExpires
  <1>3. ASSUME NEW r \in Requests, ArriveCreate(r) PROVE RequestsFit'
    BY <1>3 DEF ArriveCreate, ghosts
  <1>4. ASSUME NEW r \in Requests, ArriveRedeem(r) PROVE RequestsFit'
    BY <1>4 DEF ArriveRedeem, ghosts
  <1>5. ASSUME NEW r \in Requests, ArriveSigned(r) PROVE RequestsFit'
    BY <1>5, HandlerIsFresh DEF ArriveSigned, ghosts
  <1>6. ASSUME NEW r \in Requests, ListKeys(r) PROVE RequestsFit'
    BY <1>6 DEF ListKeys, ghosts
  <1>7. ASSUME NEW r \in Requests, ScanKey(r) PROVE RequestsFit'
    BY <1>7 DEF ScanKey, ghosts
  <1>8. ASSUME NEW r \in Requests, FoundNone(r) PROVE RequestsFit'
    BY <1>8 DEF FoundNone, ghosts
  <1>9. ASSUME NEW r \in Requests, MintKey(r) PROVE RequestsFit'
    BY <1>9 DEF MintKey, AfterMint, ghosts
  <1>10. ASSUME NEW r \in Requests, FindKey(r) PROVE RequestsFit'
    BY <1>10 DEF FindKey, ghosts
  <1>11. ASSUME NEW r \in Requests, DeleteKey(r) PROVE RequestsFit'
    BY <1>11 DEF DeleteKey, Answered, ghosts
  <1>12. ASSUME NEW r \in Requests, AnswerRequest(r) PROVE RequestsFit'
    BY <1>12 DEF AnswerRequest, ghosts
  <1>13. ASSUME NEW r \in Requests, PutInvite(r) PROVE RequestsFit'
    BY <1>13 DEF PutInvite, ghosts
  <1>14. ASSUME NEW r \in Requests, RemoveInvite(r) PROVE RequestsFit'
    BY <1>14 DEF RemoveInvite, ghosts
  <1>15. ASSUME NEW r \in Requests, FindInvite(r) PROVE RequestsFit'
    BY <1>15 DEF FindInvite, ghosts
  <1>16. ASSUME NEW r \in Requests, MarkRedeemed(r) PROVE RequestsFit'
    BY <1>16 DEF MarkRedeemed, ghosts
  <1>17. ASSUME NEW r \in Requests, NoteKey(r) PROVE RequestsFit'
    BY <1>17 DEF NoteKey, ghosts
  <1>18. ASSUME NEW r \in Requests, RequestDies(r) PROVE RequestsFit'
    BY <1>18 DEF RequestDies, ghosts
  <1>19. ASSUME NEW u \in Touches, ReadUsed(u) PROVE RequestsFit'
    BY <1>19 DEF ReadUsed, ghosts
  <1>20. ASSUME NEW u \in Touches, WriteUsed(u) PROVE RequestsFit'
    BY <1>20 DEF WriteUsed, ghosts
  <1>21. QED
    BY <1>1, <1>2, <1>3, <1>4, <1>5, <1>6, <1>7, <1>8, <1>9, <1>10, <1>11, <1>12, <1>13, <1>14,
         <1>15, <1>16, <1>17, <1>18, <1>19, <1>20 DEF Next, Step, Touch

\* Keys are minted, deleted and written over in three steps, and in no other.
LEMMA KeysChangeHands ==
    ASSUME [Next]_vars
    PROVE  \/ \E r \in Requests : MintKey(r) \/ DeleteKey(r)
           \/ \E u \in Touches : WriteUsed(u)
           \/ UNCHANGED <<keys, born, revoked, replaced>>
  <1>1. CASE UNCHANGED vars
    BY <1>1 DEF vars, ghosts
  <1>2. CASE InviteExpires
    BY <1>2 DEF InviteExpires
  <1>3. ASSUME NEW r \in Requests, Step(r), ~ MintKey(r), ~ DeleteKey(r)
        PROVE  UNCHANGED <<keys, born, revoked, replaced>>
    BY <1>3 DEF Step, ArriveCreate, ArriveRedeem, ArriveSigned, ListKeys, ScanKey, FoundNone,
         FindKey, AnswerRequest, PutInvite, RemoveInvite, FindInvite, MarkRedeemed, NoteKey,
         RequestDies, ghosts
  <1>4. ASSUME NEW u \in Touches, ReadUsed(u)
        PROVE  UNCHANGED <<keys, born, revoked, replaced>>
    BY <1>4 DEF ReadUsed, ghosts
  <1>5. QED
    BY <1>1, <1>2, <1>3, <1>4 DEF Next, Touch

\* What was read of a key is what was born.
LEMMA TouchStep == IInv /\ [Next]_vars => TouchesFit'
  <1> SUFFICES ASSUME IInv, [Next]_vars PROVE TouchesFit'
    OBVIOUS
  <1> USE NoneAssumption, CredentialsAssumption DEF IInv, TypeOK, RequestsFit, RequestFits,
       TouchesFit, TouchFits, Request, Untouched, Minted
  <1>1. CASE UNCHANGED vars
    BY <1>1 DEF vars, ghosts
  <1>2. ASSUME InviteExpires PROVE TouchesFit'
    BY <1>2 DEF InviteExpires
  <1>3. ASSUME NEW r \in Requests, ArriveCreate(r) PROVE TouchesFit'
    BY <1>3 DEF ArriveCreate, ghosts
  <1>4. ASSUME NEW r \in Requests, ArriveRedeem(r) PROVE TouchesFit'
    BY <1>4 DEF ArriveRedeem, ghosts
  <1>5. ASSUME NEW r \in Requests, ArriveSigned(r) PROVE TouchesFit'
    BY <1>5 DEF ArriveSigned, ghosts
  <1>6. ASSUME NEW r \in Requests, ListKeys(r) PROVE TouchesFit'
    BY <1>6 DEF ListKeys, ghosts
  <1>7. ASSUME NEW r \in Requests, ScanKey(r) PROVE TouchesFit'
    BY <1>7 DEF ScanKey, ghosts
  <1>8. ASSUME NEW r \in Requests, FoundNone(r) PROVE TouchesFit'
    BY <1>8 DEF FoundNone, ghosts
  <1>9. ASSUME NEW r \in Requests, MintKey(r) PROVE TouchesFit'
    BY <1>9 DEF MintKey, AfterMint, ghosts
  <1>10. ASSUME NEW r \in Requests, FindKey(r) PROVE TouchesFit'
    BY <1>10 DEF FindKey, ghosts
  <1>11. ASSUME NEW r \in Requests, DeleteKey(r) PROVE TouchesFit'
    BY <1>11 DEF DeleteKey, Answered, ghosts
  <1>12. ASSUME NEW r \in Requests, AnswerRequest(r) PROVE TouchesFit'
    BY <1>12 DEF AnswerRequest, ghosts
  <1>13. ASSUME NEW r \in Requests, PutInvite(r) PROVE TouchesFit'
    BY <1>13 DEF PutInvite, ghosts
  <1>14. ASSUME NEW r \in Requests, RemoveInvite(r) PROVE TouchesFit'
    BY <1>14 DEF RemoveInvite, ghosts
  <1>15. ASSUME NEW r \in Requests, FindInvite(r) PROVE TouchesFit'
    BY <1>15 DEF FindInvite, ghosts
  <1>16. ASSUME NEW r \in Requests, MarkRedeemed(r) PROVE TouchesFit'
    BY <1>16 DEF MarkRedeemed, ghosts
  <1>17. ASSUME NEW r \in Requests, NoteKey(r) PROVE TouchesFit'
    BY <1>17 DEF NoteKey, ghosts
  <1>18. ASSUME NEW r \in Requests, RequestDies(r) PROVE TouchesFit'
    BY <1>18 DEF RequestDies, ghosts
  <1>19. ASSUME NEW u \in Touches, ReadUsed(u) PROVE TouchesFit'
    <2>1. touch[u].key \in Minted /\ keys[touch[u].key] \in {born[touch[u].key], None}
      BY <1>19 DEF ReadUsed
    <2>2. CASE keys[touch[u].key] = None
      BY <1>19, <2>2 DEF ReadUsed, ghosts
    <2>3. CASE keys[touch[u].key] # None
      <3>1. touch' = [touch EXCEPT ![u] = [touch[u] EXCEPT !.pc = "write",
           !.saw = keys[touch[u].key]]]
        BY <1>19, <2>3 DEF ReadUsed
      <3>2. QED
        BY <1>19, <2>1, <2>3, <3>1 DEF ReadUsed, ghosts
    <2>4. QED
      BY <2>2, <2>3
  <1>20. ASSUME NEW u \in Touches, WriteUsed(u) PROVE TouchesFit'
    BY <1>20 DEF WriteUsed, ghosts
  <1>21. QED
    BY <1>1, <1>2, <1>3, <1>4, <1>5, <1>6, <1>7, <1>8, <1>9, <1>10, <1>11, <1>12, <1>13, <1>14,
         <1>15, <1>16, <1>17, <1>18, <1>19, <1>20 DEF Next, Step, Touch

\* A key leaves the store by a revocation, or by a rotation that has replaced it.
LEMMA NoneLostStep == IInv /\ [Next]_vars => NoneLostByRotation'
  <1> SUFFICES ASSUME IInv, [Next]_vars PROVE NoneLostByRotation'
    OBVIOUS
  <1> USE NoneAssumption, CredentialsAssumption DEF IInv, TypeOK, RequestsFit, RequestFits,
       TouchesFit, TouchFits, NoneLostByRotation, ReplacedBeforeDeleted, Request, Minted
  <1>1. CASE UNCHANGED <<keys, born, revoked, replaced>>
    BY <1>1
  <1>2. ASSUME NEW r \in Requests, MintKey(r) PROVE NoneLostByRotation'
    BY <1>2 DEF MintKey, AfterMint, ghosts
  <1>3. ASSUME NEW r \in Requests, DeleteKey(r) PROVE NoneLostByRotation'
    BY <1>3 DEF DeleteKey, Answered, ghosts
  <1>4. ASSUME NEW u \in Touches, WriteUsed(u) PROVE NoneLostByRotation'
    BY <1>4 DEF WriteUsed, ghosts
  <1>5. QED
    BY <1>1, <1>2, <1>3, <1>4, KeysChangeHands

\* The rotation that mints the replacement notes it.
LEMMA ReplacedStep == IInv /\ [Next]_vars => ReplacedBeforeDeleted'
  <1> SUFFICES ASSUME IInv, [Next]_vars PROVE ReplacedBeforeDeleted'
    OBVIOUS
  <1> USE NoneAssumption, CredentialsAssumption DEF IInv, TypeOK, ReplacedBeforeDeleted,
       Request, Idle, Fresh
  <1>1. CASE UNCHANGED vars
    BY <1>1 DEF vars, ghosts
  <1>2. ASSUME InviteExpires PROVE ReplacedBeforeDeleted'
    BY <1>2 DEF InviteExpires
  <1>3. ASSUME NEW r \in Requests, ArriveCreate(r) PROVE ReplacedBeforeDeleted'
    BY <1>3 DEF ArriveCreate, ghosts
  <1>4. ASSUME NEW r \in Requests, ArriveRedeem(r) PROVE ReplacedBeforeDeleted'
    BY <1>4 DEF ArriveRedeem, ghosts
  <1>5. ASSUME NEW r \in Requests, ArriveSigned(r) PROVE ReplacedBeforeDeleted'
    BY <1>5, HandlerIsFresh DEF ArriveSigned, ghosts
  <1>6. ASSUME NEW r \in Requests, ListKeys(r) PROVE ReplacedBeforeDeleted'
    BY <1>6 DEF ListKeys, ghosts
  <1>7. ASSUME NEW r \in Requests, ScanKey(r) PROVE ReplacedBeforeDeleted'
    BY <1>7 DEF ScanKey, ghosts
  <1>8. ASSUME NEW r \in Requests, FoundNone(r) PROVE ReplacedBeforeDeleted'
    BY <1>8 DEF FoundNone, ghosts
  <1>9. ASSUME NEW r \in Requests, MintKey(r) PROVE ReplacedBeforeDeleted'
    BY <1>9 DEF MintKey, AfterMint, ghosts
  <1>10. ASSUME NEW r \in Requests, FindKey(r) PROVE ReplacedBeforeDeleted'
    BY <1>10 DEF FindKey, ghosts
  <1>11. ASSUME NEW r \in Requests, DeleteKey(r) PROVE ReplacedBeforeDeleted'
    BY <1>11 DEF DeleteKey, Answered, ghosts
  <1>12. ASSUME NEW r \in Requests, AnswerRequest(r) PROVE ReplacedBeforeDeleted'
    BY <1>12 DEF AnswerRequest, ghosts
  <1>13. ASSUME NEW r \in Requests, PutInvite(r) PROVE ReplacedBeforeDeleted'
    BY <1>13 DEF PutInvite, ghosts
  <1>14. ASSUME NEW r \in Requests, RemoveInvite(r) PROVE ReplacedBeforeDeleted'
    BY <1>14 DEF RemoveInvite, ghosts
  <1>15. ASSUME NEW r \in Requests, FindInvite(r) PROVE ReplacedBeforeDeleted'
    BY <1>15 DEF FindInvite, ghosts
  <1>16. ASSUME NEW r \in Requests, MarkRedeemed(r) PROVE ReplacedBeforeDeleted'
    BY <1>16 DEF MarkRedeemed, ghosts
  <1>17. ASSUME NEW r \in Requests, NoteKey(r) PROVE ReplacedBeforeDeleted'
    BY <1>17 DEF NoteKey, ghosts
  <1>18. ASSUME NEW r \in Requests, RequestDies(r) PROVE ReplacedBeforeDeleted'
    BY <1>18 DEF RequestDies, ghosts
  <1>19. ASSUME NEW u \in Touches, ReadUsed(u) PROVE ReplacedBeforeDeleted'
    BY <1>19 DEF ReadUsed, ghosts
  <1>20. ASSUME NEW u \in Touches, WriteUsed(u) PROVE ReplacedBeforeDeleted'
    BY <1>20 DEF WriteUsed, ghosts
  <1>21. QED
    BY <1>1, <1>2, <1>3, <1>4, <1>5, <1>6, <1>7, <1>8, <1>9, <1>10, <1>11, <1>12, <1>13, <1>14,
         <1>15, <1>16, <1>17, <1>18, <1>19, <1>20 DEF Next, Step, Touch

\* create-key reaches its mint with nothing left standing.
LEMMA GateStep == IInv /\ [Next]_vars => GateOutwaitsTheKeysItMet'
  <1> SUFFICES ASSUME IInv, [Next]_vars PROVE GateOutwaitsTheKeysItMet'
    OBVIOUS
  <1> USE NoneAssumption, CredentialsAssumption DEF IInv, TypeOK, RequestsFit, RequestFits,
       GateOutwaitsTheKeysItMet, StandingIsStored, Request, Idle, Fresh
  <1>1. CASE UNCHANGED vars
    BY <1>1 DEF vars, ghosts
  <1>2. ASSUME InviteExpires PROVE GateOutwaitsTheKeysItMet'
    BY <1>2 DEF InviteExpires
  <1>3. ASSUME NEW r \in Requests, ArriveCreate(r) PROVE GateOutwaitsTheKeysItMet'
    BY <1>3 DEF ArriveCreate, ghosts
  <1>4. ASSUME NEW r \in Requests, ArriveRedeem(r) PROVE GateOutwaitsTheKeysItMet'
    BY <1>4 DEF ArriveRedeem, ghosts
  <1>5. ASSUME NEW r \in Requests, ArriveSigned(r) PROVE GateOutwaitsTheKeysItMet'
    BY <1>5, HandlerIsFresh DEF ArriveSigned, ghosts
  <1>6. ASSUME NEW r \in Requests, ListKeys(r) PROVE GateOutwaitsTheKeysItMet'
    BY <1>6 DEF ListKeys, ghosts
  <1>7. ASSUME NEW r \in Requests, ScanKey(r) PROVE GateOutwaitsTheKeysItMet'
    BY <1>7 DEF ScanKey, ghosts
  <1>8. ASSUME NEW r \in Requests, FoundNone(r) PROVE GateOutwaitsTheKeysItMet'
    BY <1>8 DEF FoundNone, ghosts
  <1>9. ASSUME NEW r \in Requests, MintKey(r) PROVE GateOutwaitsTheKeysItMet'
    BY <1>9 DEF MintKey, AfterMint, ghosts
  <1>10. ASSUME NEW r \in Requests, FindKey(r) PROVE GateOutwaitsTheKeysItMet'
    BY <1>10 DEF FindKey, ghosts
  <1>11. ASSUME NEW r \in Requests, DeleteKey(r) PROVE GateOutwaitsTheKeysItMet'
    BY <1>11 DEF DeleteKey, Answered, ghosts
  <1>12. ASSUME NEW r \in Requests, AnswerRequest(r) PROVE GateOutwaitsTheKeysItMet'
    BY <1>12 DEF AnswerRequest, ghosts
  <1>13. ASSUME NEW r \in Requests, PutInvite(r) PROVE GateOutwaitsTheKeysItMet'
    BY <1>13 DEF PutInvite, ghosts
  <1>14. ASSUME NEW r \in Requests, RemoveInvite(r) PROVE GateOutwaitsTheKeysItMet'
    BY <1>14 DEF RemoveInvite, ghosts
  <1>15. ASSUME NEW r \in Requests, FindInvite(r) PROVE GateOutwaitsTheKeysItMet'
    BY <1>15 DEF FindInvite, ghosts
  <1>16. ASSUME NEW r \in Requests, MarkRedeemed(r) PROVE GateOutwaitsTheKeysItMet'
    BY <1>16 DEF MarkRedeemed, ghosts
  <1>17. ASSUME NEW r \in Requests, NoteKey(r) PROVE GateOutwaitsTheKeysItMet'
    BY <1>17 DEF NoteKey, ghosts
  <1>18. ASSUME NEW r \in Requests, RequestDies(r) PROVE GateOutwaitsTheKeysItMet'
    BY <1>18 DEF RequestDies, ghosts
  <1>19. ASSUME NEW u \in Touches, ReadUsed(u) PROVE GateOutwaitsTheKeysItMet'
    BY <1>19 DEF ReadUsed, ghosts
  <1>20. ASSUME NEW u \in Touches, WriteUsed(u) PROVE GateOutwaitsTheKeysItMet'
    BY <1>20 DEF WriteUsed, ghosts
  <1>21. QED
    BY <1>1, <1>2, <1>3, <1>4, <1>5, <1>6, <1>7, <1>8, <1>9, <1>10, <1>11, <1>12, <1>13, <1>14,
         <1>15, <1>16, <1>17, <1>18, <1>19, <1>20 DEF Next, Step, Touch

\* A key leaves the store and the standing ones in the same step.
LEMMA StandingStep == IInv /\ [Next]_vars => StandingIsStored'
  <1> SUFFICES ASSUME IInv, [Next]_vars PROVE StandingIsStored'
    OBVIOUS
  <1> USE NoneAssumption, CredentialsAssumption DEF IInv, TypeOK, RequestsFit, RequestFits,
       TouchesFit, TouchFits, StandingIsStored, Request, Idle, Stored, Fresh, Roles
  <1>1. CASE UNCHANGED vars
    BY <1>1 DEF vars, ghosts
  <1>2. ASSUME InviteExpires PROVE StandingIsStored'
    BY <1>2 DEF InviteExpires
  <1>3. ASSUME NEW r \in Requests, ArriveCreate(r) PROVE StandingIsStored'
    BY <1>3 DEF ArriveCreate, ghosts
  <1>4. ASSUME NEW r \in Requests, ArriveRedeem(r) PROVE StandingIsStored'
    BY <1>4 DEF ArriveRedeem, ghosts
  <1>5. ASSUME NEW r \in Requests, ArriveSigned(r) PROVE StandingIsStored'
    BY <1>5, HandlerIsFresh DEF ArriveSigned, ghosts
  <1>6. ASSUME NEW r \in Requests, ListKeys(r) PROVE StandingIsStored'
    BY <1>6 DEF ListKeys, ghosts
  <1>7. ASSUME NEW r \in Requests, ScanKey(r) PROVE StandingIsStored'
    <2>1. PICK k \in req[r].todo :
             req' = [req EXCEPT ![r] = IF keys[k] # None THEN Idle
                                       ELSE [req[r] EXCEPT !.todo = @ \ {k}]]
      BY <1>7 DEF ScanKey
    <2>2. CASE keys[k] # None
      BY <1>7, <2>1, <2>2 DEF ScanKey, ghosts
    <2>3. CASE keys[k] = None
      <3>1. req' = [req EXCEPT ![r] = [req[r] EXCEPT !.todo = @ \ {k}]]
        BY <2>1, <2>3
      <3>2. k \notin req[r].standing
        BY <2>3
      <3>3. QED
        BY <1>7, <3>1, <3>2 DEF ScanKey, ghosts
    <2>4. QED
      BY <2>2, <2>3
  <1>8. ASSUME NEW r \in Requests, FoundNone(r) PROVE StandingIsStored'
    BY <1>8 DEF FoundNone, ghosts
  <1>9. ASSUME NEW r \in Requests, MintKey(r) PROVE StandingIsStored'
    BY <1>9 DEF MintKey, AfterMint, ghosts
  <1>10. ASSUME NEW r \in Requests, FindKey(r) PROVE StandingIsStored'
    BY <1>10 DEF FindKey, ghosts
  <1>11. ASSUME NEW r \in Requests, DeleteKey(r) PROVE StandingIsStored'
    <2>1. req[r].kind # "create"
      BY <1>11 DEF DeleteKey
    <2>2. \A q \in Requests \ {r} : req'[q] = [req[q] EXCEPT !.standing = @ \ {req[r].target}]
      BY <1>11 DEF DeleteKey
    <2>3. req'[r].kind # "create" /\ req'[r].standing = {}
      BY <1>11, <2>1 DEF DeleteKey, Answered
    <2>4. QED
      BY <1>11, <2>1, <2>2, <2>3 DEF DeleteKey
  <1>12. ASSUME NEW r \in Requests, AnswerRequest(r) PROVE StandingIsStored'
    BY <1>12 DEF AnswerRequest, ghosts
  <1>13. ASSUME NEW r \in Requests, PutInvite(r) PROVE StandingIsStored'
    BY <1>13 DEF PutInvite, ghosts
  <1>14. ASSUME NEW r \in Requests, RemoveInvite(r) PROVE StandingIsStored'
    BY <1>14 DEF RemoveInvite, ghosts
  <1>15. ASSUME NEW r \in Requests, FindInvite(r) PROVE StandingIsStored'
    BY <1>15 DEF FindInvite, ghosts
  <1>16. ASSUME NEW r \in Requests, MarkRedeemed(r) PROVE StandingIsStored'
    BY <1>16 DEF MarkRedeemed, ghosts
  <1>17. ASSUME NEW r \in Requests, NoteKey(r) PROVE StandingIsStored'
    BY <1>17 DEF NoteKey, ghosts
  <1>18. ASSUME NEW r \in Requests, RequestDies(r) PROVE StandingIsStored'
    BY <1>18 DEF RequestDies, ghosts
  <1>19. ASSUME NEW u \in Touches, ReadUsed(u) PROVE StandingIsStored'
    BY <1>19 DEF ReadUsed, ghosts
  <1>20. ASSUME NEW u \in Touches, WriteUsed(u) PROVE StandingIsStored'
    BY <1>20 DEF WriteUsed, ghosts
  <1>21. QED
    BY <1>1, <1>2, <1>3, <1>4, <1>5, <1>6, <1>7, <1>8, <1>9, <1>10, <1>11, <1>12, <1>13, <1>14,
         <1>15, <1>16, <1>17, <1>18, <1>19, <1>20 DEF Next, Step, Touch

\* No step reopens a spent invite or lets a late redemption pass.
LEMMA SpentStep == IInv /\ [Next]_vars => SpentStaysSpent'
  <1> SUFFICES ASSUME IInv, [Next]_vars PROVE SpentStaysSpent'
    OBVIOUS
  <1> USE NoneAssumption, CredentialsAssumption DEF IInv, TypeOK, RequestsFit, RequestFits,
       SpentStaysSpent, Request, Record, Idle, Offered, Fresh
  <1>1. CASE UNCHANGED vars
    BY <1>1 DEF vars, ghosts
  <1>2. ASSUME InviteExpires PROVE SpentStaysSpent'
    BY <1>2 DEF InviteExpires
  <1>3. ASSUME NEW r \in Requests, ArriveCreate(r) PROVE SpentStaysSpent'
    BY <1>3 DEF ArriveCreate, ghosts
  <1>4. ASSUME NEW r \in Requests, ArriveRedeem(r) PROVE SpentStaysSpent'
    <2>1. PICK i \in Invites :
             /\ offer[i] # None
             /\ req' = [req EXCEPT ![r] = [Idle EXCEPT !.kind = "redeem", !.pc = "find",
                                                      !.target = i, !.late = (i \in spent)]]
      BY <1>4 DEF ArriveRedeem
    <2>2. /\ req'[r].kind = "redeem" /\ req'[r].pc = "find" /\ req'[r].target = i
          /\ req'[r].made = None /\ (req'[r].late => i \in spent)
      BY <2>1
    <2>3. \A q \in Requests \ {r} : req'[q] = req[q]
      BY <2>1
    <2>4. QED
      BY <1>4, <2>2, <2>3 DEF ArriveRedeem, ghosts
  <1>5. ASSUME NEW r \in Requests, ArriveSigned(r) PROVE SpentStaysSpent'
    <2>1. PICK h : Fresh(h) /\ req' = [req EXCEPT ![r] = h]
      BY <1>5, HandlerIsFresh DEF ArriveSigned
    <2>2. req'[r].kind # "redeem" /\ \A q \in Requests \ {r} : req'[q] = req[q]
      BY <2>1
    <2>3. QED
      BY <1>5, <2>2 DEF ArriveSigned, ghosts
  <1>6. ASSUME NEW r \in Requests, ListKeys(r) PROVE SpentStaysSpent'
    BY <1>6 DEF ListKeys, ghosts
  <1>7. ASSUME NEW r \in Requests, ScanKey(r) PROVE SpentStaysSpent'
    BY <1>7 DEF ScanKey, ghosts
  <1>8. ASSUME NEW r \in Requests, FoundNone(r) PROVE SpentStaysSpent'
    BY <1>8 DEF FoundNone, ghosts
  <1>9. ASSUME NEW r \in Requests, MintKey(r) PROVE SpentStaysSpent'
    BY <1>9 DEF MintKey, AfterMint, ghosts
  <1>10. ASSUME NEW r \in Requests, FindKey(r) PROVE SpentStaysSpent'
    BY <1>10 DEF FindKey, ghosts
  <1>11. ASSUME NEW r \in Requests, DeleteKey(r) PROVE SpentStaysSpent'
    BY <1>11 DEF DeleteKey, Answered, ghosts
  <1>12. ASSUME NEW r \in Requests, AnswerRequest(r) PROVE SpentStaysSpent'
    BY <1>12 DEF AnswerRequest, ghosts
  <1>13. ASSUME NEW r \in Requests, PutInvite(r) PROVE SpentStaysSpent'
    BY <1>13 DEF PutInvite, ghosts
  <1>14. ASSUME NEW r \in Requests, RemoveInvite(r) PROVE SpentStaysSpent'
    BY <1>14 DEF RemoveInvite, ghosts
  <1>15. ASSUME NEW r \in Requests, FindInvite(r) PROVE SpentStaysSpent'
    BY <1>15 DEF FindInvite, ghosts
  <1>16. ASSUME NEW r \in Requests, MarkRedeemed(r) PROVE SpentStaysSpent'
    BY <1>16 DEF MarkRedeemed, ghosts
  <1>17. ASSUME NEW r \in Requests, NoteKey(r) PROVE SpentStaysSpent'
    BY <1>17 DEF NoteKey, ghosts
  <1>18. ASSUME NEW r \in Requests, RequestDies(r) PROVE SpentStaysSpent'
    BY <1>18 DEF RequestDies, ghosts
  <1>19. ASSUME NEW u \in Touches, ReadUsed(u) PROVE SpentStaysSpent'
    BY <1>19 DEF ReadUsed, ghosts
  <1>20. ASSUME NEW u \in Touches, WriteUsed(u) PROVE SpentStaysSpent'
    BY <1>20 DEF WriteUsed, ghosts
  <1>21. QED
    BY <1>1, <1>2, <1>3, <1>4, <1>5, <1>6, <1>7, <1>8, <1>9, <1>10, <1>11, <1>12, <1>13, <1>14,
         <1>15, <1>16, <1>17, <1>18, <1>19, <1>20 DEF Next, Step, Touch

--------------------------------------------------------------------------------

\* The inductive invariant.
THEOREM CredentialsInvariant == Spec => []IInv
  <1>1. IInv /\ [Next]_vars => IInv'
    BY TypesStep, FitStep, TouchStep, NoneLostStep, ReplacedStep, GateStep,
       StandingStep, SpentStep DEF IInv
  <1>2. QED
    BY InitIInv, <1>1, PTL DEF Spec

\* What is stored under the id of a key or an invite is a record that was written under
\* that id, whatever requests, deaths and late notes of a last use interleave.
THEOREM CredentialsTyped == Spec => []TypeOK
  <1>1. IInv => TypeOK
    BY DEF IInv
  <1>2. QED
    BY CredentialsInvariant, <1>1, PTL

\* Mint-then-revoke in rotate(): a key that was minted is stored, or was revoked by
\* another key, or has a replacement, wherever a rotation died.
THEOREM RotationLosesNoKey == Spec => []NoneLostByRotation
  <1>1. IInv => NoneLostByRotation
    BY DEF IInv
  <1>2. QED
    BY CredentialsInvariant, <1>1, PTL

\* create-key mints a key only if every key stored at its arrival has been deleted since.
THEOREM GateOutwaits == Spec => []GateOutwaitsTheKeysItMet
  <1>1. IInv => GateOutwaitsTheKeysItMet
    BY DEF IInv
  <1>2. QED
    BY CredentialsInvariant, <1>1, PTL

\* A redemption that arrives after its invite was marked, revoked or had expired is
\* given no key, beside whatever other redemptions of the same invite.
THEOREM SpentInviteGivesNoKey == Spec => []LateRedeemGetsNoKey
  <1>1. IInv => LateRedeemGetsNoKey
    BY DEF IInv, SpentStaysSpent, LateRedeemGetsNoKey
  <1>2. QED
    BY CredentialsInvariant, <1>1, PTL

================================================================================
