--------------------------- MODULE EntitlementsProofs ---------------------------
(***************************************************************************)
(* Proofs about the entitlement history, for any number of processes, apps, *)
(* grants, commands, deaths and restored copies, and with locks that are    *)
(* judged old under a live owner or removed after another has taken them:   *)
(* until the first lock is so removed from under its owner (`usurped'), the *)
(* writers take turns, and what follows from it holds.                      *)
(***************************************************************************)
EXTENDS Entitlements, SequenceTheorems, TLAPS

--------------------------------------------------------------------------------
(* Types.                                                                    *)

LEMMA IdleType == Idle \in Process
BY NoneAssumption, EntitlementsAssumption DEF Idle, Process, Kinds, Calls

LEMMA ActiveType == \A records, app : Active(records, app) \subseteq Grants
BY DEF Active

LEMMA RecordsType ==
    ASSUME NEW store \in Store \cup {None} PROVE RecordsOf(store) \in Seq(Entry)
BY DEF RecordsOf, Store

LEMMA HeadType ==
    ASSUME NEW records \in Seq(Entry), records # <<>>
    PROVE  HeadOf(records) \in Entry /\ HashOf(HeadOf(records)) \in Calls
<1>1. Len(records) \in 1 .. Len(records)
  OBVIOUS
<1>2. HeadOf(records) \in Entry
  BY <1>1 DEF HeadOf
<1> QED
  BY <1>2 DEF HashOf, Entry

LEMMA AnchorType ==
    ASSUME NEW records \in Seq(Entry), records # <<>> PROVE AnchorFor(records) \in Heads
BY HeadType DEF AnchorFor, Heads

LEMMA AppendedType ==
    ASSUME NEW records \in Seq(Entry), NEW call \in Calls, NEW app \in Apps,
           NEW installed \in BOOLEAN, NEW grants \in SUBSET Grants
    PROVE  Appended(records, call, app, installed, grants) \in Seq(Entry)
<1> DEFINE e == [call |-> call, seq |-> Len(records) + 1,
                 prev |-> IF records = <<>> THEN None ELSE HashOf(HeadOf(records)),
                 app |-> app, installed |-> installed, grants |-> grants]
<1>1. records # <<>> => HashOf(HeadOf(records)) \in Calls
  BY HeadType
<1>2. e \in Entry
  BY <1>1 DEF Entry
<1> QED
  BY <1>2 DEF Appended

\* A process that runs a command has an app.
HasApp == \A p \in Procs : proc[p].pc # "idle" => proc[p].app \in Apps

LEMMA MutationsType ==
    ASSUME TypeOK, HasApp, NEW p \in Procs, proc[p].pc = "check",
           NEW records \in Seq(Entry), NEW next \in Mutations(p, records)
    PROVE  next \in Seq(Entry)
<1>1. /\ proc[p].app \in Apps /\ proc[p].call \in Calls /\ proc[p].kind \in Kinds
      /\ proc[p].asks \in SUBSET Grants
  BY DEF TypeOK, HasApp, Process
<1> DEFINE app == proc[p].app
           active == Active(records, app)
           Add(installed, grants) == Appended(records, proc[p].call, app, installed, grants)
<1>2. active \in SUBSET Grants /\ active \ proc[p].asks \in SUBSET Grants
  BY ActiveType
<1>3. GrantedTo(p, records) \in SUBSET Grants
  BY <1>1 DEF GrantedTo
<1>4. \A installed \in BOOLEAN, grants \in SUBSET Grants : Add(installed, grants) \in Seq(Entry)
  BY <1>1, AppendedType
<1> HIDE DEF active, Add
<1>5. \/ next = records
      \/ next = Add(TRUE, GrantedTo(p, records)) \/ next = Add(FALSE, active)
      \/ next = Add(TRUE, active \ proc[p].asks) \/ next = Add(TRUE, active)
  <2>1. CASE proc[p].kind = "install"
    BY <2>1 DEF Mutations, active, Add
  <2>2. CASE proc[p].kind = "uninstall"
    BY <2>2 DEF Mutations, active, Add
  <2>3. CASE proc[p].kind = "revoke"
    BY <2>3 DEF Mutations, active, Add
  <2>4. CASE proc[p].kind = "run"
    BY <2>4 DEF Mutations, active, Add
  <2> QED
    BY <1>1, <2>1, <2>2, <2>3, <2>4 DEF Kinds
<1> QED
  BY <1>2, <1>3, <1>4, <1>5


Typed == TypeOK /\ HasApp

LEMMA InitTyped == Init => Typed
<1> SUFFICES ASSUME Init PROVE Typed
  OBVIOUS
<1>1. proc \in [Procs -> Process] /\ HasApp
  BY IdleType DEF Init, HasApp, Idle
<1>2. PICK records \in Seq(Entry), approved \in SUBSET Grants : StartsWith(records, approved)
  <2>1. CASE StartsWith(<<>>, {})
    <3>1. <<>> \in Seq(Entry) /\ {} \in SUBSET Grants
      OBVIOUS
    <3> QED
      BY <2>1, <3>1
  <2>2. ASSUME NEW app \in Apps, NEW asks \in Manifests, NEW granted \in SUBSET asks,
               StartsWith(Appended(<<>>, 0, app, TRUE, granted), granted)
        PROVE  \E records \in Seq(Entry), approved \in SUBSET Grants : StartsWith(records, approved)
    <3>1. granted \in SUBSET Grants /\ 0 \in Calls
      BY EntitlementsAssumption DEF Calls
    <3>2. <<>> \in Seq(Entry)
      OBVIOUS
    <3>3. Appended(<<>>, 0, app, TRUE, granted) \in Seq(Entry)
      BY <3>1, <3>2, AppendedType
    <3> QED
      BY <2>2, <3>1, <3>3
  <2> QED
    BY <2>1, <2>2 DEF Init
<1>3. 0 \in Calls
  BY EntitlementsAssumption DEF Calls
<1>4. file \in Store \cup {None} /\ anchor \in Heads \cup {None}
  BY <1>2, <1>3, AnchorType DEF StartsWith, Store
<1>5. 0 \in Nat /\ 0 \in 0 .. MaxDeaths /\ 0 \in 0 .. MaxRestores
  BY EntitlementsAssumption
<1>6. /\ copies \subseteq Store \cup {None} /\ chain \in Seq(Entry)
      /\ deviceKey \in Calls \cup {None} /\ done \subseteq Calls
      /\ approvals \in [Calls -> SUBSET Grants]
  BY <1>2, <1>3, <1>4 DEF StartsWith
<1> QED
  BY <1>1, <1>3, <1>4, <1>5, <1>6 DEF Init, Typed, TypeOK

\* A step of one process: whatever it does to its own record, the others' stay.
LEMMA NextTyped == Typed /\ [Next]_vars => Typed'
<1> SUFFICES ASSUME Typed, [Next]_vars PROVE Typed'
  OBVIOUS

<1>1. CASE UNCHANGED vars
  BY <1>1 DEF Typed, TypeOK, HasApp, vars, files, bounds, ghosts
<1>2. ASSUME NEW p \in Procs, NEW update \in Process, Does(p, update),
             update.pc # "idle" => update.app \in Apps
      PROVE  (proc \in [Procs -> Process] /\ HasApp)'
  BY <1>2 DEF Typed, TypeOK, Does, HasApp
<1>3. ASSUME NEW p \in Procs, Ends(p) PROVE (proc \in [Procs -> Process] /\ HasApp)'
  BY <1>2, <1>3, IdleType DEF Ends, Idle
<1>4. ASSUME NEW p \in Procs PROVE proc[p] \in Process /\ (proc[p].pc # "idle" => proc[p].app \in Apps)
  BY DEF Typed, TypeOK, HasApp
<1>5. ASSUME NEW p \in Procs, NEW kind \in Kinds, NEW app \in Apps, NEW asks \in SUBSET Grants,
             Begin(p, kind, app, asks)
      PROVE  Typed'
  <2> DEFINE update == [Idle EXCEPT !.kind = kind, !.app = app, !.asks = asks, !.call = calls + 1,
                            !.floor = Len(chain),
                            !.key = IF deviceKey = None THEN calls + 1 ELSE deviceKey,
                            !.pc = IF deviceKey = None THEN "link"
                                   ELSE IF kind = "uninstall" THEN "acquire" ELSE "head"]
  <2>1. calls + 1 \in Calls /\ Len(chain) \in Nat /\ deviceKey \in Calls \cup {None}
    BY <1>5, EntitlementsAssumption DEF Begin, Calls, Typed, TypeOK
  <2>2. update \in Process /\ update.app \in Apps
    <3>1. Idle \in Process
      BY IdleType
    <3> QED
      BY <2>1, <3>1 DEF Process
  <2>3. (proc \in [Procs -> Process] /\ HasApp)'
    BY <1>2, <1>5, <2>2 DEF Begin
  <2> QED
    BY <1>5, <2>1, <2>3 DEF Begin, files, ghosts, Typed, TypeOK
<1>6. ASSUME NEW p \in Procs, LinkKey(p) PROVE Typed'
  <2>1. deviceKey' \in Calls
    BY <1>4, <1>6 DEF LinkKey, Typed, TypeOK, Process
  <2> DEFINE update == [proc[p] EXCEPT !.key = deviceKey',
                                      !.pc = IF proc[p].kind = "uninstall" THEN "acquire" ELSE "head"]
  <2>2. update \in Process /\ update.app = proc[p].app
    <3>1. proc[p] \in Process
      BY <1>4
    <3>2. \A k \in Calls, pc \in {"acquire", "head"} :
             /\ [proc[p] EXCEPT !.key = k, !.pc = pc] \in Process
             /\ [proc[p] EXCEPT !.key = k, !.pc = pc].app = proc[p].app
      BY <3>1 DEF Process
    <3>3. \A pc \in {"acquire", "head"} :
             /\ [proc[p] EXCEPT !.key = deviceKey', !.pc = pc] \in Process
             /\ [proc[p] EXCEPT !.key = deviceKey', !.pc = pc].app = proc[p].app
      BY <3>2, <2>1
    <3>4. (IF proc[p].kind = "uninstall" THEN "acquire" ELSE "head") \in {"acquire", "head"}
      OBVIOUS
    <3> QED
      BY ONLY <3>3, <3>4
  <2>3. (proc \in [Procs -> Process] /\ HasApp)'
    BY <1>2, <1>4, <1>6, <2>2 DEF LinkKey, At
  <2> QED
    BY <1>6, <2>1, <2>3 DEF LinkKey, bounds, ghosts, Typed, TypeOK
<1>7. ASSUME NEW p \in Procs, ReadHead(p) PROVE Typed'
  <2>1. anchor \in Heads \cup {None} /\ file \in Store \cup {None}
    BY DEF Typed, TypeOK
  <2> DEFINE update == [proc[p] EXCEPT !.head = anchor, !.pc = "view"]
  <2>2. update \in Process /\ update.app = proc[p].app
    <3>1. proc[p] \in Process
      BY <1>4
    <3> QED
      BY <3>1, <2>1 DEF Process
  <2>3. (proc \in [Procs -> Process] /\ HasApp)'
    BY <1>2, <1>4, <1>7, <2>2 DEF ReadHead, At
  <2> QED
    BY <1>7, <2>3 DEF ReadHead, files, bounds, ghosts, Typed, TypeOK
<1>8. ASSUME NEW p \in Procs, ReadView(p) PROVE Typed'
  <2>1. RecordsOf(file) \in Seq(Entry)
    BY RecordsType DEF Typed, TypeOK
  <2> DEFINE update == [proc[p] EXCEPT !.view = RecordsOf(file), !.head = None, !.pc = "decide"]
  <2>2. update \in Process /\ update.app = proc[p].app
    <3>1. proc[p] \in Process
      BY <1>4
    <3> QED
      BY <3>1, <2>1 DEF Process
  <2>3. (proc \in [Procs -> Process] /\ HasApp)'
    BY <1>2, <1>3, <1>4, <1>8, <2>2 DEF ReadView, At
  <2> QED
    BY <1>8, <2>3 DEF ReadView, files, bounds, ghosts, Typed, TypeOK
<1>9. ASSUME NEW p \in Procs, NEW approved \in SUBSET Grants, Approve(p, approved) PROVE Typed'
  <2> DEFINE update == [proc[p] EXCEPT !.approved = approved, !.pc = "acquire"]
  <2>1. update \in Process /\ update.app = proc[p].app
    <3>1. proc[p] \in Process
      BY <1>4
    <3> QED
      BY <3>1 DEF Process
  <2>2. (proc \in [Procs -> Process] /\ HasApp)'
    BY <1>2, <1>4, <1>9, <2>1 DEF Approve, At
  <2>3. (approvals \in [Calls -> SUBSET Grants])'
    BY <1>4, <1>9 DEF Approve, Typed, TypeOK
  <2> QED
    BY <1>9, <2>2, <2>3 DEF Approve, files, bounds, Typed, TypeOK
<1>10. ASSUME NEW p \in Procs, Decline(p) \/ GiveUp(p) PROVE Typed'
  BY <1>3, <1>10 DEF Decline, GiveUp, files, bounds, ghosts, Typed, TypeOK
<1>11. ASSUME NEW p \in Procs, Confirm(p) PROVE Typed'
  <2> DEFINE update == [proc[p] EXCEPT !.pc = "acquire"]
  <2>1. update \in Process /\ update.app = proc[p].app
    <3>1. proc[p] \in Process
      BY <1>4
    <3> QED
      BY <3>1 DEF Process
  <2>2. (proc \in [Procs -> Process] /\ HasApp)'
    BY <1>2, <1>4, <1>11, <2>1 DEF Confirm, At
  <2> QED
    BY <1>11, <2>2 DEF Confirm, files, bounds, ghosts, Typed, TypeOK
<1>12. ASSUME NEW p \in Procs, Admit(p) PROVE Typed'
  <2>1. proc[p].asks \cap Active(proc[p].view, proc[p].app) \in SUBSET Grants
    BY ActiveType
  <2> DEFINE update == [proc[p] EXCEPT !.asks = proc[p].asks \cap Active(proc[p].view, proc[p].app),
                                      !.pc = "acquire"]
  <2>2. update \in Process /\ update.app = proc[p].app
    <3>1. proc[p] \in Process
      BY <1>4
    <3> QED
      BY <3>1, <2>1 DEF Process
  <2>3. (proc \in [Procs -> Process] /\ HasApp)'
    BY <1>2, <1>3, <1>4, <1>12, <2>2 DEF Admit, At
  <2> QED
    BY <1>12, <2>3 DEF Admit, files, bounds, ghosts, Typed, TypeOK
<1>13. ASSUME NEW p \in Procs, OpenLock(p) PROVE Typed'
  <2> DEFINE update == [proc[p] EXCEPT !.pc = IF lock = None THEN "write" ELSE "judge"]
  <2>1. update \in Process /\ update.app = proc[p].app
    <3>1. proc[p] \in Process
      BY <1>4
    <3> QED
      BY <3>1 DEF Process
  <2>2. (proc \in [Procs -> Process] /\ HasApp)'
    BY <1>2, <1>4, <1>13, <2>1 DEF OpenLock, At
  <2>3. lock' \in Locks \cup {None}
    <3>1. lock \in Locks \cup {None}
      BY DEF Typed, TypeOK
    <3>2. [owner |-> p, written |-> FALSE] \in Locks
      BY DEF Locks
    <3> QED
      BY <1>13, <3>1, <3>2 DEF OpenLock
  <2> QED
    BY <1>13, <2>2, <2>3 DEF OpenLock, bounds, ghosts, Typed, TypeOK
<1>14. ASSUME NEW p \in Procs, WriteLock(p) PROVE Typed'
  <2> DEFINE update == [proc[p] EXCEPT !.pc = "read"]
  <2>1. update \in Process /\ update.app = proc[p].app
    <3>1. proc[p] \in Process
      BY <1>4
    <3> QED
      BY <3>1 DEF Process
  <2>2. (proc \in [Procs -> Process] /\ HasApp)'
    BY <1>2, <1>4, <1>14, <2>1 DEF WriteLock, At
  <2>3. lock' \in Locks \cup {None}
    BY <1>14, <1>4 DEF WriteLock, Locks, Typed, TypeOK
  <2> QED
    BY <1>14, <2>2, <2>3 DEF WriteLock, bounds, ghosts, Typed, TypeOK
<1>15. ASSUME NEW p \in Procs, ReapLock(p) PROVE Typed'
  <2> DEFINE update == [proc[p] EXCEPT !.pc = "acquire"]
  <2>1. update \in Process /\ update.app = proc[p].app
    <3>1. proc[p] \in Process
      BY <1>4
    <3> QED
      BY <3>1 DEF Process
  <2>2. (proc \in [Procs -> Process] /\ HasApp)'
    BY <1>2, <1>4, <1>15, <2>1 DEF ReapLock, At
  <2>3. lock' \in Locks \cup {None}
    BY <1>15, <1>4 DEF ReapLock, Locks, Typed, TypeOK
  <2> QED
    BY <1>15, <2>2, <2>3 DEF ReapLock, bounds, ghosts, Typed, TypeOK
<1>16. ASSUME NEW p \in Procs, DropLock(p) PROVE Typed'
  <2> DEFINE update == [proc[p] EXCEPT !.pc = "return"]
  <2>1. update \in Process /\ update.app = proc[p].app
    <3>1. proc[p] \in Process
      BY <1>4
    <3> QED
      BY <3>1 DEF Process
  <2>2. (proc \in [Procs -> Process] /\ HasApp)'
    BY <1>2, <1>4, <1>16, <2>1 DEF DropLock, At
  <2>3. lock' \in Locks \cup {None}
    BY <1>16, <1>4 DEF DropLock, Locks, Typed, TypeOK
  <2> QED
    BY <1>16, <2>2, <2>3 DEF DropLock, bounds, ghosts, Typed, TypeOK
<1>17. ASSUME NEW p \in Procs, ReadBefore(p) PROVE Typed'
  <2>1. anchor \in Heads \cup {None} /\ file \in Store \cup {None}
    BY DEF Typed, TypeOK
  <2> DEFINE update == [proc[p] EXCEPT !.before = file, !.pc = "check"]
  <2>2. update \in Process /\ update.app = proc[p].app
    <3>1. proc[p] \in Process
      BY <1>4
    <3> QED
      BY <3>1, <2>1 DEF Process
  <2>3. (proc \in [Procs -> Process] /\ HasApp)'
    BY <1>2, <1>4, <1>17, <2>2 DEF ReadBefore, At
  <2> QED
    BY <1>17, <2>3 DEF ReadBefore, files, bounds, ghosts, Typed, TypeOK
<1>19. ASSUME NEW p \in Procs, JudgeLock(p) PROVE Typed'
  <2>1. lock \in Locks \cup {None}
    BY DEF Typed, TypeOK
  <2>2. \A pc \in {"reap", "acquire"} :
           /\ [proc[p] EXCEPT !.pc = pc] \in Process
           /\ [proc[p] EXCEPT !.pc = pc].app = proc[p].app
    <3>1. proc[p] \in Process
      BY <1>4
    <3> QED
      BY <3>1, <2>1 DEF Process
  <2>3. (proc \in [Procs -> Process] /\ HasApp)'
    <3>1. CASE Does(p, [proc[p] EXCEPT !.pc = "reap"])
      BY <1>2, <1>4, <1>19, <2>2, <3>1 DEF JudgeLock, At
    <3>2. CASE Does(p, [proc[p] EXCEPT !.pc = "acquire"])
      BY <1>2, <1>4, <1>19, <2>2, <3>2 DEF JudgeLock, At
    <3> QED
      BY <1>19, <3>1, <3>2 DEF JudgeLock
  <2> QED
    BY <1>19, <2>3 DEF JudgeLock, files, bounds, ghosts, Typed, TypeOK
<1>20. ASSUME NEW p \in Procs, CheckToken(p) PROVE Typed'
  <2>1. \A result \in {"none", "appended", "same", "refused", "integrity", "failed"} :
           /\ [proc[p] EXCEPT !.pc = "unlock"] \in Process
           /\ [proc[p] EXCEPT !.pc = "unlock"].app = proc[p].app
           /\ [proc[p] EXCEPT !.pc = "return", !.result = result] \in Process
           /\ [proc[p] EXCEPT !.pc = "return", !.result = result].app = proc[p].app
    <3>1. proc[p] \in Process
      BY <1>4
    <3> QED
      BY <3>1 DEF Process
  <2>2. proc[p].result \in {"none", "appended", "same", "refused", "integrity", "failed"}
    <3>1. proc[p] \in Process
      BY <1>4
    <3> QED
      BY <3>1 DEF Process
  <2>3. (proc \in [Procs -> Process] /\ HasApp)'
    <3>1. CASE Does(p, [proc[p] EXCEPT !.pc = "unlock"])
      BY <1>2, <1>4, <1>20, <2>1, <3>1 DEF CheckToken, At
    <3>2. ASSUME NEW result \in {"none", "appended", "same", "refused", "integrity", "failed"},
                 Does(p, [proc[p] EXCEPT !.pc = "return", !.result = result])
          PROVE  (proc \in [Procs -> Process] /\ HasApp)'
      BY <1>2, <1>4, <1>20, <2>1, <3>2 DEF CheckToken, At
    <3> QED
      BY <1>20, <2>2, <3>1, <3>2 DEF CheckToken
  <2> QED
    BY <1>20, <2>3 DEF CheckToken, files, bounds, ghosts, Typed, TypeOK
<1>21. ASSUME NEW p \in Procs, CheckBefore(p) PROVE Typed'
  <2> DEFINE Failed(why) == [proc[p] EXCEPT !.result = why, !.pc = "token"]
             Going(next) == [proc[p] EXCEPT !.next = next, !.pc = "compare"]
  <2>1. RecordsOf(proc[p].before) \in Seq(Entry)
    <3>1. proc[p] \in Process
      BY <1>4
    <3>2. proc[p].before \in Store \cup {None}
      BY <3>1 DEF Process
    <3> QED
      BY <3>2, RecordsType
  <2>2. \A next \in Mutations(p, RecordsOf(proc[p].before)) : next \in Seq(Entry)
    BY <1>21, <2>1, MutationsType DEF CheckBefore, At, Typed
  <2>3. /\ \A why \in {"integrity", "refused"} : Failed(why) \in Process /\ Failed(why).app = proc[p].app
        /\ \A next \in Seq(Entry) : Going(next) \in Process /\ Going(next).app = proc[p].app
    <3>1. proc[p] \in Process
      BY <1>4
    <3>2. ASSUME NEW why \in {"integrity", "refused"}
          PROVE  Failed(why) \in Process /\ Failed(why).app = proc[p].app
      BY <3>1 DEF Process
    <3>3. ASSUME NEW next \in Seq(Entry)
          PROVE  Going(next) \in Process /\ Going(next).app = proc[p].app
      BY <3>1 DEF Process
    <3> QED
      BY <3>2, <3>3
  <2>4. proc[p].app \in Apps
    BY <1>4, <1>21 DEF CheckBefore, At
  <2>5. \/ Does(p, Failed("integrity")) \/ Does(p, Failed("refused"))
        \/ \E next \in Mutations(p, RecordsOf(proc[p].before)) : Does(p, Going(next))
    BY <1>21 DEF CheckBefore
  <2> HIDE DEF Failed, Going
  <2>6. (proc \in [Procs -> Process] /\ HasApp)'
    <3>1. CASE Does(p, Failed("integrity"))
      BY <1>2, <2>3, <2>4, <3>1
    <3>2. CASE Does(p, Failed("refused"))
      BY <1>2, <2>3, <2>4, <3>2
    <3>3. ASSUME NEW next \in Mutations(p, RecordsOf(proc[p].before)), Does(p, Going(next))
          PROVE  (proc \in [Procs -> Process] /\ HasApp)'
      BY <1>2, <2>2, <2>3, <2>4, <3>3
    <3> QED
      BY <2>5, <3>1, <3>2, <3>3
  <2> QED
    BY <1>21, <2>6 DEF CheckBefore, files, bounds, ghosts, Typed, TypeOK
<1>22. ASSUME NEW p \in Procs, Compare(p) PROVE Typed'
  <2> DEFINE Go(pc) == [proc[p] EXCEPT !.pc = pc]
             Again(pc, result) == [proc[p] EXCEPT !.attempts = @ + 1, !.next = <<>>, !.before = None,
                                                  !.pc = pc, !.result = result]
  <2>1. proc[p] \in Process /\ proc[p].app \in Apps
    BY <1>4, <1>22 DEF Compare, At
  <2>2. Go("anchor") \in Process /\ Go("anchor").app = proc[p].app
    BY <2>1 DEF Process
  <2>3. \A pc \in {"read", "token"}, result \in {proc[p].result, "failed"} :
           Again(pc, result) \in Process /\ Again(pc, result).app = proc[p].app
    <3>1. /\ proc[p].attempts + 1 \in Nat /\ <<>> \in Seq(Entry)
          /\ proc[p].result \in {"none", "appended", "same", "refused", "integrity", "failed"}
      BY <2>1 DEF Process
    <3> SUFFICES ASSUME NEW pc \in {"read", "token"}, NEW result \in {proc[p].result, "failed"}
                 PROVE  Again(pc, result) \in Process /\ Again(pc, result).app = proc[p].app
      OBVIOUS
    <3> QED
      BY <2>1, <3>1 DEF Process
  <2>4. \/ Does(p, Go("anchor"))
        \/ \E pc \in {"read", "token"}, result \in {proc[p].result, "failed"} : Does(p, Again(pc, result))
    BY <1>22 DEF Compare
  <2> HIDE DEF Go, Again
  <2>5. (proc \in [Procs -> Process] /\ HasApp)'
    BY <1>2, <2>1, <2>2, <2>3, <2>4
  <2> QED
    BY <1>22, <2>5 DEF Compare, files, bounds, ghosts, Typed, TypeOK
<1>23. ASSUME NEW p \in Procs, WriteAnchor(p) PROVE Typed'
  <2>1. proc[p] \in Process /\ proc[p].app \in Apps
    BY <1>4, <1>23 DEF WriteAnchor, At
  <2> DEFINE update == [proc[p] EXCEPT !.pc = "store"]
  <2>2. update \in Process /\ update.app = proc[p].app /\ proc[p].next \in Seq(Entry)
    BY <2>1 DEF Process
  <2>3. (proc \in [Procs -> Process] /\ HasApp)'
    BY <1>2, <1>23, <2>1, <2>2 DEF WriteAnchor
  <2>4. anchor' \in Heads \cup {None}
    BY <1>23, <2>2, AnchorType DEF WriteAnchor, Typed, TypeOK
  <2> QED
    BY <1>23, <2>3, <2>4 DEF WriteAnchor, bounds, ghosts, Typed, TypeOK
<1>24. ASSUME NEW p \in Procs, WriteStore(p) PROVE Typed'
  <2>1. proc[p] \in Process /\ proc[p].app \in Apps
    BY <1>4, <1>24 DEF WriteStore, At
  <2>2. \A result \in {"same", "appended"} :
           /\ [proc[p] EXCEPT !.pc = "token", !.result = result] \in Process
           /\ [proc[p] EXCEPT !.pc = "token", !.result = result].app = proc[p].app
    BY <2>1 DEF Process
  <2>3. (proc \in [Procs -> Process] /\ HasApp)'
    <3>1. \E result \in {"same", "appended"} :
             Does(p, [proc[p] EXCEPT !.pc = "token", !.result = result])
      BY <1>24 DEF WriteStore
    <3> QED
      BY <1>2, <2>1, <2>2, <3>1
  <2>4. /\ proc[p].key \in Calls /\ proc[p].next \in Seq(Entry)
        /\ proc[p].before \in Store \cup {None}
    BY <2>1 DEF Process
  <2>5. file' \in Store
    BY <1>24, <2>4 DEF WriteStore, Store
  <2> QED
    BY <1>24, <2>3, <2>4, <2>5 DEF WriteStore, bounds, Typed, TypeOK
<1>25. ASSUME NEW p \in Procs, Return(p) PROVE Typed'
  <2>1. proc[p].call \in Calls
    <3>1. proc[p] \in Process
      BY <1>4
    <3> QED
      BY <3>1 DEF Process
  <2> QED
    BY <1>3, <1>25, <2>1 DEF Return, files, bounds, Typed, TypeOK
<1>26. ASSUME NEW p \in Procs, Die(p) PROVE Typed'
  <2>1. lock' \in Locks \cup {None}
    <3>1. lock \in Locks \cup {None}
      BY DEF Typed, TypeOK
    <3> QED
      BY <1>26, <3>1 DEF Die, Locks
  <2>2. deaths' \in 0 .. MaxDeaths
    BY <1>26, EntitlementsAssumption DEF Die, Typed, TypeOK
  <2>3. torn' \in BOOLEAN
    BY <1>26 DEF Die, At, Typed, TypeOK
  <2> QED
    BY <1>3, <1>26, <2>1, <2>2, <2>3 DEF Die, Typed, TypeOK
<1>27. CASE Restore
  <2>1. restores' \in 0 .. MaxRestores
    BY <1>27, EntitlementsAssumption DEF Restore, Typed, TypeOK
  <2> QED
    BY <1>27, <2>1 DEF Restore, ghosts, Typed, TypeOK, HasApp
<1> QED
  BY <1>1, <1>5, <1>6, <1>7, <1>8, <1>9, <1>10, <1>11, <1>12, <1>13, <1>14, <1>15, <1>16, <1>17,
     <1>19, <1>20, <1>21, <1>22, <1>23, <1>24, <1>25, <1>26, <1>27 DEF Next, Steps

--------------------------------------------------------------------------------
(* The inductive invariant, in parts.                                        *)

\* Where a process holds the lock, the lock is its own.
LockInv ==
    \A p \in Procs :
        proc[p].pc \in Locked => lock = [owner |-> p, written |-> proc[p].pc # "write"]

\* Every running command has a number of its own, and what it approves is noted.
CallInv ==
    /\ \A p \in Procs :
          /\ proc[p].pc # "idle" => proc[p].call \in 1 .. calls
          /\ proc[p].pc \in {"link", "head", "view", "decide"} => approvals[proc[p].call] = {}
          /\ proc[p].approved \subseteq approvals[proc[p].call]
    /\ \A p, q \in Procs :
          p # q /\ proc[p].pc # "idle" /\ proc[q].pc # "idle" => proc[p].call # proc[q].call
    /\ \A c \in Calls : c > calls => approvals[c] = {}

\* There is one device key, and every store carries it.
KeyInv ==
    /\ \A p \in Procs :
          proc[p].pc \notin {"idle", "link"} => deviceKey # None /\ proc[p].key = deviceKey
    /\ \A store \in copies : store # None => deviceKey # None /\ store.key = deviceKey

Prefix(s, t) == Len(s) <= Len(t) /\ \A i \in 1 .. Len(s) : s[i] = t[i]

\* Each record names its place and the hash of the one before it.
Linked(records) ==
    \A i \in DOMAIN records :
        /\ records[i].seq = i
        /\ records[i].prev = IF i = 1 THEN None ELSE HashOf(records[i - 1])

\* The anchor names the head of these records.
Anchors(records) == IF records = <<>> THEN anchor = None ELSE anchor = AnchorFor(records)

\* The history only grows, every copy of the store is a beginning of it, and the
\* anchor is never behind it.
HistInv ==
    /\ Linked(chain)
    /\ file \in copies
    /\ \A store \in copies : Prefix(RecordsOf(store), chain)
    /\ restores = 0 => RecordsOf(file) = chain
    /\ chain # <<>> => anchor # None /\ Len(chain) <= anchor.seq
    /\ anchor # None => anchor.seq >= 1
    /\ torn \/ (\E p \in Procs : proc[p].pc = "store") \/ Anchors(chain)

\* The records that a process is about to write: the history, or the history and
\* one record more, whose grants were in force or are approved.
Grows(p) ==
    \/ proc[p].next = chain
    \/ \E installed \in BOOLEAN, grants \in SUBSET Grants :
          /\ proc[p].next = Appended(chain, proc[p].call, proc[p].app, installed, grants)
          /\ grants \subseteq Active(chain, proc[p].app) \cup approvals[proc[p].call]

Writing == {"check", "compare", "anchor", "store"}

WriterOf(p) ==
    /\ proc[p].before \in copies
    /\ proc[p].pc = "check" /\ restores = 0 => proc[p].before = file
    /\ proc[p].pc \in {"compare", "anchor", "store"} =>
          RecordsOf(proc[p].before) = chain /\ Grows(p)
    /\ proc[p].pc \in {"compare", "anchor"} => Anchors(chain)
    /\ proc[p].pc = "store" => Anchors(proc[p].next)

WriterInv == \A p \in Procs : proc[p].pc \in Writing => WriterOf(p)

\* What a command has read reaches to where the history was when it began.
FloorInv ==
    \A p \in Procs :
        /\ proc[p].floor <= Len(chain)
        /\ proc[p].pc = "view" /\ proc[p].floor > 0 =>
              proc[p].head # None /\ proc[p].floor <= proc[p].head.seq
        /\ proc[p].pc = "decide" => proc[p].floor <= Len(proc[p].view) /\ Prefix(proc[p].view, chain)

CallsOf(records) == {records[i].call : i \in DOMAIN records}

DoneInv ==
    /\ done \subseteq CallsOf(chain)
    /\ \A p \in Procs : proc[p].result = "appended" => proc[p].call \in CallsOf(chain)

--------------------------------------------------------------------------------
(* What each step does to the process that takes it.                         *)

Others(p) == \A q \in Procs : q # p => proc'[q] = proc[q]

Ended(p) == Others(p) /\ proc'[p] = Idle

\* The process goes on, in the same command.
Goes(p, pc) ==
    /\ Others(p)
    /\ proc'[p].pc = pc
    /\ proc'[p].call = proc[p].call /\ proc'[p].kind = proc[p].kind
    /\ proc'[p].app = proc[p].app /\ proc'[p].floor = proc[p].floor

Keeps(p) ==
    /\ proc'[p].key = proc[p].key /\ proc'[p].approved = proc[p].approved
    /\ proc'[p].result = proc[p].result

LEMMA EndsEffect == ASSUME Typed, NEW p \in Procs, Ends(p) PROVE Ended(p)
BY DEF Ends, Does, Ended, Others, Typed, TypeOK

LEMMA BeginEffect ==
    ASSUME Typed, NEW p \in Procs, NEW kind \in Kinds, NEW app \in Apps, NEW asks \in SUBSET Grants,
           Begin(p, kind, app, asks)
    PROVE  /\ Others(p)
           /\ proc'[p].pc \in {"link", "head", "acquire"}
           /\ proc'[p].pc = "link" <=> deviceKey = None
           /\ deviceKey # None => proc'[p].key = deviceKey
           /\ proc'[p].call = calls + 1 /\ proc'[p].floor = Len(chain)
           /\ proc'[p].approved = {} /\ proc'[p].result = "none"
BY DEF Begin, Idle, Does, Others, Typed, TypeOK

LEMMA LinkKeyEffect ==
    ASSUME Typed, NEW p \in Procs, LinkKey(p)
    PROVE  /\ proc[p].pc = "link"
           /\ Goes(p, "acquire") \/ Goes(p, "head")
           /\ proc'[p].key = deviceKey'
           /\ proc'[p].approved = proc[p].approved /\ proc'[p].result = proc[p].result
<1>1. proc[p] \in Process
  BY DEF Typed, TypeOK
<1> QED
  BY <1>1, EndsEffect DEF LinkKey, Does, At, Goes, Keeps, Others, Typed, TypeOK, Process

LEMMA ReadHeadEffect ==
    ASSUME Typed, NEW p \in Procs, ReadHead(p)
    PROVE  proc[p].pc = "head" /\ Goes(p, "view") /\ Keeps(p) /\ proc'[p].head = anchor
<1>1. proc[p] \in Process
  BY DEF Typed, TypeOK
<1> QED
  BY <1>1, EndsEffect DEF ReadHead, Does, At, Goes, Keeps, Others, Typed, TypeOK, Process

LEMMA ReadViewEffect ==
    ASSUME Typed, NEW p \in Procs, ReadView(p)
    PROVE  /\ proc[p].pc = "view"
           /\ \/ Ended(p)
              \/ /\ Goes(p, "decide") /\ Keeps(p) /\ proc'[p].view = RecordsOf(file)
                 /\ Verified(file, proc[p].key, proc[p].head)
<1>1. proc[p] \in Process
  BY DEF Typed, TypeOK
<1>2. CASE Verified(file, proc[p].key, proc[p].head)
  <2>1. Does(p, [proc[p] EXCEPT !.view = RecordsOf(file), !.head = None, !.pc = "decide"])
    BY <1>2 DEF ReadView
  <2> QED
    BY <1>1, <1>2, <2>1 DEF ReadView, At, Does, Goes, Keeps, Others, Typed, TypeOK, Process
<1>3. CASE ~Verified(file, proc[p].key, proc[p].head)
  BY <1>3, EndsEffect DEF ReadView, At
<1> QED
  BY <1>2, <1>3

LEMMA ApproveEffect ==
    ASSUME Typed, NEW p \in Procs, NEW approved \in SUBSET Grants, Approve(p, approved)
    PROVE  /\ proc[p].pc = "decide" /\ Goes(p, "acquire")
           /\ proc'[p].approved = approved
           /\ proc'[p].key = proc[p].key /\ proc'[p].result = proc[p].result
<1>1. proc[p] \in Process
  BY DEF Typed, TypeOK
<1> QED
  BY <1>1, EndsEffect DEF Approve, Does, At, Goes, Keeps, Others, Typed, TypeOK, Process

LEMMA ConfirmEffect ==
    ASSUME Typed, NEW p \in Procs, Confirm(p)
    PROVE  proc[p].pc = "decide" /\ Goes(p, "acquire") /\ Keeps(p)
<1>1. proc[p] \in Process
  BY DEF Typed, TypeOK
<1> QED
  BY <1>1, EndsEffect DEF Confirm, Does, At, Goes, Keeps, Others, Typed, TypeOK, Process

LEMMA AdmitEffect ==
    ASSUME Typed, NEW p \in Procs, Admit(p)
    PROVE  proc[p].pc = "decide" /\ (Ended(p) \/ (Goes(p, "acquire") /\ Keeps(p)))
<1>1. proc[p] \in Process
  BY DEF Typed, TypeOK
<1> DEFINE used == proc[p].asks \cap Active(proc[p].view, proc[p].app)
<1>2. CASE Does(p, [proc[p] EXCEPT !.asks = used, !.pc = "acquire"])
  <2> HIDE DEF used
  <2> QED
    BY <1>1, <1>2 DEF Admit, At, Does, Goes, Keeps, Others, Typed, TypeOK, Process
<1>3. CASE Ends(p)
  BY <1>3, EndsEffect DEF Admit, At
<1> QED
  BY <1>2, <1>3 DEF Admit

LEMMA OpenLockEffect ==
    ASSUME Typed, NEW p \in Procs, OpenLock(p)
    PROVE  /\ proc[p].pc = "acquire" /\ Keeps(p)
           /\ \/ Goes(p, "write") /\ lock = None /\ lock' = [owner |-> p, written |-> FALSE]
              \/ Goes(p, "judge") /\ UNCHANGED lock
<1>1. proc[p] \in Process
  BY DEF Typed, TypeOK
<1> QED
  BY <1>1, EndsEffect DEF OpenLock, Does, At, Goes, Keeps, Others, Typed, TypeOK, Process

LEMMA WriteLockEffect ==
    ASSUME Typed, NEW p \in Procs, WriteLock(p)
    PROVE  proc[p].pc = "write" /\ Goes(p, "read") /\ Keeps(p)
<1>1. proc[p] \in Process
  BY DEF Typed, TypeOK
<1> QED
  BY <1>1, EndsEffect DEF WriteLock, Does, At, Goes, Keeps, Others, Typed, TypeOK, Process

LEMMA JudgeLockEffect ==
    ASSUME Typed, NEW p \in Procs, JudgeLock(p)
    PROVE  proc[p].pc = "judge" /\ Keeps(p) /\ (Goes(p, "acquire") \/ Goes(p, "reap"))
<1>1. proc[p] \in Process
  BY DEF Typed, TypeOK
<1>2. CASE Does(p, [proc[p] EXCEPT !.pc = "reap"])
  BY <1>1, <1>2 DEF JudgeLock, At, Does, Goes, Keeps, Others, Typed, TypeOK, Process
<1>3. CASE Does(p, [proc[p] EXCEPT !.pc = "acquire"])
  BY <1>1, <1>3 DEF JudgeLock, At, Does, Goes, Keeps, Others, Typed, TypeOK, Process
<1> QED
  BY <1>2, <1>3 DEF JudgeLock

LEMMA ReapLockEffect ==
    ASSUME Typed, NEW p \in Procs, ReapLock(p)
    PROVE  proc[p].pc = "reap" /\ Goes(p, "acquire") /\ Keeps(p)
<1>1. proc[p] \in Process
  BY DEF Typed, TypeOK
<1> QED
  BY <1>1, EndsEffect DEF ReapLock, Does, At, Goes, Keeps, Others, Typed, TypeOK, Process

LEMMA ReadBeforeEffect ==
    ASSUME Typed, NEW p \in Procs, ReadBefore(p)
    PROVE  proc[p].pc = "read" /\ Goes(p, "check") /\ Keeps(p) /\ proc'[p].before = file
<1>1. proc[p] \in Process
  BY DEF Typed, TypeOK
<1> QED
  BY <1>1, EndsEffect DEF ReadBefore, Does, At, Goes, Keeps, Others, Typed, TypeOK, Process

LEMMA CheckBeforeEffect ==
    ASSUME Typed, NEW p \in Procs, CheckBefore(p)
    PROVE  /\ proc[p].pc = "check"
           /\ proc'[p].key = proc[p].key /\ proc'[p].approved = proc[p].approved
           /\ proc'[p].before = proc[p].before
           /\ \/ /\ Goes(p, "token") /\ proc'[p].result = "integrity"
                 /\ ~Verified(proc[p].before, proc[p].key, anchor)
              \/ Goes(p, "token") /\ proc'[p].result = "refused"
              \/ /\ Goes(p, "compare") /\ proc'[p].result = proc[p].result
                 /\ Verified(proc[p].before, proc[p].key, anchor)
                 /\ proc'[p].next \in Mutations(p, RecordsOf(proc[p].before))
<1>1. proc[p] \in Process
  BY DEF Typed, TypeOK
<1> DEFINE Fails(why) == Does(p, [proc[p] EXCEPT !.result = why, !.pc = "token"])
<1>2. CASE ~Verified(proc[p].before, proc[p].key, anchor)
  <2>1. Fails("integrity")
    BY <1>2 DEF CheckBefore
  <2> QED
    BY <1>1, <1>2, <2>1 DEF CheckBefore, At, Does, Goes, Keeps, Others, Typed, TypeOK, Process
<1>3. CASE Fails("refused")
  BY <1>1, <1>3 DEF CheckBefore, At, Does, Goes, Keeps, Others, Typed, TypeOK, Process
<1>4. ASSUME Verified(proc[p].before, proc[p].key, anchor),
             NEW next \in Mutations(p, RecordsOf(proc[p].before)),
             Does(p, [proc[p] EXCEPT !.next = next, !.pc = "compare"])
      PROVE  /\ Goes(p, "compare") /\ proc'[p].result = proc[p].result /\ proc'[p].next = next
             /\ proc'[p].key = proc[p].key /\ proc'[p].approved = proc[p].approved
             /\ proc'[p].before = proc[p].before
  BY <1>1, <1>4 DEF Does, Goes, Keeps, Others, Typed, TypeOK, Process
<1> QED
  BY <1>2, <1>3, <1>4 DEF CheckBefore, At

LEMMA CompareEffect ==
    ASSUME Typed, NEW p \in Procs, Compare(p)
    PROVE  /\ proc[p].pc = "compare"
           /\ proc'[p].key = proc[p].key /\ proc'[p].approved = proc[p].approved
           /\ \/ /\ Goes(p, "anchor") /\ Keeps(p)
                 /\ proc'[p].before = proc[p].before /\ proc'[p].next = proc[p].next
              \/ /\ Goes(p, "read") \/ Goes(p, "token")
                 /\ proc'[p].result \in {proc[p].result, "failed"}
<1>1. proc[p] \in Process
  BY DEF Typed, TypeOK
<1> QED
  BY <1>1, EndsEffect DEF Compare, Does, At, Goes, Keeps, Others, Typed, TypeOK, Process

LEMMA WriteAnchorEffect ==
    ASSUME Typed, NEW p \in Procs, WriteAnchor(p)
    PROVE  /\ proc[p].pc = "anchor" /\ Goes(p, "store") /\ Keeps(p)
           /\ proc'[p].before = proc[p].before /\ proc'[p].next = proc[p].next
<1>1. proc[p] \in Process
  BY DEF Typed, TypeOK
<1> QED
  BY <1>1, EndsEffect DEF WriteAnchor, Does, At, Goes, Keeps, Others, Typed, TypeOK, Process

LEMMA WriteStoreEffect ==
    ASSUME Typed, NEW p \in Procs, WriteStore(p)
    PROVE  /\ proc[p].pc = "store" /\ Goes(p, "token")
           /\ proc'[p].key = proc[p].key /\ proc'[p].approved = proc[p].approved
           /\ proc'[p].result = IF proc[p].next = RecordsOf(proc[p].before) THEN "same" ELSE "appended"
<1>1. proc[p] \in Process
  BY DEF Typed, TypeOK
<1> QED
  BY <1>1, EndsEffect DEF WriteStore, Does, At, Goes, Keeps, Others, Typed, TypeOK, Process

LEMMA CheckTokenEffect ==
    ASSUME Typed, NEW p \in Procs, CheckToken(p)
    PROVE  /\ proc[p].pc = "token"
           /\ proc'[p].key = proc[p].key /\ proc'[p].approved = proc[p].approved
           /\ \/ Goes(p, "unlock") /\ Keeps(p)
              \/ /\ Goes(p, "return") /\ lock # [owner |-> p, written |-> TRUE]
                 /\ proc'[p].result \in {proc[p].result, "failed"}
<1>1. proc[p] \in Process
  BY DEF Typed, TypeOK
<1>2. CASE lock = [owner |-> p, written |-> TRUE]
  <2>1. Does(p, [proc[p] EXCEPT !.pc = "unlock"])
    BY <1>2 DEF CheckToken
  <2> QED
    BY <1>1, <2>1 DEF CheckToken, At, Does, Goes, Keeps, Others, Typed, TypeOK, Process
<1>3. CASE lock # [owner |-> p, written |-> TRUE]
  <2>1. \E result \in {proc[p].result, "failed"} :
           Does(p, [proc[p] EXCEPT !.pc = "return", !.result = result])
    BY <1>3 DEF CheckToken
  <2> QED
    BY <1>1, <1>3, <2>1 DEF CheckToken, At, Does, Goes, Keeps, Others, Typed, TypeOK, Process
<1> QED
  BY <1>2, <1>3

LEMMA DropLockEffect ==
    ASSUME Typed, NEW p \in Procs, DropLock(p)
    PROVE  proc[p].pc = "unlock" /\ Goes(p, "return") /\ Keeps(p)
<1>1. proc[p] \in Process
  BY DEF Typed, TypeOK
<1> QED
  BY <1>1, EndsEffect DEF DropLock, Does, At, Goes, Keeps, Others, Typed, TypeOK, Process

--------------------------------------------------------------------------------
(* Mutual exclusion.                                                         *)

\* A lock that was removed from under its owner stays so.
LEMMA UsurpedStays == ASSUME Typed, [Next]_vars, ~usurped' PROVE ~usurped
<1>1. ASSUME NEW p \in Procs, ReapLock(p) PROVE ~usurped
  BY <1>1 DEF ReapLock
<1>2. ASSUME NEW p \in Procs, Steps(p), ~ReapLock(p) PROVE UNCHANGED usurped
  BY <1>2 DEF Steps, LinkKey, ReadHead, ReadView, Approve, Decline, Confirm, Admit, OpenLock,
         WriteLock, JudgeLock, GiveUp, ReadBefore, CheckBefore, Compare, WriteAnchor, WriteStore,
         CheckToken, DropLock, Return, ghosts
<1>3. ASSUME NEW p \in Procs, NEW kind \in Kinds, NEW app \in Apps, NEW asks \in SUBSET Grants,
             Begin(p, kind, app, asks)
      PROVE  UNCHANGED usurped
  BY <1>3 DEF Begin, ghosts
<1>4. (\E p \in Procs : Die(p)) \/ Restore \/ UNCHANGED vars => UNCHANGED usurped
  BY DEF Die, Restore, ghosts, vars
<1> QED
  BY <1>1, <1>2, <1>3, <1>4 DEF Next

\* The lock is held by one process at most, until it is removed from under one.
LEMMA NextLock ==
    ASSUME Typed, LockInv, [Next]_vars, ~usurped' PROVE LockInv'
<1>1. CASE UNCHANGED vars
  BY <1>1 DEF LockInv, vars, files
<1>2. ASSUME NEW p \in Procs, Others(p), UNCHANGED lock,
             proc'[p].pc \notin Locked
      PROVE  LockInv'
  BY <1>2 DEF LockInv, Others
<1>3. ASSUME NEW p \in Procs, Others(p), UNCHANGED lock,
             proc[p].pc \in Locked \ {"write"}, proc'[p].pc \in Locked \ {"write"}
      PROVE  LockInv'
  BY <1>3 DEF LockInv, Others, Locked
<1>4. ASSUME NEW p \in Procs, NEW kind \in Kinds, NEW app \in Apps, NEW asks \in SUBSET Grants,
             Begin(p, kind, app, asks)
      PROVE  LockInv'
  BY <1>2, <1>4, BeginEffect DEF Begin, files, Locked
<1>5. ASSUME NEW p \in Procs, Ended(p), UNCHANGED lock PROVE LockInv'
  BY <1>2, <1>5 DEF Ended, Idle, Locked
<1>6. ASSUME NEW p \in Procs, LinkKey(p) PROVE LockInv'
  BY <1>2, <1>6, LinkKeyEffect DEF LinkKey, Goes, Locked
<1>7. ASSUME NEW p \in Procs, ReadHead(p) PROVE LockInv'
  BY <1>2, <1>7, ReadHeadEffect DEF ReadHead, files, Goes, Locked
<1>8. ASSUME NEW p \in Procs, ReadView(p) PROVE LockInv'
  <2>1. CASE Goes(p, "decide")
    BY <1>2, <1>8, <2>1 DEF ReadView, files, Goes, Locked
  <2>2. CASE Ended(p)
    BY <1>5, <1>8, <2>2 DEF ReadView, files
  <2> QED
    BY <1>8, <2>1, <2>2, ReadViewEffect
<1>9. ASSUME NEW p \in Procs, NEW approved \in SUBSET Grants, Approve(p, approved) PROVE LockInv'
  BY <1>2, <1>9, ApproveEffect DEF Approve, files, Goes, Locked
<1>10. ASSUME NEW p \in Procs, Decline(p) \/ GiveUp(p) \/ Return(p) PROVE LockInv'
  BY <1>5, <1>10, EndsEffect DEF Decline, GiveUp, Return, files
<1>11. ASSUME NEW p \in Procs, Confirm(p) PROVE LockInv'
  BY <1>2, <1>11, ConfirmEffect DEF Confirm, files, Goes, Locked
<1>12. ASSUME NEW p \in Procs, Admit(p) PROVE LockInv'
  <2>1. CASE Goes(p, "acquire")
    BY <1>2, <1>12, <2>1 DEF Admit, files, Goes, Locked
  <2>2. CASE Ended(p)
    BY <1>5, <1>12, <2>2 DEF Admit, files
  <2> QED
    BY <1>12, <2>1, <2>2, AdmitEffect
<1>13. ASSUME NEW p \in Procs, OpenLock(p) PROVE LockInv'
  <2>1. CASE Goes(p, "judge") /\ UNCHANGED lock
    BY <1>2, <2>1 DEF Goes, Locked
  <2>2. CASE Goes(p, "write") /\ lock = None /\ lock' = [owner |-> p, written |-> FALSE]
    <3>1. \A q \in Procs, w \in BOOLEAN : lock # [owner |-> q, written |-> w]
      BY <2>2, NoneAssumption DEF Locks
    <3> QED
      BY <2>2, <3>1 DEF LockInv, Goes, Others
  <2> QED
    BY <1>13, <2>1, <2>2, OpenLockEffect
<1>14. ASSUME NEW p \in Procs, WriteLock(p) PROVE LockInv'
  <2>1. lock = [owner |-> p, written |-> FALSE]
    BY <1>14 DEF WriteLock, At, LockInv, Locked
  <2>2. \A q \in Procs : q # p => proc[q].pc \notin Locked
    BY <2>1 DEF LockInv
  <2>3. lock' = [owner |-> p, written |-> TRUE]
    BY <1>14, <2>1 DEF WriteLock
  <2> QED
    BY <1>14, <2>2, <2>3, WriteLockEffect DEF LockInv, Goes, Others
<1>15. ASSUME NEW p \in Procs, JudgeLock(p) PROVE LockInv'
  <2>1. CASE Goes(p, "acquire")
    BY <1>2, <1>15, <2>1 DEF JudgeLock, files, Goes, Locked
  <2>2. CASE Goes(p, "reap")
    BY <1>2, <1>15, <2>2 DEF JudgeLock, files, Goes, Locked
  <2> QED
    BY <1>15, <2>1, <2>2, JudgeLockEffect
<1>16. ASSUME NEW p \in Procs, ReapLock(p) PROVE LockInv'
  <2>1. lock # None => lock.owner = None
    BY <1>16 DEF ReapLock
  <2>2. \A q \in Procs, w \in BOOLEAN : lock # [owner |-> q, written |-> w]
    BY <2>1, EntitlementsAssumption, NoneAssumption DEF Locks
  <2>3. \A q \in Procs : proc[q].pc \notin Locked
    BY <2>2 DEF LockInv
  <2> QED
    BY <1>16, <2>3, ReapLockEffect DEF LockInv, Goes, Others, Locked
<1>17. ASSUME NEW p \in Procs, ReadBefore(p) PROVE LockInv'
  BY <1>3, <1>17, ReadBeforeEffect DEF ReadBefore, files, Goes, Locked
<1>18. ASSUME NEW p \in Procs, CheckBefore(p) PROVE LockInv'
  BY <1>3, <1>18, CheckBeforeEffect DEF CheckBefore, files, Goes, Locked
<1>19. ASSUME NEW p \in Procs, Compare(p) PROVE LockInv'
  BY <1>3, <1>19, CompareEffect DEF Compare, files, Goes, Locked
<1>20. ASSUME NEW p \in Procs, WriteAnchor(p) PROVE LockInv'
  BY <1>3, <1>20, WriteAnchorEffect DEF WriteAnchor, Goes, Locked
<1>21. ASSUME NEW p \in Procs, WriteStore(p) PROVE LockInv'
  BY <1>3, <1>21, WriteStoreEffect DEF WriteStore, Goes, Locked
<1>22. ASSUME NEW p \in Procs, CheckToken(p) PROVE LockInv'
  BY <1>2, <1>3, <1>22, CheckTokenEffect DEF CheckToken, files, Goes, Locked
<1>23. ASSUME NEW p \in Procs, DropLock(p) PROVE LockInv'
  <2>1. lock = [owner |-> p, written |-> TRUE]
    BY <1>23 DEF DropLock, At, LockInv, Locked
  <2>2. \A q \in Procs : q # p => proc[q].pc \notin Locked
    BY <2>1 DEF LockInv
  <2> QED
    BY <1>23, <2>2, DropLockEffect DEF LockInv, Goes, Others, Locked
<1>24. ASSUME NEW p \in Procs, Die(p) PROVE LockInv'
  <2>1. lock = [owner |-> p, written |-> proc[p].pc # "write"]
    BY <1>24 DEF Die, LockInv
  <2>2. \A q \in Procs : q # p => proc[q].pc \notin Locked
    BY <2>1 DEF LockInv
  <2> QED
    BY <1>24, <2>2, EndsEffect DEF Die, LockInv, Ended, Others, Idle, Locked
<1>25. CASE Restore
  BY <1>25 DEF Restore, LockInv
<1> QED
  BY <1>1, <1>4, <1>6, <1>7, <1>8, <1>9, <1>10, <1>11, <1>12, <1>13, <1>14, <1>15, <1>16, <1>17,
     <1>18, <1>19, <1>20, <1>21, <1>22, <1>23, <1>24, <1>25 DEF Next, Steps

--------------------------------------------------------------------------------
(* Commands, approvals and keys.                                             *)

Early == {"link", "head", "view", "decide"}

LEMMA NextCall ==
    ASSUME Typed, CallInv, [Next]_vars PROVE CallInv'
<1>1. CASE UNCHANGED vars
  BY <1>1 DEF CallInv, vars, bounds, ghosts
<1>2. ASSUME NEW p \in Procs, NEW pc, Goes(p, pc), proc'[p].approved = proc[p].approved,
             UNCHANGED <<calls, approvals>>, proc[p].pc # "idle",
             pc \in Early => proc[p].pc \in Early
      PROVE  CallInv'
  BY <1>2 DEF CallInv, Goes, Others, Early
<1>3. ASSUME NEW p \in Procs, Ended(p), UNCHANGED <<calls, approvals>> PROVE CallInv'
  BY <1>3 DEF CallInv, Ended, Others, Idle
<1>4. ASSUME NEW p \in Procs, NEW kind \in Kinds, NEW app \in Apps, NEW asks \in SUBSET Grants,
             Begin(p, kind, app, asks)
      PROVE  CallInv'
  <2>1. calls' = calls + 1 /\ calls \in Nat /\ calls' \in Calls /\ UNCHANGED approvals
    BY <1>4, EntitlementsAssumption DEF Begin, ghosts, Calls, Typed, TypeOK
  <2>2. approvals[calls'] = {} /\ \A c \in Calls : c > calls' => approvals[c] = {}
    BY <2>1, EntitlementsAssumption DEF CallInv, Calls
  <2>3. \A q \in Procs : proc[q].pc # "idle" => proc[q].call \in 1 .. calls'
    BY <2>1 DEF CallInv
  <2>4. \A q \in Procs : proc[q].pc # "idle" => proc[q].call # calls'
    BY <2>1 DEF CallInv
  <2>5. /\ \A q \in Procs : q # p => proc'[q] = proc[q]
        /\ proc'[p].call = calls' /\ proc'[p].approved = {}
    BY <1>4, <2>1, BeginEffect DEF Others
  <2>6. calls' \in 1 .. calls'
    BY <2>1
  <2>7. \A q \in Procs :
           /\ proc'[q].pc # "idle" => proc'[q].call \in 1 .. calls'
           /\ proc'[q].pc \in Early => approvals'[proc'[q].call] = {}
           /\ proc'[q].approved \subseteq approvals'[proc'[q].call]
    BY <2>1, <2>2, <2>3, <2>5, <2>6 DEF CallInv, Early
  <2>8. \A q, r \in Procs :
           q # r /\ proc'[q].pc # "idle" /\ proc'[r].pc # "idle" => proc'[q].call # proc'[r].call
    BY <2>4, <2>5 DEF CallInv
  <2> QED
    BY <2>1, <2>2, <2>7, <2>8 DEF CallInv, Early
<1>5. ASSUME NEW p \in Procs, NEW approved \in SUBSET Grants, Approve(p, approved) PROVE CallInv'
  <2>1. /\ UNCHANGED calls /\ proc[p].call \in Calls /\ proc[p].call \in 1 .. calls
        /\ approvals' = [approvals EXCEPT ![proc[p].call] = approved]
    BY <1>5, EntitlementsAssumption DEF Approve, bounds, At, CallInv, Calls, Typed, TypeOK
  <2>2. approvals[proc[p].call] = {} /\ calls \in Nat
    BY <1>5, EntitlementsAssumption DEF Approve, At, CallInv, Typed, TypeOK, Calls
  <2>3. approvals'[proc[p].call] = approved
    BY <2>1 DEF Typed, TypeOK
  <2>4. \A c \in Calls : c # proc[p].call => approvals'[c] = approvals[c]
    BY <2>1 DEF Typed, TypeOK
  <2>5. \A c \in Calls : c > calls => approvals[c] = {}
    BY DEF CallInv
  <2>6. \A c \in Calls : c > calls' => approvals'[c] = {}
    BY <2>1, <2>2, <2>4, <2>5, EntitlementsAssumption DEF Calls
  <2>7. /\ Others(p) /\ proc'[p].pc = "acquire" /\ proc'[p].approved = approved
        /\ proc'[p].call = proc[p].call /\ proc[p].pc = "decide"
    BY <1>5, ApproveEffect DEF Goes
  <2>8. \A q \in Procs : q # p =>
           /\ proc[q].pc # "idle" => proc[q].call # proc[p].call
           /\ proc[q].call \in Calls /\ proc[q].approved \subseteq approvals[proc[q].call]
    <3>1. \A q \in Procs : proc[q] \in Process
      BY DEF Typed, TypeOK
    <3> QED
      BY <2>7, <3>1 DEF CallInv, Process
  <2>9. \A q \in Procs : q # p =>
           /\ proc[q].pc \in Early => approvals'[proc[q].call] = {}
           /\ proc[q].approved \subseteq approvals'[proc[q].call]
    BY <2>2, <2>4, <2>8 DEF CallInv, Early
  <2> QED
    BY <2>1, <2>3, <2>6, <2>7, <2>9 DEF CallInv, Others, Early
<1>6. ASSUME NEW p \in Procs, LinkKey(p) \/ ReadHead(p) \/ ReadView(p) PROVE CallInv'
  <2>1. CASE Ended(p)
    BY <1>3, <1>6, <2>1 DEF LinkKey, ReadHead, ReadView, bounds, ghosts
  <2>2. CASE ~Ended(p)
    BY <1>2, <1>6, <2>2, LinkKeyEffect, ReadHeadEffect, ReadViewEffect
       DEF LinkKey, ReadHead, ReadView, Keeps, Early, bounds, ghosts
  <2> QED
    BY <2>1, <2>2
<1>7. ASSUME NEW p \in Procs, Decline(p) \/ GiveUp(p) \/ Return(p) \/ Die(p) PROVE CallInv'
  BY <1>3, <1>7, EndsEffect DEF Decline, GiveUp, Return, Die, bounds, ghosts
<1>8. ASSUME NEW p \in Procs, Confirm(p) \/ Admit(p) PROVE CallInv'
  <2>1. CASE Ended(p)
    BY <1>3, <1>8, <2>1 DEF Confirm, Admit, bounds, ghosts
  <2>2. CASE ~Ended(p)
    BY <1>2, <1>8, <2>2, ConfirmEffect, AdmitEffect DEF Confirm, Admit, Keeps, Early, bounds, ghosts
  <2> QED
    BY <2>1, <2>2
<1>9. ASSUME NEW p \in Procs, OpenLock(p) \/ WriteLock(p) \/ JudgeLock(p) \/ ReapLock(p) PROVE CallInv'
  BY <1>2, <1>9, OpenLockEffect, WriteLockEffect, JudgeLockEffect, ReapLockEffect
     DEF OpenLock, WriteLock, JudgeLock, ReapLock, Keeps, Early, bounds, ghosts
<1>10. ASSUME NEW p \in Procs, ReadBefore(p) \/ CheckBefore(p) \/ Compare(p) PROVE CallInv'
  BY <1>2, <1>10, ReadBeforeEffect, CheckBeforeEffect, CompareEffect
     DEF ReadBefore, CheckBefore, Compare, Keeps, Early, bounds, ghosts
<1>11. ASSUME NEW p \in Procs, WriteAnchor(p) \/ WriteStore(p) PROVE CallInv'
  BY <1>2, <1>11, WriteAnchorEffect, WriteStoreEffect
     DEF WriteAnchor, WriteStore, Keeps, Early, bounds, ghosts
<1>12. ASSUME NEW p \in Procs, CheckToken(p) \/ DropLock(p) PROVE CallInv'
  BY <1>2, <1>12, CheckTokenEffect, DropLockEffect DEF CheckToken, DropLock, Keeps, Early, bounds, ghosts
<1>13. CASE Restore
  BY <1>13 DEF Restore, CallInv, ghosts
<1> QED
  BY <1>1, <1>4, <1>5, <1>6, <1>7, <1>8, <1>9, <1>10, <1>11, <1>12, <1>13 DEF Next, Steps

LEMMA NextKey ==
    ASSUME Typed, KeyInv, [Next]_vars PROVE KeyInv'
<1>1. CASE UNCHANGED vars
  BY <1>1 DEF KeyInv, vars, files, ghosts
<1>2. ASSUME NEW p \in Procs, NEW pc, Goes(p, pc), proc'[p].key = proc[p].key,
             UNCHANGED <<deviceKey, copies>>, proc[p].pc \notin {"idle", "link"}
      PROVE  KeyInv'
  BY <1>2 DEF KeyInv, Goes, Others
<1>3. ASSUME NEW p \in Procs, Ended(p), UNCHANGED <<deviceKey, copies>> PROVE KeyInv'
  BY <1>3 DEF KeyInv, Ended, Others, Idle
<1>4. ASSUME NEW p \in Procs, NEW kind \in Kinds, NEW app \in Apps, NEW asks \in SUBSET Grants,
             Begin(p, kind, app, asks)
      PROVE  KeyInv'
  BY <1>4, BeginEffect DEF Begin, files, ghosts, KeyInv, Others
<1>5. ASSUME NEW p \in Procs, LinkKey(p) PROVE KeyInv'
  <2>1. proc[p].call \in Calls
    <3>1. proc[p] \in Process
      BY DEF Typed, TypeOK
    <3> QED
      BY <3>1 DEF Process
  <2>2. deviceKey' # None /\ (deviceKey # None => deviceKey' = deviceKey) /\ UNCHANGED copies
    BY <1>5, <2>1, NoneAssumption DEF LinkKey, ghosts
  <2> QED
    BY <1>5, <2>2, LinkKeyEffect DEF KeyInv, Goes, Others
<1>6. ASSUME NEW p \in Procs, ReadHead(p) \/ ReadView(p) PROVE KeyInv'
  <2>1. CASE Ended(p)
    BY <1>3, <1>6, <2>1 DEF ReadHead, ReadView, files, ghosts
  <2>2. CASE ~Ended(p)
    BY <1>2, <1>6, <2>2, ReadHeadEffect, ReadViewEffect DEF ReadHead, ReadView, Keeps, files, ghosts
  <2> QED
    BY <2>1, <2>2
<1>7. ASSUME NEW p \in Procs, Decline(p) \/ GiveUp(p) \/ Return(p) \/ Die(p) PROVE KeyInv'
  BY <1>3, <1>7, EndsEffect DEF Decline, GiveUp, Return, Die, files, ghosts
<1>8. ASSUME NEW p \in Procs, Confirm(p) \/ Admit(p) PROVE KeyInv'
  <2>1. CASE Ended(p)
    BY <1>3, <1>8, <2>1 DEF Confirm, Admit, files, ghosts
  <2>2. CASE ~Ended(p)
    BY <1>2, <1>8, <2>2, ConfirmEffect, AdmitEffect DEF Confirm, Admit, Keeps, files, ghosts
  <2> QED
    BY <2>1, <2>2
<1>9. ASSUME NEW p \in Procs, OpenLock(p) \/ WriteLock(p) \/ JudgeLock(p) \/ ReapLock(p) PROVE KeyInv'
  BY <1>2, <1>9, OpenLockEffect, WriteLockEffect, JudgeLockEffect, ReapLockEffect
     DEF OpenLock, WriteLock, JudgeLock, ReapLock, Keeps, files, ghosts
<1>10. ASSUME NEW p \in Procs, ReadBefore(p) \/ CheckBefore(p) \/ Compare(p) PROVE KeyInv'
  BY <1>2, <1>10, ReadBeforeEffect, CheckBeforeEffect, CompareEffect
     DEF ReadBefore, CheckBefore, Compare, Keeps, files, ghosts
<1>11. ASSUME NEW p \in Procs, WriteAnchor(p) PROVE KeyInv'
  BY <1>2, <1>11, WriteAnchorEffect DEF WriteAnchor, Keeps, ghosts
<1>12. ASSUME NEW p \in Procs, WriteStore(p) PROVE KeyInv'
  <2>1. deviceKey # None /\ proc[p].key = deviceKey
    BY <1>12 DEF WriteStore, At, KeyInv
  <2>2. copies' = copies \cup {file'} /\ file'.key = deviceKey /\ UNCHANGED deviceKey
    BY <1>12, <2>1 DEF WriteStore
  <2> QED
    BY <1>12, <2>1, <2>2, WriteStoreEffect DEF KeyInv, Goes, Others
<1>13. ASSUME NEW p \in Procs, CheckToken(p) \/ DropLock(p) PROVE KeyInv'
  BY <1>2, <1>13, CheckTokenEffect, DropLockEffect DEF CheckToken, DropLock, Keeps, files, ghosts
<1>14. ASSUME NEW p \in Procs, NEW approved \in SUBSET Grants, Approve(p, approved) PROVE KeyInv'
  BY <1>2, <1>14, ApproveEffect DEF Approve, files
<1>15. CASE Restore
  BY <1>15 DEF Restore, KeyInv, ghosts
<1> QED
  BY <1>1, <1>4, <1>5, <1>6, <1>7, <1>8, <1>9, <1>10, <1>11, <1>12, <1>13, <1>14, <1>15 DEF Next, Steps

--------------------------------------------------------------------------------
(* The history.                                                              *)

LEMMA AppendedFacts ==
    ASSUME NEW records \in Seq(Entry), NEW call \in Calls, NEW app \in Apps,
           NEW installed \in BOOLEAN, NEW grants \in SUBSET Grants
    PROVE  LET longer == Appended(records, call, app, installed, grants)
           IN  /\ longer \in Seq(Entry) /\ Len(longer) = Len(records) + 1
               /\ \A i \in 1 .. Len(records) : longer[i] = records[i]
               /\ longer[Len(records) + 1] =
                     [call |-> call, seq |-> Len(records) + 1,
                      prev |-> IF records = <<>> THEN None ELSE HashOf(HeadOf(records)),
                      app |-> app, installed |-> installed, grants |-> grants]
<1>1. Appended(records, call, app, installed, grants) \in Seq(Entry)
  BY AppendedType
<1> DEFINE e == [call |-> call, seq |-> Len(records) + 1,
                 prev |-> IF records = <<>> THEN None ELSE HashOf(HeadOf(records)),
                 app |-> app, installed |-> installed, grants |-> grants]
<1>2. Appended(records, call, app, installed, grants) = Append(records, e)
  BY DEF Appended
<1> HIDE DEF e
<1>3. /\ Len(Append(records, e)) = Len(records) + 1
      /\ \A i \in 1 .. Len(records) : Append(records, e)[i] = records[i]
      /\ Append(records, e)[Len(records) + 1] = e
  OBVIOUS
<1> QED
  BY <1>1, <1>2, <1>3 DEF e

LEMMA LinkedAppended ==
    ASSUME NEW records \in Seq(Entry), NEW call \in Calls, NEW app \in Apps,
           NEW installed \in BOOLEAN, NEW grants \in SUBSET Grants, Linked(records)
    PROVE  Linked(Appended(records, call, app, installed, grants))
<1> DEFINE longer == Appended(records, call, app, installed, grants)
<1>0. /\ longer \in Seq(Entry) /\ Len(longer) = Len(records) + 1
      /\ \A i \in 1 .. Len(records) : longer[i] = records[i]
      /\ longer[Len(records) + 1] =
            [call |-> call, seq |-> Len(records) + 1,
             prev |-> IF records = <<>> THEN None ELSE HashOf(HeadOf(records)),
             app |-> app, installed |-> installed, grants |-> grants]
  BY AppendedFacts
<1> HIDE DEF longer
<1>1. /\ longer[Len(records) + 1].seq = Len(records) + 1
      /\ longer[Len(records) + 1].prev = IF records = <<>> THEN None ELSE HashOf(HeadOf(records))
  BY <1>0
<1>2. DOMAIN longer = 1 .. Len(records) + 1 /\ Len(records) \in Nat
  BY <1>0
<1>3. ASSUME NEW i \in 1 .. Len(records)
      PROVE  longer[i].seq = i /\ longer[i].prev = IF i = 1 THEN None ELSE HashOf(longer[i - 1])
  <2>1. i \in DOMAIN records /\ (i # 1 => i - 1 \in 1 .. Len(records))
    BY <1>2, <1>3
  <2> QED
    BY <1>0, <1>3, <2>1 DEF Linked
<1>4. longer[Len(records) + 1].prev =
         IF Len(records) + 1 = 1 THEN None ELSE HashOf(longer[Len(records)])
  <2>1. records = <<>> <=> Len(records) = 0
    OBVIOUS
  <2>2. records # <<>> => Len(records) \in 1 .. Len(records)
    BY <2>1, <1>2
  <2> QED
    BY <1>0, <1>1, <1>2, <2>1, <2>2 DEF HeadOf
<1> QED
  BY <1>0, <1>1, <1>2, <1>3, <1>4 DEF Linked, longer

LEMMA PrefixEqual ==
    ASSUME NEW s \in Seq(Entry), NEW t \in Seq(Entry), Prefix(s, t), Len(t) <= Len(s)
    PROVE  s = t
<1>1. Len(s) = Len(t) /\ \A i \in 1 .. Len(s) : s[i] = t[i]
  BY DEF Prefix
<1> QED
  BY <1>1, SeqEqual

\* A store that is accepted against the anchor is the whole history.
LEMMA AcceptedIsChain ==
    ASSUME Typed, HistInv, NEW store \in copies, NEW key, Verified(store, key, anchor)
    PROVE  RecordsOf(store) = chain /\ Anchors(chain)
<1>1. /\ RecordsOf(store) \in Seq(Entry) /\ chain \in Seq(Entry) /\ anchor \in Heads \cup {None}
      /\ Prefix(RecordsOf(store), chain)
  BY RecordsType DEF Typed, TypeOK, HistInv
<1>2. chain # <<>> => anchor # None /\ Len(chain) <= anchor.seq
  BY DEF HistInv
<1>3. CASE anchor = None
  <2>1. chain = <<>> /\ Len(chain) = 0
    BY <1>2, <1>3
  <2>2. Len(RecordsOf(store)) = 0
    BY <1>1, <2>1 DEF Prefix
  <2>3. RecordsOf(store) = <<>>
    BY <1>1, <2>2
  <2> QED
    BY <1>3, <2>1, <2>3 DEF Anchors
<1>4. CASE anchor # None
  <2>1. anchor \in Heads /\ anchor.seq \in Nat /\ anchor.seq >= 1
    BY <1>1, <1>4 DEF HistInv, Heads
  <2>2. AtAnchor(RecordsOf(store), anchor)
    BY <1>4 DEF Verified, RecordsOf
  <2>3. Len(RecordsOf(store)) >= anchor.seq /\ Len(RecordsOf(store)) <= Len(chain)
    BY <1>1, <1>4, <2>2 DEF AtAnchor, Prefix
  <2>4. chain # <<>>
    BY <1>1, <2>1, <2>3
  <2>5. Len(chain) <= anchor.seq /\ Len(chain) \in Nat /\ Len(RecordsOf(store)) \in Nat
    BY <1>1, <1>2, <2>4
  <2>6. RecordsOf(store) = chain
    BY <1>1, <2>1, <2>3, <2>5, PrefixEqual
  <2>7. anchor.seq = Len(chain) /\ anchor.hash = HashOf(HeadOf(chain))
    BY <1>4, <2>1, <2>2, <2>3, <2>5, <2>6 DEF AtAnchor
  <2>8. anchor = AnchorFor(chain)
    BY <2>1, <2>7 DEF AnchorFor, Heads
  <2> QED
    BY <2>4, <2>6, <2>8 DEF Anchors
<1> QED
  BY <1>3, <1>4

\* The mutation of a command grows the history by one record at most.
LEMMA MutationsGrow ==
    ASSUME Typed, CallInv, NEW p \in Procs, proc[p].pc = "check", NEW next \in Mutations(p, chain)
    PROVE  \/ next = chain
           \/ \E installed \in BOOLEAN, grants \in SUBSET Grants :
                 /\ next = Appended(chain, proc[p].call, proc[p].app, installed, grants)
                 /\ grants \subseteq Active(chain, proc[p].app) \cup approvals[proc[p].call]
<1> DEFINE app == proc[p].app
           active == Active(chain, app)
           Add(installed, grants) == Appended(chain, proc[p].call, app, installed, grants)
<1>1. proc[p].kind \in Kinds /\ proc[p].asks \in SUBSET Grants
  <2>1. proc[p] \in Process
    BY DEF Typed, TypeOK
  <2> QED
    BY <2>1 DEF Process
<1>2. active \in SUBSET Grants /\ active \ proc[p].asks \in SUBSET Grants
  BY ActiveType
<1>3. /\ GrantedTo(p, chain) \in SUBSET Grants
      /\ GrantedTo(p, chain) \subseteq active \cup approvals[proc[p].call]
  <2>1. proc[p].approved \subseteq approvals[proc[p].call]
    BY DEF CallInv
  <2> QED
    BY <1>1, <2>1 DEF GrantedTo
<1> HIDE DEF active, Add
<1>4. \/ next = chain
      \/ next = Add(TRUE, GrantedTo(p, chain)) \/ next = Add(FALSE, active)
      \/ next = Add(TRUE, active \ proc[p].asks) \/ next = Add(TRUE, active)
  <2>1. CASE proc[p].kind = "install"
    BY <2>1 DEF Mutations, active, Add
  <2>2. CASE proc[p].kind = "uninstall"
    BY <2>2 DEF Mutations, active, Add
  <2>3. CASE proc[p].kind = "revoke"
    BY <2>3 DEF Mutations, active, Add
  <2>4. CASE proc[p].kind = "run"
    BY <2>4 DEF Mutations, active, Add
  <2> QED
    BY <1>1, <2>1, <2>2, <2>3, <2>4 DEF Kinds
<1>5. \A installed \in BOOLEAN, grants \in SUBSET Grants :
         Add(installed, grants) = Appended(chain, proc[p].call, app, installed, grants)
  BY DEF Add
<1>6. PICK installed \in BOOLEAN, grants \in SUBSET Grants :
         \/ next = chain
         \/ next = Add(installed, grants) /\ grants \subseteq active \cup approvals[proc[p].call]
  BY <1>2, <1>3, <1>4
<1> QED
  BY <1>5, <1>6 DEF active

\* A writer is the only process between the lock and the store.
LEMMA Alone ==
    ASSUME LockInv, NEW p \in Procs, proc[p].pc \in Writing
    PROVE  \A q \in Procs : q # p => proc[q].pc \notin Writing
<1>1. ASSUME NEW q \in Procs, proc[q].pc \in Writing
      PROVE  lock # None /\ lock.owner = q
  <2>1. proc[q].pc \in Locked
    BY <1>1 DEF Writing, Locked
  <2>2. lock = [owner |-> q, written |-> proc[q].pc # "write"]
    BY <2>1 DEF LockInv
  <2>3. \A w \in BOOLEAN : [owner |-> q, written |-> w] \in Locks
    BY DEF Locks
  <2>4. lock \in Locks
    BY <2>2, <2>3
  <2> QED
    BY <2>2, <2>4, NoneAssumption
<1> QED
  BY <1>1

LEMMA NextGrows ==
    ASSUME Typed, HistInv, NEW p \in Procs, Grows(p), proc[p].pc \in Writing
    PROVE  /\ proc[p].next \in Seq(Entry) /\ Linked(proc[p].next) /\ Prefix(chain, proc[p].next)
           /\ Len(chain) <= Len(proc[p].next)
           /\ proc[p].next # chain => proc[p].call \in CallsOf(proc[p].next)
<1>1. chain \in Seq(Entry) /\ proc[p].call \in Calls /\ proc[p].app \in Apps
  <2>1. proc[p] \in Process
    BY DEF Typed, TypeOK
  <2> QED
    BY <2>1 DEF Typed, TypeOK, HasApp, Process, Writing
<1>2. CASE proc[p].next = chain
  BY <1>1, <1>2 DEF HistInv, Prefix
<1>3. ASSUME NEW installed \in BOOLEAN, NEW grants \in SUBSET Grants,
             proc[p].next = Appended(chain, proc[p].call, proc[p].app, installed, grants)
      PROVE  /\ proc[p].next \in Seq(Entry) /\ Linked(proc[p].next) /\ Prefix(chain, proc[p].next)
             /\ Len(chain) <= Len(proc[p].next) /\ proc[p].call \in CallsOf(proc[p].next)
  <2> DEFINE longer == proc[p].next
  <2>0. /\ longer \in Seq(Entry) /\ Len(longer) = Len(chain) + 1
        /\ \A i \in 1 .. Len(chain) : longer[i] = chain[i]
        /\ longer[Len(chain) + 1] =
              [call |-> proc[p].call, seq |-> Len(chain) + 1,
               prev |-> IF chain = <<>> THEN None ELSE HashOf(HeadOf(chain)),
               app |-> proc[p].app, installed |-> installed, grants |-> grants]
    BY <1>1, <1>3, AppendedFacts
  <2>1. longer[Len(chain) + 1].call = proc[p].call
    BY <2>0
  <2>2. Linked(longer)
    BY <1>1, <1>3, LinkedAppended DEF HistInv
  <2> HIDE DEF longer
  <2>3. Len(chain) \in Nat /\ DOMAIN longer = 1 .. Len(chain) + 1
    BY <1>1, <2>0
  <2>4. Prefix(chain, longer) /\ Len(chain) <= Len(longer)
    BY <2>0, <2>3 DEF Prefix
  <2>5. proc[p].call \in CallsOf(longer)
    BY <2>1, <2>3 DEF CallsOf
  <2> QED
    BY <2>0, <2>2, <2>4, <2>5 DEF longer
<1> QED
  BY <1>2, <1>3 DEF Grows

LEMMA PrefixTrans ==
    ASSUME NEW s \in Seq(Entry), NEW t \in Seq(Entry), NEW u \in Seq(Entry),
           Prefix(s, t), Prefix(t, u)
    PROVE  Prefix(s, u)
BY DEF Prefix

History == <<file, anchor, chain, copies, torn, restores>>

\* A step that touches none of the files of the history.
LEMMA Quiet ==
    ASSUME HistInv, WriterInv, NEW p \in Procs, Others(p), UNCHANGED History,
           proc[p].pc # "store", proc'[p].pc \in Writing => WriterOf(p)',
           \A q \in Procs : q # p /\ proc[q].pc \in Writing =>
              approvals'[proc[q].call] = approvals[proc[q].call]
    PROVE  HistInv' /\ WriterInv'
<1>1. HistInv'
  <2>1. (\E q \in Procs : proc[q].pc = "store") => \E q \in Procs : proc'[q].pc = "store"
    BY DEF Others
  <2> QED
    BY <2>1 DEF HistInv, History, Anchors
<1>2. ASSUME NEW q \in Procs, q # p, proc'[q].pc \in Writing PROVE WriterOf(q)'
  <2>1. proc'[q] = proc[q] /\ WriterOf(q)
    BY <1>2 DEF Others, WriterInv
  <2>2. approvals'[proc[q].call] = approvals[proc[q].call]
    BY <1>2, <2>1
  <2>3. Grows(q) => Grows(q)'
    BY <2>1, <2>2 DEF Grows, History
  <2> QED
    BY <2>1, <2>3 DEF WriterOf, History, Anchors
<1> QED
  BY <1>1, <1>2 DEF WriterInv

\* The steps of one process that leave the history's files alone.
LEMMA QuietSteps ==
    ASSUME Typed, CallInv, HistInv, WriterInv, NEW p \in Procs,
           Others(p), UNCHANGED History, UNCHANGED approvals,
           proc[p].pc # "store", proc'[p].pc \notin Writing
    PROVE  HistInv' /\ WriterInv'
BY Quiet

LEMMA NextHist ==
    ASSUME Typed, LockInv, CallInv, HistInv, WriterInv, [Next]_vars
    PROVE  HistInv' /\ WriterInv'
<1>1. CASE UNCHANGED vars
  <2>1. UNCHANGED <<History, proc, file, approvals>>
    BY <1>1 DEF vars, files, bounds, ghosts, History
  <2>2. HistInv'
    BY <2>1 DEF HistInv, History, Anchors
  <2>3. \A q \in Procs : WriterOf(q) => WriterOf(q)'
    BY <2>1 DEF WriterOf, Grows, History, Anchors
  <2> QED
    BY <2>1, <2>2, <2>3 DEF WriterInv
<1>2. ASSUME NEW p \in Procs, NEW kind \in Kinds, NEW app \in Apps, NEW asks \in SUBSET Grants,
             Begin(p, kind, app, asks)
      PROVE  HistInv' /\ WriterInv'
  BY <1>2, BeginEffect, QuietSteps DEF Begin, At, files, ghosts, History, Writing
<1>3. ASSUME NEW p \in Procs, LinkKey(p) PROVE HistInv' /\ WriterInv'
  BY <1>3, LinkKeyEffect, QuietSteps DEF LinkKey, Goes, bounds, ghosts, History, Writing
<1>4. ASSUME NEW p \in Procs, ReadHead(p) PROVE HistInv' /\ WriterInv'
  BY <1>4, ReadHeadEffect, QuietSteps DEF ReadHead, Goes, files, bounds, ghosts, History, Writing
<1>5. ASSUME NEW p \in Procs, Ended(p), UNCHANGED History, UNCHANGED approvals, proc[p].pc # "store"
      PROVE  HistInv' /\ WriterInv'
  BY <1>5, QuietSteps DEF Ended, Idle, Writing
<1>6. ASSUME NEW p \in Procs, ReadView(p) PROVE HistInv' /\ WriterInv'
  <2>1. CASE Ended(p)
    BY <1>5, <1>6, <2>1 DEF ReadView, At, files, bounds, ghosts, History
  <2>2. CASE Goes(p, "decide")
    BY <1>6, <2>2, QuietSteps DEF ReadView, At, Goes, files, bounds, ghosts, History, Writing
  <2> QED
    BY <1>6, <2>1, <2>2, ReadViewEffect
<1>7. ASSUME NEW p \in Procs, NEW approved \in SUBSET Grants, Approve(p, approved)
      PROVE  HistInv' /\ WriterInv'
  <2>1. \A q \in Procs : q # p /\ proc[q].pc \in Writing => proc[q].call # proc[p].call
    BY <1>7 DEF CallInv, Approve, At, Writing
  <2>2. \A q \in Procs : q # p /\ proc[q].pc \in Writing =>
           approvals'[proc[q].call] = approvals[proc[q].call]
    BY <1>7, <2>1 DEF Approve, Typed, TypeOK
  <2> QED
    BY <1>7, <2>2, ApproveEffect, Quiet DEF Approve, At, Goes, files, bounds, History, Writing
<1>8. ASSUME NEW p \in Procs, Decline(p) \/ GiveUp(p) \/ Return(p) PROVE HistInv' /\ WriterInv'
  BY <1>5, <1>8, EndsEffect DEF Decline, GiveUp, Return, At, files, bounds, ghosts, History
<1>9. ASSUME NEW p \in Procs, Confirm(p) PROVE HistInv' /\ WriterInv'
  BY <1>9, ConfirmEffect, QuietSteps DEF Confirm, Goes, files, bounds, ghosts, History, Writing
<1>10. ASSUME NEW p \in Procs, Admit(p) PROVE HistInv' /\ WriterInv'
  <2>1. CASE Ended(p)
    BY <1>5, <1>10, <2>1 DEF Admit, At, files, bounds, ghosts, History
  <2>2. CASE Goes(p, "acquire")
    BY <1>10, <2>2, QuietSteps DEF Admit, At, Goes, files, bounds, ghosts, History, Writing
  <2> QED
    BY <1>10, <2>1, <2>2, AdmitEffect
<1>11. ASSUME NEW p \in Procs, OpenLock(p) \/ WriteLock(p) PROVE HistInv' /\ WriterInv'
  BY <1>11, OpenLockEffect, WriteLockEffect, QuietSteps
     DEF OpenLock, WriteLock, Goes, bounds, ghosts, History, Writing
<1>12. ASSUME NEW p \in Procs, JudgeLock(p) \/ ReapLock(p) PROVE HistInv' /\ WriterInv'
  BY <1>12, JudgeLockEffect, ReapLockEffect, QuietSteps
     DEF JudgeLock, ReapLock, Goes, files, bounds, ghosts, History, Writing
<1>13. ASSUME NEW p \in Procs, CheckToken(p) \/ DropLock(p) PROVE HistInv' /\ WriterInv'
  BY <1>13, CheckTokenEffect, DropLockEffect, QuietSteps
     DEF CheckToken, DropLock, Goes, files, bounds, ghosts, History, Writing
<1>14. ASSUME NEW p \in Procs, ReadBefore(p) PROVE HistInv' /\ WriterInv'
  <2>1. UNCHANGED <<History, file, copies, approvals>> /\ proc[p].pc = "read"
    BY <1>14 DEF ReadBefore, At, files, bounds, ghosts, History
  <2>2. Others(p) /\ proc'[p].pc = "check" /\ proc'[p].before = file
    BY <1>14, ReadBeforeEffect DEF Goes
  <2>3. WriterOf(p)'
    BY <2>1, <2>2 DEF WriterOf, HistInv
  <2> QED
    BY <2>1, <2>2, <2>3, Quiet
<1>15. ASSUME NEW p \in Procs, CheckBefore(p) PROVE HistInv' /\ WriterInv'
  <2>1. UNCHANGED <<History, file, anchor, chain, copies, approvals>> /\ proc[p].pc = "check"
    BY <1>15 DEF CheckBefore, At, files, bounds, ghosts, History
  <2>2. CASE Goes(p, "token")
    BY <2>1, <2>2, QuietSteps DEF Goes, Writing
  <2>3. CASE /\ Goes(p, "compare") /\ proc'[p].before = proc[p].before
             /\ Verified(proc[p].before, proc[p].key, anchor)
             /\ proc'[p].next \in Mutations(p, RecordsOf(proc[p].before))
    <3>1. proc[p].before \in copies
      BY <2>1 DEF WriterInv, WriterOf, Writing
    <3>2. RecordsOf(proc[p].before) = chain /\ Anchors(chain)
      BY <2>3, <3>1, AcceptedIsChain
    <3>3. \/ proc'[p].next = chain
          \/ \E installed \in BOOLEAN, grants \in SUBSET Grants :
                /\ proc'[p].next = Appended(chain, proc[p].call, proc[p].app, installed, grants)
                /\ grants \subseteq Active(chain, proc[p].app) \cup approvals[proc[p].call]
      BY <2>1, <2>3, <3>2, MutationsGrow
    <3>4. Grows(p)'
      BY <2>1, <2>3, <3>3 DEF Goes, Grows
    <3>5. WriterOf(p)'
      BY <2>1, <2>3, <3>1, <3>2, <3>4 DEF Goes, WriterOf, Anchors
    <3> QED
      BY <2>1, <2>3, <3>5, Quiet DEF Goes
  <2> QED
    BY <1>15, <2>2, <2>3, CheckBeforeEffect
<1>16. ASSUME NEW p \in Procs, Compare(p) PROVE HistInv' /\ WriterInv'
  <2>1. UNCHANGED <<History, file, anchor, chain, copies, approvals>> /\ proc[p].pc = "compare"
    BY <1>16 DEF Compare, At, files, bounds, ghosts, History
  <2>2. CASE Goes(p, "read") \/ Goes(p, "token")
    BY <2>1, <2>2, QuietSteps DEF Goes, Writing
  <2>3. CASE Goes(p, "anchor") /\ proc'[p].before = proc[p].before /\ proc'[p].next = proc[p].next
    <3>1. WriterOf(p)
      BY <2>1 DEF WriterInv, Writing
    <3>2. Grows(p)'
      BY <2>1, <2>3, <3>1 DEF Goes, Grows, WriterOf
    <3>3. WriterOf(p)'
      BY <2>1, <2>3, <3>1, <3>2 DEF Goes, WriterOf, Anchors
    <3> QED
      BY <2>1, <2>3, <3>3, Quiet DEF Goes
  <2> QED
    BY <1>16, <2>2, <2>3, CompareEffect
<1>17. ASSUME NEW p \in Procs, WriteAnchor(p) PROVE HistInv' /\ WriterInv'
  <2>1. /\ UNCHANGED <<file, chain, copies, torn, restores, approvals>> /\ proc[p].pc = "anchor"
        /\ anchor' = IF proc[p].next = <<>> THEN anchor ELSE AnchorFor(proc[p].next)
    BY <1>17 DEF WriteAnchor, At, bounds, ghosts
  <2>2. /\ Others(p) /\ proc'[p].pc = "store"
        /\ proc'[p].before = proc[p].before /\ proc'[p].next = proc[p].next
        /\ proc'[p].call = proc[p].call /\ proc'[p].app = proc[p].app
    BY <1>17, WriteAnchorEffect DEF Goes
  <2>3. WriterOf(p) /\ RecordsOf(proc[p].before) = chain /\ Grows(p) /\ Anchors(chain)
    BY <2>1 DEF WriterInv, WriterOf, Writing
  <2>4. /\ proc[p].next \in Seq(Entry) /\ chain \in Seq(Entry)
        /\ Len(chain) <= Len(proc[p].next)
    BY <2>1, <2>3, NextGrows DEF Writing, Typed, TypeOK
  <2>5. proc[p].next = <<>> => chain = <<>> /\ anchor = None /\ anchor' = None
    BY <2>1, <2>3, <2>4 DEF Anchors
  <2>6. proc[p].next # <<>> =>
           anchor' # None /\ anchor'.seq = Len(proc[p].next) /\ anchor'.seq >= 1
    <3>1. proc[p].next # <<>> => AnchorFor(proc[p].next) \in Heads
      BY <2>4, AnchorType
    <3> QED
      BY <2>1, <2>4, <3>1, NoneAssumption DEF AnchorFor
  <2>7. chain # <<>> => proc[p].next # <<>>
    BY <2>4
  <2>8. HistInv'
    BY <2>1, <2>2, <2>4, <2>5, <2>6, <2>7 DEF HistInv
  <2>9. Grows(p)' /\ Anchors(proc[p].next)'
    BY <2>1, <2>2, <2>3, <2>5 DEF Grows, Anchors
  <2>10. WriterOf(p)'
    BY <2>1, <2>2, <2>3, <2>9 DEF WriterOf
  <2>11. \A q \in Procs : q # p => proc'[q].pc \notin Writing
    BY <2>1, <2>2, Alone DEF Others, Writing
  <2> QED
    BY <2>8, <2>10, <2>11 DEF WriterInv
<1>18. ASSUME NEW p \in Procs, WriteStore(p) PROVE HistInv' /\ WriterInv'
  <2>1. /\ UNCHANGED <<anchor, torn, restores>> /\ proc[p].pc = "store"
        /\ file'.records = proc[p].next /\ file' \in Store
        /\ chain' = proc[p].next /\ copies' = copies \cup {file'}
    <3>1. proc[p] \in Process
      BY DEF Typed, TypeOK
    <3>2. proc[p].before \in Store \cup {None} /\ proc[p].key \in Calls /\ proc[p].next \in Seq(Entry)
      BY <3>1 DEF Process
    <3> QED
      BY <1>18, <3>2 DEF WriteStore, At, bounds, Store
  <2>2. Others(p) /\ proc'[p].pc = "token"
    BY <1>18, WriteStoreEffect DEF Goes
  <2>3. WriterOf(p) /\ Grows(p) /\ Anchors(proc[p].next)
    BY <2>1 DEF WriterInv, WriterOf, Writing
  <2>4. /\ proc[p].next \in Seq(Entry) /\ Linked(proc[p].next) /\ Prefix(chain, proc[p].next)
        /\ Len(chain) <= Len(proc[p].next)
    BY <2>1, <2>3, NextGrows DEF Writing
  <2>5. RecordsOf(file') = chain'
    BY <2>1, NoneAssumption DEF RecordsOf
  <2>6. ASSUME NEW store \in copies' PROVE Prefix(RecordsOf(store), chain')
    <3>1. CASE store = file'
      BY <2>1, <2>4, <2>5, <3>1 DEF Prefix
    <3>2. CASE store \in copies
      <4>1. RecordsOf(store) \in Seq(Entry) /\ chain \in Seq(Entry) /\ Prefix(RecordsOf(store), chain)
        BY <3>2, RecordsType DEF Typed, TypeOK, HistInv
      <4> QED
        BY <2>1, <2>4, <4>1, PrefixTrans
    <3> QED
      BY <2>1, <3>1, <3>2
  <2>7. Anchors(chain)'
    BY <2>1, <2>3 DEF Anchors
  <2>8. chain' # <<>> => anchor' # None /\ Len(chain') <= anchor'.seq
    <3>1. chain' # <<>> => AnchorFor(chain') \in Heads /\ AnchorFor(chain').seq = Len(chain')
      BY <2>1, <2>4, AnchorType DEF AnchorFor
    <3>2. Len(chain') \in Nat
      BY <2>1, <2>4
    <3> QED
      BY <2>7, <3>1, <3>2, NoneAssumption DEF Anchors
  <2>9. Linked(chain)' /\ file' \in copies' /\ (restores' = 0 => RecordsOf(file') = chain')
        /\ (anchor' # None => anchor'.seq >= 1)
    BY <2>1, <2>4, <2>5 DEF HistInv, Linked
  <2>10. HistInv'
    BY <2>6, <2>7, <2>8, <2>9 DEF HistInv
  <2>11. \A q \in Procs : proc'[q].pc \notin Writing
    BY <2>1, <2>2, Alone DEF Others, Writing
  <2> QED
    BY <2>10, <2>11 DEF WriterInv
<1>19. ASSUME NEW p \in Procs, Die(p) PROVE HistInv' /\ WriterInv'
  <2>1. Ended(p) /\ UNCHANGED <<file, anchor, chain, copies, restores, approvals>>
    BY <1>19, EndsEffect DEF Die
  <2>2. CASE proc[p].pc = "store"
    <3>1. torn'
      BY <1>19, <2>2 DEF Die, At
    <3>2. \A q \in Procs : proc'[q].pc \notin Writing
      BY <2>1, <2>2, Alone DEF Ended, Others, Idle, Writing
    <3> QED
      BY <2>1, <3>1, <3>2 DEF HistInv, WriterInv, Anchors
  <2>3. CASE proc[p].pc # "store"
    <3>1. torn' = torn
      BY <1>19, <2>3 DEF Die, At, Typed, TypeOK
    <3> QED
      BY <1>5, <2>1, <2>3, <3>1 DEF History
  <2> QED
    BY <2>2, <2>3
<1>20. CASE Restore
  <2>1. /\ UNCHANGED <<anchor, chain, copies, torn, proc, approvals>> /\ file' \in copies
        /\ restores' # 0
    BY <1>20, EntitlementsAssumption DEF Restore, ghosts, Typed, TypeOK
  <2>2. HistInv'
    BY <2>1 DEF HistInv, Anchors
  <2>3. \A q \in Procs : Grows(q) => Grows(q)'
    BY <2>1 DEF Grows
  <2>4. WriterInv'
    BY <2>1, <2>3 DEF WriterInv, WriterOf, Anchors
  <2> QED
    BY <2>2, <2>4
<1> QED
  BY <1>1, <1>2, <1>3, <1>4, <1>6, <1>7, <1>8, <1>9, <1>10, <1>11, <1>12, <1>13, <1>14, <1>15,
     <1>16, <1>17, <1>18, <1>19, <1>20 DEF Next, Steps

--------------------------------------------------------------------------------
(* What a command has seen, and what has returned.                           *)

\* The history never loses a record.
LEMMA ChainGrows ==
    ASSUME Typed, HistInv, WriterInv, [Next]_vars
    PROVE  /\ chain \in Seq(Entry) /\ chain' \in Seq(Entry) /\ Prefix(chain, chain')
           /\ CallsOf(chain) \subseteq CallsOf(chain')
<1>1. chain \in Seq(Entry) /\ Prefix(chain, chain)
  BY DEF Typed, TypeOK, Prefix
<1>2. chain' \in Seq(Entry) /\ Prefix(chain, chain')
  <2>1. CASE UNCHANGED chain
    BY <1>1, <2>1
  <2>2. ASSUME NEW p \in Procs, WriteStore(p) PROVE chain' \in Seq(Entry) /\ Prefix(chain, chain')
    <3>1. proc[p].pc \in Writing /\ Grows(p) /\ chain' = proc[p].next
      BY <2>2 DEF WriteStore, At, WriterInv, WriterOf, Writing
    <3> QED
      BY <3>1, NextGrows
  <2>3. (\A p \in Procs : ~WriteStore(p)) => UNCHANGED chain
    BY DEF Next, Steps, Begin, LinkKey, ReadHead, ReadView, Approve, Decline, Confirm, Admit, OpenLock,
           WriteLock, JudgeLock, GiveUp, ReapLock, ReadBefore, CheckBefore, Compare, WriteAnchor,
           CheckToken, DropLock, Return, Die, Restore, vars, bounds, files, ghosts
  <2> QED
    BY <2>1, <2>2, <2>3
<1>3. CallsOf(chain) \subseteq CallsOf(chain')
  BY <1>1, <1>2 DEF CallsOf, Prefix
<1> QED
  BY <1>1, <1>2, <1>3

LEMMA NextFloor ==
    ASSUME Typed, HistInv, WriterInv, FloorInv, [Next]_vars PROVE FloorInv'
<1>0. chain \in Seq(Entry) /\ chain' \in Seq(Entry) /\ Prefix(chain, chain') /\ Len(chain) <= Len(chain')
  BY ChainGrows DEF Prefix
<1> DEFINE Floor(q) ==
              /\ proc[q].floor <= Len(chain)
              /\ proc[q].pc = "view" /\ proc[q].floor > 0 =>
                    proc[q].head # None /\ proc[q].floor <= proc[q].head.seq
              /\ proc[q].pc = "decide" => proc[q].floor <= Len(proc[q].view) /\ Prefix(proc[q].view, chain)
<1>1. ASSUME NEW q \in Procs, proc'[q] = proc[q] PROVE Floor(q)'
  <2>1. Floor(q) /\ proc[q].floor \in Nat /\ proc[q].view \in Seq(Entry)
    BY DEF FloorInv, Typed, TypeOK, Process
  <2>2. proc[q].pc = "decide" => Prefix(proc[q].view, chain')
    BY <1>0, <2>1, PrefixTrans
  <2> QED
    BY <1>0, <1>1, <2>1, <2>2
<1>2. ASSUME NEW p \in Procs, Others(p), Floor(p)' PROVE FloorInv'
  BY <1>1, <1>2 DEF FloorInv, Others
<1>3. ASSUME NEW p \in Procs, NEW pc, Goes(p, pc), pc \notin {"view", "decide"} PROVE FloorInv'
  <2>1. proc[p].floor <= Len(chain) /\ proc[p].floor \in Nat /\ Len(chain) \in Nat /\ Len(chain') \in Nat
    BY <1>0 DEF FloorInv, Typed, TypeOK, Process
  <2> QED
    BY <1>0, <1>2, <1>3, <2>1 DEF Goes
<1>4. ASSUME NEW p \in Procs, Ended(p) PROVE FloorInv'
  BY <1>0, <1>2, <1>4 DEF Ended, Idle
<1>5. CASE UNCHANGED proc
  BY <1>1, <1>5 DEF FloorInv
<1>6. ASSUME NEW p \in Procs, NEW kind \in Kinds, NEW app \in Apps, NEW asks \in SUBSET Grants,
             Begin(p, kind, app, asks)
      PROVE  FloorInv'
  BY <1>0, <1>2, <1>6, BeginEffect
<1>7. ASSUME NEW p \in Procs, LinkKey(p) PROVE FloorInv'
  BY <1>3, <1>7, LinkKeyEffect
<1>8. ASSUME NEW p \in Procs, ReadHead(p) PROVE FloorInv'
  <2>1. /\ Goes(p, "view") /\ proc'[p].head = anchor /\ UNCHANGED chain
    BY <1>8, ReadHeadEffect DEF ReadHead, ghosts
  <2>2. proc[p].floor <= Len(chain) /\ proc[p].floor \in Nat /\ Len(chain) \in Nat
    BY <1>0 DEF FloorInv, Typed, TypeOK, Process
  <2>3. proc[p].floor > 0 => chain # <<>>
    BY <2>2, <1>0
  <2>4. proc[p].floor > 0 => anchor # None /\ Len(chain) <= anchor.seq /\ anchor.seq \in Nat
    BY <2>3 DEF HistInv, Typed, TypeOK, Heads
  <2> QED
    BY <1>2, <2>1, <2>2, <2>4 DEF Goes
<1>9. ASSUME NEW p \in Procs, ReadView(p) PROVE FloorInv'
  <2>1. CASE Ended(p)
    BY <1>4, <2>1
  <2>2. CASE /\ Goes(p, "decide") /\ proc'[p].view = RecordsOf(file)
             /\ Verified(file, proc[p].key, proc[p].head)
    <3>1. /\ UNCHANGED chain /\ proc[p].floor \in Nat /\ proc[p].floor <= Len(chain)
          /\ proc[p].pc = "view" /\ (proc[p].floor > 0 =>
                 proc[p].head # None /\ proc[p].floor <= proc[p].head.seq)
          /\ proc[p].head \in Heads \cup {None}
      BY <1>9 DEF ReadView, At, ghosts, FloorInv, Typed, TypeOK, Process
    <3>2. RecordsOf(file) \in Seq(Entry) /\ Prefix(RecordsOf(file), chain)
      BY RecordsType DEF HistInv, Typed, TypeOK
    <3>3. proc[p].floor > 0 => AtAnchor(RecordsOf(file), proc[p].head)
      BY <2>2, <3>1 DEF Verified, RecordsOf
    <3>4. proc[p].floor > 0 => Len(RecordsOf(file)) >= proc[p].head.seq
      BY <3>1, <3>3 DEF AtAnchor
    <3>5. proc[p].floor <= Len(RecordsOf(file))
      BY <3>1, <3>2, <3>4 DEF Heads
    <3> QED
      BY <1>2, <2>2, <3>1, <3>2, <3>5 DEF Goes
  <2> QED
    BY <1>9, <2>1, <2>2, ReadViewEffect
<1>10. ASSUME NEW p \in Procs, NEW approved \in SUBSET Grants, Approve(p, approved) PROVE FloorInv'
  BY <1>3, <1>10, ApproveEffect
<1>11. ASSUME NEW p \in Procs, Decline(p) \/ GiveUp(p) \/ Return(p) \/ Die(p) PROVE FloorInv'
  BY <1>4, <1>11, EndsEffect DEF Decline, GiveUp, Return, Die
<1>12. ASSUME NEW p \in Procs, Confirm(p) \/ Admit(p) PROVE FloorInv'
  BY <1>3, <1>4, <1>12, ConfirmEffect, AdmitEffect
<1>13. ASSUME NEW p \in Procs, OpenLock(p) \/ WriteLock(p) \/ JudgeLock(p) \/ ReapLock(p)
       PROVE FloorInv'
  BY <1>3, <1>13, OpenLockEffect, WriteLockEffect, JudgeLockEffect, ReapLockEffect
<1>14. ASSUME NEW p \in Procs, ReadBefore(p) \/ CheckBefore(p) \/ Compare(p) PROVE FloorInv'
  BY <1>3, <1>14, ReadBeforeEffect, CheckBeforeEffect, CompareEffect
<1>15. ASSUME NEW p \in Procs, WriteAnchor(p) \/ WriteStore(p) PROVE FloorInv'
  BY <1>3, <1>15, WriteAnchorEffect, WriteStoreEffect
<1>16. ASSUME NEW p \in Procs, CheckToken(p) \/ DropLock(p) PROVE FloorInv'
  BY <1>3, <1>16, CheckTokenEffect, DropLockEffect
<1>17. CASE UNCHANGED vars \/ Restore
  BY <1>5, <1>17 DEF vars, Restore
<1> QED
  BY <1>6, <1>7, <1>8, <1>9, <1>10, <1>11, <1>12, <1>13, <1>14, <1>15, <1>16, <1>17 DEF Next, Steps

LEMMA NextDone ==
    ASSUME Typed, HistInv, WriterInv, DoneInv, [Next]_vars PROVE DoneInv'
<1>0. CallsOf(chain) \subseteq CallsOf(chain')
  BY ChainGrows
<1>1. ASSUME NEW p \in Procs, Others(p), UNCHANGED done,
             proc'[p].result = "appended" => proc'[p].call \in CallsOf(chain')
      PROVE  DoneInv'
  BY <1>0, <1>1 DEF DoneInv, Others
<1>2. ASSUME NEW p \in Procs, NEW pc, Goes(p, pc), UNCHANGED done,
             proc'[p].result \in {proc[p].result, "failed", "integrity", "refused"}
      PROVE  DoneInv'
  BY <1>0, <1>1, <1>2 DEF DoneInv, Goes
<1>3. ASSUME NEW p \in Procs, Ended(p), UNCHANGED done PROVE DoneInv'
  BY <1>1, <1>3 DEF Ended, Idle
<1>4. CASE UNCHANGED <<proc, done>>
  BY <1>0, <1>4 DEF DoneInv
<1>5. ASSUME NEW p \in Procs, NEW kind \in Kinds, NEW app \in Apps, NEW asks \in SUBSET Grants,
             Begin(p, kind, app, asks)
      PROVE  DoneInv'
  BY <1>1, <1>5, BeginEffect DEF Begin, ghosts
<1>6. ASSUME NEW p \in Procs, LinkKey(p) \/ ReadHead(p) PROVE DoneInv'
  BY <1>2, <1>6, LinkKeyEffect, ReadHeadEffect DEF LinkKey, ReadHead, Keeps, ghosts
<1>7. ASSUME NEW p \in Procs, ReadView(p) PROVE DoneInv'
  BY <1>2, <1>3, <1>7, ReadViewEffect DEF ReadView, Keeps, ghosts
<1>8. ASSUME NEW p \in Procs, NEW approved \in SUBSET Grants, Approve(p, approved) PROVE DoneInv'
  BY <1>2, <1>8, ApproveEffect DEF Approve
<1>9. ASSUME NEW p \in Procs, Decline(p) \/ GiveUp(p) \/ Die(p) PROVE DoneInv'
  BY <1>3, <1>9, EndsEffect DEF Decline, GiveUp, Die, ghosts
<1>10. ASSUME NEW p \in Procs, Confirm(p) \/ Admit(p) PROVE DoneInv'
  BY <1>2, <1>3, <1>10, ConfirmEffect, AdmitEffect DEF Confirm, Admit, Keeps, ghosts
<1>11. ASSUME NEW p \in Procs, OpenLock(p) \/ WriteLock(p) \/ JudgeLock(p) \/ ReapLock(p)
       PROVE DoneInv'
  BY <1>2, <1>11, OpenLockEffect, WriteLockEffect, JudgeLockEffect, ReapLockEffect
     DEF OpenLock, WriteLock, JudgeLock, ReapLock, Keeps, ghosts
<1>12. ASSUME NEW p \in Procs, ReadBefore(p) \/ CheckBefore(p) PROVE DoneInv'
  BY <1>2, <1>12, ReadBeforeEffect, CheckBeforeEffect DEF ReadBefore, CheckBefore, Keeps, ghosts
<1>13. ASSUME NEW p \in Procs, Compare(p) \/ WriteAnchor(p) PROVE DoneInv'
  BY <1>2, <1>13, CompareEffect, WriteAnchorEffect DEF Compare, WriteAnchor, Keeps, ghosts
<1>14. ASSUME NEW p \in Procs, WriteStore(p) PROVE DoneInv'
  <2>1. /\ proc[p].pc \in Writing /\ Grows(p) /\ chain' = proc[p].next /\ UNCHANGED done
        /\ RecordsOf(proc[p].before) = chain
    BY <1>14 DEF WriteStore, At, WriterInv, WriterOf, Writing
  <2>2. proc[p].next # chain => proc[p].call \in CallsOf(chain')
    BY <2>1, NextGrows
  <2>3. proc'[p].result = "appended" => proc[p].next # chain
    BY <1>14, <2>1, WriteStoreEffect
  <2> QED
    BY <1>1, <1>14, <2>1, <2>2, <2>3, WriteStoreEffect DEF Goes
<1>15. ASSUME NEW p \in Procs, CheckToken(p) \/ DropLock(p) PROVE DoneInv'
  BY <1>2, <1>15, CheckTokenEffect, DropLockEffect DEF CheckToken, DropLock, Keeps, ghosts
<1>16. ASSUME NEW p \in Procs, Return(p) PROVE DoneInv'
  <2>1. Ended(p) /\ UNCHANGED chain
    BY <1>16, EndsEffect DEF Return
  <2>2. done' = done \/ (done' = done \cup {proc[p].call} /\ proc[p].result = "appended")
    BY <1>16 DEF Return
  <2> QED
    BY <2>1, <2>2 DEF DoneInv, Ended, Others, Idle
<1>17. CASE UNCHANGED vars \/ Restore
  BY <1>4, <1>17 DEF vars, Restore, ghosts
<1> QED
  BY <1>5, <1>6, <1>7, <1>8, <1>9, <1>10, <1>11, <1>12, <1>13, <1>14, <1>15, <1>16, <1>17
     DEF Next, Steps

--------------------------------------------------------------------------------
(* Refusals and grants.                                                      *)

\* A store that is the history, with the anchor at its head, is accepted.
LEMMA CurrentIsVerified ==
    ASSUME Typed, LockInv, KeyInv, HistInv, WriterInv, NEW p \in Procs, proc[p].pc = "check",
           restores = 0, ~torn
    PROVE  Verified(proc[p].before, proc[p].key, anchor)
<1> DEFINE before == proc[p].before
<1>1. before = file /\ RecordsOf(file) = chain /\ file \in copies /\ before \in Store \cup {None}
  <2>1. proc[p] \in Process
    BY DEF Typed, TypeOK
  <2> QED
    BY <2>1 DEF WriterInv, WriterOf, Writing, HistInv, Process
<1>2. Anchors(chain)
  <2>1. \A q \in Procs : proc[q].pc # "store"
    BY Alone DEF Writing
  <2> QED
    BY <2>1 DEF HistInv
<1>3. CASE before = None
  <2>1. chain = <<>>
    BY <1>1, <1>3 DEF RecordsOf
  <2> QED
    BY <1>2, <1>3, <2>1 DEF Verified, Anchors
<1>4. CASE before # None
  <2>1. before.records = chain /\ before.key = proc[p].key
    BY <1>1, <1>4 DEF RecordsOf, KeyInv
  <2>2. Chained(before, proc[p].key)
    BY <2>1 DEF Chained, HistInv, Linked
  <2>3. chain \in Seq(Entry)
    BY DEF Typed, TypeOK
  <2>4. AtAnchor(chain, anchor)
    BY <1>2, <2>3 DEF Anchors, AtAnchor, AnchorFor
  <2> QED
    BY <1>4, <2>1, <2>2, <2>4 DEF Verified
<1> QED
  BY <1>3, <1>4

LEMMA NextRefusal ==
    ASSUME Typed, LockInv, KeyInv, HistInv, WriterInv, RefusalsHaveACause, [Next]_vars, ~usurped'
    PROVE  RefusalsHaveACause'
<1> DEFINE Cause == torn \/ restores > 0
<1>u. ~usurped
  BY UsurpedStays
<1>0. Cause => Cause'
  <2>1. restores \in Nat /\ (torn \in BOOLEAN)
    BY EntitlementsAssumption DEF Typed, TypeOK
  <2>2. CASE Restore
    BY <2>1, <2>2 DEF Restore
  <2>3. CASE \E p \in Procs : Die(p)
    BY <2>3 DEF Die
  <2>4. CASE UNCHANGED <<torn, restores>>
    BY <2>4
  <2>5. ASSUME NEW p \in Procs, Steps(p) PROVE UNCHANGED <<torn, restores>>
    BY <2>5 DEF Steps, LinkKey, ReadHead, ReadView, Approve, Decline, Confirm, Admit, OpenLock,
           WriteLock, JudgeLock, GiveUp, ReapLock, ReadBefore, CheckBefore, Compare, WriteAnchor,
           WriteStore, CheckToken, DropLock, Return, bounds, files, ghosts
  <2>6. ASSUME NEW p \in Procs, NEW kind \in Kinds, NEW app \in Apps, NEW asks \in SUBSET Grants,
               Begin(p, kind, app, asks)
        PROVE  UNCHANGED <<torn, restores>>
    BY <2>6 DEF Begin, ghosts
  <2>7. UNCHANGED vars => UNCHANGED <<torn, restores>>
    BY DEF vars, bounds, ghosts
  <2> QED
    BY <2>2, <2>3, <2>4, <2>5, <2>6, <2>7 DEF Next
<1> HIDE DEF Cause
<1>1. ASSUME NEW p \in Procs, Others(p),
             proc'[p].result = "integrity" => proc[p].result = "integrity" \/ Cause
      PROVE  RefusalsHaveACause'
  BY <1>0, <1>1, <1>u DEF RefusalsHaveACause, Others, Cause
<1>2. ASSUME NEW p \in Procs, NEW pc, Goes(p, pc),
             proc'[p].result \in {proc[p].result, "failed", "refused", "same", "appended"}
      PROVE  RefusalsHaveACause'
  BY <1>1, <1>2 DEF Goes
<1>3. ASSUME NEW p \in Procs, Ended(p) PROVE RefusalsHaveACause'
  BY <1>1, <1>3 DEF Ended, Idle
<1>4. CASE UNCHANGED proc
  BY <1>0, <1>4, <1>u DEF RefusalsHaveACause, Cause
<1>5. ASSUME NEW p \in Procs, NEW kind \in Kinds, NEW app \in Apps, NEW asks \in SUBSET Grants,
             Begin(p, kind, app, asks)
      PROVE  RefusalsHaveACause'
  BY <1>1, <1>5, BeginEffect
<1>6. ASSUME NEW p \in Procs, LinkKey(p) \/ ReadHead(p) PROVE RefusalsHaveACause'
  BY <1>2, <1>6, LinkKeyEffect, ReadHeadEffect DEF Keeps
<1>7. ASSUME NEW p \in Procs, ReadView(p) PROVE RefusalsHaveACause'
  BY <1>2, <1>3, <1>7, ReadViewEffect DEF Keeps
<1>8. ASSUME NEW p \in Procs, NEW approved \in SUBSET Grants, Approve(p, approved)
      PROVE RefusalsHaveACause'
  BY <1>2, <1>8, ApproveEffect
<1>9. ASSUME NEW p \in Procs, Decline(p) \/ GiveUp(p) \/ Return(p) \/ Die(p)
      PROVE RefusalsHaveACause'
  BY <1>3, <1>9, EndsEffect DEF Decline, GiveUp, Return, Die
<1>10. ASSUME NEW p \in Procs, Confirm(p) \/ Admit(p) PROVE RefusalsHaveACause'
  BY <1>2, <1>3, <1>10, ConfirmEffect, AdmitEffect DEF Keeps
<1>11. ASSUME NEW p \in Procs, OpenLock(p) \/ WriteLock(p) \/ JudgeLock(p) \/ ReapLock(p)
       PROVE RefusalsHaveACause'
  BY <1>2, <1>11, OpenLockEffect, WriteLockEffect, JudgeLockEffect, ReapLockEffect DEF Keeps
<1>12. ASSUME NEW p \in Procs, ReadBefore(p) \/ Compare(p) \/ WriteAnchor(p)
       PROVE RefusalsHaveACause'
  BY <1>2, <1>12, ReadBeforeEffect, CompareEffect, WriteAnchorEffect DEF Keeps
<1>13. ASSUME NEW p \in Procs, CheckBefore(p) PROVE RefusalsHaveACause'
  <2>1. CASE ~Verified(proc[p].before, proc[p].key, anchor)
    <3>1. restores \in Nat /\ torn \in BOOLEAN
      BY EntitlementsAssumption DEF Typed, TypeOK
    <3>2. proc[p].pc = "check"
      BY <1>13 DEF CheckBefore, At
    <3>3. restores # 0 \/ torn
      BY <2>1, <3>2, CurrentIsVerified
    <3>4. Cause
      BY <3>1, <3>3 DEF Cause
    <3>5. Others(p)
      BY <1>13, CheckBeforeEffect DEF Goes
    <3> QED
      BY <1>1, <3>4, <3>5
  <2>2. CASE Verified(proc[p].before, proc[p].key, anchor)
    BY <1>2, <1>13, <2>2, CheckBeforeEffect
  <2> QED
    BY <2>1, <2>2
<1>14. ASSUME NEW p \in Procs, WriteStore(p) PROVE RefusalsHaveACause'
  BY <1>2, <1>14, WriteStoreEffect
<1>15. ASSUME NEW p \in Procs, CheckToken(p) \/ DropLock(p) PROVE RefusalsHaveACause'
  BY <1>2, <1>15, CheckTokenEffect, DropLockEffect DEF Keeps
<1>16. CASE UNCHANGED vars \/ Restore
  BY <1>4, <1>16 DEF vars, Restore
<1> QED
  BY <1>5, <1>6, <1>7, <1>8, <1>9, <1>10, <1>11, <1>12, <1>13, <1>14, <1>15, <1>16 DEF Next, Steps

\* A beginning of a history is a beginning of what it grows into.
LEMMA SubSeqOfPrefix ==
    ASSUME NEW s \in Seq(Entry), NEW t \in Seq(Entry), Prefix(s, t), NEW i \in 1 .. Len(s)
    PROVE  SubSeq(t, 1, i - 1) = SubSeq(s, 1, i - 1)
<1>1. \A j \in 1 .. i - 1 : t[j] = s[j]
  BY DEF Prefix
<1>2. /\ SubSeq(t, 1, i - 1) \in Seq(Entry) /\ SubSeq(s, 1, i - 1) \in Seq(Entry)
      /\ Len(SubSeq(t, 1, i - 1)) = i - 1 /\ Len(SubSeq(s, 1, i - 1)) = i - 1
      /\ \A j \in 1 .. i - 1 : SubSeq(t, 1, i - 1)[j] = t[j] /\ SubSeq(s, 1, i - 1)[j] = s[j]
  BY DEF Prefix
<1> QED
  BY <1>1, <1>2, SeqEqual

\* Every grant of every record was in force before it or approved in its command.
AllAsked ==
    \A i \in DOMAIN chain :
        chain[i].grants \subseteq
            Active(SubSeq(chain, 1, i - 1), chain[i].app) \cup approvals[chain[i].call]

LEMMA NextGranted ==
    ASSUME Typed, CallInv, HistInv, WriterInv, AllAsked, [Next]_vars
    PROVE  AllAsked'
<1>1. chain \in Seq(Entry) /\ approvals \in [Calls -> SUBSET Grants]
  BY DEF Typed, TypeOK
<1>2. \A c \in Calls : approvals[c] \subseteq approvals'[c]
  <2>1. CASE UNCHANGED approvals
    BY <2>1
  <2>2. ASSUME NEW p \in Procs, NEW approved \in SUBSET Grants, Approve(p, approved)
        PROVE  \A c \in Calls : approvals[c] \subseteq approvals'[c]
    BY <1>1, <2>2 DEF Approve, At, CallInv
  <2>3. ASSUME NEW p \in Procs, Steps(p), \A approved \in SUBSET Grants : ~Approve(p, approved)
        PROVE  UNCHANGED approvals
    BY <2>3 DEF Steps, LinkKey, ReadHead, ReadView, Decline, Confirm, Admit, OpenLock,
           WriteLock, JudgeLock, GiveUp, ReapLock, ReadBefore, CheckBefore, Compare, WriteAnchor,
           WriteStore, CheckToken, DropLock, Return, ghosts
  <2>4. ASSUME NEW p \in Procs, NEW kind \in Kinds, NEW app \in Apps, NEW asks \in SUBSET Grants,
               Begin(p, kind, app, asks)
        PROVE  UNCHANGED approvals
    BY <2>4 DEF Begin, ghosts
  <2>5. (\E p \in Procs : Die(p)) \/ Restore \/ UNCHANGED vars => UNCHANGED approvals
    BY DEF Die, Restore, ghosts, vars
  <2> QED
    BY <2>1, <2>2, <2>3, <2>4, <2>5 DEF Next
<1>3. \A i \in DOMAIN chain : chain[i].call \in Calls
  <2>1. \A i \in DOMAIN chain : chain[i] \in Entry
    BY <1>1
  <2> QED
    BY <2>1 DEF Entry
<1>4. CASE UNCHANGED chain
  BY <1>2, <1>3, <1>4 DEF AllAsked
<1>5. ASSUME NEW p \in Procs, WriteStore(p) PROVE AllAsked'
  <2>1. /\ proc[p].pc \in Writing /\ Grows(p) /\ chain' = proc[p].next /\ UNCHANGED approvals
    BY <1>5 DEF WriteStore, At, WriterInv, WriterOf, Writing
  <2>2. chain' \in Seq(Entry) /\ Prefix(chain, chain')
    BY <2>1, NextGrows
  <2>3. ASSUME NEW installed \in BOOLEAN, NEW grants \in SUBSET Grants,
               chain' = Appended(chain, proc[p].call, proc[p].app, installed, grants),
               grants \subseteq Active(chain, proc[p].app) \cup approvals[proc[p].call]
        PROVE  AllAsked'
    <3>1. proc[p].call \in Calls /\ proc[p].app \in Apps
      <4>1. proc[p] \in Process
        BY DEF Typed, TypeOK
      <4> QED
        BY <2>1, <4>1 DEF Typed, TypeOK, HasApp, Process, Writing
    <3>2. /\ Len(chain') = Len(chain) + 1
          /\ \A i \in 1 .. Len(chain) : chain'[i] = chain[i]
          /\ chain'[Len(chain) + 1] =
                [call |-> proc[p].call, seq |-> Len(chain) + 1,
                 prev |-> IF chain = <<>> THEN None ELSE HashOf(HeadOf(chain)),
                 app |-> proc[p].app, installed |-> installed, grants |-> grants]
      BY <1>1, <2>3, <3>1, AppendedFacts
    <3>3. ASSUME NEW i \in 1 .. Len(chain)
          PROVE  chain'[i].grants \subseteq
                    Active(SubSeq(chain', 1, i - 1), chain'[i].app) \cup approvals'[chain'[i].call]
      <4>1. SubSeq(chain', 1, i - 1) = SubSeq(chain, 1, i - 1)
        BY <1>1, <2>2, SubSeqOfPrefix
      <4>2. i \in DOMAIN chain
        BY <1>1
      <4> QED
        BY <2>1, <3>2, <4>1, <4>2 DEF AllAsked
    <3>4. SubSeq(chain', 1, Len(chain)) = chain
      <4>1. /\ SubSeq(chain', 1, Len(chain)) \in Seq(Entry)
            /\ Len(SubSeq(chain', 1, Len(chain))) = Len(chain)
            /\ \A j \in 1 .. Len(chain) : SubSeq(chain', 1, Len(chain))[j] = chain'[j]
        BY <1>1, <2>2, <3>2
      <4> QED
        BY <1>1, <3>2, <4>1, SeqEqual
    <3>5. ASSUME NEW i, i = Len(chain) + 1
          PROVE  chain'[i].grants \subseteq
                    Active(SubSeq(chain', 1, i - 1), chain'[i].app) \cup approvals'[chain'[i].call]
      <4>1. i - 1 = Len(chain)
        BY <1>1, <3>5
      <4>2. chain'[i].grants = grants /\ chain'[i].app = proc[p].app /\ chain'[i].call = proc[p].call
        BY <3>2, <3>5
      <4> QED
        BY <2>1, <2>3, <3>4, <4>1, <4>2
    <3>6. DOMAIN chain' = 1 .. Len(chain) + 1 /\ Len(chain) \in Nat
      BY <1>1, <2>2, <3>2
    <3>7. \A i \in DOMAIN chain' : i \in 1 .. Len(chain) \/ i = Len(chain) + 1
      BY <3>6
    <3> QED
      BY <3>3, <3>5, <3>7 DEF AllAsked
  <2> QED
    BY <1>4, <2>1, <2>3 DEF Grows
<1>6. ASSUME NEW p \in Procs, Steps(p), ~WriteStore(p) PROVE UNCHANGED chain
  BY <1>6 DEF Steps, LinkKey, ReadHead, ReadView, Approve, Decline, Confirm, Admit, OpenLock,
         WriteLock, JudgeLock, GiveUp, ReapLock, ReadBefore, CheckBefore, Compare, WriteAnchor,
         CheckToken, DropLock, Return, ghosts
<1>7. ASSUME NEW p \in Procs, NEW kind \in Kinds, NEW app \in Apps, NEW asks \in SUBSET Grants,
             Begin(p, kind, app, asks)
      PROVE  UNCHANGED chain
  BY <1>7 DEF Begin, ghosts
<1>8. (\E p \in Procs : Die(p)) \/ Restore \/ UNCHANGED vars => UNCHANGED chain
  BY DEF Die, Restore, ghosts, vars
<1> QED
  BY <1>4, <1>5, <1>6, <1>7, <1>8 DEF Next

--------------------------------------------------------------------------------
(* The first state.                                                          *)

LEMMA InitFresh ==
    ASSUME Typed, StartsWith(<<>>, {}), lock = None, torn = FALSE, proc = [p \in Procs |-> Idle],
           calls = 0, restores = 0
    PROVE  /\ LockInv /\ CallInv /\ KeyInv /\ HistInv /\ WriterInv /\ FloorInv /\ DoneInv
           /\ RefusalsHaveACause /\ AllAsked
<1>1. /\ file = None /\ anchor = None /\ chain = <<>> /\ copies = {None} /\ done = {}
      /\ approvals = [c \in Calls |-> {}]
  BY DEF StartsWith
<1>2. Len(chain) = 0 /\ DOMAIN chain = {} /\ RecordsOf(file) = <<>>
  BY <1>1 DEF RecordsOf
<1>3. LockInv /\ WriterInv /\ RefusalsHaveACause /\ KeyInv
  BY <1>1 DEF LockInv, WriterInv, RefusalsHaveACause, KeyInv, Idle, Locked, Writing
<1>4. CallInv
  BY <1>1 DEF CallInv, Idle
<1>5. HistInv
  <2>1. Prefix(<<>>, <<>>)
    BY DEF Prefix
  <2> QED
    BY <1>1, <1>2, <2>1 DEF HistInv, Linked, Anchors, RecordsOf
<1>6. FloorInv /\ DoneInv /\ AllAsked
  BY <1>1, <1>2 DEF FloorInv, DoneInv, AllAsked, Idle
<1> QED
  BY <1>3, <1>4, <1>5, <1>6

LEMMA InitInstalled ==
    ASSUME Typed, NEW app \in Apps, NEW granted \in SUBSET Grants,
           StartsWith(Appended(<<>>, 0, app, TRUE, granted), granted),
           lock = None, torn = FALSE, proc = [p \in Procs |-> Idle], calls = 0, restores = 0
    PROVE  /\ LockInv /\ CallInv /\ KeyInv /\ HistInv /\ WriterInv /\ FloorInv /\ DoneInv
           /\ RefusalsHaveACause /\ AllAsked
<1> DEFINE first == [call |-> 0, seq |-> 1, prev |-> None, app |-> app, installed |-> TRUE,
                     grants |-> granted]
<1>1. 0 \in Calls /\ <<>> \in Seq(Entry)
  BY EntitlementsAssumption DEF Calls
<1>2. Appended(<<>>, 0, app, TRUE, granted) = <<first>>
  BY DEF Appended
<1> HIDE DEF first
<1>0. <<first>> # <<>>
  OBVIOUS
<1>3. /\ file = [rev |-> 1, key |-> 0, records |-> <<first>>] /\ anchor = AnchorFor(<<first>>)
      /\ chain = <<first>> /\ copies = {None, file} /\ done = {0} /\ deviceKey = 0
      /\ approvals = [c \in Calls |-> IF c = 0 THEN granted ELSE {}]
  BY <1>0, <1>2 DEF StartsWith
<1>4. Len(chain) = 1 /\ DOMAIN chain = {1} /\ chain[1] = first /\ chain # <<>>
  BY <1>3
<1>5. file # None /\ 0 # None /\ anchor # None /\ anchor.seq = 1
  <2>1. file \in Store /\ AnchorFor(<<first>>) \in Heads
    <3>1. <<first>> \in Seq(Entry) /\ <<first>> # <<>>
      BY <1>1, <1>2, AppendedType
    <3> QED
      BY <1>1, <1>3, <3>1, AnchorType DEF Store
  <2> QED
    BY <1>1, <1>3, <2>1, NoneAssumption DEF AnchorFor
<1>6. LockInv /\ WriterInv /\ RefusalsHaveACause /\ KeyInv
  BY <1>3, <1>5 DEF LockInv, WriterInv, RefusalsHaveACause, KeyInv, Idle, Locked, Writing
<1>7. CallInv
  BY <1>3 DEF CallInv, Idle
<1>8. HistInv
  <2>1. RecordsOf(file) = chain /\ RecordsOf(None) = <<>>
    BY <1>3, <1>5 DEF RecordsOf
  <2>2. Prefix(<<>>, chain) /\ Prefix(chain, chain)
    BY <1>4 DEF Prefix
  <2>3. Linked(chain)
    BY <1>4 DEF Linked, first
  <2>4. Anchors(chain)
    BY <1>3, <1>4 DEF Anchors
  <2> QED
    BY <1>3, <1>4, <1>5, <2>1, <2>2, <2>3, <2>4 DEF HistInv
<1>9. FloorInv /\ DoneInv
  BY <1>3, <1>4 DEF FloorInv, DoneInv, CallsOf, Idle, first
<1>10. AllAsked
  BY <1>1, <1>3, <1>4 DEF AllAsked, first
<1> QED
  BY <1>6, <1>7, <1>8, <1>9, <1>10

--------------------------------------------------------------------------------
(* The theorems.                                                             *)

\* The inductive invariant.  The lock gives the writers their order until it is
\* removed from under one of them, the order makes the history grow by one record
\* at a time, and the rest follows.
Ordered ==
    /\ LockInv /\ HistInv /\ WriterInv /\ FloorInv /\ DoneInv
    /\ RefusalsHaveACause /\ AllAsked

IInv == Typed /\ CallInv /\ KeyInv /\ (usurped \/ Ordered)

LEMMA InitIInv == Init => IInv
<1> SUFFICES ASSUME Init PROVE IInv
  OBVIOUS
<1>1. Typed
  BY InitTyped
<1>2. lock = None /\ torn = FALSE /\ proc = [p \in Procs |-> Idle] /\ calls = 0 /\ restores = 0
  BY DEF Init
<1>3. CASE StartsWith(<<>>, {})
  BY <1>1, <1>2, <1>3, InitFresh DEF IInv, Ordered
<1>4. ASSUME NEW app \in Apps, NEW asks \in Manifests, NEW granted \in SUBSET asks,
             StartsWith(Appended(<<>>, 0, app, TRUE, granted), granted)
      PROVE  IInv
  <2>1. granted \in SUBSET Grants
    BY EntitlementsAssumption
  <2> QED
    BY <1>1, <1>2, <1>4, <2>1, InitInstalled DEF IInv, Ordered
<1> QED
  BY <1>3, <1>4 DEF Init

LEMMA NextIInv == IInv /\ [Next]_vars => IInv'
<1> SUFFICES ASSUME IInv, [Next]_vars PROVE IInv'
  OBVIOUS
<1>1. Typed' /\ CallInv' /\ KeyInv'
  BY NextTyped, NextCall, NextKey DEF IInv
<1>2. ASSUME ~usurped' PROVE Ordered'
  <2>1. Ordered
    BY <1>2, UsurpedStays DEF IInv
  <2> QED
    BY <1>2, <2>1, NextLock, NextHist, NextFloor, NextDone, NextRefusal, NextGranted DEF IInv, Ordered
<1> QED
  BY <1>1, <1>2 DEF IInv

LEMMA IInvHolds == Spec => []IInv
BY InitIInv, NextIInv, PTL DEF Spec

\* The types of the variables, whatever happens to the lock.
THEOREM EntitlementsTyped == Spec => []TypeOK
<1>1. Typed => TypeOK
  BY DEF Typed
<1> QED
  BY <1>1, InitTyped, NextTyped, PTL DEF Spec

\* acquireLock excludes for as long as no lock was removed from under its owner,
\* however the locks of the dead are judged, removed and taken over: where a
\* process may touch the store, the lock is its own.
THEOREM LockExcludes == Spec => [](usurped \/ LockInv)
<1>1. IInv => usurped \/ LockInv
  BY DEF IInv, Ordered
<1> QED
  BY <1>1, IInvHolds, PTL

\* The history is one chain of which every copy ever in place is a beginning,
\* and the anchor is never behind it: the copy that the anchor admits is the
\* whole history.  The chain forks only after a lock was removed from under its
\* owner.
THEOREM HistoryIsOne == Spec => [](usurped \/ HistInv)
<1>1. IInv => usurped \/ HistInv
  BY DEF IInv, Ordered
<1> QED
  BY <1>1, IInvHolds, PTL

\* No command acts on a history that lacks a record which was in place when it
\* began, however often older copies are put back.
THEOREM NeverGoesBack == Spec => []AcceptedNeverGoesBack
<1>1. ASSUME IInv, ~usurped PROVE AcceptedNeverGoesBack
  <2>0. Ordered /\ Typed
    BY <1>1 DEF IInv
  <2>1. ASSUME NEW p \in Procs PROVE proc[p].floor \in Nat /\ proc[p].floor <= Len(chain)
    <3>1. proc[p] \in Process
      BY <2>0 DEF Typed, TypeOK
    <3> QED
      BY <2>0, <3>1 DEF Ordered, FloorInv, Process
  <2>2. ASSUME NEW p \in Procs, proc[p].pc = "decide"
        PROVE  /\ Len(proc[p].view) >= proc[p].floor
               /\ \A i \in 1 .. proc[p].floor : proc[p].view[i] = chain[i]
    <3>1. proc[p].floor <= Len(proc[p].view) /\ Prefix(proc[p].view, chain)
      BY <2>0, <2>2 DEF Ordered, FloorInv
    <3>2. Len(proc[p].view) \in Nat
      <4>1. proc[p] \in Process
        BY <2>0 DEF Typed, TypeOK
      <4> QED
        BY <4>1 DEF Process
    <3> QED
      BY <2>1, <3>1, <3>2 DEF Prefix
  <2>3. ASSUME NEW p \in Procs, proc[p].pc \in {"compare", "anchor", "store"}
        PROVE  /\ Len(RecordsOf(proc[p].before)) >= proc[p].floor
               /\ \A i \in 1 .. proc[p].floor : RecordsOf(proc[p].before)[i] = chain[i]
    <3>1. RecordsOf(proc[p].before) = chain
      BY <2>0, <2>3 DEF Ordered, WriterInv, WriterOf, Writing
    <3>2. Len(chain) \in Nat
      BY <2>0 DEF Typed, TypeOK
    <3> QED
      BY <2>1, <3>1, <3>2
  <2> QED
    BY <2>2, <2>3 DEF AcceptedNeverGoesBack
<1>2. IInv => AcceptedNeverGoesBack
  BY <1>1 DEF AcceptedNeverGoesBack
<1> QED
  BY <1>2, IInvHolds, PTL

\* While no older copy is put back and no lock removed from under its owner, the
\* record of every command that returned one stays in the store.
THEOREM MutationsStay == Spec => []ReturnedMutationsStay
<1>1. ASSUME IInv, ~usurped, restores = 0, NEW c \in done
      PROVE  \E i \in DOMAIN RecordsOf(file) : file.records[i].call = c
  <2>1. RecordsOf(file) = chain
    BY <1>1 DEF IInv, Ordered, HistInv
  <2>2. PICK i \in DOMAIN chain : chain[i].call = c
    BY <1>1 DEF IInv, Ordered, DoneInv, CallsOf
  <2>3. file # None
    BY <2>1, <2>2 DEF RecordsOf
  <2>4. file.records = chain
    BY <2>1, <2>3 DEF RecordsOf
  <2> QED
    BY <2>1, <2>2, <2>4
<1>2. IInv => ReturnedMutationsStay
  BY <1>1 DEF ReturnedMutationsStay
<1> QED
  BY <1>2, IInvHolds, PTL

\* A writer is refused for the integrity of the store only when a writer died
\* between anchor and store, an older copy was put back, or a lock was removed
\* from under its owner.
THEOREM RefusalsAreCaused == Spec => []RefusalsHaveACause
<1>1. IInv => RefusalsHaveACause
  BY DEF IInv, Ordered, RefusalsHaveACause
<1> QED
  BY <1>1, IInvHolds, PTL

\* Until a lock is removed from under its owner, every grant in the history was
\* in force before its record, or approved in the command that appended it.
THEOREM GrantsAreAsked == Spec => []NothingGrantedUnasked
<1>1. IInv => NothingGrantedUnasked
  BY DEF IInv, Ordered, AllAsked, NothingGrantedUnasked
<1> QED
  BY <1>1, IInvHolds, PTL

================================================================================
