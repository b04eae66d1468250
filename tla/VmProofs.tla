------------------------------- MODULE VmProofs -------------------------------
(***************************************************************************)
(* Theorems of the micro-VM.                                                *)
(*                                                                          *)
(* Netstack: an end of stream that either end of a flow hears is the other  *)
(* end's own, and nothing of the stream is missing, whatever the sizes of   *)
(* the buffers.                                                             *)
(*                                                                          *)
(* MicroVm: whatever hosts and commands come and go under one name, a VM    *)
(* that is on can be found, and what an up reports is of its own boot.      *)
(***************************************************************************)
EXTENDS Netstack, MicroVm, TLAPS

\* The pcs of the external side where there is no second thread, yet or ever.
BeforePump == {"asking", "waiting", "unspawned", "peek", "decide", "connect",
               "head", "pump", "refuse", "abort", "request", "hello", "response",
               "reply"}

\* A unit that a thread has read and not yet written.
InHand(pc) == IF pc \in {"write", "hello", "reply"} THEN 1 ELSE 0

\* Every unit of the guest is in one place, until tcp fails to take one.
SentIsAccounted ==
    up.end # "error" =>
        guest.sent = sock.rx + bridge.g2e + main.head + up.passed + InHand(up.pc)

\* Every unit of the external stream is in one place, until the flow aborts.
ReadIsAccounted ==
    ~ bridge.aborted =>
        main.read = bridge.e2g + sock.tx + guest.got + InHand(main.pc)

NoPumpBefore == main.pc \in BeforePump => up.pc = "none"

\* The peeked head has been replayed when the pump starts.
NoHeadLeft ==
    up.pc # "none" \/ main.pc \in {"asking", "waiting", "unspawned", "pump"} =>
        main.head = 0

\* A published FIN is the guest's, and nothing is left to receive.
NothingAfterFin == bridge.guestFin => guest.end # "open" /\ sock.rx = 0

\* A socket that can no longer hear, and was not aborted by the service that
\* the engine has just done, was ended by the guest.
EndedByGuest ==
    /\ sock.state \in {"closeWait", "closing", "lastAck", "timeWait"} =>
           guest.end # "open"
    /\ sock.state = "closed" /\ engine # "reap" => guest.end # "open"

UpAfterHandshake ==
    bridge.established =>
        sock.state \notin {"none", "listen", "synSent", "synReceived"}

FinAfterHandshake == bridge.guestFin => bridge.established

AskedFirst ==
    main.pc = "asking" => kind = "originated" /\ sock.state = "none"

EofIsLast ==
    up.end = "eof" =>
        bridge.guestFin /\ bridge.g2e = 0 /\ up.pc \in {"shut", "done"}

\* A thread that has come to an end reads no more.
EndIsLast == up.end # "none" => up.pc \in {"shut", "done"}

\* The guest's connection is ended only for a flow that ended cleanly and has
\* been drained.
ClosedCleanly ==
    sock.state \in Ending =>
        bridge.extFin /\ ~ bridge.aborted /\ bridge.e2g = 0

ExtFinIsLast ==
    bridge.extFin =>
        /\ main.pc \in {"join", "done"}
        /\ Pumped => main.clean \/ bridge.aborted

FinishIsDecided ==
    main.pc = "finish" => (Pumped => main.clean \/ bridge.aborted)

Inv ==
    /\ TypeOK
    /\ SentIsAccounted /\ ReadIsAccounted /\ NoPumpBefore /\ NoHeadLeft
    /\ NothingAfterFin /\ EndedByGuest /\ UpAfterHandshake
    /\ FinAfterHandshake /\ AskedFirst
    /\ EofIsLast /\ EndIsLast /\ ClosedCleanly /\ ExtFinIsLast /\ FinishIsDecided

-------------------------------------------------------------------------------

LEMMA InitInv == Init => Inv
  BY BuffersAssumption
     DEF Init, Inv, TypeOK, SentIsAccounted, ReadIsAccounted, NoPumpBefore,
         NoHeadLeft, NothingAfterFin, EndedByGuest, UpAfterHandshake,
         FinAfterHandshake, AskedFirst, EofIsLast, EndIsLast, ClosedCleanly,
         ExtFinIsLast, FinishIsDecided, Pumped, BeforePump,
         InHand, SockStates, Sending, Hearing, Ending, MainPcs

\* What fits is part of what there is, and of the room.
LEMMA FitsInto ==
    ASSUME NEW n \in Nat, NEW room \in Nat
    PROVE  /\ Fits(n, room) \in Nat
           /\ Fits(n, room) <= n /\ Fits(n, room) <= room
           /\ n = 0 => Fits(n, room) = 0
  BY DEF Fits

\* service_flow() closes the socket after handing it the last out units.
ClosesAfter(out) == bridge.extFin /\ bridge.e2g = out /\ sock.state \in Sending

\* service_flow() took in units from a live socket and handed it out units.
ServicedBy(in, out) ==
    /\ in <= sock.rx /\ bridge.g2e + in <= HighWater
    /\ out <= bridge.e2g /\ sock.tx + out <= TcpBuf
    /\ sock.state \notin Sending => out = 0
    /\ bridge' = [bridge EXCEPT
          !.g2e = @ + in, !.e2g = @ - out,
          !.established = @ \/ sock.state \in Sending,
          !.guestFin = @ \/ /\ bridge.established \/ sock.state \in Sending
                            /\ sock.state \notin Hearing /\ sock.rx = in]
    /\ sock' = [state |-> sock'.state, rx |-> sock.rx - in, tx |-> sock.tx + out]
    /\ ~ bridge.aborted =>
          sock'.state = IF ClosesAfter(out)
                        THEN IF sock.state = "closeWait" THEN "lastAck"
                                                         ELSE "finWait1"
                        ELSE sock.state
    /\ bridge.aborted =>
          \/ sock'.state = "closed"
          \/ sock'.state = sock.state /\ sock.state \in {"closed", "timeWait"}

LEMMA Serviced ==
    ASSUME TypeOK, Service, sock.state \notin {"none", "removed"}
    PROVE  \E in \in Nat, out \in Nat : ServicedBy(in, out)
  <1> DEFINE b1 == [bridge EXCEPT !.established = @ \/ MaySend(sock)]
             fit == Fits(sock.rx, HighWater - b1.g2e)
             s2 == [sock EXCEPT !.rx = @ - fit]
             b2 == [b1 EXCEPT !.g2e = @ + fit, !.guestFin = HeardFin(b1, s2)]
             give == IF MaySend(s2) THEN Fits(b2.e2g, TcpBuf - s2.tx) ELSE 0
             s3 == [s2 EXCEPT !.tx = @ + give]
             b3 == [b2 EXCEPT !.e2g = @ - give]
             closing == IF s3.state = "closeWait" THEN "lastAck" ELSE "finWait1"
             s4 == IF Closes(b3, s3) THEN [s3 EXCEPT !.state = closing] ELSE s3
  <1>1. /\ bridge' = b3
        /\ sock' = IF Aborts(b3, s4) THEN [s4 EXCEPT !.state = "closed"] ELSE s4
    BY Zenon DEF Service
  <1>2. /\ sock.rx \in Nat /\ sock.tx \in Nat /\ sock.state \in SockStates
        /\ HighWater - bridge.g2e \in Nat /\ TcpBuf - sock.tx \in Nat
        /\ bridge.g2e \in Nat /\ bridge.e2g \in Nat
        /\ b1.g2e = bridge.g2e /\ b1.e2g = bridge.e2g
    BY BuffersAssumption DEF TypeOK
  <1>3. fit \in Nat /\ fit <= sock.rx /\ fit <= HighWater - bridge.g2e
    <2> HIDE DEF b1
    <2> QED  BY <1>2, FitsInto
  <1>4. s2 = [state |-> sock.state, rx |-> sock.rx - fit, tx |-> sock.tx]
    <2> HIDE DEF fit
    <2> QED  BY DEF TypeOK
  <1>5. b2.e2g = bridge.e2g
    BY DEF TypeOK
  <1>6. /\ give \in Nat /\ give <= bridge.e2g /\ give <= TcpBuf - sock.tx
        /\ sock.state \notin Sending => give = 0
    <2> HIDE DEF b2, s2
    <2> QED  BY <1>2, <1>4, <1>5, FitsInto DEF MaySend
  <1>7. s3 = [state |-> sock.state, rx |-> sock.rx - fit, tx |-> sock.tx + give]
    <2> HIDE DEF s2, give
    <2> QED  BY <1>4
  <1>8. b3 = [bridge EXCEPT
              !.g2e = @ + fit, !.e2g = @ - give,
              !.established = @ \/ sock.state \in Sending,
              !.guestFin = @ \/
                 /\ bridge.established \/ sock.state \in Sending
                 /\ sock.state \notin Hearing /\ sock.rx = fit]
    <2>1. MaySend(sock) <=> sock.state \in Sending
      BY DEF MaySend
    <2>2. MayRecv(s2) <=> sock.state \in Hearing \/ sock.rx # fit
      <3> HIDE DEF fit, s2
      <3> QED  BY <1>2, <1>3, <1>4 DEF MayRecv
    <2> HIDE DEF fit, give, s2
    <2> QED  BY <2>1, <2>2 DEF TypeOK, HeardFin
  <1>9. Closes(b3, s3) <=> ClosesAfter(give)
    <2> HIDE DEF s3, b3, fit, give
    <2> QED  BY <1>2, <1>6, <1>7, <1>8 DEF Closes, ClosesAfter, MaySend, TypeOK
  <1>10. b3.aborted = bridge.aborted
    <2> HIDE DEF s3, b3, fit, give
    <2> QED  BY <1>8 DEF TypeOK
  <1>11. s4 = [state |-> IF Closes(b3, s3)
                         THEN IF sock.state = "closeWait" THEN "lastAck"
                                                          ELSE "finWait1"
                         ELSE sock.state,
               rx |-> sock.rx - fit, tx |-> sock.tx + give]
    <2> HIDE DEF s3, b3, fit, give
    <2> QED  BY <1>7
  <1> HIDE DEF b3, s3, s4, fit, give
  <1>12. /\ sock'.rx = sock.rx - fit /\ sock'.tx = sock.tx + give
         /\ sock' = [state |-> sock'.state, rx |-> sock'.rx, tx |-> sock'.tx]
    BY <1>1, <1>11
  <1>13. Aborts(b3, s4) <=>
            bridge.aborted /\ s4.state \in Alive \ {"timeWait"}
    BY <1>10 DEF Aborts
  <1>14. bridge.aborted =>
            \/ sock'.state = "closed"
            \/ sock'.state = sock.state /\ sock.state \in {"closed", "timeWait"}
    BY <1>1, <1>2, <1>9, <1>11, <1>13 DEF ClosesAfter, Alive, SockStates, Sending, Hearing, Ending
  <1>15. ~ bridge.aborted => sock'.state = s4.state
    BY <1>1, <1>13
  <1>16. ServicedBy(fit, give)
    <2>1. /\ bridge.g2e + fit <= HighWater /\ sock.tx + give <= TcpBuf
          /\ fit <= sock.rx /\ give <= bridge.e2g
      BY <1>2, <1>3, <1>6, BuffersAssumption
    <2>2. sock' = [state |-> sock'.state, rx |-> sock.rx - fit,
                   tx |-> sock.tx + give]
      BY <1>12
    <2>3. ~ bridge.aborted =>
            sock'.state = IF ClosesAfter(give)
                          THEN IF sock.state = "closeWait" THEN "lastAck"
                                                           ELSE "finWait1"
                          ELSE sock.state
      BY <1>9, <1>11, <1>15
    <2> QED  BY <1>1, <1>6, <1>8, <1>14, <2>1, <2>2, <2>3 DEF ServicedBy
  <1> QED
    BY <1>3, <1>6, <1>16

LEMMA ServiceTypes == TypeOK /\ Service => TypeOK'
  <1> SUFFICES ASSUME TypeOK, Service PROVE TypeOK'
    OBVIOUS
  <1>1. CASE sock.state \in {"none", "removed"}
    BY <1>1 DEF TypeOK, Service
  <1>2. CASE sock.state \notin {"none", "removed"}
    <2>1. PICK in \in Nat, out \in Nat : ServicedBy(in, out)
      BY <1>2, Serviced
    <2>2. /\ sock'.rx \in 0 .. TcpBuf /\ sock'.tx \in 0 .. TcpBuf
          /\ sock'.state \in SockStates
      BY <2>1, BuffersAssumption DEF ServicedBy, TypeOK, SockStates, Sending, Hearing, Ending
    <2>3. sock' \in [state : SockStates, rx : 0 .. TcpBuf, tx : 0 .. TcpBuf]
      BY <2>1, <2>2 DEF ServicedBy
    <2>4. /\ bridge.g2e + in \in 0 .. HighWater
          /\ bridge.e2g - out \in 0 .. HighWater
      BY <2>1, BuffersAssumption DEF ServicedBy, TypeOK
    <2>5. bridge' \in [g2e : 0 .. HighWater, e2g : 0 .. HighWater,
                       guestFin : BOOLEAN, extFin : BOOLEAN,
                       established : BOOLEAN, aborted : BOOLEAN]
      BY <2>1, <2>4 DEF ServicedBy, TypeOK
    <2>6. /\ main' \in [pc : MainPcs, head : Nat, read : Nat, clean : BOOLEAN]
          /\ engine' = "reap" /\ UNCHANGED <<kind, up, guest>>
      BY <1>2 DEF Service, TypeOK, MainPcs
    <2> QED  BY <2>3, <2>5, <2>6 DEF TypeOK
  <1> QED  BY <1>1, <1>2

LEMMA TypeStep == TypeOK /\ [Next]_vars => TypeOK'
  <1> SUFFICES ASSUME TypeOK, [Next]_vars PROVE TypeOK'
    OBVIOUS
  <1> USE DEF TypeOK
  <1>1. CASE Originate
    BY <1>1, BuffersAssumption DEF Originate, Polls, Becomes, Sending, Hearing, Ending, Alive,
         SockStates, MainPcs
  <1>2. CASE OriginateFails
    BY <1>2, BuffersAssumption DEF OriginateFails, Becomes, Sending, Hearing, Ending, Alive, SockStates,
         MainPcs
  <1>3. CASE SocketTimesOut
    BY <1>3, BuffersAssumption DEF SocketTimesOut, Polls, Becomes, Sending, Hearing, Ending, Alive,
         SockStates
  <1>4. CASE PollEnds
    BY <1>4 DEF PollEnds
  <1>5. CASE Reap
    <2>1. sock' \in [state : SockStates, rx : 0 .. TcpBuf, tx : 0 .. TcpBuf]
      BY <1>5, BuffersAssumption DEF Reap, Becomes, Sending, Hearing, Ending, Alive, SockStates
    <2>2. bridge' \in [g2e : 0 .. HighWater, e2g : 0 .. HighWater,
                        guestFin : BOOLEAN, extFin : BOOLEAN,
                        established : BOOLEAN, aborted : BOOLEAN]
      BY <1>5, BuffersAssumption DEF Reap, Becomes
    <2> QED  BY <1>5, <2>1, <2>2 DEF Reap
  <1>6. CASE GuestSyn
    BY <1>6, BuffersAssumption DEF GuestSyn, Polls, Becomes, Sending, Hearing, Ending, Alive, SockStates
  <1>7. CASE GuestAccepts
    BY <1>7, BuffersAssumption DEF GuestAccepts, Polls, Becomes, Sending, Hearing, Ending, Alive,
         SockStates
  <1>8. CASE GuestSends
    BY <1>8, BuffersAssumption DEF GuestSends, Polls, Becomes, Sending, Hearing, Ending, Alive,
         SockStates
  <1>9. CASE GuestAcks
    BY <1>9, BuffersAssumption DEF GuestAcks, Polls, Becomes, Sending, Hearing, Ending, Alive, SockStates
  <1>10. CASE GuestCloses
    BY <1>10, BuffersAssumption DEF GuestCloses, Polls, Becomes, Sending, Hearing, Ending, Alive,
         SockStates
  <1>11. CASE GuestAcksFin
    BY <1>11, BuffersAssumption DEF GuestAcksFin, Polls, Becomes, Sending, Hearing, Ending, Alive,
         SockStates
  <1>12. CASE GuestResets
    BY <1>12, BuffersAssumption DEF GuestResets, Polls, Becomes, Sending, Hearing, Ending, Alive,
         SockStates
  <1>13. CASE GuestVanishes
    BY <1>13, BuffersAssumption DEF GuestVanishes, Polls, Becomes, Sending, Hearing, Ending, Alive,
         SockStates
  <1>14. CASE CallerLooks
    BY <1>14 DEF CallerLooks, ByMain, MainGoes, MainPcs
  <1>15. CASE CallerTimesOut
    BY <1>15 DEF CallerTimesOut, ByMain, MainGoes, MainPcs
  <1>16. CASE PeekTakes
    BY <1>16, BuffersAssumption DEF PeekTakes, ByMain, MainGoes, MainPcs
  <1>17. CASE PeekEnds
    BY <1>17 DEF PeekEnds, ByMain, MainGoes, MainPcs
  <1>18. CASE Decide
    BY <1>18 DEF Decide, ByMain, MainGoes, MainPcs
  <1>19. CASE Refuse
    <2>1. main' \in [pc : MainPcs, head : Nat, read : Nat, clean : BOOLEAN]
      <3> DEFINE n == IF bridge.aborted THEN main.read ELSE main.read + 1
      <3>1. n \in Nat
        OBVIOUS
      <3>2. main' = [main EXCEPT !.pc = "finish", !.clean = TRUE, !.read = n]
        BY <1>19 DEF Refuse, MainGoes, ByMain
      <3> HIDE DEF n
      <3> QED  BY <3>1, <3>2 DEF MainPcs
    <2>2. bridge' \in [g2e : 0 .. HighWater, e2g : 0 .. HighWater,
                        guestFin : BOOLEAN, extFin : BOOLEAN,
                        established : BOOLEAN, aborted : BOOLEAN]
      BY <1>19, BuffersAssumption DEF Refuse, ByMain, MainGoes
    <2> QED  BY <1>19, <2>1, <2>2 DEF Refuse, ByMain
  <1>20. CASE Connect
    BY <1>20 DEF Connect, ByMain, MainGoes, MainPcs
  <1>21. CASE ReplayHead
    <2>1. main' \in [pc : MainPcs, head : Nat, read : Nat, clean : BOOLEAN]
      <3>1. \/ main' = [main EXCEPT !.pc = "pump", !.head = 0]
            \/ main' = [main EXCEPT !.pc = "abort"]
        BY <1>21 DEF ReplayHead, MainGoes
      <3>2. {"pump", "abort"} \subseteq MainPcs /\ 0 \in Nat
        BY DEF MainPcs
      <3>3. main \in [pc : MainPcs, head : Nat, read : Nat, clean : BOOLEAN]
        OBVIOUS
      <3> HIDE DEF TypeOK
      <3> QED  BY <3>1, <3>2, <3>3
    <2>2. up' \in [pc : {"none", "read", "write", "shut", "done"},
                    passed : Nat, end : {"none", "eof", "error"}]
      BY <1>21 DEF ReplayHead, MainGoes
    <2> QED  BY <1>21, <2>1, <2>2 DEF ReplayHead
  <1>22. CASE AbortFlow
    BY <1>22 DEF AbortFlow, ByMain, MainGoes, MainPcs
  <1>23. CASE StartPump
    BY <1>23 DEF StartPump, MainGoes, MainPcs
  <1>24. CASE WriteBridge
    BY <1>24, BuffersAssumption DEF WriteBridge, ByMain, MainGoes, MainPcs
  <1>25. CASE CopyFailed
    BY <1>25 DEF CopyFailed, ByMain, MainGoes, MainPcs
  <1>26. CASE MarkExtFin
    BY <1>26 DEF MarkExtFin, ByMain, MainGoes, MainPcs
  <1>27. CASE Join
    BY <1>27 DEF Join, ByMain, MainGoes, MainPcs
  <1>28. CASE TcpGives
    <2>1. main' \in [pc : MainPcs, head : Nat, read : Nat, clean : BOOLEAN]
      <3> DEFINE n == main.read + 1
      <3>1. n \in Nat
        OBVIOUS
      <3>2. main' = [main EXCEPT !.pc = "write", !.read = n]
        BY <1>28 DEF TcpGives, MainGoes, ByMain
      <3> HIDE DEF n
      <3> QED  BY <3>1, <3>2 DEF MainPcs
    <2> QED  BY <1>28, <2>1 DEF TcpGives, ByMain
  <1>29. CASE TcpEnds
    <2>1. main' \in [pc : MainPcs, head : Nat, read : Nat, clean : BOOLEAN]
      BY <1>29 DEF TcpEnds, ByMain, MainGoes, MainPcs
    <2> QED  BY <1>29, <2>1 DEF TcpEnds, ByMain
  <1>30. CASE TcpFails
    BY <1>30 DEF TcpFails, ByMain, MainGoes, MainPcs
  <1>31. CASE ReadBridge
    <2>1. up' \in [pc : {"none", "read", "write", "shut", "done"},
                    passed : Nat, end : {"none", "eof", "error"}]
      BY <1>31 DEF ReadBridge, ByUp
    <2>2. bridge' \in [g2e : 0 .. HighWater, e2g : 0 .. HighWater,
                        guestFin : BOOLEAN, extFin : BOOLEAN,
                        established : BOOLEAN, aborted : BOOLEAN]
      BY <1>31, BuffersAssumption DEF ReadBridge, ByUp
    <2> QED  BY <1>31, <2>1, <2>2 DEF ReadBridge, ByUp
  <1>32. CASE WriteTcp
    <2>1. up' \in [pc : {"none", "read", "write", "shut", "done"},
                    passed : Nat, end : {"none", "eof", "error"}]
      <3> DEFINE n == up.passed + 1
      <3>1. n \in Nat
        OBVIOUS
      <3>2. \/ up' = [up EXCEPT !.pc = "read", !.passed = n]
            \/ up' = [up EXCEPT !.pc = "shut", !.end = "error"]
        BY <1>32 DEF WriteTcp, ByUp
      <3> HIDE DEF n
      <3> QED  BY <3>1, <3>2 DEF MainPcs
    <2> QED  BY <1>32, <2>1 DEF WriteTcp, ByUp
  <1>33. CASE Shutdown
    BY <1>33 DEF Shutdown, ByUp
  <1>34. CASE InspectorReads
    <2>1. main' \in [pc : MainPcs, head : Nat, read : Nat, clean : BOOLEAN]
      <3> DEFINE n == main.head + 1
      <3>1. n \in Nat
        OBVIOUS
      <3>2. main' = [main EXCEPT !.head = n]
        BY <1>34 DEF InspectorReads
      <3> HIDE DEF n
      <3> QED  BY <3>1, <3>2 DEF MainPcs
    <2> QED  BY <1>34, <2>1, BuffersAssumption DEF InspectorReads, ByMain
  <1>35. CASE InspectorAnswers
    <2>1. main' \in [pc : MainPcs, head : Nat, read : Nat, clean : BOOLEAN]
      <3> DEFINE n == main.read + 1
      <3>1. n \in Nat
        OBVIOUS
      <3>2. main' = [main EXCEPT !.pc = "hello", !.read = n]
        BY <1>35 DEF InspectorAnswers
      <3> HIDE DEF n
      <3> QED  BY <3>1, <3>2 DEF MainPcs
    <2> QED  BY <1>35, <2>1, BuffersAssumption DEF InspectorAnswers, ByMain
  <1>36. CASE InspectorForwards
    BY <1>36 DEF InspectorForwards, ByMain, MainGoes, MainPcs
  <1>37. CASE InspectorRefuses
    BY <1>37 DEF InspectorRefuses, ByMain, MainGoes, MainPcs
  <1>38. CASE InspectorHearsTheEnd
    BY <1>38 DEF InspectorHearsTheEnd, ByMain, MainGoes, MainPcs
  <1>39. CASE InspectorWrites
    BY <1>39, BuffersAssumption DEF InspectorWrites, ByMain, MainGoes, MainPcs
  <1>40. CASE UpstreamGives
    <2>1. main' \in [pc : MainPcs, head : Nat, read : Nat, clean : BOOLEAN]
      <3> DEFINE n == main.read + 1
      <3>1. n \in Nat
        OBVIOUS
      <3>2. main' = [main EXCEPT !.pc = "reply", !.read = n]
        BY <1>40 DEF UpstreamGives
      <3> HIDE DEF n
      <3> QED  BY <3>1, <3>2 DEF MainPcs
    <2> QED  BY <1>40, <2>1, BuffersAssumption DEF UpstreamGives, ByMain
  <1>41. CASE UpstreamEnds
    <2>1. PICK clean \in BOOLEAN :
            main' = [main EXCEPT !.pc = "finish", !.clean = clean]
      BY <1>41 DEF UpstreamEnds
    <2>2. main' \in [pc : MainPcs, head : Nat, read : Nat, clean : BOOLEAN]
      BY <2>1 DEF MainPcs
    <2> QED  BY <1>41, <2>2 DEF UpstreamEnds, ByMain
  <1>s. CASE Service
    BY <1>s, ServiceTypes
  <1>u. CASE UNCHANGED vars
    BY <1>u DEF vars
  <1> QED
    BY <1>1, <1>2, <1>3, <1>4, <1>5, <1>6, <1>7, <1>8, <1>9, <1>10, <1>11,
       <1>12, <1>13, <1>14, <1>15, <1>16, <1>17, <1>18, <1>19, <1>20, <1>21,
       <1>22, <1>23, <1>24, <1>25, <1>26, <1>27, <1>28, <1>29, <1>30, <1>31,
       <1>32, <1>33, <1>34, <1>35, <1>36, <1>37, <1>38, <1>39, <1>40, <1>41,
       <1>s, <1>u
       DEF Next, EngineStep, GuestStep, MainStep, InspectStep, TcpStep, UpStep

\* What Service leaves alone, and what it makes of the external side.
LEMMA ServiceInv ==
    ASSUME Inv, Service, TypeOK'
    PROVE  Inv'
  <1>1. /\ engine = "service" /\ engine' = "reap" /\ UNCHANGED <<kind, up, guest>>
        /\ \/ main' = main
           \/ /\ main' = [main EXCEPT !.pc = "peek"]
              /\ main.pc = "unspawned"
    <2>1. CASE sock.state \in {"none", "removed"}
      BY <2>1 DEF Service
    <2>2. CASE sock.state \notin {"none", "removed"}
      BY <2>2 DEF Service, Inv, TypeOK
    <2> QED  BY <2>1, <2>2
  <1>2. /\ main'.head = main.head /\ main'.read = main.read
        /\ main'.clean = main.clean
        /\ main'.pc = main.pc \/ (main.pc = "unspawned" /\ main'.pc = "peek")
    BY <1>1 DEF Inv, TypeOK
  <1>3. CASE sock.state \in {"none", "removed"}
    <2>1. UNCHANGED <<sock, bridge, main>>
      BY <1>3 DEF Service
    <2> QED
      BY <1>1, <1>3, <2>1
         DEF Inv, SentIsAccounted, ReadIsAccounted, NoPumpBefore, NoHeadLeft,
             NothingAfterFin, EndedByGuest, UpAfterHandshake, FinAfterHandshake,
             AskedFirst, EofIsLast, EndIsLast, ClosedCleanly, ExtFinIsLast,
             FinishIsDecided, Pumped, InHand
  <1>4. CASE sock.state \notin {"none", "removed"}
    <2>1. PICK in \in Nat, out \in Nat : ServicedBy(in, out)
      BY <1>4, Serviced DEF Inv
    <2>2. /\ sock'.rx = sock.rx - in /\ sock'.tx = sock.tx + out
          /\ bridge'.g2e = bridge.g2e + in /\ bridge'.e2g = bridge.e2g - out
      BY <2>1 DEF ServicedBy, Inv, TypeOK
    <2>3. bridge'.extFin = bridge.extFin /\ bridge'.aborted = bridge.aborted
      BY <2>1 DEF ServicedBy, Inv, TypeOK
    <2>4. /\ bridge'.established <=> bridge.established \/ sock.state \in Sending
          /\ bridge'.guestFin <=>
               \/ bridge.guestFin
               \/ /\ bridge.established \/ sock.state \in Sending
                  /\ sock.state \notin Hearing /\ sock.rx = in
      BY <2>1 DEF ServicedBy, Inv, TypeOK
    <2>5. /\ sock.rx \in Nat /\ sock.tx \in Nat
          /\ bridge.g2e \in Nat /\ bridge.e2g \in Nat
          /\ in <= sock.rx /\ out <= bridge.e2g
          /\ main.head \in Nat /\ main.read \in Nat /\ up.passed \in Nat
          /\ guest.sent \in Nat /\ guest.got \in Nat
      BY <2>1 DEF Inv, TypeOK, ServicedBy
    <2>6. SentIsAccounted'
      BY <1>1, <1>2, <2>2, <2>5 DEF Inv, SentIsAccounted, InHand
    <2>7. ReadIsAccounted'
      BY <1>1, <1>2, <2>2, <2>3, <2>5 DEF Inv, ReadIsAccounted, InHand
    <2>8. NoPumpBefore' /\ NoHeadLeft' /\ AskedFirst' /\ FinishIsDecided'
      BY <1>1, <1>2, <1>4, <2>3
         DEF Inv, NoPumpBefore, NoHeadLeft, AskedFirst, FinishIsDecided, Pumped,
             BeforePump
    <2>9. sock.state \in SockStates
      BY DEF Inv, TypeOK
    <2>10. /\ bridge.established \/ sock.state \in Sending
           /\ sock.state \notin Hearing
           => guest.end # "open"
      BY <1>1, <1>4, <2>9
         DEF Inv, UpAfterHandshake, EndedByGuest, SockStates, Sending, Hearing, Ending
    <2>11. NothingAfterFin'
      BY <1>1, <2>2, <2>4, <2>5, <2>10 DEF Inv, NothingAfterFin
    <2>12. EofIsLast'
      BY <1>1, <2>2, <2>4, <2>5 DEF Inv, EofIsLast, NothingAfterFin
    <2>18. EndIsLast'
      BY <1>1 DEF Inv, EndIsLast
    <2>13. \/ sock'.state = sock.state /\ ~ (~ bridge.aborted /\ ClosesAfter(out))
           \/ /\ ~ bridge.aborted /\ ClosesAfter(out)
              /\ sock'.state = IF sock.state = "closeWait" THEN "lastAck"
                                                           ELSE "finWait1"
           \/ bridge.aborted /\ sock'.state = "closed"
      BY <2>1 DEF ServicedBy
    <2>14. EndedByGuest'
      BY <1>1, <2>13 DEF Inv, EndedByGuest
    <2>15. UpAfterHandshake'
      BY <1>4, <2>4, <2>9, <2>13
         DEF Inv, UpAfterHandshake, Sending
    <2>16. ClosedCleanly'
      <3>1. CASE sock'.state = sock.state
        <4>1. sock.state \in Ending => out = 0
          BY <2>1, <2>5 DEF ServicedBy, Sending, Ending
        <4> QED  BY <2>2, <2>3, <2>5, <3>1, <4>1 DEF Inv, ClosedCleanly
      <3>2. CASE ~ bridge.aborted /\ ClosesAfter(out)
        BY <2>2, <2>3, <2>5, <3>2 DEF ClosesAfter, ClosedCleanly
      <3>3. CASE bridge.aborted /\ sock'.state = "closed"
        BY <3>3 DEF ClosedCleanly, Ending
      <3> QED  BY <2>13, <3>1, <3>2, <3>3
    <2>17. ExtFinIsLast'
      BY <1>1, <1>2, <2>3 DEF Inv, ExtFinIsLast, Pumped
    <2>19. FinAfterHandshake'
      BY <2>4 DEF Inv, FinAfterHandshake
    <2> QED
      BY <2>6, <2>7, <2>8, <2>11, <2>12, <2>14, <2>15, <2>16, <2>17,
         <2>18, <2>19 DEF Inv
  <1> QED
    BY <1>3, <1>4

\* The steps that move units and turn the external side, field by field.
LEMMA HeadReplayed ==
    ASSUME TypeOK, ReplayHead
    PROVE  /\ UNCHANGED <<kind, engine, sock, bridge, guest>>
           /\ main.pc = "head"
           /\ main'.read = main.read /\ main'.clean = main.clean
           /\ up'.pc = up.pc /\ up'.end = up.end
           /\ \/ /\ main'.pc = "pump" /\ main'.head = 0
                 /\ up'.passed = up.passed + main.head
              \/ /\ main'.pc = "abort" /\ main'.head = main.head
                 /\ up'.passed = up.passed
  <1>1. main \in [pc : MainPcs, head : Nat, read : Nat, clean : BOOLEAN]
    BY DEF TypeOK
  <1>2. up \in [pc : {"none", "read", "write", "shut", "done"},
                passed : Nat, end : {"none", "eof", "error"}]
    BY DEF TypeOK
  <1> QED  BY <1>1, <1>2 DEF ReplayHead, MainGoes

LEMMA BridgeRead ==
    ASSUME TypeOK, ReadBridge
    PROVE  /\ UNCHANGED <<kind, engine, sock, main, guest>> /\ up.pc = "read"
           /\ up'.passed = up.passed
           /\ bridge'.e2g = bridge.e2g /\ bridge'.extFin = bridge.extFin
           /\ bridge'.aborted = bridge.aborted
           /\ bridge'.guestFin = bridge.guestFin
           /\ bridge'.established = bridge.established
           /\ \/ /\ bridge.g2e > 0 /\ bridge'.g2e = bridge.g2e - 1
                 /\ up'.pc = "write" /\ up'.end = up.end
              \/ /\ bridge.g2e = 0 /\ bridge'.g2e = 0 /\ up'.pc = "shut"
                 /\ \/ up'.end = "error"
                    \/ up'.end = "eof" /\ bridge.guestFin
  <1>1. up \in [pc : {"none", "read", "write", "shut", "done"},
                passed : Nat, end : {"none", "eof", "error"}]
    BY DEF TypeOK
  <1>2. bridge \in [g2e : 0 .. HighWater, e2g : 0 .. HighWater,
                    guestFin : BOOLEAN, extFin : BOOLEAN,
                    established : BOOLEAN, aborted : BOOLEAN]
    BY DEF TypeOK
  <1> QED  BY <1>1, <1>2 DEF ReadBridge, ByUp

\* The thread has read no end of stream yet.
LEMMA BridgeReadOnce ==
    ASSUME TypeOK, ReadBridge, EndIsLast
    PROVE  up'.end # "error" => up.end # "error"
  <1>1. up \in [pc : {"none", "read", "write", "shut", "done"},
                passed : Nat, end : {"none", "eof", "error"}]
    BY DEF TypeOK
  <1> QED  BY <1>1 DEF ReadBridge, ByUp, EndIsLast

LEMMA TcpWritten ==
    ASSUME TypeOK, WriteTcp
    PROVE  /\ UNCHANGED <<kind, engine, sock, bridge, main, guest>>
           /\ up.pc = "write"
           /\ \/ /\ up'.pc = "read" /\ up'.passed = up.passed + 1
                 /\ up'.end = up.end
              \/ up'.pc = "shut" /\ up'.end = "error"
  <1>1. up \in [pc : {"none", "read", "write", "shut", "done"},
                passed : Nat, end : {"none", "eof", "error"}]
    BY DEF TypeOK
  <1> QED  BY <1>1 DEF WriteTcp, ByUp

LEMMA InvStep == Inv /\ [Next]_vars => Inv'
  <1> SUFFICES ASSUME Inv, [Next]_vars PROVE Inv'
    OBVIOUS
  <1>t. TypeOK /\ TypeOK'
    BY TypeStep DEF Inv
  <1> USE <1>t DEF Inv, SentIsAccounted, ReadIsAccounted, NoPumpBefore, NoHeadLeft,
        NothingAfterFin, EndedByGuest, UpAfterHandshake, FinAfterHandshake,
        AskedFirst, EofIsLast, EndIsLast, ClosedCleanly, ExtFinIsLast,
        FinishIsDecided, Pumped, InHand,
        BeforePump, Sending, Hearing, Ending, Alive, SockStates, MainPcs
  <1>1. CASE Originate
    BY <1>1 DEF TypeOK, Originate, Polls, Becomes
  <1>2. CASE OriginateFails
    BY <1>2 DEF TypeOK, OriginateFails, Becomes
  <1>3. CASE SocketTimesOut
    BY <1>3 DEF TypeOK, SocketTimesOut, Polls, Becomes
  <1>4. CASE PollEnds
    BY <1>4 DEF TypeOK, PollEnds
  <1>5. CASE Reap
    BY <1>5 DEF TypeOK, Reap, Becomes
  <1>6. CASE GuestSyn
    BY <1>6 DEF TypeOK, GuestSyn, Polls, Becomes
  <1>7. CASE GuestAccepts
    BY <1>7 DEF TypeOK, GuestAccepts, Polls, Becomes
  <1>8. CASE GuestSends
    BY <1>8 DEF TypeOK, GuestSends, Polls, Becomes
  <1>9. CASE GuestAcks
    BY <1>9 DEF TypeOK, GuestAcks, Polls, Becomes
  <1>10. CASE GuestCloses
    BY <1>10 DEF TypeOK, GuestCloses, Polls, Becomes
  <1>11. CASE GuestAcksFin
    BY <1>11 DEF TypeOK, GuestAcksFin, Polls, Becomes
  <1>12. CASE GuestResets
    BY <1>12 DEF TypeOK, GuestResets, Polls, Becomes
  <1>13. CASE GuestVanishes
    BY <1>13 DEF TypeOK, GuestVanishes, Polls, Becomes
  <1>14. CASE CallerLooks
    BY <1>14 DEF TypeOK, CallerLooks, ByMain, MainGoes
  <1>15. CASE CallerTimesOut
    BY <1>15 DEF TypeOK, CallerTimesOut, ByMain, MainGoes
  <1>16. CASE PeekTakes
    BY <1>16 DEF TypeOK, PeekTakes, ByMain, MainGoes
  <1>17. CASE PeekEnds
    BY <1>17 DEF TypeOK, PeekEnds, ByMain, MainGoes
  <1>18. CASE Decide
    BY <1>18 DEF TypeOK, Decide, ByMain, MainGoes
  <1>19. CASE Refuse
    BY <1>19 DEF TypeOK, Refuse, ByMain, MainGoes
  <1>20. CASE Connect
    BY <1>20 DEF TypeOK, Connect, ByMain, MainGoes
  <1>21. CASE ReplayHead
    <2>1. /\ main.head \in Nat /\ up.passed \in Nat /\ sock.rx \in Nat
          /\ bridge.g2e \in Nat
      BY DEF TypeOK
    <2> QED  BY <1>21, <2>1, HeadReplayed
  <1>22. CASE AbortFlow
    BY <1>22 DEF TypeOK, AbortFlow, ByMain, MainGoes
  <1>23. CASE StartPump
    BY <1>23 DEF TypeOK, StartPump, MainGoes
  <1>24. CASE WriteBridge
    BY <1>24 DEF TypeOK, WriteBridge, ByMain, MainGoes
  <1>25. CASE CopyFailed
    BY <1>25 DEF TypeOK, CopyFailed, ByMain, MainGoes
  <1>26. CASE MarkExtFin
    BY <1>26 DEF TypeOK, MarkExtFin, ByMain, MainGoes
  <1>27. CASE Join
    BY <1>27 DEF TypeOK, Join, ByMain, MainGoes
  <1>28. CASE TcpGives
    BY <1>28 DEF TypeOK, TcpGives, ByMain, MainGoes
  <1>29. CASE TcpEnds
    BY <1>29 DEF TypeOK, TcpEnds, ByMain, MainGoes
  <1>30. CASE TcpFails
    BY <1>30 DEF TypeOK, TcpFails, ByMain, MainGoes
  <1>31. CASE ReadBridge
    <2>1. /\ main.head \in Nat /\ up.passed \in Nat /\ sock.rx \in Nat
          /\ bridge.g2e \in Nat
      BY DEF TypeOK
    <2>2. SentIsAccounted'
      <3>1. up.end # "error" =>
              guest.sent = sock.rx + bridge.g2e + main.head + up.passed
        BY <1>31, <2>1, BridgeRead DEF InHand
      <3>2. up'.end # "error" => up.end # "error"
        BY <1>31, BridgeReadOnce
      <3>3. up'.end # "error" =>
              bridge.g2e = bridge'.g2e + InHand(up'.pc)
        BY <1>31, <2>1, BridgeRead
      <3>4. /\ UNCHANGED <<guest, sock, main>> /\ up'.passed = up.passed
            /\ bridge'.g2e \in Nat /\ InHand(up'.pc) \in Nat
        BY <1>31, <2>1, <1>t, BridgeRead DEF InHand
      <3> QED  BY <2>1, <3>1, <3>2, <3>3, <3>4 DEF SentIsAccounted
    <2>3. EofIsLast' /\ EndIsLast'
      BY <1>31, <2>1, BridgeRead
    <2>4. /\ ReadIsAccounted' /\ NoPumpBefore' /\ NoHeadLeft' /\ NothingAfterFin'
          /\ EndedByGuest' /\ UpAfterHandshake' /\ FinAfterHandshake' /\ AskedFirst'
      BY <1>31, BridgeRead
    <2>5. ClosedCleanly' /\ ExtFinIsLast' /\ FinishIsDecided'
      BY <1>31, BridgeRead
    <2> QED  BY <2>2, <2>3, <2>4, <2>5
  <1>32. CASE WriteTcp
    <2>1. /\ main.head \in Nat /\ up.passed \in Nat /\ sock.rx \in Nat
          /\ bridge.g2e \in Nat
      BY DEF TypeOK
    <2>2. SentIsAccounted'
      BY <1>32, <2>1, TcpWritten
    <2>3. EofIsLast' /\ EndIsLast' /\ NoPumpBefore' /\ NoHeadLeft'
      BY <1>32, TcpWritten
    <2>4. /\ ReadIsAccounted' /\ NothingAfterFin' /\ EndedByGuest'
          /\ UpAfterHandshake' /\ FinAfterHandshake' /\ AskedFirst'
      BY <1>32, TcpWritten
    <2>5. ClosedCleanly' /\ ExtFinIsLast' /\ FinishIsDecided'
      BY <1>32, TcpWritten
    <2> QED  BY <2>2, <2>3, <2>4, <2>5
  <1>33. CASE Shutdown
    BY <1>33 DEF TypeOK, Shutdown, ByUp
  <1>34. CASE InspectorReads
    BY <1>34 DEF TypeOK, InspectorReads, ByMain, MainGoes
  <1>35. CASE InspectorAnswers
    BY <1>35 DEF TypeOK, InspectorAnswers, ByMain, MainGoes
  <1>36. CASE InspectorForwards
    BY <1>36 DEF TypeOK, InspectorForwards, ByMain, MainGoes
  <1>37. CASE InspectorRefuses
    BY <1>37 DEF TypeOK, InspectorRefuses, ByMain, MainGoes
  <1>38. CASE InspectorHearsTheEnd
    BY <1>38 DEF TypeOK, InspectorHearsTheEnd, ByMain, MainGoes
  <1>39. CASE InspectorWrites
    BY <1>39 DEF TypeOK, InspectorWrites, ByMain, MainGoes
  <1>40. CASE UpstreamGives
    BY <1>40 DEF TypeOK, UpstreamGives, ByMain, MainGoes
  <1>41. CASE UpstreamEnds
    BY <1>41 DEF TypeOK, UpstreamEnds, ByMain, MainGoes
  <1>s. CASE Service
    BY <1>s, <1>t, ServiceInv
  <1>u. CASE UNCHANGED vars
    BY <1>u DEF vars, TypeOK
  <1> QED
    BY <1>1, <1>2, <1>3, <1>4, <1>5, <1>6, <1>7, <1>8, <1>9, <1>10, <1>11,
       <1>12, <1>13, <1>14, <1>15, <1>16, <1>17, <1>18, <1>19, <1>20, <1>21,
       <1>22, <1>23, <1>24, <1>25, <1>26, <1>27, <1>28, <1>29, <1>30, <1>31,
       <1>32, <1>33, <1>34, <1>35, <1>36, <1>37, <1>38, <1>39, <1>40, <1>41,
       <1>s, <1>u
       DEF Next, EngineStep, GuestStep, MainStep, InspectStep, TcpStep, UpStep

LEMMA SpecInv == Spec => []Inv
  <1>1. Inv /\ [Next]_vars => Inv'
    BY InvStep
  <1> QED
    BY InitInv, <1>1, PTL DEF Spec

\* Type correctness: in particular the bridge never holds more than its
\* high-water marks, nor a socket more than its buffers.
THEOREM FlowTypeCorrect == Spec => []TypeOK
  <1>1. Inv => TypeOK
    BY DEF Inv
  <1> QED
    BY SpecInv, <1>1, PTL

\* The external peer of a flow hears a clean end of stream only after the guest
\* has ended its half, and then has been passed every byte that arrived.
THEOREM EofIsComplete == Spec => []EofMeansAllSent
  <1>1. Inv => EofMeansAllSent
    <2> SUFFICES ASSUME Inv, up.end = "eof"
                 PROVE  guest.end # "open" /\ up.passed = guest.sent
      BY DEF EofMeansAllSent
    <2>1. /\ guest.end # "open" /\ sock.rx = 0 /\ bridge.g2e = 0
          /\ up.pc \in {"shut", "done"}
      BY DEF Inv, EofIsLast, NothingAfterFin
    <2>2. main.head = 0 /\ InHand(up.pc) = 0
      BY <2>1 DEF Inv, NoHeadLeft, InHand
    <2>3. up.passed \in Nat
      BY DEF Inv, TypeOK
    <2> QED
      BY <2>1, <2>2, <2>3 DEF Inv, SentIsAccounted
  <1> QED
    BY SpecInv, <1>1, PTL

\* The guest hears a clean end of stream only when everything read from the
\* external stream has been sent, and of a flow that bridge_pump() carries only
\* after that stream has ended cleanly.
THEOREM FinIsComplete == Spec => []FinMeansAllReceived
  <1>1. Inv => FinMeansAllReceived
    <2> SUFFICES ASSUME Inv, sock.state \in Ending
                 PROVE  /\ sock.tx + guest.got = main.read
                        /\ Pumped => main.clean
      BY DEF FinMeansAllReceived
    <2>1. bridge.extFin /\ ~ bridge.aborted /\ bridge.e2g = 0
      BY DEF Inv, ClosedCleanly
    <2>2. (Pumped => main.clean) /\ InHand(main.pc) = 0
      BY <2>1 DEF Inv, ExtFinIsLast, InHand
    <2>3. sock.tx \in Nat /\ guest.got \in Nat
      BY DEF Inv, TypeOK
    <2> QED
      BY <2>1, <2>2, <2>3 DEF Inv, ReadIsAccounted
  <1> QED
    BY SpecInv, <1>1, PTL

-------------------------------------------------------------------------------
(* The life of a VM name (MicroVm), which shares no state with the flows.          *)

\* Every command is of the kinds that come where it is; the host it is to spawn is its
\* own, and unborn until then.
OpsFit ==
    \A c \in Clients :
        /\ client[c].pc \in {"await", "check", "clear", "poll", "look"} =>
               client[c].op = "up"
        /\ client[c].pc \in {"load", "spawn"} => client[c].op \in {"up", "start"}
        /\ client[c].pc = "pid" => client[c].op # "delete"

\* An up or a start that has not yet spawned its host.
BeforeSpawn(c) == /\ client[c].op \in {"up", "start"}
                  /\ client[c].pc \in {"load", "pid", "await", "check", "clear", "spawn"}

\* Each command has a call number of its own, and a host is born by the command of
\* its number: no host comes to life twice.
CallsFit ==
    /\ \A c \in Clients : /\ client[c].call # None => client[c].call <= calls
                          /\ BeforeSpawn(c) => /\ client[c].call # None
                                               /\ host[client[c].call].pc = "unborn"
    /\ \A c, d \in Clients :
           client[c].call # None /\ client[c].call = client[d].call => c = d
    /\ \A h \in Hosts : h > calls => host[h].pc = "unborn"

\* What is in the files was written by hosts that have begun to run.
WrittenByBorn ==
    /\ phase # None => host[phase.by].pc # "unborn"
    /\ \A k \in Kinds : marker[k] # None => host[marker[k]].pc # "unborn"

\* The boots an up knows to have ended.
OldHaveEnded == \A c \in Clients : \A h \in client[c].old : host[h].pc = "gone"

\* One host lives at a time.
SoleHost == \A g, h \in Hosts : Lives(g) /\ Lives(h) => g = h

\* From HostWritesPid on the pidfile names the host that lives.
PidIsOfTheHost ==
    \A h \in Hosts : Lives(h) /\ host[h].pc \notin {"prepare", "fetch"} => pidfile = h

\* What a host finds, but for one of start that has not come to it, is its own.
OwnPhase(h) ==
    ~host[h].wild \/ host[h].pc \notin {"prepare", "fetch", "clear"} =>
        phase = None \/ phase.by = h

\* Neither are the markers of another, for a host that up spawned: clear_bringup
\* comes before the spawn.
OwnMarkers(h) == ~host[h].wild => \A k \in Kinds : marker[k] \in {None, h}

\* Nothing of an earlier boot is left beside a host that has come that far.
FilesAreOwn == \A h \in Hosts : Lives(h) => OwnPhase(h) /\ OwnMarkers(h)

\* An up that has cleared the files, or has found a host, sees nothing of a boot
\* that it knows to have ended.
SeesNew(c) ==
    client[c].op = "up" /\ client[c].pc \in {"spawn", "poll", "look"} =>
      /\ phase # None => phase.by \notin client[c].old
      /\ \A k \in Kinds : marker[k] # None => marker[k] \notin client[c].old
      /\ client[c].pc = "look" /\ client[c].saw # None =>
            client[c].saw.by \notin client[c].old

FilesAreNew == \A c \in Clients : SeesNew(c)

\* What holds as long as no second host was spawned beside a first and the
\* directory was not removed under a host.
Unraced == SoleHost /\ PidIsOfTheHost /\ FilesAreOwn /\ FilesAreNew

\* The inductive invariant.
VmInv == /\ VmTypeOK /\ OpsFit /\ CallsFit /\ WrittenByBorn /\ OldHaveEnded
         /\ ~raced => Unraced

-----------------------------------------------------------------------------
(* The host processes *)

\* A name starts without a directory, hosts or commands.
LEMMA VmInitInv == VmInit => VmInv
<1> SUFFICES ASSUME VmInit PROVE VmInv
  OBVIOUS
<1>1. Unborn \in Host /\ Idle \in Client
  BY DEF Unborn, Idle, Host, Client, HostPcs, ServicePcs, Kinds, ClientPcs, Phases
<1>2. VmTypeOK
  <2>1. calls \in 0..MaxCalls /\ deaths \in 0..MaxDeaths
    BY MicroVmAssumption DEF VmInit
  <2>2. /\ host \in [Hosts -> Host] /\ client \in [Clients -> Client]
        /\ marker \in [Kinds -> {None} \cup Hosts]
    BY <1>1 DEF VmInit
  <2> QED
    BY <2>1, <2>2 DEF VmInit, VmTypeOK, Phases
<1>3. /\ \A h \in Hosts : host[h].pc = "unborn" /\ ~Lives(h)
      /\ \A c \in Clients : client[c].pc = "idle" /\ client[c].call = None
                             /\ client[c].old = {}
  BY DEF VmInit, Unborn, Idle, Lives, Living, Early, Guest
<1>4. OpsFit /\ CallsFit /\ OldHaveEnded
  BY <1>3 DEF OpsFit, CallsFit, BeforeSpawn, OldHaveEnded
<1>5. WrittenByBorn
  BY DEF VmInit, WrittenByBorn
<1>6. Unraced
  BY <1>3 DEF Unraced, SoleHost, PidIsOfTheHost, FilesAreOwn, FilesAreNew, SeesNew
<1> QED
  BY <1>2, <1>4, <1>5, <1>6 DEF VmInv

\* A step of host h: of the hosts it changes itself alone, and it has been born.
HostMoves(h) ==
    /\ Lives(h)
    /\ host' \in [Hosts -> Host]
    /\ host'[h].pc # "unborn"
    /\ \A g \in Hosts \ {h} : host'[g] = host[g]
    /\ UNCHANGED <<client, calls, raced>>

\* A step of the main thread or the service thread of host h, or its end.
HostStep(h) == HostMainStep(h) \/ ServiceStep(h) \/ GuestStops(h) \/ HostDies(h)

\* A write to the record of a host that lives is a move of that host.
LEMMA HostUpdated ==
    ASSUME host \in [Hosts -> Host], NEW h \in Hosts, NEW x \in Host,
           x.pc # "unborn", Lives(h), host' = [host EXCEPT ![h] = x],
           UNCHANGED <<client, calls, raced>>
    PROVE  HostMoves(h)
BY DEF HostMoves

\* Records of hosts and their updates are records of hosts.
LEMMA HostStates ==
    ASSUME NEW x \in Host
    PROVE  /\ \A pc \in HostPcs : [x EXCEPT !.pc = pc] \in Host
           /\ \A svc \in ServicePcs : [x EXCEPT !.svc = svc] \in Host
           /\ \A half \in BOOLEAN : [x EXCEPT !.half = half] \in Host
           /\ Exited \in Host /\ Exited.pc = "gone"
BY DEF Host, Exited, Unborn, HostPcs, Kinds, ServicePcs

\* The steps of the two threads of a host, and its exit, are moves of the host.
LEMMA MainMoves ==
    ASSUME host \in [Hosts -> Host], NEW h \in Hosts, Lives(h),
           UNCHANGED <<client, calls, raced>>
    PROVE  /\ \A pc \in HostPcs \ {"unborn"} : Main(h, pc) => HostMoves(h)
           /\ \A svc \in ServicePcs : Serve(h, svc) => HostMoves(h)
           /\ Exit(h) => HostMoves(h)
<1> host[h] \in Host /\ host[h].pc # "unborn"
  BY DEF Lives, Living, Early, Guest
<1>1. ASSUME NEW pc \in HostPcs \ {"unborn"}, Main(h, pc) PROVE HostMoves(h)
  <2>1. [host[h] EXCEPT !.pc = pc] \in Host /\ [host[h] EXCEPT !.pc = pc].pc # "unborn"
    BY HostStates DEF Host
  <2> QED
    BY <1>1, <2>1, HostUpdated DEF Main
<1>2. ASSUME NEW svc \in ServicePcs, Serve(h, svc) PROVE HostMoves(h)
  <2>1. [host[h] EXCEPT !.svc = svc] \in Host /\ [host[h] EXCEPT !.svc = svc].pc # "unborn"
    BY HostStates DEF Host
  <2> QED
    BY <1>2, <2>1, HostUpdated DEF Serve
<1>3. Exit(h) => HostMoves(h)
  BY HostUpdated, HostStates DEF Exit
<1> QED
  BY <1>1, <1>2, <1>3

\* So is every step of a host.
LEMMA HostStepMoves ==
    ASSUME VmTypeOK, NEW h \in Hosts, HostStep(h)
    PROVE  HostMoves(h)
<1>0. host \in [Hosts -> Host] /\ host[h] \in Host
  BY DEF VmTypeOK
<1>1. Lives(h)
  BY DEF HostStep, HostMainStep, ServiceStep, GuestStops, HostDies, HostReadsSpec,
         HostWritesPid, HostFetchFails, HostClears, HostEntersMedia, HostWipes,
         HostAssemblyFails, HostBoots, HostIsRefused, HostHears, HostHalts,
         HostExits, ServiceGetsShell, ServiceMarksCore, ServiceGetsApi,
         ServiceMarksCluster, ServiceEntersIngress, ServiceGetsRoutes,
         ServiceIsReady, ServiceGivesUp, ServiceFails, Waits, Writes, Publishes,
         Serving, Lives, Living, Early, Guest
<1>2. UNCHANGED <<client, calls, raced>>
  BY DEF HostStep, HostMainStep, ServiceStep, GuestStops, HostDies, HostReadsSpec,
         HostWritesPid, HostFetchFails, HostClears, HostEntersMedia, HostWipes,
         HostAssemblyFails, HostBoots, HostIsRefused, HostHears, HostHalts,
         HostExits, ServiceGetsShell, ServiceMarksCore, ServiceGetsApi,
         ServiceMarksCluster, ServiceEntersIngress, ServiceGetsRoutes,
         ServiceIsReady, ServiceGivesUp, ServiceFails, Waits, Writes, Publishes,
         HostOnly
<1>3. CASE HostReadsSpec(h)
  <2>1. spec' \in Kinds
    BY <1>3 DEF VmTypeOK, HostReadsSpec, Kinds
  <2>2. [host[h] EXCEPT !.pc = "fetch", !.kind = spec'] \in Host
    BY <1>0, <2>1 DEF Host, HostPcs, Living, Early
  <2>3. [host[h] EXCEPT !.pc = "fetch", !.kind = spec'].pc # "unborn"
    BY <1>0 DEF Host
  <2>4. host' = [host EXCEPT ![h] = [host[h] EXCEPT !.pc = "fetch", !.kind = spec']]
    BY <1>3 DEF HostReadsSpec
  <2> QED
    BY <1>0, <1>1, <1>2, <2>2, <2>3, <2>4, HostUpdated
<1>4. ASSUME NEW x \in Host, host' = [host EXCEPT ![h] = x], x.pc # "unborn"
      PROVE  HostMoves(h)
  BY <1>0, <1>1, <1>2, <1>4, HostUpdated
<1>5. CASE HostEntersMedia(h)
  <2>1. CASE Empties(h)
    <3>1. /\ [host[h] EXCEPT !.half = TRUE] \in Host
          /\ [host[h] EXCEPT !.half = TRUE].pc # "unborn"
      BY <1>0, <1>1 DEF Host, Lives, Living, Early, Guest
    <3>2. host' = [host EXCEPT ![h] = [host[h] EXCEPT !.half = TRUE]]
      BY <2>1 DEF Empties
    <3> QED
      BY <1>4, <3>1, <3>2
  <2>2. CASE ~Empties(h)
    <3>1. [host[h] EXCEPT !.half = FALSE, !.pc = "assemble"] \in Host
      BY <1>0 DEF Host, HostPcs, Living, Early
    <3>2. [host[h] EXCEPT !.half = FALSE, !.pc = "assemble"].pc # "unborn"
      BY <1>0 DEF Host
    <3>3. host' = [host EXCEPT ![h] = [host[h] EXCEPT !.half = FALSE, !.pc = "assemble"]]
      BY <1>5, <2>2 DEF HostEntersMedia
    <3> QED
      BY <1>4, <3>1, <3>2, <3>3
  <2> QED
    BY <2>1, <2>2
<1>6. CASE HostWipes(h)
  <2>1. [host[h] EXCEPT !.pc = "boot", !.wild = FALSE] \in Host
    BY <1>0 DEF Host, HostPcs, Living, Early
  <2>2. [host[h] EXCEPT !.pc = "boot", !.wild = FALSE].pc # "unborn"
    BY <1>0 DEF Host
  <2> QED
    BY <1>4, <1>6, <2>1, <2>2 DEF HostWipes
<1>7. CASE HostBoots(h)
  <2>1. [host[h] EXCEPT !.pc = "park", !.svc = "shell"] \in Host
    BY <1>0 DEF Host, HostPcs, Living, Guest, ServicePcs
  <2>2. [host[h] EXCEPT !.pc = "park", !.svc = "shell"].pc # "unborn"
    BY <1>0 DEF Host
  <2> QED
    BY <1>4, <1>7, <2>1, <2>2 DEF HostBoots
<1>8. ASSUME NEW at, NEW name, NEW next \in ServicePcs, Publishes(h, at, name, next)
      PROVE  HostMoves(h)
  <2>1. CASE Empties(h)
    <3>1. [host[h] EXCEPT !.half = TRUE] \in Host
      BY <1>0 DEF Host
    <3>2. [host[h] EXCEPT !.half = TRUE].pc # "unborn"
      BY <1>0, <1>1 DEF Host, Lives, Living, Early, Guest
    <3> QED
      BY <1>4, <2>1, <3>1, <3>2 DEF Empties
  <2>2. CASE ~Empties(h)
    <3>1. [host[h] EXCEPT !.half = FALSE, !.svc = next] \in Host
      BY <1>0, <1>8 DEF Host
    <3>2. [host[h] EXCEPT !.half = FALSE, !.svc = next].pc # "unborn"
      BY <1>0, <1>1 DEF Host, Lives, Living, Early, Guest
    <3>3. host' = [host EXCEPT ![h] = [host[h] EXCEPT !.half = FALSE, !.svc = next]]
      BY <1>8, <2>2 DEF Publishes
    <3> QED
      BY <1>4, <3>1, <3>2, <3>3
  <2> QED
    BY <2>1, <2>2
<1>9. CASE \/ HostWritesPid(h) \/ HostFetchFails(h) \/ HostClears(h)
           \/ HostAssemblyFails(h) \/ HostIsRefused(h) \/ HostHears(h)
           \/ HostHalts(h) \/ HostExits(h) \/ GuestStops(h) \/ HostDies(h)
  <2>1. \/ \E pc \in HostPcs \ {"unborn"} : Main(h, pc)
        \/ Exit(h)
    BY <1>9
    DEF HostWritesPid, HostFetchFails, HostClears, HostAssemblyFails, HostIsRefused,
        HostHears, HostHalts, HostExits, GuestStops, HostDies, HostPcs, Living,
        Early, Guest
  <2> QED
    BY <1>0, <1>1, <1>2, <2>1, MainMoves
<1>10. CASE ServiceStep(h)
  <2>1. \/ \E svc \in ServicePcs : Serve(h, svc)
        \/ \E at, name : \E next \in ServicePcs : Publishes(h, at, name, next)
    BY <1>10
    DEF ServiceStep, ServiceGetsShell, ServiceMarksCore, ServiceGetsApi,
        ServiceMarksCluster, ServiceEntersIngress, ServiceGetsRoutes,
        ServiceIsReady, ServiceGivesUp, ServiceFails, Waits, Writes, AfterShell,
        ServicePcs
  <2> QED
    BY <1>0, <1>1, <1>2, <1>8, <2>1, MainMoves
<1> QED
  BY <1>3, <1>5, <1>6, <1>7, <1>9, <1>10 DEF HostStep, HostMainStep

\* What a step of host h leaves in the files.
HostWrites(h) ==
    /\ spec' \in {None} \cup Kinds
    /\ pidfile' \in {pidfile, None, h}
    /\ phase' \in {phase, None} \cup [by : {h}, name : {"busy", "ready", "failed"}]
    /\ marker' \in [Kinds -> {None} \cup Hosts]
    /\ \A k \in Kinds : marker'[k] \in {None, h, marker[k]}

\* Every step of a host writes only that.
LEMMA HostStepWrites ==
    ASSUME VmTypeOK, NEW h \in Hosts, HostStep(h)
    PROVE  HostWrites(h) /\ dir' \in BOOLEAN /\ deaths' \in 0..MaxDeaths
<1> USE DEF HostStep, HostMainStep, ServiceStep, GuestStops, HostDies, HostReadsSpec,
      HostWritesPid, HostFetchFails, HostClears, HostEntersMedia, HostWipes,
      HostAssemblyFails, HostBoots, HostIsRefused, HostHears, HostHalts,
      HostExits, ServiceGetsShell, ServiceMarksCore, ServiceGetsApi,
      ServiceMarksCluster, ServiceEntersIngress, ServiceGetsRoutes,
      ServiceIsReady, ServiceGivesUp, ServiceFails, Waits, Writes, Publishes
<1>1. dir' \in BOOLEAN
  BY DEF VmTypeOK, NotPhase, files
<1>2. deaths' \in 0..MaxDeaths
  BY MicroVmAssumption DEF VmTypeOK, HostOnly
<1>3. spec' \in {None} \cup Kinds
  BY DEF VmTypeOK, NotPhase, files, Kinds
<1>4. pidfile' \in {pidfile, None, h}
  BY DEF NotPhase, files
<1>5. phase' \in {phase, None} \cup [by : {h}, name : {"busy", "ready", "failed"}]
  BY DEF Empties, Fills, files
<1>6. /\ marker' \in [Kinds -> {None} \cup Hosts]
      /\ \A k \in Kinds : marker'[k] \in {None, h, marker[k]}
  BY DEF VmTypeOK, Mark, NotPhase, files
<1> QED
  BY <1>1, <1>2, <1>3, <1>4, <1>5, <1>6 DEF HostWrites

\* The types are kept by the steps of hosts.
LEMMA HostStepTyped ==
    ASSUME VmTypeOK, NEW h \in Hosts, HostStep(h)
    PROVE  VmTypeOK'
BY HostStepMoves, HostStepWrites DEF VmTypeOK, HostMoves, HostWrites, Phases

\* A step of a host concerns no command, and no other host.
LEMMA HostMovesAlone ==
    ASSUME VmInv, NEW h \in Hosts, HostMoves(h), HostWrites(h)
    PROVE  /\ OpsFit' /\ CallsFit' /\ WrittenByBorn' /\ OldHaveEnded'
           /\ SoleHost => SoleHost' /\ \A g \in Hosts \ {h} : ~Lives(g)'
           /\ FilesAreNew => FilesAreNew'
<1> USE DEF VmInv, HostMoves
<1>1. /\ host[h].pc \notin {"unborn", "gone"} /\ host'[h].pc # "unborn"
      /\ \A g \in Hosts \ {h} : host'[g] = host[g]
      /\ UNCHANGED <<client, calls, raced>>
  BY DEF Lives, Living, Early, Guest
<1>2. \A g \in Hosts : /\ host[g].pc = "gone" => host'[g].pc = "gone"
                       /\ host[g].pc = "unborn" <=> host'[g].pc = "unborn"
  BY <1>1
<1>3. \A c \in Clients : client[c].old \subseteq Hosts
                        /\ client[c].call \in {None} \cup Hosts
  BY DEF VmTypeOK, Client
<1>4. OpsFit'
  BY <1>1 DEF OpsFit
<1>5. CallsFit'
  BY <1>1, <1>2, <1>3 DEF CallsFit, BeforeSpawn
<1>6. WrittenByBorn'
  <2>1. phase' # None => host'[phase'.by].pc # "unborn"
    <3>1. phase # None => phase.by \in Hosts
      BY DEF VmTypeOK, Phases
    <3> QED
      BY <1>2, <1>1, <3>1 DEF HostWrites, WrittenByBorn
  <2>2. ASSUME NEW k \in Kinds, marker'[k] # None
        PROVE  host'[marker'[k]].pc # "unborn"
    <3>1. marker[k] \in {None} \cup Hosts
      BY DEF VmTypeOK
    <3> QED
      BY <1>1, <1>2, <2>2, <3>1 DEF HostWrites, WrittenByBorn
  <2> QED
    BY <2>1, <2>2 DEF WrittenByBorn
<1>7. OldHaveEnded'
  BY <1>1, <1>2, <1>3 DEF OldHaveEnded
<1>8. SoleHost => SoleHost' /\ \A g \in Hosts \ {h} : ~Lives(g)'
  BY <1>1 DEF SoleHost, Lives
<1>9. FilesAreNew => FilesAreNew'
  <2> SUFFICES ASSUME FilesAreNew, NEW c \in Clients,
                      client[c].op = "up" /\ client[c].pc \in {"spawn", "poll", "look"}
               PROVE  /\ phase' # None => phase'.by \notin client[c].old
                      /\ \A k \in Kinds : marker'[k] # None => marker'[k] \notin client[c].old
    BY <1>1 DEF FilesAreNew, SeesNew
  <2>1. h \notin client[c].old
    BY <1>1 DEF OldHaveEnded
  <2> QED
    BY <2>1 DEF FilesAreNew, SeesNew, HostWrites
<1> QED
  BY <1>4, <1>5, <1>6, <1>7, <1>8, <1>9

\* A host keeps its pid in the pidfile until it ends.
LEMMA HostStepPid ==
    ASSUME VmTypeOK, NEW h \in Hosts, HostStep(h),
           host[h].pc \notin {"prepare", "fetch"} => pidfile = h
    PROVE  Lives(h)' /\ host'[h].pc \notin {"prepare", "fetch"} => pidfile' = h
<1> USE DEF HostStep, HostMainStep, ServiceStep, GuestStops, HostDies, HostReadsSpec,
      HostWritesPid, HostFetchFails, HostClears, HostEntersMedia, HostWipes,
      HostAssemblyFails, HostBoots, HostIsRefused, HostHears, HostHalts,
      HostExits, ServiceGetsShell, ServiceMarksCore, ServiceGetsApi,
      ServiceMarksCluster, ServiceEntersIngress, ServiceGetsRoutes,
      ServiceIsReady, ServiceGivesUp, ServiceFails, Waits, Writes, Publishes
<1>0. host \in [Hosts -> Host] /\ host[h] \in Host
  BY DEF VmTypeOK
<1>1. CASE Exit(h)
  BY <1>0, <1>1 DEF Exit, Exited, Unborn, Lives, Living, Early, Guest
<1>2. CASE pidfile' = h
  BY <1>2
<1>3. CASE HostReadsSpec(h)
  BY <1>0, <1>3 DEF HostReadsSpec, Host
<1> QED
  BY <1>0, <1>1, <1>2, <1>3 DEF files, NotPhase, Serving


\* A host finds only its own phase and markers after each of its steps.
LEMMA HostStepOwn ==
    ASSUME VmTypeOK, NEW h \in Hosts, HostStep(h), OwnPhase(h), OwnMarkers(h)
    PROVE  Lives(h)' => OwnPhase(h)' /\ OwnMarkers(h)'
<1>0. host \in [Hosts -> Host] /\ host[h] \in Host /\ HostWrites(h)
  BY HostStepWrites DEF VmTypeOK
<1> USE DEF HostStep, HostMainStep, ServiceStep, GuestStops, HostDies, HostReadsSpec,
      HostWritesPid, HostFetchFails, HostClears, HostEntersMedia, HostWipes,
      HostAssemblyFails, HostBoots, HostIsRefused, HostHears, HostHalts,
      HostExits, ServiceGetsShell, ServiceMarksCore, ServiceGetsApi,
      ServiceMarksCluster, ServiceEntersIngress, ServiceGetsRoutes,
      ServiceIsReady, ServiceGivesUp, ServiceFails, Waits, Writes, Publishes
<1>1. \/ host'[h].wild = host[h].wild
      \/ \A k \in Kinds : marker'[k] = None
      \/ host'[h].pc = "gone"
  <2>1. CASE Exit(h)
    BY <1>0, <2>1 DEF Exit, Exited, Unborn
  <2> QED
    BY <1>0, <2>1 DEF Host, Main, Serve, Empties
<1>2. \/ host'[h].wild = host[h].wild
      \/ host[h].pc = "assemble"
      \/ host'[h].pc = "gone"
  <2>1. CASE Exit(h)
    BY <1>0, <2>1 DEF Exit, Exited, Unborn
  <2> QED
    BY <1>0, <2>1 DEF Host, Main, Serve, Empties
<1>3. \/ host'[h].pc \in {"prepare", "fetch", "clear", "gone"}
      \/ host[h].pc \notin {"prepare", "fetch", "clear"}
      \/ phase' = None
  <2>1. CASE Exit(h)
    BY <1>0, <2>1 DEF Exit, Exited, Unborn
  <2> QED
    BY <1>0, <2>1 DEF Host, Main, Serve, Serving
<1> HIDE DEF HostStep, HostMainStep, ServiceStep, GuestStops, HostDies, HostReadsSpec,
      HostWritesPid, HostFetchFails, HostClears, HostEntersMedia, HostWipes,
      HostAssemblyFails, HostBoots, HostIsRefused, HostHears, HostHalts,
      HostExits, ServiceGetsShell, ServiceMarksCore, ServiceGetsApi,
      ServiceMarksCluster, ServiceEntersIngress, ServiceGetsRoutes,
      ServiceIsReady, ServiceGivesUp, ServiceFails, Waits, Writes, Publishes
<1>4. /\ phase' = phase \/ phase' = None \/ phase'.by = h
      /\ \A k \in Kinds : marker'[k] \in {None, h, marker[k]}
  BY <1>0 DEF HostWrites
<1>5. Lives(h)' => host'[h].pc # "gone"
  BY DEF Lives, Living, Early, Guest
<1>6. Lives(h)' => OwnPhase(h)'
  BY <1>2, <1>3, <1>4, <1>5 DEF OwnPhase
<1>7. Lives(h)' => OwnMarkers(h)'
  BY <1>1, <1>4, <1>5 DEF OwnMarkers
<1> QED
  BY <1>6, <1>7

\* The steps of hosts keep the invariant.
LEMMA HostStepInv ==
    ASSUME VmInv, NEW h \in Hosts, HostStep(h)
    PROVE  VmInv'
<1>1. HostMoves(h) /\ HostWrites(h) /\ VmTypeOK'
  BY HostStepMoves, HostStepWrites, HostStepTyped DEF VmInv
<1>2. /\ OpsFit' /\ CallsFit' /\ WrittenByBorn' /\ OldHaveEnded'
      /\ SoleHost => SoleHost' /\ \A g \in Hosts \ {h} : ~Lives(g)'
      /\ FilesAreNew => FilesAreNew'
  BY <1>1, HostMovesAlone
<1>3. Lives(h) /\ raced' = raced
  BY <1>1 DEF HostMoves
<1>4. SoleHost /\ PidIsOfTheHost => PidIsOfTheHost'
  BY <1>2, <1>3, HostStepPid DEF PidIsOfTheHost, VmInv
<1>5. SoleHost /\ FilesAreOwn => FilesAreOwn'
  BY <1>2, <1>3, HostStepOwn DEF FilesAreOwn, VmInv
<1> QED
  BY <1>1, <1>2, <1>3, <1>4, <1>5 DEF VmInv, Unraced

-----------------------------------------------------------------------------
(* The commands *)

\* A step of client c that begins or spawns nothing: it may end hosts and remove
\* what is in the files.
Proceeds(c) ==
    /\ client' \in [Clients -> Client]
    /\ \A d \in Clients \ {c} : client'[d] = client[d]
    /\ host' \in [Hosts -> Host]
    /\ \A h \in Hosts : \/ /\ host'[h].pc = host[h].pc
                           /\ host'[h].wild = host[h].wild
                        \/ Lives(h) /\ host'[h].pc = "gone"
    /\ calls' = calls
    /\ phase' \in {phase, None}
    /\ \A k \in Kinds : marker'[k] \in {marker[k], None}
    /\ pidfile' = pidfile \/ \A h \in Hosts : ~Lives(h) \/ raced'
    /\ raced' \in BOOLEAN /\ (raced => raced')

\* The client goes on to pc, from where it may have come.
GoesOn(c) ==
    /\ client'[c].op = client[c].op
    /\ client'[c].call = client[c].call
    /\ client'[c].pc \in {"load", "pid", "await", "check", "clear", "spawn"} =>
           client[c].pc \in {"load", "pid", "await", "check", "clear", "spawn"}
    /\ client'[c].pc \in {"load", "spawn"} => client[c].op \in {"up", "start"}
    /\ client'[c].pc \in {"await", "check", "clear", "poll", "look"} =>
           client[c].op = "up"
    /\ client'[c].pc = "pid" => client[c].op # "delete"

\* A command that goes on brings no host to life and leaves nothing in the files that
\* was not there.
LEMMA ProceedsHosts ==
    ASSUME VmInv, NEW c \in Clients, Proceeds(c)
    PROVE  /\ \A h \in Hosts : /\ host[h].pc = "gone" => host'[h].pc = "gone"
                               /\ host[h].pc = "unborn" <=> host'[h].pc = "unborn"
                               /\ Lives(h)' => /\ Lives(h) /\ host'[h].pc = host[h].pc
                                               /\ host'[h].wild = host[h].wild
           /\ WrittenByBorn'
           /\ ~raced' /\ Unraced => SoleHost' /\ PidIsOfTheHost' /\ FilesAreOwn'
<1>1. \A h \in Hosts : /\ host[h].pc = "gone" => host'[h].pc = "gone"
                       /\ host[h].pc = "unborn" <=> host'[h].pc = "unborn"
                       /\ Lives(h)' => /\ Lives(h) /\ host'[h].pc = host[h].pc
                                       /\ host'[h].wild = host[h].wild
  BY DEF Proceeds, Lives, Living, Early, Guest
<1>2. WrittenByBorn'
  <2>1. /\ phase # None => phase.by \in Hosts
        /\ \A k \in Kinds : marker[k] \in {None} \cup Hosts
    BY DEF VmInv, VmTypeOK, Phases
  <2> QED
    BY <1>1, <2>1 DEF VmInv, WrittenByBorn, Proceeds
<1>3. ASSUME ~raced', Unraced
      PROVE  SoleHost' /\ PidIsOfTheHost' /\ FilesAreOwn'
  <2>1. SoleHost'
    BY <1>1, <1>3 DEF Unraced, SoleHost
  <2>2. PidIsOfTheHost'
    BY <1>1, <1>3 DEF Unraced, PidIsOfTheHost, Proceeds
  <2>3. FilesAreOwn'
    BY <1>1, <1>3 DEF Unraced, FilesAreOwn, OwnPhase, OwnMarkers, Proceeds
  <2> QED
    BY <2>1, <2>2, <2>3
<1> QED
  BY <1>1, <1>2, <1>3

\* A command that goes on, or ends, keeps the hosts it may spawn apart.
LEMMA ProceedsCalls ==
    ASSUME VmInv, NEW c \in Clients, Proceeds(c),
           GoesOn(c) \/ client'[c] = Idle
    PROVE  OpsFit' /\ CallsFit'
<1>1. \A h \in Hosts : host[h].pc = "unborn" <=> host'[h].pc = "unborn"
  BY ProceedsHosts
<1>2. /\ \A d \in Clients \ {c} : client'[d] = client[d]
      /\ calls' = calls
      /\ client'[c].call \in {None, client[c].call}
      /\ BeforeSpawn(c)' => BeforeSpawn(c) /\ client'[c].call = client[c].call
  BY DEF Proceeds, GoesOn, Idle, BeforeSpawn
<1>3. \A d \in Clients : client[d].call \in {None} \cup Hosts
  BY DEF VmInv, VmTypeOK, Client
<1>4. OpsFit'
  BY <1>2 DEF VmInv, OpsFit, GoesOn, Idle
<1>5. CallsFit'
  BY <1>1, <1>2, <1>3 DEF VmInv, CallsFit, BeforeSpawn
<1> QED
  BY <1>4, <1>5

\* A command that goes on keeps the invariant if what it takes for ended has ended and
\* it sees nothing of it.
LEMMA ProceedsInv ==
    ASSUME VmInv, VmTypeOK', NEW c \in Clients, Proceeds(c),
           GoesOn(c) \/ client'[c] = Idle,
           \A h \in client'[c].old : host'[h].pc = "gone",
           ~raced' => SeesNew(c)'
    PROVE  VmInv'
<1>1. /\ \A h \in Hosts : host[h].pc = "gone" => host'[h].pc = "gone"
      /\ WrittenByBorn'
      /\ ~raced' /\ Unraced => SoleHost' /\ PidIsOfTheHost' /\ FilesAreOwn'
  BY ProceedsHosts
<1>2. OpsFit' /\ CallsFit'
  BY ProceedsCalls
<1>3. \A d \in Clients : client[d].old \subseteq Hosts
  BY DEF VmInv, VmTypeOK, Client
<1>4. OldHaveEnded'
  BY <1>1, <1>3 DEF VmInv, OldHaveEnded, Proceeds
<1>5. ASSUME ~raced' PROVE Unraced'
  <2>1. Unraced
    BY <1>5 DEF VmInv, Proceeds
  <2>2. \A d \in Clients \ {c} : SeesNew(d)'
    BY <2>1 DEF Unraced, FilesAreNew, SeesNew, Proceeds
  <2>3. FilesAreNew'
    BY <1>5, <2>2 DEF FilesAreNew, SeesNew
  <2> QED
    BY <1>1, <1>5, <2>1, <2>3 DEF Unraced
<1> QED
  BY <1>1, <1>2, <1>4, <1>5 DEF VmInv

\* Records of commands and their updates are records of commands.
LEMMA ClientStates ==
    ASSUME NEW x \in Client
    PROVE  /\ \A pc \in ClientPcs :
                  /\ [x EXCEPT !.pc = pc] \in Client
                  /\ [x EXCEPT !.pc = pc].pc = pc
                  /\ \A saw \in Phases : [x EXCEPT !.pc = pc, !.saw = saw] \in Client
                  /\ \A sort \in Kinds : [x EXCEPT !.kind = sort, !.pc = pc] \in Client
                  /\ \A old \in SUBSET Hosts : [x EXCEPT !.pc = pc, !.old = old] \in Client
           /\ Idle \in Client
<1>1. Idle \in Client
  BY DEF Client, Idle, ClientPcs, Kinds, Phases
<1> QED
  BY <1>1 DEF Client

\* The commands that change nothing but where they are, and may end hosts.
LEMMA QuietInv ==
    ASSUME VmInv, NEW c \in Clients,
           UNCHANGED <<files, calls, raced>>, deaths' \in 0..MaxDeaths,
           \/ UNCHANGED host
           \/ \E h \in Hosts : Lives(h) /\ host' = [host EXCEPT ![h] = Terminated(h)],
           \/ Rests(c)
           \/ \E pc \in {"load", "check", "remove", "await"} :
                  /\ Goes(c, pc)
                  /\ pc = "load" => client[c].op = "start" /\ client[c].pc = "pid"
                  /\ pc \in {"await", "check"} =>
                        /\ client[c].op = "up"
                        /\ client[c].pc \in {"pid", "await"}
    PROVE  VmInv'
<1>1. VmTypeOK /\ client[c] \in Client
  BY DEF VmInv, VmTypeOK
<1>2. /\ client' \in [Clients -> Client]
      /\ \A d \in Clients \ {c} : client'[d] = client[d]
      /\ GoesOn(c) \/ client'[c] = Idle
      /\ client'[c].old \subseteq client[c].old
      /\ client'[c].pc \notin {"spawn", "poll", "look"}
  <2>1. CASE Rests(c)
    BY <1>1, <2>1, ClientStates DEF Rests, VmTypeOK, Idle
  <2>2. ASSUME NEW pc \in {"load", "check", "remove", "await"}, Goes(c, pc),
               pc = "load" => client[c].op = "start" /\ client[c].pc = "pid",
               pc \in {"await", "check"} => /\ client[c].op = "up"
                                            /\ client[c].pc \in {"pid", "await"}
        PROVE  /\ client' \in [Clients -> Client]
               /\ \A d \in Clients \ {c} : client'[d] = client[d]
               /\ GoesOn(c)
               /\ client'[c].old = client[c].old
               /\ client'[c].pc = pc
    <3>1. client'[c] = [client[c] EXCEPT !.pc = pc]
      BY <1>1, <2>2 DEF Goes, VmTypeOK
    <3>2. pc \in ClientPcs
      BY DEF ClientPcs
    <3>3. client' \in [Clients -> Client]
      BY <1>1, <2>2, <3>2, ClientStates DEF Goes, VmTypeOK
    <3>4. /\ client'[c].op = client[c].op /\ client'[c].call = client[c].call
          /\ client'[c].old = client[c].old /\ client'[c].pc = pc
      BY <1>1, <3>1 DEF Client
    <3> QED
      BY <1>1, <2>2, <3>3, <3>4 DEF Goes, GoesOn, VmTypeOK
  <2> QED
    BY <2>1, <2>2
<1>3. /\ host' \in [Hosts -> Host]
      /\ \A h \in Hosts : \/ /\ host'[h].pc = host[h].pc
                             /\ host'[h].wild = host[h].wild
                          \/ Lives(h) /\ host'[h].pc = "gone"
  <2>1. CASE UNCHANGED host
    BY <1>1, <2>1 DEF VmTypeOK
  <2>2. ASSUME NEW h \in Hosts, Lives(h), host' = [host EXCEPT ![h] = Terminated(h)]
        PROVE  /\ host' \in [Hosts -> Host]
               /\ \/ /\ host'[h].pc = host[h].pc
                     /\ host'[h].wild = host[h].wild
                  \/ Lives(h) /\ host'[h].pc = "gone"
    <3>1. host[h] \in Host /\ host \in [Hosts -> Host]
      BY <1>1 DEF VmTypeOK
    <3>2. Terminated(h) \in Host
      BY <3>1, HostStates DEF Terminated, Host
    <3>3. \/ /\ Terminated(h).pc = host[h].pc
             /\ Terminated(h).wild = host[h].wild
          \/ Terminated(h).pc = "gone"
      BY <3>1, HostStates DEF Terminated, Host
    <3> QED
      BY <2>2, <3>1, <3>2, <3>3
  <2> QED
    BY <1>1, <2>1, <2>2 DEF VmTypeOK
<1>4. VmTypeOK'
  BY <1>1, <1>2, <1>3 DEF VmTypeOK, files
<1>5. Proceeds(c)
  BY <1>1, <1>2, <1>3 DEF Proceeds, VmTypeOK, files
<1>6. client[c].old \subseteq Hosts
  BY <1>1 DEF Client
<1>7. \A h \in client'[c].old : host'[h].pc = "gone"
  BY <1>2, <1>5, <1>6, ProceedsHosts DEF VmInv, OldHaveEnded
<1>8. SeesNew(c)'
  BY <1>2 DEF SeesNew
<1> QED
  BY <1>2, <1>4, <1>5, <1>7, <1>8, ProceedsInv

\* Finding a host, waiting for its exit, reporting, timing out and dying are of that kind.
LEMMA QuietCommands ==
    ASSUME VmInv, NEW c \in Clients,
           \/ \E h \in Hosts : FindHost(c, h)
           \/ FindNone(c) \/ AwaitStop(c) \/ ReportReady(c) \/ ReportExit(c)
           \/ SeekHost(c) \/ TimesOut(c) \/ ClientDies(c)
    PROVE  VmInv'
<1>0. deaths \in 0..MaxDeaths /\ deaths' \in 0..MaxDeaths /\ client[c] \in Client
  BY MicroVmAssumption
  DEF VmInv, VmTypeOK, FindHost, FindNone, AwaitStop, ReportReady, ReportExit, SeekHost,
      TimesOut, ClientDies, ClientOnly
<1>1. ASSUME NEW h \in Hosts, FindHost(c, h) PROVE VmInv'
  BY <1>0, <1>1, QuietInv DEF FindHost, LivePid, ClientOnly
<1>2. CASE FindNone(c)
  <2>1. client[c].op \in {"up", "start", "stop"}
    BY <1>0, <1>2 DEF Client, FindNone, VmInv, OpsFit
  <2> QED
    BY <1>0, <1>2, <2>1, QuietInv DEF FindNone, ClientOnly
<1>3. CASE AwaitStop(c)
  BY <1>0, <1>3, QuietInv DEF AwaitStop, ClientOnly, VmInv, OpsFit
<1>4. CASE SeekHost(c)
  BY <1>0, <1>4, QuietInv DEF SeekHost, ClientOnly
<1>5. CASE ReportReady(c) \/ ReportExit(c) \/ TimesOut(c) \/ ClientDies(c)
  BY <1>0, <1>5, QuietInv DEF ReportReady, ReportExit, TimesOut, ClientDies, ClientOnly
<1> QED
  BY <1>1, <1>2, <1>3, <1>4, <1>5

\* A command writes its own record alone.
LEMMA ClientUpdated ==
    ASSUME VmInv, NEW c \in Clients, NEW x \in Client, client' = [client EXCEPT ![c] = x]
    PROVE  /\ client' \in [Clients -> Client]
           /\ client'[c] = x
           /\ \A d \in Clients \ {c} : client'[d] = client[d]
BY DEF VmInv, VmTypeOK

\* The load of the spec, which creates the directory and may store a promoted spec.
LEMMA LoadSpecInv ==
    ASSUME VmInv, NEW c \in Clients, LoadSpec(c)
    PROVE  VmInv'
<1>1. VmTypeOK /\ client[c] \in Client /\ client[c].op \in {"up", "start"}
  BY DEF LoadSpec, VmInv, VmTypeOK, OpsFit
<1>2. spec' \in Kinds
  BY <1>1 DEF LoadSpec, VmTypeOK, Kinds
<1>3. PICK sort \in Kinds, pc \in {"spawn", "pid", "check"} :
        /\ client' = [client EXCEPT ![c] = [client[c] EXCEPT !.kind = sort, !.pc = pc]]
        /\ client[c].op = "start" <=> pc = "spawn"
  <2> DEFINE k == IF client[c].op = "up" THEN spec' ELSE client[c].kind
             p == IF client[c].op = "start" THEN "spawn"
                  ELSE IF spec' = "cluster" /\ spec # "cluster" THEN "pid"
                  ELSE "check"
  <2>1. k \in Kinds /\ p \in {"spawn", "pid", "check"}
    BY <1>1, <1>2 DEF Client
  <2>2. client' = [client EXCEPT ![c] = [client[c] EXCEPT !.kind = k, !.pc = p]]
    BY DEF LoadSpec
  <2>3. client[c].op = "start" <=> p = "spawn"
    OBVIOUS
  <2> HIDE DEF k, p
  <2> QED
    BY <2>1, <2>2, <2>3
<1> DEFINE x == [client[c] EXCEPT !.kind = sort, !.pc = pc]
<1>4. /\ x \in Client /\ x.pc = pc /\ x.op = client[c].op
      /\ x.call = client[c].call /\ x.old = client[c].old
  BY <1>1 DEF Client, ClientPcs
<1>5. /\ client' \in [Clients -> Client]
      /\ client'[c] = x
      /\ \A d \in Clients \ {c} : client'[d] = client[d]
  BY <1>3, <1>4, ClientUpdated
<1> HIDE DEF x
<1>6. VmTypeOK'
  BY <1>1, <1>2, <1>5 DEF VmTypeOK, LoadSpec, ClientOnly
<1>7. Proceeds(c)
  BY <1>1, <1>5 DEF Proceeds, LoadSpec, ClientOnly, VmTypeOK
<1>8. GoesOn(c)
  BY <1>1, <1>3, <1>4, <1>5 DEF GoesOn, LoadSpec
<1>9. \A h \in client'[c].old : host'[h].pc = "gone"
  BY <1>4, <1>5 DEF VmInv, OldHaveEnded, LoadSpec
<1>10. SeesNew(c)'
  BY <1>1, <1>3, <1>4, <1>5 DEF SeesNew
<1> QED
  BY <1>6, <1>7, <1>8, <1>9, <1>10, ProceedsInv

\* The look for a host: an up notes which hosts have ended, unless it finds one of start
\* that has yet to wipe the files.
LEMMA CheckInv ==
    ASSUME VmInv, NEW c \in Clients, Check(c)
    PROVE  VmInv'
<1>1. VmTypeOK /\ client[c] \in Client /\ client[c].op = "up" /\ client[c].pc = "check"
  BY DEF Check, VmInv, VmTypeOK, OpsFit
<1> DEFINE pc  == IF NoLivePid THEN "clear" ELSE "poll"
           old == {h \in Hosts : /\ host[h].pc = "gone"
                                 /\ \A g \in Hosts : LivePid(g) => ~host[g].wild}
           x   == [client[c] EXCEPT !.pc = pc, !.old = old]
<1>2. pc \in {"clear", "poll"} /\ old \in SUBSET Hosts
      /\ client' = [client EXCEPT ![c] = x]
  BY DEF Check
<1>3. \A h \in old : host[h].pc = "gone"
  OBVIOUS
<1>4. pc = "poll" => \E g \in Hosts : /\ LivePid(g)
                                      /\ host[g].wild => old = {}
  BY DEF NoLivePid
<1> HIDE DEF pc, old
<1>5. /\ x \in Client /\ x.pc = pc /\ x.op = "up"
      /\ x.call = client[c].call /\ x.old = old
  BY <1>1, <1>2 DEF Client, ClientPcs
<1> HIDE DEF x
<1>6. /\ client' \in [Clients -> Client]
      /\ client'[c] = x
      /\ \A d \in Clients \ {c} : client'[d] = client[d]
  BY <1>2, <1>5, ClientUpdated
<1>7. VmTypeOK' /\ Proceeds(c)
  BY <1>1, <1>6 DEF VmTypeOK, Proceeds, Check, ClientOnly, files
<1>8. GoesOn(c)
  BY <1>1, <1>2, <1>5, <1>6 DEF GoesOn
<1>9. \A h \in client'[c].old : host'[h].pc = "gone"
  BY <1>3, <1>5, <1>6 DEF Check
<1>10. ~raced' => SeesNew(c)'
  <2> SUFFICES ASSUME ~raced', pc = "poll"
               PROVE  /\ phase # None => phase.by \notin old
                      /\ \A k \in Kinds : marker[k] # None => marker[k] \notin old
    BY <1>2, <1>5, <1>6 DEF SeesNew, Check, files
  <2>1. PICK g \in Hosts : LivePid(g) /\ (host[g].wild => old = {})
    BY <1>4
  <2>2. g \notin old
    BY <1>3, <2>1 DEF LivePid, Lives, Living, Early, Guest
  <2>3. OwnPhase(g) /\ OwnMarkers(g)
    BY <2>1 DEF VmInv, Unraced, FilesAreOwn, LivePid, Check, ClientOnly
  <2> QED
    BY <2>1, <2>2, <2>3 DEF OwnPhase, OwnMarkers
<1> QED
  BY <1>7, <1>8, <1>9, <1>10, ProceedsInv

\* The clearing of phase and markers before the spawn.
LEMMA ClearBringupInv ==
    ASSUME VmInv, NEW c \in Clients, ClearBringup(c)
    PROVE  VmInv'
<1>1. VmTypeOK /\ client[c] \in Client /\ client[c].op = "up" /\ client[c].pc = "clear"
  BY DEF ClearBringup, VmInv, VmTypeOK, OpsFit
<1> DEFINE x == [client[c] EXCEPT !.pc = "spawn"]
<1>2. client' = [client EXCEPT ![c] = x]
  BY DEF ClearBringup, Goes
<1>3. /\ x \in Client /\ x.pc = "spawn" /\ x.op = "up"
      /\ x.call = client[c].call /\ x.old = client[c].old
  BY <1>1 DEF Client, ClientPcs
<1> HIDE DEF x
<1>4. /\ client' \in [Clients -> Client]
      /\ client'[c] = x
      /\ \A d \in Clients \ {c} : client'[d] = client[d]
  BY <1>2, <1>3, ClientUpdated
<1>5. raced' \in BOOLEAN /\ (raced => raced')
  BY <1>1 DEF ClearBringup, Assumes, VmTypeOK
<1>6. phase' = None /\ marker' \in [Kinds -> {None}]
  BY DEF ClearBringup
<1>7. VmTypeOK' /\ Proceeds(c)
  BY <1>1, <1>4, <1>5, <1>6 DEF VmTypeOK, Proceeds, ClearBringup, Counts, Phases
<1>8. GoesOn(c)
  BY <1>1, <1>3, <1>4 DEF GoesOn
<1>9. \A h \in client'[c].old : host'[h].pc = "gone"
  BY <1>3, <1>4 DEF VmInv, OldHaveEnded, ClearBringup
<1>10. SeesNew(c)'
  BY <1>3, <1>4, <1>6 DEF SeesNew
<1> QED
  BY <1>7, <1>8, <1>9, <1>10, ProceedsInv

\* The reads of the phase and of the marker by an up that polls.
LEMMA PollInv ==
    ASSUME VmInv, NEW c \in Clients, Poll(c) \/ PollAgain(c)
    PROVE  VmInv'
<1>1. VmTypeOK /\ client[c] \in Client /\ client[c].op = "up"
      /\ client[c].pc \in {"poll", "look"}
  BY DEF Poll, PollAgain, VmInv, VmTypeOK, OpsFit
<1>2. CASE client' = [client EXCEPT ![c] = Idle]
  BY <1>1, <1>2, QuietInv DEF Poll, PollAgain, Rests, ClientOnly, VmTypeOK
<1>3. ASSUME NEW pc \in {"poll", "look"}, NEW saw \in Phases,
             saw \in {None, phase},
             client' = [client EXCEPT ![c] = [client[c] EXCEPT !.pc = pc, !.saw = saw]]
      PROVE  VmInv'
  <2> DEFINE x == [client[c] EXCEPT !.pc = pc, !.saw = saw]
  <2>1. /\ x \in Client /\ x.pc = pc /\ x.op = "up" /\ x.saw = saw
        /\ x.call = client[c].call /\ x.old = client[c].old
    BY <1>1 DEF Client, ClientPcs
  <2>2. client' = [client EXCEPT ![c] = x]
    BY <1>3
  <2> HIDE DEF x
  <2>3. /\ client' \in [Clients -> Client]
        /\ client'[c] = x
        /\ \A d \in Clients \ {c} : client'[d] = client[d]
    BY <2>1, <2>2, ClientUpdated
  <2>4. VmTypeOK' /\ Proceeds(c)
    BY <1>1, <2>3 DEF VmTypeOK, Proceeds, Poll, PollAgain, ClientOnly, files
  <2>5. GoesOn(c)
    BY <1>1, <2>1, <2>3 DEF GoesOn
  <2>6. \A h \in client'[c].old : host'[h].pc = "gone"
    BY <2>1, <2>3 DEF VmInv, OldHaveEnded, Poll, PollAgain
  <2>7. ~raced' => SeesNew(c)'
    BY <1>1, <1>3, <2>1, <2>3
    DEF SeesNew, VmInv, Unraced, FilesAreNew, Poll, PollAgain, files, ClientOnly
  <2> QED
    BY <2>4, <2>5, <2>6, <2>7, ProceedsInv
<1>4. phase \in Phases /\ None \in Phases
  BY <1>1 DEF VmTypeOK, Phases
<1> QED
  BY <1>2, <1>3, <1>4 DEF Poll, PollAgain, Rests

\* The removal of the directory; under a host that lives it is a race.
LEMMA RemoveDirInv ==
    ASSUME VmInv, NEW c \in Clients, RemoveDir(c)
    PROVE  VmInv'
<1>1. VmTypeOK /\ Idle \in Client
  BY ClientStates DEF VmInv, VmTypeOK
<1>2. /\ client' \in [Clients -> Client]
      /\ client'[c] = Idle
      /\ \A d \in Clients \ {c} : client'[d] = client[d]
  BY <1>1, ClientUpdated DEF RemoveDir, Rests
<1>3. /\ raced' \in BOOLEAN /\ (raced => raced')
      /\ \A h \in Hosts : ~Lives(h) \/ raced'
  BY <1>1 DEF RemoveDir, Assumes, VmTypeOK
<1>4. marker' \in [Kinds -> {None}]
  BY DEF RemoveDir
<1>5. VmTypeOK' /\ Proceeds(c)
  BY <1>1, <1>2, <1>3, <1>4 DEF VmTypeOK, Proceeds, RemoveDir, Counts, Phases
<1>6. SeesNew(c)' /\ \A h \in client'[c].old : host'[h].pc = "gone"
  BY <1>2 DEF SeesNew, Idle
<1> QED
  BY <1>2, <1>5, <1>6, ProceedsInv

\* The spawn of a host; beside one that lives it is a race.
LEMMA SpawnInv ==
    ASSUME VmInv, NEW c \in Clients, Spawn(c)
    PROVE  VmInv'
<1> DEFINE h == client[c].call
           new == [host[h] EXCEPT !.pc = "prepare", !.wild = (client[c].op = "start")]
<1>1. /\ VmTypeOK /\ client[c] \in Client /\ client[c].op \in {"up", "start"}
      /\ client[c].pc = "spawn"
  BY DEF Spawn, VmInv, VmTypeOK, OpsFit
<1>2. h \in Hosts /\ host[h].pc = "unborn" /\ h <= calls
  BY <1>1 DEF VmInv, CallsFit, BeforeSpawn, Client
<1>3. host \in [Hosts -> Host] /\ host[h] \in Host
  BY <1>1, <1>2 DEF VmTypeOK
<1>4. /\ new \in Host /\ new.pc = "prepare"
      /\ new.wild <=> client[c].op = "start"
  BY <1>3 DEF Host, HostPcs, Living, Early
<1>5. /\ host' \in [Hosts -> Host]
      /\ host'[h] = new
      /\ \A g \in Hosts \ {h} : host'[g] = host[g]
  <2>1. host' = [host EXCEPT ![h] = new]
    BY DEF Spawn
  <2> HIDE DEF new, h
  <2> QED
    BY <1>2, <1>3, <1>4, <2>1
<1> HIDE DEF new
<1>6. /\ client' \in [Clients -> Client]
      /\ \A d \in Clients \ {c} : client'[d] = client[d]
      /\ \/ client'[c] = Idle
         \/ /\ client'[c].op = "up" /\ client[c].op = "up" /\ client'[c].pc = "poll"
            /\ client'[c].call = h /\ client'[c].old = client[c].old
  <2>1. CASE Rests(c)
    BY <1>1, <2>1, ClientStates, ClientUpdated DEF Rests
  <2>2. CASE client[c].op # "start" /\ Goes(c, "poll")
    <3> DEFINE x == [client[c] EXCEPT !.pc = "poll"]
    <3>1. /\ x \in Client /\ x.pc = "poll" /\ x.op = client[c].op
          /\ x.call = client[c].call /\ x.old = client[c].old
      BY <1>1 DEF Client, ClientPcs
    <3>2. client' = [client EXCEPT ![c] = x]
      BY <2>2 DEF Goes
    <3> HIDE DEF x
    <3>3. /\ client' \in [Clients -> Client]
          /\ client'[c] = x
          /\ \A d \in Clients \ {c} : client'[d] = client[d]
      BY <3>1, <3>2, ClientUpdated
    <3> QED
      BY <1>1, <2>2, <3>1, <3>3
  <2> QED
    BY <2>1, <2>2 DEF Spawn
<1>7. /\ raced' \in BOOLEAN /\ (raced => raced')
      /\ ~raced' => \A g \in Hosts : /\ ~Lives(g)
                                     /\ client[c].op = "up" /\ host[g].pc = "gone" =>
                                           g \in client[c].old
  BY <1>1 DEF Spawn, Assumes, VmTypeOK
<1>8. UNCHANGED <<spec, pidfile, phase, marker, calls, deaths>> /\ dir' = TRUE
  BY DEF Spawn, Counts
<1>9. VmTypeOK'
  BY <1>1, <1>5, <1>6, <1>7, <1>8 DEF VmTypeOK
<1>10. \A g \in Hosts : /\ host'[g].pc = "unborn" <=> host[g].pc = "unborn" /\ g # h
                        /\ host[g].pc = "gone" => host'[g].pc = "gone"
  BY <1>2, <1>4, <1>5
<1>11. \A d \in Clients : /\ client[d].old \subseteq Hosts
                          /\ client[d].call \in {None} \cup Hosts
  BY <1>1 DEF VmTypeOK, Client
<1>12. OpsFit'
  BY <1>6 DEF VmInv, OpsFit, Idle
<1>13. CallsFit'
  <2>1. ~BeforeSpawn(c)'
    BY <1>6 DEF BeforeSpawn, Idle
  <2>2. client'[c].call \in {None, client[c].call}
    BY <1>6 DEF Idle
  <2>3. \A d \in Clients \ {c} : BeforeSpawn(d)' => /\ client[d].call \in Hosts
                                                   /\ client[d].call # h
                                                   /\ host[client[d].call].pc = "unborn"
    BY <1>2, <1>6, <1>11, MicroVmAssumption DEF VmInv, CallsFit, BeforeSpawn, Hosts
  <2>4. \A d \in Clients : /\ client'[d].call # None => client'[d].call <= calls'
                           /\ BeforeSpawn(d)' => /\ client'[d].call # None
                                                 /\ host'[client'[d].call].pc = "unborn"
    BY <1>6, <1>8, <1>10, <2>1, <2>2, <2>3 DEF VmInv, CallsFit, BeforeSpawn
  <2>5. \A d, e \in Clients :
           client'[d].call # None /\ client'[d].call = client'[e].call => d = e
    BY <1>6, <2>2 DEF VmInv, CallsFit
  <2>6. \A g \in Hosts : g > calls' => host'[g].pc = "unborn"
    <3>1. calls \in Nat /\ h \in Nat
      BY <1>1, <1>2 DEF VmTypeOK, Hosts
    <3>2. ~ (h > calls)
      BY <1>2, <3>1
    <3> QED
      BY <1>8, <1>10, <3>2 DEF VmInv, CallsFit
  <2> QED
    BY <2>4, <2>5, <2>6 DEF CallsFit
<1>14. WrittenByBorn'
  <2>1. /\ phase # None => phase.by \in Hosts
        /\ \A k \in Kinds : marker[k] \in {None} \cup Hosts
    BY <1>1 DEF VmTypeOK, Phases
  <2> QED
    BY <1>8, <1>10, <2>1 DEF VmInv, WrittenByBorn
<1>15. OldHaveEnded'
  BY <1>6, <1>10, <1>11 DEF VmInv, OldHaveEnded, Idle
<1>16. ASSUME ~raced' PROVE Unraced'
  <2>1. Unraced /\ SeesNew(c)
    BY <1>7, <1>16 DEF VmInv, Unraced, FilesAreNew
  <2>2. \A g \in Hosts : Lives(g)' => g = h
    BY <1>5, <1>7, <1>16 DEF Lives
  <2>3. client[c].op = "up" => phase = None /\ \A k \in Kinds : marker[k] = None
    <3>1. \A g \in Hosts : host[g].pc \in HostPcs
      BY <1>3 DEF Host
    <3>2. \A g \in Hosts : client[c].op = "up" /\ host[g].pc # "unborn" =>
                             g \in client[c].old
      BY <1>7, <1>16, <3>1 DEF Lives, HostPcs
    <3>3. /\ phase # None => phase.by \in Hosts
          /\ \A k \in Kinds : marker[k] \in {None} \cup Hosts
      BY <1>1 DEF VmTypeOK, Phases
    <3> QED
      BY <1>1, <2>1, <3>2, <3>3 DEF VmInv, WrittenByBorn, SeesNew
  <2>4. SoleHost'
    BY <2>2 DEF SoleHost
  <2>5. PidIsOfTheHost'
    BY <1>4, <1>5, <2>2 DEF PidIsOfTheHost
  <2>6. FilesAreOwn'
    BY <1>1, <1>4, <1>5, <1>8, <2>2, <2>3 DEF FilesAreOwn, OwnPhase, OwnMarkers
  <2>7. FilesAreNew'
    BY <1>1, <1>6, <1>8, <2>1 DEF Unraced, FilesAreNew, SeesNew, Idle
  <2> QED
    BY <2>4, <2>5, <2>6, <2>7 DEF Unraced
<1> QED
  BY <1>9, <1>12, <1>13, <1>14, <1>15, <1>16 DEF VmInv

\* A new command, with a call number that no command and no host has.
LEMMA BeginInv ==
    ASSUME VmInv, NEW c \in Clients, Begin(c)
    PROVE  VmInv'
<1>1. VmTypeOK /\ calls \in Nat /\ calls' = calls + 1 /\ calls' \in Hosts
      /\ UNCHANGED <<files, host, deaths, raced>>
  BY MicroVmAssumption DEF Begin, VmInv, VmTypeOK, Hosts
<1>2. PICK op \in {"up", "start", "stop", "delete"}, sort \in Kinds :
        client' = [client EXCEPT ![c] =
              [Idle EXCEPT !.op = op, !.kind = sort,
                           !.call = IF op \in {"up", "start"} THEN calls' ELSE None,
                           !.pc = CASE op = "up" -> "load"
                                    [] op = "delete" -> "seek"
                                    [] OTHER -> "pid"]]
  BY DEF Begin
<1> DEFINE call == IF op \in {"up", "start"} THEN calls' ELSE None
           pc   == CASE op = "up" -> "load" [] op = "delete" -> "seek" [] OTHER -> "pid"
           x    == [Idle EXCEPT !.op = op, !.kind = sort, !.call = call, !.pc = pc]
<1>3. /\ pc \in {"load", "seek", "pid"} /\ call \in {None} \cup Hosts
      /\ pc = "load" => op = "up"
      /\ pc = "pid" => op # "delete"
      /\ op \in {"up", "start"} => call = calls'
      /\ call # None => call = calls'
  BY <1>1
<1> HIDE DEF pc, call
<1>4. /\ x \in Client /\ x.op = op /\ x.pc = pc /\ x.call = call /\ x.old = {}
  BY <1>3 DEF Client, ClientPcs, Idle, Phases
<1>5. client' = [client EXCEPT ![c] = x]
  BY <1>2 DEF pc, call
<1> HIDE DEF x
<1>6. /\ client' \in [Clients -> Client]
      /\ client'[c] = x
      /\ \A d \in Clients \ {c} : client'[d] = client[d]
  BY <1>4, <1>5, ClientUpdated
<1>7. VmTypeOK'
  BY <1>1, <1>6 DEF VmTypeOK, files, Hosts
<1>8. OpsFit'
  BY <1>3, <1>4, <1>6 DEF VmInv, OpsFit
<1>9. CallsFit'
  <2>1. \A d \in Clients \ {c} : client[d].call # None => client[d].call < calls'
    <3>1. \A d \in Clients : client[d].call \in {None} \cup Hosts
      BY <1>1 DEF VmTypeOK, Client
    <3> QED
      BY <1>1, <3>1 DEF VmInv, CallsFit, Hosts
  <2>2. \A d \in Clients \ {c} : client[d].call # None => client[d].call <= calls'
    <3>1. \A d \in Clients : client[d].call \in {None} \cup Hosts
      BY <1>1 DEF VmTypeOK, Client
    <3> QED
      BY <1>1, <2>1, <3>1 DEF Hosts
  <2>3. host[calls'].pc = "unborn"
    BY <1>1 DEF VmInv, CallsFit
  <2>4. \A d \in Clients : /\ client'[d].call # None => client'[d].call <= calls'
                           /\ BeforeSpawn(d)' => /\ client'[d].call # None
                                                 /\ host'[client'[d].call].pc = "unborn"
    <3>1. ASSUME NEW d \in Clients \ {c}
          PROVE  /\ client'[d].call # None => client'[d].call <= calls'
                 /\ BeforeSpawn(d)' => /\ client'[d].call # None
                                       /\ host'[client'[d].call].pc = "unborn"
      BY <1>1, <1>6, <2>2 DEF VmInv, CallsFit, BeforeSpawn
    <3>2. /\ client'[c].call # None => client'[c].call <= calls'
          /\ BeforeSpawn(c)' => /\ client'[c].call # None
                                /\ host'[client'[c].call].pc = "unborn"
      BY <1>1, <1>3, <1>4, <1>6, <2>3, MicroVmAssumption DEF BeforeSpawn, Hosts
    <3> QED
      BY <3>1, <3>2
  <2>5. \A d, e \in Clients :
           client'[d].call # None /\ client'[d].call = client'[e].call => d = e
    <3>1. client'[c].call # None => client'[c].call = calls'
      BY <1>3, <1>4, <1>6
    <3>2. \A d \in Clients \ {c} : client'[d].call # None => client'[d].call # calls'
      BY <1>1, <1>6, <2>1
    <3> QED
      BY <1>6, <3>1, <3>2 DEF VmInv, CallsFit
  <2>6. \A g \in Hosts : g > calls' => host'[g].pc = "unborn"
    BY <1>1 DEF VmInv, CallsFit, Hosts
  <2> QED
    BY <2>4, <2>5, <2>6 DEF CallsFit
<1>10. WrittenByBorn'
  BY <1>1 DEF VmInv, WrittenByBorn, files
<1>11. OldHaveEnded'
  BY <1>1, <1>4, <1>6 DEF VmInv, OldHaveEnded
<1>12. ASSUME ~raced' PROVE Unraced'
  <2>1. Unraced
    BY <1>1, <1>12 DEF VmInv
  <2>2. SoleHost' /\ PidIsOfTheHost' /\ FilesAreOwn'
    BY <1>1, <2>1
    DEF Unraced, SoleHost, PidIsOfTheHost, FilesAreOwn, OwnPhase, OwnMarkers, Lives,
        files
  <2>3. FilesAreNew'
    BY <1>1, <1>3, <1>4, <1>6, <2>1 DEF Unraced, FilesAreNew, SeesNew, files
  <2> QED
    BY <2>2, <2>3 DEF Unraced
<1> QED
  BY <1>7, <1>8, <1>9, <1>10, <1>11, <1>12 DEF VmInv

\* Nothing changes.
LEMMA VmStutterInv ==
    ASSUME VmInv, UNCHANGED vmVars
    PROVE  VmInv'
BY DEF VmInv, VmTypeOK, OpsFit, CallsFit, BeforeSpawn, WrittenByBorn, OldHaveEnded,
       Unraced, SoleHost, PidIsOfTheHost, FilesAreOwn, OwnPhase, OwnMarkers,
       FilesAreNew, SeesNew, Lives, vmVars, files

\* Every step keeps the invariant.
LEMMA VmInductive == VmInv /\ [VmNext]_vmVars => VmInv'
<1>1. ASSUME VmInv, NEW c \in Clients, CommandStep(c) PROVE VmInv'
  BY <1>1, QuietCommands, LoadSpecInv, CheckInv, ClearBringupInv, SpawnInv, PollInv,
     RemoveDirInv DEF CommandStep
<1>2. ASSUME VmInv, NEW c \in Clients, TimesOut(c) \/ ClientDies(c) PROVE VmInv'
  BY <1>2, QuietCommands
<1>3. ASSUME VmInv, NEW h \in Hosts,
             HostMainStep(h) \/ ServiceStep(h) \/ GuestStops(h) \/ HostDies(h)
      PROVE  VmInv'
  BY <1>3, HostStepInv DEF HostStep
<1> QED
  BY <1>1, <1>2, <1>3, BeginInv, VmStutterInv DEF VmNext

\* Every variable keeps its type: the files hold hosts or nothing, commands and hosts
\* are where their code can be (main.rs, bringup.rs, backend/vz).
THEOREM VmTypeCorrect == VmSpec => []VmTypeOK
<1>1. VmInv => VmTypeOK
  BY DEF VmInv
<1> QED
  BY <1>1, VmInitInv, VmInductive, PTL DEF VmSpec

\* Whatever up, start, stop and delete do, whenever hosts and commands die: a VM that is
\* on has its host's pid in the pidfile, so stop, status, delete and the next up find
\* it, unless two hosts were spawned side by side or the directory was removed under one.
THEOREM VmIsFound == VmSpec => []RunningVmIsFound
<1>1. VmInv => RunningVmIsFound
  BY DEF VmInv, Unraced, PidIsOfTheHost, RunningVmIsFound, VmOn, LivePid, Lives, Living,
         Guest
<1> QED
  BY <1>1, VmInitInv, VmInductive, PTL DEF VmSpec

\* An up reports "ready" only on the phase and marker of a boot that had not ended when
\* the up looked for a host, unless there was one of those races.  To an up that finds a
\* host of start which has yet to wipe the files, no boot counts as ended.
THEOREM ReadyIsNew == VmSpec => ReadyIsOfThisBoot
<1>1. VmInv /\ [VmNext]_vmVars =>
          [\A c \in Clients : Reports(c) => Fresh(c) \/ raced]_vmVars
  <2> SUFFICES ASSUME VmInv, NEW c \in Clients, Reports(c), ~raced PROVE Fresh(c)
    OBVIOUS
  <2>1. client[c].pc = "look" /\ LooksReady(c) /\ client[c].kind \in Kinds
        /\ client[c].op = "up"
    BY DEF Reports, VmInv, VmTypeOK, Client, OpsFit
  <2> QED
    BY <2>1 DEF VmInv, Unraced, FilesAreNew, SeesNew, Fresh, LooksReady
<1> QED
  BY <1>1, VmInitInv, VmInductive, PTL DEF VmSpec, ReadyIsOfThisBoot

===============================================================================
