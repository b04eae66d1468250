------------------------------ MODULE Netstack ------------------------------
(* One TCP flow through the userspace netstack of a micro-VM               *)
(* (packages/vm/src/netstack): the engine thread that owns the smoltcp     *)
(* socket facing the guest, the Bridge it shares with the external side    *)
(* under a mutex, and the threads at the external side - the caller of     *)
(* connect_to() or the egress guard of an outbound flow, then the two      *)
(* directions of bridge_pump().  The guest and the external TcpStream      *)
(* (the upstream of a terminated flow, the client of a published port) are *)
(* the environment.  One unit of data stands for a batch of bytes; flows   *)
(* share nothing but the count that admit_syn() caps, so one is enough.    *)
EXTENDS Naturals

CONSTANTS MaxUnits,   \* bound: units each end sends
          HighWater,  \* both *_HIGH_WATER marks of the Bridge, in units
          TcpBuf      \* TCP_BUF: each buffer of a smoltcp socket, in units

ASSUME UnitsAssumption == MaxUnits \in Nat \ {0}
ASSUME BuffersAssumption == HighWater \in Nat \ {0} /\ TcpBuf \in Nat \ {0}

VARIABLES kind,    \* FlowKind: "terminated" or "originated"
          engine,  \* where the engine thread is in its loop
          sock,    \* the smoltcp socket: state and the two buffers
          bridge,  \* the Bridge
          main,    \* connect_to() or serve_outbound(), then tcp -> bridge
          up,      \* the thread bridge -> tcp of bridge_pump()
          guest    \* the guest's end of the connection

vars == <<kind, engine, sock, bridge, main, up, guest>>

\* tcp::State, with "none" before and "removed" after the flow's lifetime.
Sending == {"established", "closeWait"}
Hearing == {"established", "finWait1", "finWait2"}
Ending  == {"finWait1", "finWait2", "closing", "lastAck", "timeWait"}
SockStates == {"none", "listen", "synSent", "synReceived", "closed", "removed"}
              \cup Sending \cup Hearing \cup Ending
Alive == SockStates \ {"none", "closed", "removed"}

MainPcs == {"asking", "waiting", "unspawned", "peek", "decide", "connect",
            "head", "pump", "refuse", "abort", "request", "hello", "response",
            "reply", "read", "write", "failed", "finish", "join", "done"}

\* What of n units fits into the room left.
Fits(n, room) == IF n < room THEN n ELSE room

Init ==
    /\ kind \in {"terminated", "originated"}
    /\ engine = "poll"
    /\ sock = [state |-> "none", rx |-> 0, tx |-> 0]
    /\ bridge = [g2e |-> 0, e2g |-> 0, guestFin |-> FALSE, extFin |-> FALSE,
                 established |-> FALSE, aborted |-> FALSE]
    /\ main = [pc |-> IF kind = "originated" THEN "asking" ELSE "unspawned",
               head |-> 0, read |-> 0, clean |-> FALSE]
    /\ up = [pc |-> "none", passed |-> 0, end |-> "none"]
    /\ guest = [sent |-> 0, got |-> 0, end |-> "open"]

-----------------------------------------------------------------------------
(* What the engine's first poll finds: steps 1 to 3 of the loop.  A        *)
(* segment of the guest changes the socket as smoltcp does.                *)

Polls == engine = "poll" /\ UNCHANGED <<kind, engine, bridge, up>>
Becomes(s) == sock' = [sock EXCEPT !.state = s]

\* Step 1, a connect request: the socket sends its SYN ...
Originate ==
    /\ Polls
    /\ main.pc = "asking"
    /\ Becomes("synSent")
    /\ main' = [main EXCEPT !.pc = "waiting"]
    /\ UNCHANGED guest

\* ... or smoltcp refuses, and the caller is told.
OriginateFails ==
    /\ engine = "poll"
    /\ main.pc = "asking"
    /\ bridge' = [bridge EXCEPT !.aborted = TRUE]
    /\ main' = [main EXCEPT !.pc = "waiting"]
    /\ Becomes("removed")
    /\ UNCHANGED <<kind, engine, up, guest>>

\* Step 2, an admitted SYN of the guest: a listening socket that at once
\* takes it.  A SYN for the tuple of a socket that listens again is a
\* Duplicate, which that socket takes.
GuestSyn ==
    /\ Polls
    /\ kind = "terminated"
    /\ sock.state \in {"none", "listen"}
    /\ Becomes("synReceived")
    /\ guest' = [guest EXCEPT !.end = "open"]
    /\ UNCHANGED main

GuestAccepts ==
    /\ Polls
    /\ guest.end = "open"
    /\ sock.state \in {"synReceived", "synSent"}
    /\ Becomes("established")
    /\ UNCHANGED <<main, guest>>

GuestSends ==
    /\ Polls
    /\ guest.end = "open"
    /\ sock.state \in Hearing
    /\ sock.rx < TcpBuf
    /\ guest.sent < MaxUnits
    /\ sock' = [sock EXCEPT !.rx = @ + 1]
    /\ guest' = [guest EXCEPT !.sent = @ + 1]
    /\ UNCHANGED main

GuestAcks ==
    /\ Polls
    /\ guest.end \in {"open", "fin"}
    /\ sock.state \in Alive
    /\ sock.tx > 0
    /\ sock' = [sock EXCEPT !.tx = @ - 1]
    /\ guest' = [guest EXCEPT !.got = @ + 1]
    /\ UNCHANGED main

GuestCloses ==
    /\ Polls
    /\ guest.end = "open"
    /\ \/ sock.state \in {"synReceived", "established"} /\ Becomes("closeWait")
       \/ sock.state = "finWait1" /\ Becomes("closing")
       \/ sock.state = "finWait2" /\ Becomes("timeWait")
    /\ guest' = [guest EXCEPT !.end = "fin"]
    /\ UNCHANGED main

GuestAcksFin ==
    /\ Polls
    /\ guest.end \in {"open", "fin"}
    /\ sock.tx = 0
    /\ \/ sock.state = "finWait1" /\ Becomes("finWait2")
       \/ sock.state = "closing" /\ Becomes("timeWait")
       \/ sock.state = "lastAck" /\ Becomes("closed")
    /\ UNCHANGED <<main, guest>>

\* A reset closes the socket; in the middle of the guest's handshake it
\* makes it listen again.
GuestResets ==
    /\ Polls
    /\ guest.end \in {"open", "fin"}
    /\ sock.state \in Alive
    /\ Becomes(IF sock.state = "synReceived" THEN "listen" ELSE "closed")
    /\ guest' = [guest EXCEPT !.end = "reset"]
    /\ UNCHANGED main

\* The guest falls silent ...
GuestVanishes ==
    /\ Polls
    /\ guest.end \in {"open", "fin"}
    /\ sock.state \in Alive
    /\ guest' = [guest EXCEPT !.end = "gone"]
    /\ UNCHANGED <<sock, main>>

\* ... and the idle timeout of tcp_socket() resets the connection; a
\* listening socket has no timer.  TIME-WAIT ends by itself.
SocketTimesOut ==
    /\ Polls
    /\ \/ guest.end = "gone" /\ sock.state \in Alive \ {"listen"}
       \/ sock.state = "timeWait"
    /\ Becomes("closed")
    /\ UNCHANGED <<main, guest>>

PollEnds ==
    /\ engine = "poll"
    /\ engine' = "service"
    /\ UNCHANGED <<kind, sock, bridge, main, up, guest>>

-----------------------------------------------------------------------------
(* Step 4 of the loop: service_flow(), under the lock of the bridge.       *)

MayRecv(s) == s.state \in Hearing \/ s.rx > 0
MaySend(s) == s.state \in Sending

\* Fault: any socket that cannot receive is taken for the guest's FIN.
HeardFin_Unconnected(b, s) == b.guestFin \/ ~ MayRecv(s)

\* Fault: only the FIN itself is noticed, not a reset or a timeout.
HeardFin_OnlyFin(b, s) ==
    b.guestFin \/ (b.established /\ s.rx = 0 /\ s.state \in {"closeWait", "timeWait"})

\* Published only once the flow is up: a socket in its handshake cannot
\* receive either.
HeardFin(b, s) == b.guestFin \/ (b.established /\ ~ MayRecv(s))

\* Fault: the guest is told of the end before the last bytes are sent.
Closes_Early(b, s) == b.extFin /\ MaySend(s)

\* Fault: a guest that has closed its half is never closed back.
Closes_OnlyOpen(b, s) == b.extFin /\ b.e2g = 0 /\ s.state = "established"

Closes(b, s) == b.extFin /\ b.e2g = 0 /\ MaySend(s)

\* Fault: an abort of the external side is not passed on.
Aborts_Never(b, s) == FALSE

Aborts(b, s) == b.aborted /\ s.state \in Alive \ {"timeWait"}

\* The flow becomes established, its guard is started, bytes move both
\* ways up to the marks, and the ends of stream are passed on.
Service ==
    /\ engine = "service"
    /\ engine' = "reap"
    /\ IF sock.state \in {"none", "removed"}
       THEN UNCHANGED <<sock, bridge, main>>
       ELSE LET b1 == [bridge EXCEPT !.established = @ \/ MaySend(sock)]
                in == Fits(sock.rx, HighWater - b1.g2e)
                s2 == [sock EXCEPT !.rx = @ - in]
                b2 == [b1 EXCEPT !.g2e = @ + in, !.guestFin = HeardFin(b1, s2)]
                out == IF MaySend(s2) THEN Fits(b2.e2g, TcpBuf - s2.tx) ELSE 0
                s3 == [s2 EXCEPT !.tx = @ + out]
                b3 == [b2 EXCEPT !.e2g = @ - out]
                closing == IF s3.state = "closeWait" THEN "lastAck"
                                                     ELSE "finWait1"
                s4 == IF Closes(b3, s3) THEN [s3 EXCEPT !.state = closing]
                                        ELSE s3
            IN /\ bridge' = b3
               /\ sock' = IF Aborts(b3, s4) THEN [s4 EXCEPT !.state = "closed"]
                                            ELSE s4
               /\ main' = [main EXCEPT !.pc =
                    IF @ = "unspawned" /\ b1.established THEN "peek" ELSE @]
    /\ UNCHANGED <<kind, up, guest>>

\* Step 7: a closed socket is removed, and a caller that still waits for the
\* connection is told.
Reap ==
    /\ engine = "reap"
    /\ engine' = "poll"
    /\ IF sock.state = "closed"
       THEN /\ Becomes("removed")
            /\ bridge' = [bridge EXCEPT !.aborted = @ \/ ~ bridge.established]
       ELSE UNCHANGED <<sock, bridge>>
    /\ UNCHANGED <<kind, main, up, guest>>

-----------------------------------------------------------------------------
(* The external side up to the pump.                                       *)

ByMain == UNCHANGED <<kind, engine, sock, up, guest>>
MainGoes(pc) == main' = [main EXCEPT !.pc = pc]

\* connect_to() polls the bridge, until its deadline of ten seconds.
CallerLooks ==
    /\ ByMain /\ UNCHANGED bridge
    /\ main.pc = "waiting"
    /\ \/ bridge.established /\ MainGoes("pump")
       \/ ~ bridge.established /\ bridge.aborted /\ MainGoes("done")

CallerTimesOut ==
    /\ ByMain /\ UNCHANGED bridge
    /\ main.pc = "waiting"
    /\ ~ bridge.established /\ ~ bridge.aborted
    /\ MainGoes("done")

\* serve_outbound() peeks at the head of the guest's stream, if its port
\* tells it to, until the head is complete, the guest ends or time is up.
PeekTakes ==
    /\ ByMain
    /\ main.pc = "peek"
    /\ bridge.g2e > 0
    /\ main' = [main EXCEPT !.head = @ + bridge.g2e]
    /\ bridge' = [bridge EXCEPT !.g2e = 0]

PeekEnds ==
    /\ ByMain /\ UNCHANGED bridge
    /\ main.pc = "peek"
    /\ MainGoes("decide")

\* The policy allows the flow, denies it with a page (plain HTTP), or
\* denies it with a reset.
Decide ==
    /\ ByMain /\ UNCHANGED bridge
    /\ main.pc = "decide"
    /\ \E pc \in {"connect", "refuse", "abort"} : MainGoes(pc)

\* deny(): the 403 page; a write to an aborted flow fails and is ignored.
Refuse ==
    /\ ByMain
    /\ main.pc = "refuse"
    /\ bridge.aborted \/ bridge.e2g < HighWater
    /\ main' = [main EXCEPT !.pc = "finish", !.clean = TRUE,
                            !.read = IF bridge.aborted THEN @ ELSE @ + 1]
    /\ bridge' = [bridge EXCEPT !.e2g = IF bridge.aborted THEN @ ELSE @ + 1]

\* The upstream is dialled, and the peeked head replayed to it; or the flow
\* is inspected, and TLS starts with that head; or the name, the upstream or
\* the inspection is not to be had.
Connect ==
    /\ ByMain /\ UNCHANGED bridge
    /\ main.pc = "connect"
    /\ \E pc \in {"head", "request", "abort"} : MainGoes(pc)

ReplayHead ==
    /\ main.pc = "head"
    /\ \/ /\ main' = [main EXCEPT !.pc = "pump", !.head = 0]
          /\ up' = [up EXCEPT !.passed = @ + main.head]
       \/ main.head > 0 /\ MainGoes("abort") /\ UNCHANGED up
    /\ UNCHANGED <<kind, engine, sock, bridge, guest>>

AbortFlow ==
    /\ ByMain
    /\ main.pc = "abort"
    /\ bridge' = [bridge EXCEPT !.aborted = TRUE]
    /\ MainGoes("done")

-----------------------------------------------------------------------------
(* intercept() and intercept_observe(): one request of the guest and its   *)
(* response, by one thread.  Whatever it returns is ignored: the flow ends *)
(* without an abort.                                                       *)

\* The handshake or the request takes what the guest has sent ...
InspectorReads ==
    /\ ByMain
    /\ main.pc = "request"
    /\ bridge.g2e > 0
    /\ bridge' = [bridge EXCEPT !.g2e = @ - 1]
    /\ main' = [main EXCEPT !.head = @ + 1]

\* ... answers it (the handshake, the page of a credential that is not
\* configured) ...
InspectorAnswers ==
    /\ ByMain /\ UNCHANGED bridge
    /\ main.pc = "request"
    /\ main.read < MaxUnits
    /\ main' = [main EXCEPT !.pc = "hello", !.read = @ + 1]

\* ... and is complete: the upstream has been dialled and given it.
InspectorForwards ==
    /\ ByMain /\ UNCHANGED bridge
    /\ main.pc = "request"
    /\ MainGoes("response")

\* The request is not one, or the upstream cannot be dialled.
InspectorRefuses ==
    /\ ByMain /\ UNCHANGED bridge
    /\ main.pc = "request"
    /\ MainGoes("finish")

\* The guest's stream ends before the request is complete.
InspectorHearsTheEnd ==
    /\ ByMain /\ UNCHANGED bridge
    /\ main.pc = "request"
    /\ bridge.g2e = 0 /\ (bridge.aborted \/ bridge.guestFin)
    /\ MainGoes("finish")

\* BridgeStream::write once more; its error ends the inspection.
InspectorWrites ==
    /\ ByMain
    /\ main.pc \in {"hello", "reply"}
    /\ \/ bridge.aborted /\ MainGoes("finish") /\ UNCHANGED bridge
       \/ /\ ~ bridge.aborted /\ bridge.e2g < HighWater
          /\ bridge' = [bridge EXCEPT !.e2g = @ + 1]
          /\ MainGoes(IF main.pc = "hello" THEN "request" ELSE "response")

\* The response, until the upstream is done or breaks off.
UpstreamGives ==
    /\ ByMain /\ UNCHANGED bridge
    /\ main.pc = "response"
    /\ main.read < MaxUnits
    /\ main' = [main EXCEPT !.pc = "reply", !.read = @ + 1]

UpstreamEnds ==
    /\ ByMain /\ UNCHANGED bridge
    /\ main.pc = "response"
    /\ \E clean \in BOOLEAN :
           main' = [main EXCEPT !.pc = "finish", !.clean = clean]

-----------------------------------------------------------------------------
(* bridge_pump(): the main thread copies tcp to the bridge ...             *)

\* ... unless the stream cannot be made blocking or cloned.
StartPump ==
    /\ main.pc = "pump"
    /\ \/ MainGoes("read") /\ up' = [up EXCEPT !.pc = "read"]
       \/ MainGoes("abort") /\ UNCHANGED up
    /\ UNCHANGED <<kind, engine, sock, bridge, guest>>

TcpGives ==
    /\ ByMain /\ UNCHANGED bridge
    /\ main.pc = "read"
    /\ main.read < MaxUnits
    /\ main' = [main EXCEPT !.pc = "write", !.read = @ + 1]

TcpEnds ==
    /\ ByMain /\ UNCHANGED bridge
    /\ main.pc = "read"
    /\ main' = [main EXCEPT !.pc = "finish", !.clean = TRUE]

TcpFails ==
    /\ ByMain /\ UNCHANGED bridge
    /\ main.pc = "read"
    /\ MainGoes("failed")

\* BridgeStream::write: an error, room, or another millisecond of sleep.
WriteBridge ==
    /\ ByMain
    /\ main.pc = "write"
    /\ \/ bridge.aborted /\ MainGoes("failed") /\ UNCHANGED bridge
       \/ /\ ~ bridge.aborted /\ bridge.e2g < HighWater
          /\ bridge' = [bridge EXCEPT !.e2g = @ + 1]
          /\ MainGoes("read")

\* A copy that failed aborts the flow ...
CopyFailed ==
    /\ ByMain
    /\ main.pc = "failed"
    /\ bridge' = [bridge EXCEPT !.aborted = TRUE]
    /\ MainGoes("finish")

\* ... and in any case nothing more follows towards the guest.  Only a pump
\* has a second thread to wait for.
MarkExtFin ==
    /\ ByMain
    /\ main.pc = "finish"
    /\ bridge' = [bridge EXCEPT !.extFin = TRUE]
    /\ MainGoes("join")

Join ==
    /\ ByMain /\ UNCHANGED bridge
    /\ main.pc = "join"
    /\ up.pc \in {"none", "done"}
    /\ MainGoes("done")

-----------------------------------------------------------------------------
(* ... and a second one copies the bridge to tcp.                          *)

ByUp == UNCHANGED <<kind, engine, sock, main, guest>>

\* BridgeStream::read: bytes first, then an abort, then the guest's FIN.
ReadBridge ==
    /\ ByUp
    /\ up.pc = "read"
    /\ \/ /\ bridge.g2e > 0
          /\ bridge' = [bridge EXCEPT !.g2e = @ - 1]
          /\ up' = [up EXCEPT !.pc = "write"]
       \/ /\ bridge.g2e = 0 /\ (bridge.aborted \/ bridge.guestFin)
          /\ up' = [up EXCEPT !.pc = "shut",
                              !.end = IF bridge.aborted THEN "error" ELSE "eof"]
          /\ UNCHANGED bridge

WriteTcp ==
    /\ ByUp /\ UNCHANGED bridge
    /\ up.pc = "write"
    /\ \/ up' = [up EXCEPT !.pc = "read", !.passed = @ + 1]
       \/ up' = [up EXCEPT !.pc = "shut", !.end = "error"]

\* Either way the external peer is told that nothing more follows.
Shutdown ==
    /\ ByUp /\ UNCHANGED bridge
    /\ up.pc = "shut"
    /\ up' = [up EXCEPT !.pc = "done"]

-----------------------------------------------------------------------------
EngineStep == PollEnds \/ Service \/ Reap
GuestStep == \/ GuestSyn \/ GuestAccepts \/ GuestSends \/ GuestAcks
             \/ GuestCloses \/ GuestAcksFin \/ GuestResets \/ GuestVanishes
MainStep == \/ CallerLooks \/ CallerTimesOut \/ PeekTakes \/ PeekEnds
            \/ Decide \/ Refuse \/ Connect \/ ReplayHead \/ AbortFlow
            \/ InspectorReads \/ InspectorHearsTheEnd \/ InspectorWrites
            \/ StartPump \/ WriteBridge \/ CopyFailed \/ MarkExtFin \/ Join
\* What the inspector finds in a request, and when, is up to the guest and
\* the upstream.
InspectStep == \/ InspectorAnswers \/ InspectorForwards \/ InspectorRefuses
               \/ UpstreamGives \/ UpstreamEnds
TcpStep == TcpGives \/ TcpEnds \/ TcpFails
UpStep == ReadBridge \/ WriteTcp \/ Shutdown

Next == \/ Originate \/ OriginateFails \/ SocketTimesOut \/ EngineStep
        \/ GuestStep \/ MainStep \/ InspectStep \/ TcpStep \/ UpStep

Spec == Init /\ [][Next]_vars

\* The engine loops for ever, threads run, timers expire, and a guest that
\* is there acknowledges what it is sent.  Nobody has to connect, send or
\* close, and the external stream may stay silent.
FairSpec ==
    /\ Spec
    /\ WF_vars(EngineStep) /\ WF_vars(Originate \/ OriginateFails)
    /\ SF_vars(SocketTimesOut) /\ SF_vars(GuestAcks) /\ SF_vars(GuestAcksFin)
    /\ WF_vars(MainStep) /\ WF_vars(UpStep)

-----------------------------------------------------------------------------
\* Each variable stays in its type; a buffer of the bridge never
\* outgrows its mark (by more than the chunk of one write), so neither end
\* can fill the host's memory.
TypeOK ==
    /\ kind \in {"terminated", "originated"}
    /\ engine \in {"poll", "service", "reap"}
    /\ sock \in [state : SockStates, rx : 0 .. TcpBuf, tx : 0 .. TcpBuf]
    /\ bridge \in [g2e : 0 .. HighWater, e2g : 0 .. HighWater,
                   guestFin : BOOLEAN, extFin : BOOLEAN,
                   established : BOOLEAN, aborted : BOOLEAN]
    /\ main \in [pc : MainPcs, head : Nat, read : Nat, clean : BOOLEAN]
    /\ up \in [pc : {"none", "read", "write", "shut", "done"},
               passed : Nat, end : {"none", "eof", "error"}]
    /\ guest \in [sent : Nat, got : Nat, end : {"open", "fin", "reset", "gone"}]

\* The external peer hears a clean end of the guest's stream only after the
\* guest has ended it, and then has every byte that arrived: "Only publish
\* guest FIN after this flow has actually established; otherwise the bridge
\* pump can close the host client's response half" (service_flow).
EofMeansAllSent ==
    up.end = "eof" => guest.end # "open" /\ up.passed = guest.sent

\* A flow that bridge_pump() carries; the others are inspected or refused.
Pumped == up.pc # "none"

\* The guest hears a clean end only when everything read from the external
\* stream is on its way to it, and of a flow that was pumped only after that
\* stream ended cleanly: an upstream that breaks off is not mistaken for one
\* that is done.  Of an inspected flow it is, for its result is ignored.
FinMeansAllReceived ==
    sock.state \in Ending =>
        /\ sock.tx + guest.got = main.read
        /\ Pumped => main.clean

\* Bytes of a closed connection were still in the socket when it was reaped.
CutOff == sock.state = "removed" /\ sock.rx > 0

\* When the guest ends its half, resets or vanishes, the thread that reads
\* its stream comes to an end, and an inspector that waits for the request
\* waits no longer, unless bytes were cut off.
GuestEndReachesTheReader ==
    /\ guest.end # "open" /\ up.pc = "read" ~> up.pc = "done" \/ CutOff
    /\ guest.end # "open" /\ main.pc = "request" ~> main.pc # "request" \/ CutOff

\* When the external stream ends, so does the guest's connection, or the
\* guest is told.
ExternalEndReachesTheGuest == bridge.extFin ~> sock.state \in Ending \cup {"removed"}

\* A connection that both sides have ended, that was aborted, or whose guest
\* has gone or reset it is reaped and gives its place back.  One that was
\* reset in the middle of the guest's handshake is not: it listens again,
\* and nothing reaps it.
FinishedFlowsAreReaped ==
    \/ guest.end = "gone"
    \/ guest.end = "reset" /\ sock.state # "listen"
    \/ guest.end = "fin" /\ bridge.extFin
    \/ bridge.aborted
        ~> sock.state = "removed"

\* "Reap half-open / dead flows" (tcp_socket): no socket is left listening.
HalfOpenFlowsAreReaped == sock.state = "listen" ~> sock.state # "listen"

\* A thread of the external side that waits on the bridge.
Waiting == \/ main.pc = "waiting"
           \/ main.pc \in {"write", "hello", "reply"} /\ bridge.e2g >= HighWater
           \/ up.pc = "read"

\* "Any waiter on this flow must unblock with an error rather than hang"
\* (step 7 of engine_loop).
WaitersUnblock == sock.state = "removed" /\ Waiting ~> ~ Waiting
=============================================================================
