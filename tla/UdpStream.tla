------------------------------ MODULE UdpStream ------------------------------
(***************************************************************************)
(* One UDP measurement stream: the stop-and-wait client run_stream_udp, a  *)
(* network that loses, duplicates, delays and reorders datagrams, and the  *)
(* single-socket server run_udp_server, which may die and be started again.*)
(* The client's socket buffer is a FIFO of its own, because recv prefers a *)
(* datagram that has arrived to a timeout that has expired.                *)
(***************************************************************************)
EXTENDS ControlPlane, Sequences, FiniteSets

CONSTANTS
    Warmup, Duration, Timeout,  \* StreamRunSpec, in ticks
    Delay,       \* pacing delay between packets, 0 when the rate is unlimited
    RxCap,       \* datagrams the client's socket buffers; more are dropped
    MaxCopies,   \* bound: datagrams the network duplicates
    MaxSeq,      \* bound: the client sends no more than this many packets
    Horizon      \* bound: the clock stops here

ASSUME UdpAssumption ==
    /\ Warmup \in Nat /\ Duration \in Nat /\ Timeout \in Nat /\ Delay \in Nat
    /\ RxCap \in Nat /\ MaxSeq \in Nat /\ Horizon \in Nat
    /\ MaxCopies \in Nat
    /\ Horizon >= Warmup + Duration + Delay

WarmupUntil == Warmup
End == WarmupUntil + Duration

VARIABLES
    clientToken, serverToken,  \* configuration, chosen once
    now,         \* the clock, in ticks since the client's loop started
    waited,      \* ticks since the last packet was sent
    pc,          \* where the client task is
    seq,         \* number of the last packet
    nextSend,    \* pacing schedule
    measured,    \* whether the last packet counts
    events,      \* PacketEvents sent to the engine
    rx,          \* the client's socket buffer
    sockErr,     \* an ICMP error waits on the client's socket
    toSrv, toCli,  \* datagrams in flight
    copies,      \* datagrams duplicated so far
    srvUp,       \* the server process runs
    authorized   \* the client's address is in the server's set

config == <<clientToken, serverToken>>
client == <<pc, seq, nextSend, measured, events>>
clock == <<now, waited>>
socket == <<rx, sockErr>>
net == <<toSrv, toCli, copies>>
server == <<srvUp, authorized>>
vars == <<config, clock, client, socket, net, server>>

DataMsg(s) == [type |-> "Data", seq |-> s]
EchoMsg(s) == [type |-> "Echo", seq |-> s]
PacketEvent(s, acked, m) == [seq |-> s, acked |-> acked, measured |-> m]

Finished == {"done", "failed"}
Looping == {"head", "pace", "send", "wait"}

Init ==
    /\ clientToken \in TokenOption /\ serverToken \in TokenOption
    /\ now = 0 /\ waited = 0
    /\ pc = "hello" /\ seq = 0 /\ nextSend = 0 /\ measured = FALSE /\ events = <<>>
    /\ rx = <<>> /\ sockErr = FALSE /\ toSrv = {} /\ toCli = {} /\ copies = 0
    /\ srvUp = TRUE /\ authorized = FALSE

-----------------------------------------------------------------------------
(* The client                                                              *)

SendHello ==
    /\ pc = "hello"
    /\ toSrv' = {HelloMsg(ProtocolVersion, TokenHash(clientToken))}
    /\ pc' = "ackwait"
    /\ UNCHANGED <<config, clock, seq, nextSend, measured, events, socket, toCli, copies, server>>

\* The first datagram decides; it is sent once and never retried.
RecvAck ==
    /\ pc = "ackwait" /\ rx # <<>> /\ ~sockErr
    /\ pc' = IF validate_ack(Head(rx)) THEN "head" ELSE "failed"
    /\ rx' = Tail(rx)
    /\ UNCHANGED <<config, clock, seq, nextSend, measured, events, sockErr, net, server>>

\* "udp hello ack timeout" or "udp hello ack recv failed".  The clock does not
\* run yet: a timeout is a wait that finds nothing to receive.
HandshakeFails ==
    /\ pc = "ackwait" /\ (sockErr \/ rx = <<>>)
    /\ pc' = "failed"
    /\ UNCHANGED <<config, clock, seq, nextSend, measured, events, socket, net, server>>

\* while Instant::now() < end.  MaxSeq stands for a client that gets no further
\* before `end`.
LoopHead ==
    /\ pc = "head"
    /\ \/ now < End /\ seq < MaxSeq /\ pc' = "pace"
       \/ now >= End /\ pc' = "done"
    /\ UNCHANGED <<config, clock, seq, nextSend, measured, events, socket, net, server>>

ScheduleReached == now >= nextSend

\* sleep_until(next_send); next_send += delay; seq += 1
Pace ==
    /\ pc = "pace" /\ ScheduleReached
    /\ nextSend' = nextSend + Delay
    /\ seq' = seq + 1
    /\ pc' = "send"
    /\ UNCHANGED <<config, clock, measured, events, socket, net, server>>

MeasuredNow == now >= WarmupUntil

\* the number of the next packet
SendNext ==
    /\ pc = "send" /\ ~sockErr
    /\ toSrv' = toSrv \cup {DataMsg(seq + 1)}
    /\ measured' = MeasuredNow
    /\ waited' = 0
    /\ pc' = "wait"
    /\ UNCHANGED <<config, now, seq, nextSend, events, socket, toCli, copies, server>>

\* socket.send(&frame), then the instant that decides `measured`
Send ==
    /\ pc = "send" /\ ~sockErr
    /\ toSrv' = toSrv \cup {DataMsg(seq)}
    /\ measured' = MeasuredNow
    /\ waited' = 0
    /\ pc' = "wait"
    /\ UNCHANGED <<config, now, seq, nextSend, events, socket, toCli, copies, server>>

\* "udp packet send failed"
SendFails ==
    /\ pc = "send" /\ sockErr
    /\ sockErr' = FALSE
    /\ pc' = "failed"
    /\ UNCHANGED <<config, clock, seq, nextSend, measured, events, rx, net, server>>

TimeoutExpiredAtOnce == TRUE
TimeoutExpiredNever == FALSE
TimeoutExpired == waited >= Timeout

Report(acked) ==
    /\ pc' = "head"
    /\ events' = Append(events, PacketEvent(seq, acked, measured))
    /\ UNCHANGED <<config, clock, seq, nextSend, measured, net, server>>

IsEchoOfAny(m, s) == m.type = "Echo"
IsEcho(m, s) == m.type = "Echo" /\ m.seq = s

\* Whatever datagram is first answers the wait; an Ack is shorter than a header
RecvEcho ==
    /\ pc = "wait" /\ rx # <<>> /\ ~sockErr
    /\ rx' = Tail(rx) /\ UNCHANGED sockErr
    /\ Report(IsEcho(Head(rx), seq))

RecvFails ==
    /\ pc = "wait" /\ sockErr
    /\ sockErr' = FALSE /\ UNCHANGED rx
    /\ Report(FALSE)

\* an unanswered packet is passed over
WaitTimesOutSilently ==
    /\ pc = "wait" /\ rx = <<>> /\ ~sockErr /\ TimeoutExpired
    /\ pc' = "head"
    /\ UNCHANGED <<config, clock, seq, nextSend, measured, events, net, server, socket>>

WaitTimesOut ==
    /\ pc = "wait" /\ rx = <<>> /\ ~sockErr /\ TimeoutExpired
    /\ UNCHANGED socket
    /\ Report(FALSE)

ClientNext ==
    \/ SendHello \/ RecvAck \/ HandshakeFails \/ LoopHead
    \/ Pace \/ Send \/ SendFails \/ RecvEcho \/ RecvFails \/ WaitTimesOut

-----------------------------------------------------------------------------
(* The server: one datagram at a time                                      *)

\* A datagram that arrives leaves the network, or comes again later.
Arrives(m, queue, next) ==
    \/ next = queue \ {m} /\ UNCHANGED copies
    \/ copies < MaxCopies /\ next = queue /\ copies' = copies + 1

Reply(m, answer) ==
    /\ srvUp
    /\ Arrives(m, toSrv, toSrv')
    /\ toCli' = toCli \cup answer
    /\ UNCHANGED <<config, clock, client, socket, srvUp>>

SrvHello(m) ==
    /\ m.type = "Hello"
    /\ LET accepted == m.version = ProtocolVersion /\ token_matches(serverToken, m.token_hash)
       IN  /\ authorized' = (authorized \/ accepted)
           /\ Reply(m, {AckMsg(accepted)})

MayEcho == serverToken = NoToken \/ authorized

SrvData(m) ==
    /\ m.type = "Data"
    /\ UNCHANGED authorized
    /\ Reply(m, IF MayEcho THEN {EchoMsg(m.seq)} ELSE {})

\* A send or receive error ends run_udp_server; whoever runs it starts it
\* again, with an empty set of authorized peers.
SrvDies ==
    /\ srvUp
    /\ srvUp' = FALSE
    /\ UNCHANGED <<config, clock, client, socket, net, authorized>>

SrvStarts ==
    /\ ~srvUp
    /\ srvUp' = TRUE /\ authorized' = FALSE
    /\ UNCHANGED <<config, clock, client, socket, net>>

-----------------------------------------------------------------------------
(* The network and the clock                                               *)

Lose ==
    /\ \/ \E m \in toSrv : toSrv' = toSrv \ {m} /\ UNCHANGED toCli
       \/ \E m \in toCli : toCli' = toCli \ {m} /\ UNCHANGED toSrv
    /\ UNCHANGED <<config, clock, client, socket, copies, server>>

\* In any order.
Deliver ==
    /\ \E m \in toCli :
         /\ Len(rx) < RxCap
         /\ rx' = Append(rx, m)
         /\ Arrives(m, toCli, toCli')
    /\ UNCHANGED <<config, clock, client, sockErr, toSrv, server>>

\* Nobody listens: the client's kernel is told.
Bounce ==
    /\ ~srvUp
    /\ \E m \in toSrv : toSrv' = toSrv \ {m}
    /\ sockErr' = TRUE
    /\ UNCHANGED <<config, clock, client, rx, toCli, copies, server>>

Tick ==
    /\ pc \in Looping
    /\ now < Horizon \/ (pc = "wait" /\ waited < Timeout)
    /\ now' = IF now < Horizon THEN now + 1 ELSE now
    /\ waited' = IF pc = "wait" /\ waited < Timeout THEN waited + 1 ELSE waited
    /\ UNCHANGED <<config, client, socket, net, server>>

Terminating == pc \in Finished /\ UNCHANGED vars

ServerNext == \E m \in toSrv : SrvHello(m) \/ SrvData(m)
Environment == SrvDies \/ SrvStarts \/ Lose \/ Deliver \/ Bounce

Next ==
    \/ ClientNext \/ Tick \/ Terminating
    \/ (pc \notin Finished /\ (ServerNext \/ Environment))

Spec == Init /\ [][Next]_vars

\* The client is scheduled and time passes; nothing is assumed of the network
\* or of the server.
FairSpec == Spec /\ WF_vars(ClientNext) /\ WF_vars(Tick)

-----------------------------------------------------------------------------
(* Properties                                                              *)

Event == [seq : 1..seq, acked : BOOLEAN, measured : BOOLEAN]
Down == AckMsgs \cup [type : {"Echo"}, seq : 1..seq]

\* Types; in particular no echo of a packet that was never sent.
TypeOK ==
    /\ clientToken \in TokenOption /\ serverToken \in TokenOption
    /\ now \in Nat /\ waited \in Nat /\ seq \in Nat /\ nextSend \in Nat
    /\ pc \in {"hello", "ackwait"} \cup Looping \cup Finished
    /\ measured \in BOOLEAN /\ sockErr \in BOOLEAN
    /\ srvUp \in BOOLEAN /\ authorized \in BOOLEAN /\ copies \in 0..MaxCopies
    /\ events \in Seq(Event)
    /\ rx \in Seq(Down) /\ toCli \subseteq Down
    /\ toSrv \subseteq HelloMsgs \cup [type : {"Data"}, seq : 1..seq]

\* Packets flow, and are echoed, only between a client and a server whose
\* tokens agree, also when the server was restarted in between.
Authorized == serverToken = NoToken \/ clientToken = serverToken
EchoOnlyIfAuthorized == authorized \/ seq > 0 => Authorized

\* An ack is the packet's own echo: as long as nothing was duplicated, neither the packet nor
\* its echo is on its way any more, however many stale echoes are.
AckedIsGone ==
    copies = 0 => \A i \in DOMAIN events :
      events[i].acked => LET s == events[i].seq IN
        /\ DataMsg(s) \notin toSrv
        /\ EchoMsg(s) \notin toCli
        /\ \A k \in DOMAIN rx : rx[k] # EchoMsg(s)

Lost == events' # events /\ ~events'[Len(events')].acked

\* As long as nothing was duplicated, the first loss of a stream is a packet that
\* had its full timeout, or one the socket reported undeliverable.
FirstLossIsGenuine ==
    [][Lost /\ copies = 0 /\ (\A i \in DOMAIN events : events[i].acked)
         => waited >= Timeout \/ sockErr]_vars

\* What the report makes of losses ("packet loss above 1% indicates
\* saturation") needs every one of them to be a packet that had its timeout.
EveryLossIsGenuine == [][Lost => waited >= Timeout \/ sockErr]_vars

\* The stream ends even if the network delivers nothing.
Termination == <>(pc \in Finished)

Outcome(s) ==
    IF s > Len(events) THEN "open" ELSE IF events[s].acked THEN "acked" ELSE "lost"

Contract == INSTANCE StreamContract WITH
    sent <- seq,
    outcome <- [s \in 1..seq |-> Outcome(s)],
    status <- IF pc = "done" THEN "ok" ELSE IF pc = "failed" THEN "failed" ELSE "running"

\* The stream implements the contract the engine relies on.
ImplementsContract == Contract!Spec
=============================================================================
