------------------------------ MODULE QuicStream ------------------------------
(***************************************************************************)
(* One QUIC measurement stream: the stop-and-wait client run_stream_quic,  *)
(* the server task handle_quic_stream and the connection between them.  A  *)
(* QUIC stream is a reliable FIFO of bytes without message boundaries: an  *)
(* echoed header is two halves here, which the client may receive apart, as*)
(* its timeout may cancel a read_exact that has taken the first of them.   *)
(* Flow control never blocks: the frames in flight stay below its windows. *)
(***************************************************************************)
EXTENDS ControlPlane, Sequences, FiniteSets

CONSTANTS
    Warmup, Duration, Timeout,  \* StreamRunSpec, in ticks
    Delay,    \* pacing delay between packets, 0 when the rate is unlimited
    MaxSeq,   \* bound: the client sends no more than this many packets
    Horizon   \* bound: the clock stops here

ASSUME QuicAssumption ==
    /\ Warmup \in Nat /\ Duration \in Nat /\ Timeout \in Nat /\ Delay \in Nat
    /\ MaxSeq \in Nat /\ Horizon \in Nat
    /\ Horizon >= Warmup + Duration + Delay

WarmupUntil == Warmup
End == WarmupUntil + Duration

VARIABLES
    clientToken, serverToken,  \* configuration, chosen once
    now,        \* the clock, in ticks since the client's loop started
    waited,     \* ticks since the last packet was written
    pc,         \* where the client task is
    seq,        \* number of the last packet
    nextSend,   \* pacing schedule
    measured,   \* whether the last packet counts
    events,     \* PacketEvents sent to the engine
    got,        \* the halves read_exact has taken so far
    conn,       \* "none", "open" or "lost": the QUIC connection
    c2s, s2c,   \* the two directions of the stream
    srv         \* the server's side of the stream

config == <<clientToken, serverToken>>
clock == <<now, waited>>
packet == <<seq, nextSend, measured>>
wire == <<conn, c2s, s2c, srv>>
vars == <<config, clock, pc, packet, events, got, wire>>

DataMsg(s) == [type |-> "Data", seq |-> s]
EchoHalf(s, h) == [type |-> "Echo", seq |-> s, half |-> h]
PacketEvent(s, acked, m) == [seq |-> s, acked |-> acked, measured |-> m]

Finished == {"done", "failed"}
Looping == {"head", "pace", "write", "wait"}

Init ==
    /\ clientToken \in TokenOption /\ serverToken \in TokenOption
    /\ now = 0 /\ waited = 0
    /\ pc = "connect" /\ seq = 0 /\ nextSend = 0 /\ measured = FALSE /\ events = <<>>
    /\ got = <<>> /\ conn = "none" /\ c2s = <<>> /\ s2c = <<>> /\ srv = "accept"

-----------------------------------------------------------------------------
(* The client                                                              *)

Connect ==
    /\ pc = "connect"
    /\ conn' = "open"
    /\ c2s' = <<HelloMsg(ProtocolVersion, TokenHash(clientToken)), StartMsg>>
    /\ pc' = "ackwait"
    /\ UNCHANGED <<config, clock, packet, events, got, s2c, srv>>

\* An error drops the connection and the endpoint: the connection is closed.
Fails ==
    /\ pc' = "failed"
    /\ conn' = IF conn = "open" THEN "lost" ELSE conn
    /\ UNCHANGED <<config, clock, packet, events, c2s, srv>>

ConnectFails ==
    /\ pc = "connect"
    /\ Fails
    /\ UNCHANGED <<got, s2c>>

ReadAck ==
    /\ pc = "ackwait" /\ s2c # <<>>
    /\ s2c' = Tail(s2c)
    /\ UNCHANGED got
    /\ IF validate_ack(Head(s2c))
       THEN pc' = "head" /\ UNCHANGED <<config, clock, packet, events, conn, c2s, srv>>
       ELSE Fails

\* A server that rejects drops the connection, perhaps before the Ack is read.
ReadAckFails ==
    /\ pc = "ackwait" /\ conn = "lost"
    /\ Fails
    /\ UNCHANGED <<got, s2c>>

\* while Instant::now() < end; send.finish().  MaxSeq stands for a client that
\* gets no further before `end`.
LoopHead ==
    /\ pc = "head"
    /\ \/ now < End /\ seq < MaxSeq /\ pc' = "pace"
       \/ now >= End /\ pc' = "idle"
    /\ UNCHANGED <<config, clock, packet, events, got, wire>>

ScheduleReached == now >= nextSend

\* sleep_until(next_send); next_send += delay; seq += 1
Pace ==
    /\ pc = "pace" /\ ScheduleReached
    /\ nextSend' = nextSend + Delay
    /\ seq' = seq + 1
    /\ pc' = "write"
    /\ UNCHANGED <<config, clock, measured, events, got, wire>>

MeasuredNow == now >= WarmupUntil

\* send.write_all(&frame), then the instant that decides `measured`
Write ==
    /\ pc = "write" /\ conn = "open"
    /\ c2s' = Append(c2s, DataMsg(seq))
    /\ measured' = MeasuredNow
    /\ waited' = 0
    /\ pc' = "wait"
    /\ UNCHANGED <<config, now, seq, nextSend, events, got, conn, s2c, srv>>

\* "quic packet write failed"
WriteFails ==
    /\ pc = "write" /\ conn = "lost"
    /\ Fails
    /\ UNCHANGED <<got, s2c>>

\* read_exact takes what is there.
ReadHalf ==
    /\ pc = "wait" /\ s2c # <<>> /\ Len(got) < 2
    /\ got' = Append(got, Head(s2c))
    /\ s2c' = Tail(s2c)
    /\ UNCHANGED <<config, clock, pc, packet, events, conn, c2s, srv>>

\* DataHeader::decode: the magic stands in the first half.
Aligned(halves) == halves[1].half = 1

Report(acked) ==
    /\ pc' = "head"
    /\ events' = Append(events, PacketEvent(seq, acked, measured))
    /\ got' = <<>>
    /\ UNCHANGED <<config, clock, packet, wire>>

IsEchoOfAny(halves, s) == TRUE
IsEcho(halves, s) == halves[2].seq = s

ReadEcho ==
    /\ pc = "wait" /\ Len(got) = 2 /\ Aligned(got)
    /\ Report(IsEcho(got, seq))

\* "decode quic ack header"
DecodeFails ==
    /\ pc = "wait" /\ Len(got) = 2 /\ ~Aligned(got)
    /\ Fails
    /\ got' = <<>> /\ UNCHANGED s2c

\* The read fails with the connection: one more loss, then the write fails.
ReadFails ==
    /\ pc = "wait" /\ Len(got) < 2 /\ conn = "lost"
    /\ Report(FALSE)

TimeoutExpiredNever == FALSE
TimeoutExpired == waited >= Timeout

\* an unanswered packet is passed over
WaitTimesOutSilently ==
    /\ pc = "wait" /\ Len(got) < 2 /\ s2c = <<>> /\ TimeoutExpired
    /\ pc' = "head" /\ got' = <<>>
    /\ UNCHANGED <<config, clock, packet, events, wire>>

\* The timeout drops the read with the bytes it has taken.
WaitTimesOut ==
    /\ pc = "wait" /\ Len(got) < 2 /\ s2c = <<>> /\ TimeoutExpired
    /\ Report(FALSE)

\* endpoint.wait_idle() returns when the connection is gone; its own handle
\* keeps it open until then.
WaitIdle ==
    /\ pc = "idle" /\ conn = "lost"
    /\ pc' = "done"
    /\ UNCHANGED <<config, clock, packet, events, got, wire>>

ClientNext ==
    \/ Connect \/ ConnectFails \/ ReadAck \/ ReadAckFails \/ LoopHead \/ Pace
    \/ Write \/ WriteFails \/ ReadHalf \/ ReadEcho \/ DecodeFails \/ ReadFails
    \/ WaitTimesOut \/ WaitIdle

-----------------------------------------------------------------------------
(* The server                                                              *)

SrvHandshake ==
    /\ srv = "accept" /\ conn = "open" /\ Len(c2s) >= 2
    /\ LET accepted == Accepts(c2s[1], c2s[2], serverToken)
       IN  /\ s2c' = Append(s2c, AckMsg(accepted))
           /\ srv' = IF accepted THEN "echo" ELSE "closed"
           /\ conn' = IF accepted THEN conn ELSE "lost"
    /\ c2s' = Tail(Tail(c2s))
    /\ UNCHANGED <<config, clock, pc, packet, events, got>>

\* the header of the next packet
SrvEchoFirstNext ==
    /\ srv = "echo" /\ conn = "open" /\ c2s # <<>>
    /\ s2c' = Append(s2c, EchoHalf(Head(c2s).seq + 1, 1))
    /\ srv' = "echoing"
    /\ UNCHANGED <<config, clock, pc, packet, events, got, conn, c2s>>

\* Header and payload read, the first bytes of the header are written back.
SrvEchoFirst ==
    /\ srv = "echo" /\ conn = "open" /\ c2s # <<>>
    /\ s2c' = Append(s2c, EchoHalf(Head(c2s).seq, 1))
    /\ srv' = "echoing"
    /\ UNCHANGED <<config, clock, pc, packet, events, got, conn, c2s>>

SrvEchoRest ==
    /\ srv = "echoing" /\ conn = "open"
    /\ s2c' = Append(s2c, EchoHalf(Head(c2s).seq, 2))
    /\ c2s' = Tail(c2s)
    /\ srv' = "echo"
    /\ UNCHANGED <<config, clock, pc, packet, events, got, conn>>

\* After the client's finish, read_exact_or_eof ends the stream; the task then
\* waits for another one on the same connection.
SrvEof ==
    /\ srv = "echo" /\ conn = "open" /\ pc = "idle" /\ c2s = <<>>
    /\ srv' = "nextstream"
    /\ UNCHANGED <<config, clock, pc, packet, events, got, conn, c2s, s2c>>

SrvEnds ==
    /\ srv \notin {"accept", "closed"} /\ conn = "lost"
    /\ srv' = "closed"
    /\ UNCHANGED <<config, clock, pc, packet, events, got, conn, c2s, s2c>>

ServerNext == SrvHandshake \/ SrvEchoFirst \/ SrvEchoRest \/ SrvEof \/ SrvEnds

-----------------------------------------------------------------------------
(* The environment                                                         *)

\* The network, the peer's process or a quiet connection's idle timeout: at any
\* moment, with the bytes that have not arrived.
ConnLost ==
    /\ conn = "open"
    /\ conn' = "lost"
    /\ s2c' \in {s2c, <<>>}
    /\ UNCHANGED <<config, clock, pc, packet, events, got, c2s, srv>>

\* quinn's default transport: no keep-alive and an idle timeout of 30 s.
IdleTimeout ==
    /\ conn = "open" /\ pc \in {"ackwait", "idle"}
    /\ conn' = "lost"
    /\ UNCHANGED <<config, clock, pc, packet, events, got, c2s, s2c, srv>>

Tick ==
    /\ pc \in Looping
    /\ now < Horizon \/ (pc = "wait" /\ waited < Timeout)
    /\ now' = IF now < Horizon THEN now + 1 ELSE now
    /\ waited' = IF pc = "wait" /\ waited < Timeout THEN waited + 1 ELSE waited
    /\ UNCHANGED <<config, pc, packet, events, got, wire>>

Terminating == pc \in Finished /\ UNCHANGED vars

Next == ClientNext \/ ServerNext \/ ConnLost \/ IdleTimeout \/ Tick \/ Terminating

Spec == Init /\ [][Next]_vars

\* The client is scheduled, time passes, and quinn's idle timeout fires; nothing
\* is assumed of the server.
FairSpec == Spec /\ WF_vars(ClientNext) /\ WF_vars(Tick) /\ WF_vars(IdleTimeout)

-----------------------------------------------------------------------------
(* Properties                                                              *)

Event == [seq : 1..seq, acked : BOOLEAN, measured : BOOLEAN]
Half == [type : {"Echo"}, seq : 1..seq, half : {1, 2}]

\* Types; in particular no echo of a packet that was never sent.
TypeOK ==
    /\ clientToken \in TokenOption /\ serverToken \in TokenOption
    /\ now \in Nat /\ waited \in Nat /\ seq \in Nat /\ nextSend \in Nat
    /\ pc \in {"connect", "ackwait", "idle"} \cup Looping \cup Finished
    /\ measured \in BOOLEAN /\ events \in Seq(Event)
    /\ got \in Seq(Half) /\ s2c \in Seq(AckMsgs \cup Half)
    /\ c2s \in Seq(HelloMsgs \cup {StartMsg} \cup [type : {"Data"}, seq : 1..seq])
    /\ conn \in {"none", "open", "lost"}
    /\ srv \in {"accept", "echo", "echoing", "nextstream", "closed"}

\* An ack is the packet's own echo, whole: when a packet is acked, every byte
\* before and of its echo has left the stream.
AckedIsGone ==
    \A i \in DOMAIN events :
      events[i].acked =>
        /\ \A k \in DOMAIN c2s : c2s[k] # DataMsg(events[i].seq)
        /\ \A k \in DOMAIN s2c :
             s2c[k].type = "Echo" => s2c[k].seq > events[i].seq

\* One packet that misses its timeout is the end of the measurement: its echo
\* is read in place of the next, and so on, or a torn read fails the stream; no
\* later packet is ever reported acked.
LossIsForever ==
    \A i, j \in DOMAIN events : i < j /\ events[j].acked => events[i].acked

\* What stop-and-wait over a stream of bytes gives: an ack is never for another
\* packet, and once out of step there is none.
AcksInStep == AckedIsGone /\ LossIsForever

\* The stream ends, though nobody closes the connection at its end: wait_idle
\* relies on the idle timeout.
Termination == <>(pc \in Finished)

Outcome(s) ==
    IF s > Len(events) THEN "open" ELSE IF events[s].acked THEN "acked" ELSE "lost"

Contract == INSTANCE StreamContract WITH
    sent <- seq,
    outcome <- [s \in 1..seq |-> Outcome(s)],
    status <- IF pc = "done" THEN "ok" ELSE IF pc = "failed" THEN "failed" ELSE "running"

\* The stream implements the contract the engine relies on.
ImplementsContract == Contract!Spec
=============================================================================
