------------------------------ MODULE TcpStream ------------------------------
(***************************************************************************)
(* One TCP measurement stream: the client task run_stream_tcp, its spawned *)
(* reader task, the connection, and the server task handle_tcp_connection. *)
(* A frame is one element of a FIFO; the kernel buffers of each direction  *)
(* hold a bounded number of frames, and a full one blocks its writer.      *)
(* The clock starts when the client starts its loop: the TCP handshake has *)
(* no deadline.  A tick may happen between any two steps, so a step may be *)
(* arbitrarily late; a timer never fires early.                            *)
(***************************************************************************)
EXTENDS ControlPlane, Sequences, FiniteSets, Functions

CONSTANTS
    Warmup, Duration, Timeout,  \* StreamRunSpec, in ticks
    Delay,         \* pacing delay between packets, 0 when the rate is unlimited
    WindowBudget,  \* 4 MiB of payload in flight
    PayloadBytes,
    MinWindow, MaxWindow,       \* the clamp of the in-flight window
    PipeCap,       \* frames the client-to-server buffers hold
    EchoCap,       \* echoes the server-to-client buffers hold
    MaxSeq,        \* bound: the client sends no more than this many packets
    Horizon        \* bound: the clock stops here

ASSUME TcpAssumption ==
    /\ Warmup \in Nat /\ Duration \in Nat /\ Timeout \in Nat /\ Delay \in Nat
    /\ WindowBudget \in Nat /\ PayloadBytes \in Nat
    /\ MinWindow \in Nat /\ MaxWindow \in Nat
    /\ PipeCap \in Nat /\ EchoCap \in Nat /\ MaxSeq \in Nat /\ Horizon \in Nat
    /\ MinWindow \in 1..MaxWindow
    /\ PipeCap > 0 /\ EchoCap > 0
    /\ Horizon >= Warmup + Duration + Timeout + Delay

WarmupUntil == Warmup
End == WarmupUntil + Duration

DrainDeadline == End + Timeout

Clamp(x, lo, hi) == IF x < lo THEN lo ELSE IF x > hi THEN hi ELSE x
MaxInflight ==
    Clamp(WindowBudget \div (IF PayloadBytes = 0 THEN 1 ELSE PayloadBytes),
          MinWindow, MaxWindow)

VARIABLES
    clientToken, serverToken,  \* configuration, chosen once
    now,       \* the clock, in ticks since the client's start
    pc,        \* where the client task is
    seq,       \* number of the last packet
    nextSend,  \* pacing schedule
    pending,   \* packets without an answer: seq -> measured
    events,    \* PacketEvents sent to the engine
    ackCh,     \* reader task -> client task, the decoded echo headers
    reader,    \* "none", "reading" or "stopped"
    c2s, s2c,  \* the two directions of the connection
    conn,      \* "none", "open" or "reset"
    srv        \* the server's side of the connection

config == <<clientToken, serverToken>>
client == <<pc, seq, nextSend, pending, events>>
wire == <<c2s, s2c, conn, srv>>
vars == <<config, now, client, ackCh, reader, wire>>

DataMsg(s) == [type |-> "Data", seq |-> s]
EchoMsg(s) == [type |-> "Echo", seq |-> s]
PacketEvent(s, acked, measured) ==
    [seq |-> s, acked |-> acked, measured |-> measured]

Finished == {"done", "failed"}
Looping == {"head", "drain", "decide", "window", "pace", "write", "sent", "flush"}

Init ==
    /\ clientToken \in TokenOption /\ serverToken \in TokenOption
    /\ now = 0 /\ pc = "connect" /\ seq = 0 /\ nextSend = 0
    /\ pending = [s \in {} |-> FALSE] /\ events = <<>>
    /\ ackCh = <<>> /\ reader = "none"
    /\ c2s = <<>> /\ s2c = <<>> /\ conn = "none" /\ srv = "backlog"

-----------------------------------------------------------------------------
(* The client: connecting and the handshake                                *)

Connect ==
    /\ pc = "connect"
    /\ conn' = "open"
    /\ c2s' = <<HelloMsg(ProtocolVersion, TokenHash(clientToken)), StartMsg>>
    /\ pc' = "ackwait"
    /\ UNCHANGED <<config, now, seq, nextSend, pending, events, ackCh, reader, s2c, srv>>

ConnectFails ==
    /\ pc = "connect"
    /\ pc' = "failed"
    /\ UNCHANGED <<config, now, seq, nextSend, pending, events, ackCh, reader, wire>>

\* The client's read half sees the end of the connection.
ReadEnds == conn = "reset" \/ (srv = "closed" /\ s2c = <<>>)

ReadAck ==
    /\ pc = "ackwait"
    /\ s2c # <<>>
    /\ s2c' = Tail(s2c)
    /\ \/ validate_ack(Head(s2c)) /\ pc' = "head" /\ reader' = "reading"
       \/ ~validate_ack(Head(s2c)) /\ pc' = "failed" /\ UNCHANGED reader
    /\ UNCHANGED <<config, now, seq, nextSend, pending, events, ackCh, c2s, conn, srv>>

ReadAckFails ==
    /\ pc = "ackwait" /\ ReadEnds
    /\ pc' = "failed"
    /\ UNCHANGED <<config, now, seq, nextSend, pending, events, ackCh, reader, wire>>

-----------------------------------------------------------------------------
(* The client: the send loop                                               *)

\* while Instant::now() < end || !pending.is_empty()
LoopHead ==
    /\ pc = "head"
    /\ pc' = IF now < End \/ DOMAIN pending # {} THEN "drain" ELSE "flush"
    /\ UNCHANGED <<config, now, seq, nextSend, pending, events, ackCh, reader, wire>>

\* pending.get instead of pending.remove
SettleKeepsEntry(s) ==
    /\ events' = IF s \in DOMAIN pending
                 THEN Append(events, PacketEvent(s, TRUE, pending[s])) ELSE events
    /\ UNCHANGED pending

\* if let Some(..) = pending.remove(&ack_seq) { tx.send(..) }
Settle(s) ==
    /\ events' = IF s \in DOMAIN pending
                 THEN Append(events, PacketEvent(s, TRUE, pending[s])) ELSE events
    /\ pending' = Restrict(pending, DOMAIN pending \ {s})

\* while let Ok(..) = ack_rx.try_recv()
Drain ==
    /\ pc = "drain"
    /\ \/ /\ ackCh # <<>>
          /\ Settle(Head(ackCh).seq)
          /\ ackCh' = Tail(ackCh)
          /\ UNCHANGED pc
       \/ /\ ackCh = <<>>
          /\ pc' = "decide"
          /\ UNCHANGED <<pending, events, ackCh>>
    /\ UNCHANGED <<config, now, seq, nextSend, reader, wire>>

DrainNeverExpires == FALSE
DrainExpired == now >= DrainDeadline

WindowFullOffByOne == Cardinality(DOMAIN pending) > MaxInflight
WindowFull == Cardinality(DOMAIN pending) >= MaxInflight

\* The branches of the loop body: drain phase, full window, or the next packet.
\* MaxSeq stands for a client that gets no further before `end`.
Decide ==
    /\ pc = "decide"
    /\ \/ now >= End /\ DrainExpired /\ pc' = "flush"
       \/ now >= End /\ ~DrainExpired /\ pc' = "head"
       \/ now < End /\ WindowFull /\ pc' = "window"
       \/ now < End /\ ~WindowFull /\ seq < MaxSeq /\ pc' = "pace"
    /\ UNCHANGED <<config, now, seq, nextSend, pending, events, ackCh, reader, wire>>

\* timeout(2ms, ack_rx.recv()): the answer wins when both are ready; a closed
\* channel ends the wait at once.
Window ==
    /\ pc = "window"
    /\ \/ ackCh # <<>> /\ Settle(Head(ackCh).seq) /\ ackCh' = Tail(ackCh)
       \/ ackCh = <<>> /\ UNCHANGED <<pending, events, ackCh>>
    /\ pc' = "head"
    /\ UNCHANGED <<config, now, seq, nextSend, reader, wire>>

ScheduleReachedEarly == now + 1 >= nextSend
ScheduleReached == now >= nextSend

\* sleep_until(next_send); next_send += delay; seq += 1
Pace ==
    /\ pc = "pace" /\ ScheduleReached
    /\ nextSend' = nextSend + Delay
    /\ seq' = seq + 1
    /\ pc' = "write"
    /\ UNCHANGED <<config, now, pending, events, ackCh, reader, wire>>

\* writer.write_all(&frame): waits for room in the buffers.
Write ==
    /\ pc = "write" /\ conn = "open" /\ Len(c2s) < PipeCap
    /\ c2s' = Append(c2s, DataMsg(seq))
    /\ pc' = "sent"
    /\ UNCHANGED <<config, now, seq, nextSend, pending, events, ackCh, reader, s2c, conn, srv>>

WriteFails ==
    /\ pc = "write" /\ conn = "reset"
    /\ pc' = "failed"
    /\ UNCHANGED <<config, now, seq, nextSend, pending, events, ackCh, reader, wire>>

MeasuredBeforeWarmup == now < WarmupUntil
MeasuredNow == now >= WarmupUntil

InsertNext ==
    /\ pc = "sent"
    /\ pending' = [s \in DOMAIN pending \cup {seq + 1} |->
                     IF s = seq + 1 THEN MeasuredNow ELSE pending[s]]
    /\ pc' = "head"
    /\ UNCHANGED <<config, now, seq, nextSend, events, ackCh, reader, wire>>

\* pending.insert(seq, ..): after the write, so the echo may already be back.
Insert ==
    /\ pc = "sent"
    /\ pending' = [s \in DOMAIN pending \cup {seq} |->
                     IF s = seq THEN MeasuredNow ELSE pending[s]]
    /\ pc' = "head"
    /\ UNCHANGED <<config, now, seq, nextSend, events, ackCh, reader, wire>>

FlushForgotten ==
    /\ pc = "flush"
    /\ pc' = "done" /\ reader' = "stopped"
    /\ UNCHANGED <<config, now, seq, nextSend, pending, events, ackCh, wire>>

\* What is left is lost, in the order of the hash map; then shutdown and abort.
Flush ==
    /\ pc = "flush"
    /\ \/ \E s \in DOMAIN pending :
            /\ events' = Append(events, PacketEvent(s, FALSE, pending[s]))
            /\ pending' = Restrict(pending, DOMAIN pending \ {s})
            /\ UNCHANGED <<pc, reader>>
       \/ /\ DOMAIN pending = {}
          /\ pc' = "done" /\ reader' = "stopped"
          /\ UNCHANGED <<pending, events>>
    /\ UNCHANGED <<config, now, seq, nextSend, ackCh, wire>>

ClientNext ==
    \/ Connect \/ ConnectFails \/ ReadAck \/ ReadAckFails
    \/ LoopHead \/ Drain \/ Decide \/ Window \/ Pace
    \/ Write \/ WriteFails \/ Insert \/ Flush

-----------------------------------------------------------------------------
(* The reader task                                                         *)

\* a peeked answer is not consumed
ReaderRecvLeaves ==
    /\ reader = "reading" /\ s2c # <<>> /\ Len(ackCh) < 3
    /\ ackCh' = Append(ackCh, Head(s2c))
    /\ UNCHANGED <<config, now, client, reader, wire>>

\* a bounded channel written with try_send
ReaderRecvLossy ==
    /\ reader = "reading" /\ s2c # <<>>
    /\ ackCh' = IF Len(ackCh) < 1 THEN Append(ackCh, Head(s2c)) ELSE ackCh
    /\ s2c' = Tail(s2c)
    /\ UNCHANGED <<config, now, client, reader, c2s, conn, srv>>

\* the answers read by the send loop itself, between two packets
ReaderRecvInLoop ==
    /\ reader = "reading" /\ s2c # <<>> /\ pc = "drain"
    /\ ackCh' = Append(ackCh, Head(s2c))
    /\ s2c' = Tail(s2c)
    /\ UNCHANGED <<config, now, client, reader, c2s, conn, srv>>

\* read_exact, decode, ack_tx.send: it never waits for the send loop.
ReaderRecv ==
    /\ reader = "reading" /\ s2c # <<>>
    /\ ackCh' = Append(ackCh, Head(s2c))
    /\ s2c' = Tail(s2c)
    /\ UNCHANGED <<config, now, client, reader, c2s, conn, srv>>

\* A reset may overtake echoes that have already arrived.
ReaderStops ==
    /\ reader = "reading" /\ ReadEnds
    /\ reader' = "stopped"
    /\ UNCHANGED <<config, now, client, ackCh, wire>>

-----------------------------------------------------------------------------
(* The server                                                              *)

SrvAccept ==
    /\ srv = "backlog" /\ conn # "none"
    /\ srv' = "handshake"
    /\ UNCHANGED <<config, now, client, ackCh, reader, c2s, s2c, conn>>

SrvHandshake ==
    /\ srv = "handshake" /\ conn = "open" /\ Len(c2s) >= 2
    /\ LET accepted == Accepts(c2s[1], c2s[2], serverToken)
       IN  /\ s2c' = Append(s2c, AckMsg(accepted))
           /\ srv' = IF accepted THEN "echo" ELSE "closed"
    /\ c2s' = Tail(Tail(c2s))
    /\ UNCHANGED <<config, now, client, ackCh, reader, conn>>

\* Read header and payload, write the header back; blocks while there is no room.
SrvEcho ==
    /\ srv = "echo" /\ conn = "open" /\ c2s # <<>> /\ Len(s2c) < EchoCap
    /\ s2c' = Append(s2c, EchoMsg(Head(c2s).seq))
    /\ c2s' = Tail(c2s)
    /\ UNCHANGED <<config, now, client, ackCh, reader, conn, srv>>

\* read_exact_or_eof sees the client's shutdown after the last frame.
SrvEof ==
    /\ srv = "echo" /\ pc \in Finished /\ c2s = <<>>
    /\ srv' = "closed"
    /\ UNCHANGED <<config, now, client, ackCh, reader, c2s, s2c, conn>>

SrvFailsOnReset ==
    /\ srv \in {"handshake", "echo"} /\ conn = "reset"
    /\ srv' = "closed"
    /\ UNCHANGED <<config, now, client, ackCh, reader, c2s, s2c, conn>>

\* A read or a write fails: the connection was reset, or both halves of the
\* client are gone and its kernel answers with a reset.
SrvFails ==
    /\ srv \in {"handshake", "echo"}
    /\ conn = "reset" \/ (pc \in Finished /\ reader = "stopped")
    /\ srv' = "closed"
    /\ UNCHANGED <<config, now, client, ackCh, reader, c2s, s2c, conn>>

-----------------------------------------------------------------------------
(* The environment                                                         *)

Reset ==
    /\ conn = "open"
    /\ conn' = "reset"
    /\ UNCHANGED <<config, now, client, ackCh, reader, c2s, s2c, srv>>

Tick ==
    /\ pc \in Looping /\ now < Horizon
    /\ now' = now + 1
    /\ UNCHANGED <<config, client, ackCh, reader, wire>>

Terminating ==
    /\ pc \in Finished /\ reader # "reading"
    /\ srv = "closed" \/ conn = "none"
    /\ UNCHANGED vars

ReaderNext == ReaderRecv \/ ReaderStops
ServerNext == SrvAccept \/ SrvHandshake \/ SrvEcho \/ SrvEof \/ SrvFails

Next == ClientNext \/ ReaderNext \/ ServerNext \/ Reset \/ Tick \/ Terminating

Spec == Init /\ [][Next]_vars

\* Tasks on the runtime are scheduled, timers fire, TCP delivers on an open
\* connection, and the server has a permit for this connection.
Fairness == WF_vars(ClientNext) /\ WF_vars(ReaderNext) /\ WF_vars(ServerNext) /\ WF_vars(Tick)
FairSpec == Spec /\ Fairness

-----------------------------------------------------------------------------
(* Properties                                                              *)

Event == [seq : 1..seq, acked : BOOLEAN, measured : BOOLEAN]
Data == [type : {"Data"}, seq : 1..seq]
UpMsg == HelloMsgs \cup {StartMsg} \cup Data
Echo == [type : {"Echo"}, seq : 1..seq]
DownMsg == AckMsgs \cup Echo

\* Types; in particular nothing refers to a packet that was never numbered.
TypeOK ==
    /\ clientToken \in TokenOption /\ serverToken \in TokenOption
    /\ now \in Nat /\ seq \in Nat /\ nextSend \in Nat
    /\ pc \in {"connect", "ackwait"} \cup Looping \cup Finished
    /\ DOMAIN pending \subseteq 1..seq
    /\ pending \in [DOMAIN pending -> BOOLEAN]
    /\ events \in Seq(Event)
    /\ ackCh \in Seq(Echo)
    /\ reader \in {"none", "reading", "stopped"}
    /\ c2s \in Seq(UpMsg) /\ s2c \in Seq(DownMsg)
    /\ conn \in {"none", "open", "reset"}
    /\ srv \in {"backlog", "handshake", "echo", "closed"}

Reported == {events[i].seq : i \in DOMAIN events}
InHand == IF pc \in {"write", "sent"} THEN {seq} ELSE {}

\* Every packet is reported at most once and is either reported, waiting for
\* its answer, or being written: none is forgotten, none is counted twice,
\* though its echo may arrive before it is entered into `pending`.
Accounting ==
    /\ \A i, j \in DOMAIN events : events[i].seq = events[j].seq => i = j
    /\ Reported \cap DOMAIN pending = {}
    /\ InHand \cap (Reported \cup DOMAIN pending) = {}
    /\ pc # "failed" => Reported \cup DOMAIN pending \cup InHand = 1..seq
    /\ pc = "done" => DOMAIN pending = {}

\* The in-flight window is never exceeded, and never above its clamp.
WindowBound ==
    /\ Cardinality(DOMAIN pending) <= MaxInflight
    /\ MaxInflight \in MinWindow..MaxWindow

SeqNums(q) == {q[i].seq : i \in DOMAIN q}
AckedSeqs == {events[i].seq : i \in {k \in DOMAIN events : events[k].acked}}
Increasing(q) == \A i, j \in DOMAIN q : i < j => q[i].seq < q[j].seq
Below(S, T) == \A x \in S, y \in T : x < y

\* The whole loop through the server is one FIFO line, of acks reported, handed
\* over, on their way back and not yet echoed: no answer overtakes another or
\* appears twice, so the engine never sees a reordered ack.
AnswersInOrder ==
    reader # "none" =>
      /\ \A i, j \in DOMAIN events :
           i < j /\ events[i].acked /\ events[j].acked => events[i].seq < events[j].seq
      /\ Increasing(ackCh) /\ Increasing(s2c) /\ Increasing(c2s)
      /\ Below(AckedSeqs, SeqNums(ackCh) \cup SeqNums(s2c) \cup SeqNums(c2s))
      /\ Below(SeqNums(ackCh), SeqNums(s2c) \cup SeqNums(c2s))
      /\ Below(SeqNums(s2c), SeqNums(c2s))

\* On a connection that was never reset no answer is dropped: each packet
\* without an answer is still in the line until the stream gives it up.
NothingDropped ==
    conn = "open" /\ reader = "reading" =>
      DOMAIN pending \cup (IF pc = "sent" THEN {seq} ELSE {})
        \subseteq SeqNums(ackCh) \cup SeqNums(s2c) \cup SeqNums(c2s)

\* Packet s was judged before (FALSE) or after (TRUE) the end of the warm-up.
Marked(s, b) ==
    \/ s \in DOMAIN pending /\ pending[s] = b
    \/ \E i \in DOMAIN events : events[i].seq = s /\ events[i].measured = b

\* The warm-up filter cuts the stream once: after the first measured packet
\* all are measured, in the reports and among the packets still waiting.
WarmupIsPrefix ==
    \A s, t \in 1..seq : s < t /\ Marked(s, TRUE) => ~Marked(t, FALSE)

\* Packet n is never sent before its slot (n - 1) * Delay, however the loop
\* was held up before, and the schedule never runs ahead of the clock.
PacingSchedule ==
    /\ seq > 0 => (seq - 1) * Delay <= now
    /\ nextSend <= now + Delay

\* A packet is given up only when the drain deadline, a full timeout after the
\* end of the run, has passed: a reset alone loses no packet early.
LostOnlyAfterDrain ==
    \A i \in DOMAIN events :
      ~events[i].acked => now >= Warmup + Duration + Timeout

\* Measurement packets flow only in a session the server has accepted.
Authorized == serverToken = NoToken \/ clientToken = serverToken
DataOnlyIfAuthorized == seq > 0 => Authorized

\* The stream ends, whatever the server, the buffers and a reset do to it: in
\* particular client and server never block each other on two full buffers.
Termination == <>(pc \in Finished)

\* The server task ends after the client: its permit goes back to the acceptor.
ServerReleases == (pc \in Finished /\ srv # "backlog") ~> (srv = "closed")

Outcome(s) ==
    IF s \in AckedSeqs THEN "acked"
    ELSE IF s \in Reported THEN "lost"
    ELSE "open"

Contract == INSTANCE StreamContract WITH
    sent <- seq,
    outcome <- [s \in 1..seq |-> Outcome(s)],
    status <- IF pc = "done" THEN "ok" ELSE IF pc = "failed" THEN "failed" ELSE "running"

\* The detailed stream implements the contract the engine relies on.
ImplementsContract == Contract!Spec
=============================================================================
