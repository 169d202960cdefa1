--------------------------- MODULE QuicStreamProofs ---------------------------
(***************************************************************************)
(* Theorems about QuicStream, for every token, timing and number of        *)
(* packets, and wherever an echo is torn: the stream keeps its contract    *)
(* with the engine, and an ack is never for another packet.                *)
(***************************************************************************)
EXTENDS QuicStream, TLAPS, SequenceTheorems

LEMMA ConstantTypes ==
    /\ Warmup \in Nat /\ Duration \in Nat /\ Timeout \in Nat /\ Delay \in Nat
    /\ MaxSeq \in Nat /\ Horizon \in Nat
  BY QuicAssumption

\* A sequence over a set is one over every larger set.
LEMMA SeqMonotone ==
    ASSUME NEW S, NEW T, S \subseteq T, NEW q \in Seq(S)
    PROVE  q \in Seq(T)
  OBVIOUS

\* Consuming the head of a queue leaves a queue; the head was an element.
LEMMA SeqHeadTail ==
    ASSUME NEW S, NEW q \in Seq(S), q # <<>>
    PROVE  /\ Head(q) \in S /\ Tail(q) \in Seq(S)
           /\ Len(q) \in Nat /\ Len(q) > 0 /\ Len(Tail(q)) = Len(q) - 1
           /\ q[1] = Head(q)
           /\ \A k \in 1..Len(Tail(q)) : Tail(q)[k] = q[k + 1] /\ k + 1 \in 1..Len(q)
  BY HeadTailProperties

\* Adding an element: the old ones keep their places.
LEMMA SeqAppend ==
    ASSUME NEW S, NEW q \in Seq(S), NEW e \in S
    PROVE  /\ Append(q, e) \in Seq(S)
           /\ Len(q) \in Nat /\ Len(Append(q, e)) = Len(q) + 1
           /\ Append(q, e)[Len(q) + 1] = e
           /\ \A k \in 1..Len(q) : Append(q, e)[k] = q[k]
  BY AppendProperties

\* Dropping everything leaves a queue.
LEMMA SeqEmpty ==
    ASSUME NEW S, NEW q \in Seq(S), NEW r \in {q, <<>>}
    PROVE  r \in Seq(S)
  <1>1. <<>> \in Seq(S)
    OBVIOUS
  <1>2. QED
    BY <1>1, Zenon

-----------------------------------------------------------------------------
(* The inductive type invariant                                            *)

OtherStep ==
    ServerNext \/ ConnLost \/ IdleTimeout \/ Tick \/ Terminating \/ UNCHANGED vars

\* Nobody but the client touches the client's own state.
LEMMA ClientUntouched ==
    OtherStep => UNCHANGED <<config, pc, packet, events, got>>
  <1>1. ServerNext => UNCHANGED <<config, pc, packet, events, got>>
    BY DEF ServerNext, SrvHandshake, SrvEchoFirst, SrvEchoRest, SrvEof, SrvEnds
  <1>2. ConnLost \/ IdleTimeout \/ Tick => UNCHANGED <<config, pc, packet, events, got>>
    BY DEF ConnLost, IdleTimeout, Tick
  <1>3. Terminating \/ UNCHANGED vars => UNCHANGED <<config, pc, packet, events, got>>
    BY DEF Terminating, vars
  <1>4. QED
    BY <1>1, <1>2, <1>3 DEF OtherStep

LEMMA StepKinds == [Next]_vars => ClientNext \/ OtherStep
  BY DEF Next, OtherStep

Scalars ==
    /\ clientToken \in TokenOption /\ serverToken \in TokenOption
    /\ now \in Nat /\ waited \in Nat /\ seq \in Nat /\ nextSend \in Nat
    /\ pc \in {"connect", "ackwait", "idle"} \cup Looping \cup Finished
    /\ measured \in BOOLEAN
    /\ conn \in {"none", "open", "lost"}
    /\ srv \in {"accept", "echo", "echoing", "nextstream", "closed"}

Reports == [seq : Nat, acked : BOOLEAN, measured : BOOLEAN]

\* The client reports in order, one packet at a time: between two turns of its
\* loop every packet is reported, within a turn all but the last.
Book ==
    /\ events \in Seq(Reports)
    /\ \A i \in 1..Len(events) : events[i].seq = i
    /\ Len(events) <= seq
    /\ pc \in {"connect", "ackwait"} => seq = 0
    /\ pc \in {"head", "pace", "idle", "done"} => Len(events) = seq
    /\ pc \in {"write", "wait"} => seq > 0 /\ Len(events) = seq - 1

Frame == [type : {"Data"}, seq : 1..seq]
Up == HelloMsgs \cup {StartMsg} \cup Frame
Down == AckMsgs \cup Half

Authorized == serverToken = NoToken \/ clientToken = serverToken

Running == Looping \cup {"idle", "done"}

\* What the stream carries when: the handshake, its answer, then packets and
\* halves of echoes only.
Phase ==
    /\ c2s \in Seq(Up) /\ s2c \in Seq(Down) /\ got \in Seq(Half)
    /\ pc = "connect" => c2s = <<>> /\ s2c = <<>> /\ srv = "accept" /\ conn = "none"
    /\ pc \in {"connect", "ackwait"} => got = <<>>
    /\ pc = "ackwait" =>
         \/ /\ c2s = <<HelloMsg(ProtocolVersion, TokenHash(clientToken)), StartMsg>>
            /\ s2c = <<>> /\ srv = "accept"
         \/ /\ c2s = <<>> /\ srv \in {"echo", "closed"}
            /\ \/ s2c = <<>>
               \/ \E a \in BOOLEAN : s2c = <<AckMsg(a)>> /\ (a => Authorized)
    /\ pc \in Running => c2s \in Seq(Frame) /\ s2c \in Seq(Half) /\ srv # "accept"
    /\ pc \in Running \/ seq > 0 => Authorized
    /\ pc \in Finished => conn # "open"
    /\ srv = "echoing" => c2s # <<>>

TypeInv == Scalars /\ Book /\ Phase

\* Digests of different tokens differ, and no digest stands for "no token".
LEMMA MatchingTokens ==
    ASSUME clientToken \in TokenOption, serverToken \in TokenOption,
           token_matches(serverToken, TokenHash(clientToken))
    PROVE  Authorized
  BY ControlAssumption DEF token_matches, TokenHash, hash_token, TokenOption, Authorized

LEMMA InitTypes == Init => TypeInv
  <1>1. Init => Scalars
    <2>0. Init => measured \in BOOLEAN
      BY DEF Init
    <2>1. Init => now \in Nat /\ waited \in Nat /\ seq \in Nat /\ nextSend \in Nat
      BY DEF Init
    <2>2. Init => /\ clientToken \in TokenOption /\ serverToken \in TokenOption
                  /\ pc \in {"connect", "ackwait", "idle"} \cup Looping \cup Finished
                  /\ conn \in {"none", "open", "lost"}
                  /\ srv \in {"accept", "echo", "echoing", "nextstream", "closed"}
      BY DEF Init
    <2>3. QED
      BY <2>0, <2>1, <2>2 DEF Scalars
  <1>2. Init => Book
    BY DEF Init, Book
  <1>3. Init => Phase
    BY DEF Init, Phase, Running, Looping, Finished
  <1>4. QED
    BY <1>1, <1>2, <1>3 DEF TypeInv

LEMMA ScalarsStep == Scalars /\ [Next]_vars => Scalars'
  <1> USE DEF Scalars, Looping, Finished
  <1>1. Scalars /\ (Connect \/ ConnectFails \/ ReadAck \/ ReadAckFails \/ LoopHead) => Scalars'
    BY DEF Connect, ConnectFails, ReadAck, ReadAckFails, LoopHead, Fails, config, clock, packet, wire
  <1>2. Scalars /\ Pace => Scalars'
    BY ConstantTypes DEF Pace, config, clock, wire
  <1>3. Scalars /\ Write => Scalars'
    <2>1. MeasuredNow \in BOOLEAN
      BY DEF MeasuredNow
    <2>2. Write => measured' \in BOOLEAN
      BY <2>1 DEF Write
    <2>3. QED
      BY <2>2 DEF Write, config
  <1>4. Scalars /\ (WriteFails \/ ReadHalf \/ DecodeFails \/ WaitIdle) => Scalars'
    BY DEF WriteFails, ReadHalf, DecodeFails, WaitIdle, Fails, config, clock, packet, wire
  <1>5. Scalars /\ (ReadEcho \/ ReadFails \/ WaitTimesOut) => Scalars'
    BY DEF ReadEcho, ReadFails, WaitTimesOut, Report, config, clock, packet, wire
  <1>6. Scalars /\ ServerNext => Scalars'
    BY DEF ServerNext, SrvHandshake, SrvEchoFirst, SrvEchoRest, SrvEof, SrvEnds,
           config, clock, packet
  <1>7. Scalars /\ (ConnLost \/ IdleTimeout \/ Tick) => Scalars'
    BY DEF ConnLost, IdleTimeout, Tick, config, clock, packet, wire
  <1>8. Scalars /\ (Terminating \/ UNCHANGED vars) => Scalars'
    BY DEF Terminating, vars, config, clock, packet, wire
  <1>9. QED
    BY <1>1, <1>2, <1>3, <1>4, <1>5, <1>6, <1>7, <1>8, StepKinds DEF ClientNext, OtherStep

LEMMA BookStep == Scalars /\ Book /\ [Next]_vars => Book'
  <1>1. Book /\ (Connect \/ ConnectFails \/ ReadAck \/ ReadAckFails \/ LoopHead) => Book'
    BY DEF Book, Connect, ConnectFails, ReadAck, ReadAckFails, LoopHead, Fails, packet
  <1>2. Scalars /\ Book /\ Pace => Book'
    BY DEF Scalars, Book, Pace
  <1>3. Book /\ (Write \/ WriteFails \/ ReadHalf \/ DecodeFails \/ WaitIdle) => Book'
    BY DEF Book, Write, WriteFails, ReadHalf, DecodeFails, WaitIdle, Fails, packet
  <1>4. ASSUME Scalars, Book, pc = "wait", NEW acked \in BOOLEAN, Report(acked)
        PROVE  Book'
    <2>1. PacketEvent(seq, acked, measured) \in Reports
      BY <1>4 DEF Scalars, Reports, PacketEvent
    <2>2. /\ events' \in Seq(Reports) /\ Len(events') = Len(events) + 1
          /\ events'[Len(events) + 1].seq = seq
          /\ \A i \in 1..Len(events) : events'[i] = events[i]
          /\ Len(events) \in Nat
      BY <1>4, <2>1, SeqAppend DEF Report, Book, PacketEvent
    <2>3. seq' = seq /\ pc' = "head" /\ Len(events') = seq'
      BY <1>4, <2>2 DEF Report, Book, Scalars, packet
    <2>4. \A i \in 1..Len(events') : events'[i].seq = i
      BY <1>4, <2>2 DEF Book, Scalars
    <2>5. QED
      BY <1>4, <2>2, <2>3, <2>4 DEF Book, Scalars
  <1>5. Scalars /\ Book /\ (ReadEcho \/ ReadFails \/ WaitTimesOut) => Book'
    <2>1. IsEcho(got, seq) \in BOOLEAN
      BY DEF IsEcho
    <2>2. QED
      BY <1>4, <2>1 DEF ReadEcho, ReadFails, WaitTimesOut
  <1>6. Book /\ OtherStep => Book'
    BY ClientUntouched DEF packet, Book
  <1>7. QED
    BY <1>1, <1>2, <1>3, <1>5, <1>6, StepKinds DEF ClientNext
LEMMA PhaseClient == TypeInv /\ ClientNext => Phase'
  <1> SUFFICES ASSUME TypeInv, ClientNext PROVE Phase'
    OBVIOUS
  <1> USE DEF TypeInv
  <1>0. Authorized' = Authorized /\ UNCHANGED <<clientToken, serverToken>>
    BY DEF ClientNext, Connect, ConnectFails, ReadAck, ReadAckFails, LoopHead, Pace, Write, WriteFails,
           ReadHalf, ReadEcho, DecodeFails, ReadFails, WaitTimesOut, WaitIdle, Fails, Report, config,
           Authorized
  <1>1. seq' = seq => Up' = Up /\ Down' = Down /\ Half' = Half /\ Frame' = Frame
    BY DEF Up, Down, Half, Frame
  <1>2. CASE Connect
    <2>1. HelloMsg(ProtocolVersion, TokenHash(clientToken)) \in Up /\ StartMsg \in Up
      BY ControlAssumption DEF Scalars, Up, HelloMsgs, TokenHash, Digests, TokenOption
    <2>2. <<HelloMsg(ProtocolVersion, TokenHash(clientToken)), StartMsg>> \in Seq(Up)
      BY <2>1
    <2>3. UNCHANGED <<seq, got, s2c, srv>> /\ pc = "connect" /\ pc' = "ackwait"
          /\ c2s' = <<HelloMsg(ProtocolVersion, TokenHash(clientToken)), StartMsg>>
      BY <1>2 DEF Connect, packet
    <2>4. TokenHash(clientToken)' = TokenHash(clientToken)
      BY <1>0
    <2>5. QED
      BY <1>0, <1>1, <2>2, <2>3, <2>4 DEF Phase, Running, Looping, Finished
  <1>3. ASSUME pc' = "failed", seq' = seq, conn' # "open", UNCHANGED <<c2s, srv>>,
               s2c' \in Seq(Down), got' \in Seq(Half)
        PROVE  Phase'
    BY <1>0, <1>1, <1>3 DEF Phase, Running, Looping, Finished
  <1>4. CASE ConnectFails \/ ReadAckFails \/ WriteFails \/ DecodeFails
    <2>1. /\ pc' = "failed" /\ seq' = seq /\ conn' # "open" /\ UNCHANGED <<c2s, srv, s2c>>
          /\ got' \in {got, <<>>}
      BY <1>4 DEF ConnectFails, ReadAckFails, WriteFails, DecodeFails, Fails, packet
    <2>2. got' \in Seq(Half) /\ s2c' \in Seq(Down)
      BY <2>1, SeqEmpty DEF Phase
    <2>3. QED
      BY <1>3, <2>1, <2>2
  <1>5. CASE ReadAck
    <2>1. /\ pc = "ackwait" /\ s2c # <<>> /\ s2c' = Tail(s2c) /\ UNCHANGED <<got, c2s, srv, seq>>
      BY <1>5 DEF ReadAck, Fails, packet
    <2>2. s2c' \in Seq(Down)
      BY <2>1, SeqHeadTail DEF Phase
    <2>3. PICK a \in BOOLEAN : s2c = <<AckMsg(a)>> /\ (a => Authorized)
      BY <2>1 DEF Phase
    <2>4. CASE validate_ack(Head(s2c))
      <3>1. a /\ s2c' = <<>> /\ c2s = <<>> /\ srv \in {"echo", "closed"} /\ got = <<>>
        BY <2>1, <2>3, <2>4 DEF validate_ack, AckMsg, Phase
      <3>2. pc' = "head"
        BY <1>5, <2>4 DEF ReadAck
      <3>3. QED
        BY <1>0, <1>1, <2>1, <2>3, <3>1, <3>2 DEF Phase, Running, Looping, Finished
    <2>5. CASE ~validate_ack(Head(s2c))
      <3>1. pc' = "failed" /\ conn' # "open"
        BY <1>5, <2>5 DEF ReadAck, Fails
      <3>2. QED
        BY <1>3, <2>1, <2>2, <3>1 DEF Phase
    <2>6. QED
      BY <2>4, <2>5
  <1>6. CASE LoopHead \/ ReadEcho \/ ReadFails \/ WaitTimesOut \/ WaitIdle
    <2>1. /\ pc \in Running /\ pc' \in Running /\ UNCHANGED <<seq, c2s, s2c, srv, conn>>
          /\ got' \in {got, <<>>}
          /\ pc' \in Finished => conn # "open"
      BY <1>6 DEF LoopHead, ReadEcho, ReadFails, WaitTimesOut, WaitIdle, Report, packet, wire,
         Running, Looping, Finished
    <2>2. pc' \notin {"connect", "ackwait"}
      BY <2>1 DEF Running, Looping
    <2>3. got' \in Seq(Half)
      BY <2>1, SeqEmpty DEF Phase
    <2>4. QED
      BY <1>0, <1>1, <2>1, <2>2, <2>3 DEF Phase
  <1>7. CASE Pace
    <2>1. /\ pc \in Running /\ pc' = "write" /\ seq' = seq + 1 /\ UNCHANGED <<c2s, s2c, srv, got>>
      BY <1>7 DEF Pace, wire, Running, Looping
    <2>2. 1..seq \subseteq 1..seq'
      BY <2>1 DEF Scalars
    <2>3. Half \subseteq Half' /\ Frame \subseteq Frame' /\ Up \subseteq Up' /\ Down \subseteq Down'
      BY <2>2 DEF Half, Frame, Up, Down
    <2>4. c2s \in Seq(Up') /\ s2c \in Seq(Down') /\ got \in Seq(Half')
          /\ c2s \in Seq(Frame') /\ s2c \in Seq(Half')
      BY <2>1, <2>3, SeqMonotone DEF Phase
    <2>5. QED
      BY <1>0, <2>1, <2>4 DEF Phase, Finished
  <1>8. CASE Write
    <2>1. /\ pc = "write" /\ pc' = "wait" /\ c2s' = Append(c2s, DataMsg(seq))
          /\ UNCHANGED <<seq, s2c, srv, got, conn>>
      BY <1>8 DEF Write
    <2>2. DataMsg(seq) \in Frame /\ DataMsg(seq) \in Up
      BY <2>1 DEF Book, Scalars, DataMsg, Frame, Up
    <2>3. c2s' \in Seq(Frame) /\ c2s' \in Seq(Up) /\ c2s' # <<>>
      BY <2>1, <2>2, SeqAppend DEF Phase, Running, Looping
    <2>4. QED
      BY <1>0, <1>1, <2>1, <2>3 DEF Phase, Running, Looping, Finished
  <1>9. CASE ReadHalf
    <2>1. /\ pc = "wait" /\ pc' = "wait" /\ s2c # <<>> /\ got' = Append(got, Head(s2c))
          /\ s2c' = Tail(s2c) /\ UNCHANGED <<seq, c2s, srv, conn>>
      BY <1>9 DEF ReadHalf, packet
    <2>2. Head(s2c) \in Half /\ s2c' \in Seq(Half)
      BY <2>1, SeqHeadTail DEF Phase, Running, Looping
    <2>3. got' \in Seq(Half) /\ s2c' \in Seq(Down)
      BY <2>1, <2>2, SeqAppend, SeqMonotone DEF Phase, Down
    <2>4. QED
      BY <1>0, <1>1, <2>1, <2>2, <2>3 DEF Phase, Running, Looping, Finished
  <1>10. QED
    BY <1>2, <1>4, <1>5, <1>6, <1>7, <1>8, <1>9 DEF ClientNext

LEMMA PhaseOther == TypeInv /\ OtherStep => Phase'
  <1> SUFFICES ASSUME TypeInv, OtherStep PROVE Phase'
    OBVIOUS
  <1> USE DEF TypeInv
  <1>0. /\ UNCHANGED <<clientToken, serverToken, pc, seq, got>> /\ Authorized' = Authorized
        /\ Up' = Up /\ Down' = Down /\ Half' = Half /\ Frame' = Frame
        /\ TokenHash(clientToken)' = TokenHash(clientToken)
    BY ClientUntouched DEF config, packet, Authorized, Up, Down, Half, Frame, TokenHash
  <1>1. pc \in {"connect", "ackwait"} \cup Running \cup {"failed"}
    BY DEF Scalars, Running, Finished
  <1>2. CASE SrvHandshake
    <2>1. srv = "accept" /\ conn = "open" /\ pc = "ackwait"
      BY <1>1, <1>2 DEF SrvHandshake, Phase, Finished, Running
    <2>2. c2s = <<HelloMsg(ProtocolVersion, TokenHash(clientToken)), StartMsg>> /\ s2c = <<>>
      BY <2>1 DEF Phase
    <2>3. PICK a \in BOOLEAN : /\ a = Accepts(c2s[1], c2s[2], serverToken)
                               /\ s2c' = Append(s2c, AckMsg(a))
                               /\ srv' = IF a THEN "echo" ELSE "closed"
      BY <1>2 DEF SrvHandshake, Accepts, token_matches
    <2>4. a => Authorized
      BY <2>2, <2>3, MatchingTokens DEF Accepts, HelloMsg, Scalars
    <2>5. s2c' = <<AckMsg(a)>> /\ c2s' = <<>>
      BY <1>2, <2>2, <2>3 DEF SrvHandshake
    <2>6. s2c' \in Seq(Down)
      BY <2>5 DEF Down, AckMsgs
    <2>7. QED
      BY <1>0, <2>1, <2>3, <2>4, <2>5, <2>6 DEF Phase, Running, Looping, Finished
  <1>3. CASE SrvEchoFirst \/ SrvEchoRest
    <2>1. srv \in {"echo", "echoing"} /\ conn = "open" /\ c2s # <<>> /\ conn' = conn
      BY <1>3 DEF SrvEchoFirst, SrvEchoRest, Phase
    <2>2. pc \in Running
      BY <1>1, <2>1 DEF Phase, Finished
    <2>3. Head(c2s) \in Frame /\ Tail(c2s) \in Seq(Frame) /\ Tail(c2s) \in Seq(Up)
      BY <2>1, <2>2, SeqHeadTail DEF Phase
    <2>4. \A h \in {1, 2} : EchoHalf(Head(c2s).seq, h) \in Half
      BY <2>3 DEF Frame, Half, EchoHalf
    <2>5. PICK h \in {1, 2} : s2c' = Append(s2c, EchoHalf(Head(c2s).seq, h))
      BY <1>3 DEF SrvEchoFirst, SrvEchoRest
    <2>6. s2c' \in Seq(Half) /\ s2c' \in Seq(Down)
      BY <2>2, <2>4, <2>5, SeqAppend, SeqMonotone DEF Phase, Down
    <2>7. c2s' \in {c2s, Tail(c2s)} /\ srv' \in {"echo", "echoing"} /\ (srv' = "echoing" => c2s' = c2s)
      BY <1>3 DEF SrvEchoFirst, SrvEchoRest
    <2>8. pc \notin {"connect", "ackwait"} /\ c2s' \in Seq(Frame) /\ c2s' \in Seq(Up)
      BY <2>2, <2>3, <2>7 DEF Phase, Running, Looping
    <2>9. QED
      BY <1>0, <2>1, <2>2, <2>6, <2>7, <2>8 DEF Phase
  <1>4. CASE SrvEof \/ SrvEnds
    <2>1. /\ UNCHANGED <<c2s, s2c, conn>> /\ srv' \in {"nextstream", "closed"} /\ srv # "accept"
          /\ srv' = "nextstream" => pc = "idle"
      BY <1>4 DEF SrvEof, SrvEnds
    <2>2. QED
      BY <1>0, <2>1 DEF Phase, Running, Looping, Finished
  <1>5. CASE ConnLost \/ IdleTimeout
    <2>1. UNCHANGED <<c2s, srv>> /\ s2c' \in {s2c, <<>>} /\ conn = "open" /\ conn' = "lost"
      BY <1>5 DEF ConnLost, IdleTimeout
    <2>2. pc # "connect" /\ pc \notin Finished
      BY <2>1 DEF Phase
    <2>3. s2c' \in Seq(Down) /\ (pc \in Running => s2c' \in Seq(Half))
      BY <2>1, SeqEmpty DEF Phase
    <2>4. QED
      BY <1>0, <2>1, <2>2, <2>3 DEF Phase
  <1>6. CASE Tick \/ Terminating \/ UNCHANGED vars
    <2>1. UNCHANGED <<c2s, s2c, conn, srv>>
      BY <1>6 DEF Tick, Terminating, vars, wire
    <2>2. QED
      BY <1>0, <2>1 DEF Phase
  <1>7. QED
    BY <1>2, <1>3, <1>4, <1>5, <1>6 DEF OtherStep, ServerNext

LEMMA TypeStep == TypeInv /\ [Next]_vars => TypeInv'
  BY StepKinds, ScalarsStep, BookStep, PhaseClient, PhaseOther DEF TypeInv

LEMMA TypeHolds == Spec => []TypeInv
  BY InitTypes, TypeStep, PTL DEF Spec

\* Types, wherever an echo is torn and whenever the connection is lost: nothing
\* in the stream is about a packet that was never sent.
THEOREM TypeCorrect == Spec => []TypeOK
  <1>1. TypeInv => TypeOK
    <2>1. ASSUME TypeInv PROVE events \in Seq(Event)
      <3>1. \A i \in 1..Len(events) : events[i] \in Event
        <4> SUFFICES ASSUME NEW i \in 1..Len(events) PROVE events[i] \in Event
          OBVIOUS
        <4>1. events[i] \in Reports /\ events[i].seq = i /\ i \in 1..seq
          BY <2>1 DEF TypeInv, Book, Scalars
        <4>2. QED
          BY <4>1 DEF Reports, Event
      <3>2. QED
        BY <2>1, <3>1 DEF TypeInv, Book
    <2>2. QED
      BY <2>1 DEF TypeInv, Scalars, Phase, Up, Down, Frame, TypeOK
  <1>2. QED
    BY <1>1, TypeHolds, PTL

\* A packet is numbered only in a session whose token the server accepts.
THEOREM AuthorizedCorrect == Spec => [](seq > 0 => Authorized)
  <1>1. TypeInv => (seq > 0 => Authorized)
    BY DEF TypeInv, Phase
  <1>2. QED
    BY <1>1, TypeHolds, PTL
-----------------------------------------------------------------------------
(* The contract with the engine                                            *)

Status == IF pc = "done" THEN "ok" ELSE IF pc = "failed" THEN "failed" ELSE "running"
Outcomes == [s \in 1..seq |-> Outcome(s)]

\* What a report adds to the events.
LEMMA Reported ==
    ASSUME TypeInv, pc = "wait", NEW acked \in BOOLEAN, Report(acked)
    PROVE  /\ seq \in Nat /\ seq > 0 /\ Len(events) = seq - 1
           /\ Len(events') = seq /\ events'[seq].acked = acked
           /\ \A i \in 1..Len(events) : events'[i] = events[i]
  <1>1. PacketEvent(seq, acked, measured) \in Reports
    BY DEF TypeInv, Scalars, Reports, PacketEvent
  <1>2. seq \in Nat /\ seq > 0 /\ Len(events) = seq - 1
    BY DEF TypeInv, Scalars, Book
  <1>3. QED
    BY <1>1, <1>2, SeqAppend DEF Report, TypeInv, Book, PacketEvent

\* A report is the contract's report of the last packet: it is still open, and
\* every packet acked before it has a smaller number.
LEMMA ReportRefines ==
    ASSUME TypeInv, pc = "wait", NEW acked \in BOOLEAN, Report(acked)
    PROVE  Contract!Next
  <1>1. /\ seq \in Nat /\ seq > 0 /\ Len(events) = seq - 1 /\ seq \in 1..seq
        /\ Len(events') = seq /\ events'[seq].acked = acked
        /\ \A i \in 1..Len(events) : events'[i] = events[i]
    BY Reported
  <1>2. Status = "running" /\ Status' = "running" /\ seq' = seq
    BY DEF Report, Status, packet
  <1>3. Outcomes[seq] = "open"
    BY <1>1 DEF Outcomes, Outcome
  <1>4. \A t \in 1..seq : Outcomes[t] = "acked" => t < seq
    BY <1>1, <1>3
  <1>5. Outcomes' = [Outcomes EXCEPT ![seq] = IF acked THEN "acked" ELSE "lost"]
    <2>1. Outcome(seq)' = IF acked THEN "acked" ELSE "lost"
      BY <1>1, <1>2 DEF Outcome
    <2>2. \A t \in 1..seq : t # seq => Outcome(t)' = Outcome(t)
      BY <1>1, <1>2 DEF Outcome
    <2>3. QED
      BY <1>1, <1>2, <2>1, <2>2 DEF Outcomes
  <1>6. IF acked THEN Contract!ReportAcked(seq) ELSE Contract!ReportLost(seq)
    BY <1>2, <1>3, <1>4, <1>5 DEF Contract!ReportAcked, Contract!ReportLost, Status, Outcomes
  <1>7. QED
    BY <1>1, <1>6 DEF Contract!Next

LEMMA ContractStep ==
    ASSUME TypeInv, [Next]_vars
    PROVE  [Contract!Next]_(Contract!vars)
  <1>1. ASSUME UNCHANGED <<seq, events>>
        PROVE  Outcomes' = Outcomes
    BY <1>1 DEF Outcomes, Outcome
  <1>2. ASSUME UNCHANGED <<seq, events>>, Status' = Status
        PROVE  UNCHANGED Contract!vars
    BY <1>1, <1>2 DEF Contract!vars, Outcomes, Status
  <1>3. ASSUME UNCHANGED <<seq, events>>, Status = "running", Status' = "failed"
        PROVE  Contract!Next
    BY <1>1, <1>3 DEF Contract!Next, Contract!Fail, Outcomes, Status
  <1>4. CASE Connect \/ LoopHead \/ Write \/ ReadHalf
    BY <1>2, <1>4 DEF Connect, LoopHead, Write, ReadHalf, packet, Status
  <1>5. CASE ReadAck
    <2>1. UNCHANGED <<seq, events>> /\ Status = "running"
          /\ (Status' = "running" \/ Status' = "failed")
      BY <1>5 DEF ReadAck, Fails, packet, Status
    <2>2. QED
      BY <1>2, <1>3, <2>1
  <1>6. CASE ConnectFails \/ ReadAckFails \/ WriteFails \/ DecodeFails
    <2>1. UNCHANGED <<seq, events>> /\ Status = "running" /\ Status' = "failed"
      BY <1>6 DEF ConnectFails, ReadAckFails, WriteFails, DecodeFails, Fails, packet, Status
    <2>2. QED
      BY <1>3, <2>1
  <1>7. CASE WaitIdle
    <2>1. UNCHANGED <<seq, events>> /\ Status = "running" /\ Status' = "ok"
      BY <1>7 DEF WaitIdle, packet, Status
    <2>2. Len(events) = seq
      BY <1>7 DEF WaitIdle, TypeInv, Book
    <2>3. \A s \in 1..seq : Outcomes[s] # "open"
      BY <2>2 DEF Outcomes, Outcome, TypeInv, Scalars
    <2>4. Contract!Finish
      BY <1>1, <2>1, <2>3 DEF Contract!Finish, Outcomes, Status
    <2>5. QED
      BY <2>4 DEF Contract!Next
  <1>8. CASE Pace
    <2>1. Status = "running" /\ Status' = "running" /\ seq' = seq + 1 /\ events' = events
      BY <1>8 DEF Pace, Status
    <2>2. Len(events) = seq /\ seq \in Nat
      BY <1>8 DEF Pace, TypeInv, Book, Scalars
    <2>3. \A s \in 1..seq' : Outcome(s)' = IF s \in 1..seq THEN Outcome(s) ELSE "open"
      BY <2>1, <2>2 DEF Outcome
    <2>4. Outcomes' = [s \in 1..seq' |-> IF s \in 1..seq THEN Outcomes[s] ELSE "open"]
      BY <2>3 DEF Outcomes
    <2>5. Contract!Send
      BY <2>1, <2>4 DEF Contract!Send, Status, Outcomes
    <2>6. QED
      BY <2>5 DEF Contract!Next
  <1>9. CASE ReadEcho \/ ReadFails \/ WaitTimesOut
    <2>0. IsEcho(got, seq) \in BOOLEAN
      BY DEF IsEcho
    <2>1. pc = "wait" /\ \E acked \in BOOLEAN : Report(acked)
      BY <1>9, <2>0 DEF ReadEcho, ReadFails, WaitTimesOut
    <2>2. QED
      BY <2>1, ReportRefines
  <1>10. CASE OtherStep
    BY <1>2, <1>10, ClientUntouched DEF packet, Status
  <1>11. QED
    BY <1>4, <1>5, <1>6, <1>7, <1>8, <1>9, <1>10, StepKinds DEF ClientNext

\* Every behaviour of the stream is one the contract allows: every packet
\* reported once, in order, all of them if it ends well.
THEOREM ContractImplemented == Spec => ImplementsContract
  <1>1. Init => Contract!Init
    BY DEF Init, Contract!Init, Outcome
  <1>2. TypeInv /\ [Next]_vars => [Contract!Next]_(Contract!vars)
    BY ContractStep
  <1>3. QED
    BY <1>1, <1>2, TypeHolds, PTL DEF Spec, ImplementsContract, Contract!Spec
-----------------------------------------------------------------------------
(* The line of bytes                                                       *)

\* The halves of all echoes, numbered 1, 2, 3, ... as they leave the server.
Num(h) == 2 * (h.seq - 1) + h.half
TornNow == IF srv = "echoing" THEN 1 ELSE 0
Written == IF pc = "write" THEN seq - 1 ELSE seq

\* Before those in `got` the client has read p halves, and the server has echoed
\* e packets whole: what is on its way follows without a gap.  The client has
\* read the echoes of all its packets, or is behind for good.
Line(p, e) ==
    /\ \A k \in 1..Len(got) : Num(got[k]) = p + k
    /\ \A k \in 1..Len(s2c) : Num(s2c[k]) = p + Len(got) + k
    /\ \A k \in 1..Len(c2s) : c2s[k].seq = e + k
    /\ p + Len(got) + Len(s2c) <= 2 * e + 1
    /\ conn = "open" => /\ p + Len(got) + Len(s2c) = 2 * e + TornNow
                        /\ e + Len(c2s) = Written
    /\ \A i \in 1..Len(events) : events[i].acked => 2 * i <= p
    /\ pc # "failed" =>
         /\ (\A i \in 1..Len(events) : events[i].acked) => p = 2 * Len(events)
         /\ (\E i \in 1..Len(events) : ~events[i].acked) => p < 2 * Len(events)
    /\ \A i, j \in 1..Len(events) : i < j /\ events[j].acked => events[i].acked

Started == pc \in Running \/ seq > 0

LineInv == Started => \E p, e \in Nat : Line(p, e)

LEMMA Lengths ==
    ASSUME TypeInv
    PROVE  /\ Len(got) \in Nat /\ Len(s2c) \in Nat /\ Len(c2s) \in Nat /\ Len(events) \in Nat
           /\ seq \in Nat
  BY DEF TypeInv, Phase, Book, Scalars

\* A report takes what was read out of the line.
LEMMA LineReport ==
    ASSUME TypeInv, pc = "wait", NEW acked \in BOOLEAN, Report(acked),
           NEW p \in Nat, NEW e \in Nat, Line(p, e), NEW q \in Nat, q = p + Len(got),
           acked => q = 2 * seq /\ p = 2 * (seq - 1),
           ~acked => q < 2 * seq
    PROVE  Line(q, e)'
  <1>1. /\ seq \in Nat /\ seq > 0 /\ Len(events) = seq - 1
        /\ Len(events') = seq /\ events'[seq].acked = acked
        /\ \A i \in 1..Len(events) : events'[i] = events[i]
    BY Reported
  <1>2. UNCHANGED <<seq, conn, c2s, s2c, srv>> /\ got' = <<>> /\ Len(got') = 0 /\ pc' = "head"
    BY DEF Report, packet, wire
  <1>3. \A i \in 1..Len(events') : i \in 1..Len(events) \/ i = seq
    BY <1>1
  <1>4. /\ \A k \in 1..Len(got') : Num(got'[k]) = q + k
        /\ \A k \in 1..Len(s2c') : Num(s2c'[k]) = q + Len(got') + k
        /\ \A k \in 1..Len(c2s') : c2s'[k].seq = e + k
    <2>1. \A k \in 1..Len(got') : Num(got'[k]) = q + k
      BY <1>2
    <2>2. \A k \in 1..Len(s2c') : Num(s2c'[k]) = q + Len(got') + k
      <3>1. \A k \in 1..Len(s2c) : Num(s2c[k]) = q + k
        BY DEF Line
      <3>2. q + Len(got') = q
        BY <1>2
      <3>3. QED
        BY <1>2, <3>1, <3>2
    <2>3. \A k \in 1..Len(c2s') : c2s'[k].seq = e + k
      BY <1>2 DEF Line
    <2>4. QED
      BY <2>1, <2>2, <2>3
  <1>5. /\ q + Len(got') + Len(s2c') <= 2 * e + 1
        /\ conn' = "open" => /\ q + Len(got') + Len(s2c') = 2 * e + TornNow'
                             /\ e + Len(c2s') = Written'
    BY <1>2, Lengths DEF Line, TornNow, Written
  <1>6. \A i \in 1..Len(events') : events'[i].acked => 2 * i <= q
    <2>1. \A i \in 1..Len(events) : events[i].acked => 2 * i <= p
      BY DEF Line
    <2>2. p <= q
      BY Lengths
    <2>3. \A i \in 1..Len(events) : events[i].acked => 2 * i <= q
      BY <2>1, <2>2, Lengths
    <2>4. QED
      BY <1>1, <1>3, <2>3
  <1>7. acked => \A i \in 1..Len(events) : events[i].acked
    <2>1. (\E i \in 1..Len(events) : ~events[i].acked) => p < 2 * Len(events)
      BY DEF Line
    <2>2. acked => p = 2 * Len(events)
      BY <1>1
    <2>3. QED
      BY <1>1, <2>1, <2>2
  <1>8. /\ (\A i \in 1..Len(events') : events'[i].acked) => q = 2 * Len(events')
        /\ (\E i \in 1..Len(events') : ~events'[i].acked) => q < 2 * Len(events')
    BY <1>1, <1>3, <1>7
  <1>9. \A i, j \in 1..Len(events') : i < j /\ events'[j].acked => events'[i].acked
    BY <1>1, <1>3, <1>7 DEF Line
  <1>10. QED
    BY <1>4, <1>5, <1>6, <1>8, <1>9 DEF Line, Num

\* The first half of an echo decodes; it and the next are the same packet's.
LEMMA WholeEcho ==
    ASSUME TypeInv, NEW p \in Nat, NEW e \in Nat, Line(p, e), Len(got) = 2, Aligned(got)
    PROVE  got[2].seq \in Nat /\ p + 2 = 2 * got[2].seq
  <1>1. /\ got[1] \in Half /\ got[2] \in Half
        /\ Num(got[1]) = p + 1 /\ Num(got[2]) = p + 2
    <2>1. 1 \in 1..Len(got) /\ 2 \in 1..Len(got)
      OBVIOUS
    <2>2. got \in Seq(Half)
      BY DEF TypeInv, Phase
    <2>3. got[1] \in Half /\ got[2] \in Half
      BY <2>1, <2>2, ElementOfSeq
    <2>4. QED
      BY <2>1, <2>3 DEF Line
  <1>2. got[1].seq \in Nat /\ got[2].seq \in Nat /\ got[1].half = 1 /\ got[2].half \in {1, 2}
    BY <1>1 DEF Half, Aligned, TypeInv, Scalars
  <1>3. p + 1 = 2 * (got[1].seq - 1) + 1 /\ p + 2 = 2 * (got[2].seq - 1) + got[2].half
    BY <1>1, <1>2 DEF Num
  <1>4. QED
    BY <1>2, <1>3
LEMMA LineClient == TypeInv /\ LineInv /\ ClientNext => LineInv'
  <1> SUFFICES ASSUME TypeInv, LineInv, ClientNext, Started'
               PROVE  \E p, e \in Nat : Line(p, e)'
    BY DEF LineInv
  <1>1. CASE Connect
    <2>1. seq' = 0 /\ pc' = "ackwait"
      BY <1>1 DEF Connect, packet, TypeInv, Book
    <2>2. QED
      BY <2>1 DEF Started, Running, Looping
  <1>2. CASE ConnectFails \/ ReadAckFails
    <2>1. seq' = 0 /\ pc' = "failed"
      BY <1>2 DEF ConnectFails, ReadAckFails, Fails, packet, TypeInv, Book
    <2>2. QED
      BY <2>1 DEF Started, Running, Looping
  <1>3. CASE ReadAck
    <2>1. seq = 0 /\ seq' = 0 /\ pc = "ackwait" /\ s2c # <<>> /\ pc' \in {"head", "failed"}
      BY <1>3 DEF ReadAck, Fails, packet, TypeInv, Book
    <2>2. validate_ack(Head(s2c)) /\ pc' = "head"
      BY <1>3, <2>1 DEF ReadAck, Fails, Started, Running, Looping
    <2>3. UNCHANGED <<events, conn, c2s, srv, got>> /\ s2c' = Tail(s2c)
      BY <1>3, <2>2 DEF ReadAck
    <2>4. c2s = <<>> /\ got = <<>> /\ srv # "echoing" /\ Tail(s2c) = <<>>
      <3>1. PICK a : s2c = <<AckMsg(a)>> /\ c2s = <<>> /\ srv \in {"echo", "closed"}
        BY <2>1 DEF TypeInv, Phase
      <3>2. QED
        BY <2>1, <3>1 DEF TypeInv, Phase
    <2>5. Len(events) = 0
      BY <2>1, Lengths DEF TypeInv, Book
    <2>6. Len(got') = 0 /\ Len(c2s') = 0 /\ Len(s2c') = 0 /\ Len(events') = 0
      BY <2>3, <2>4, <2>5
    <2>7. TornNow' = 0 /\ Written' = 0
      BY <2>1, <2>2, <2>3, <2>4 DEF TornNow, Written
    <2>8. Line(0, 0)'
      BY <2>6, <2>7 DEF Line
    <2>9. QED
      BY <2>8
  <1>4. ASSUME NEW p \in Nat, NEW e \in Nat, Line(p, e),
               UNCHANGED <<events, got, c2s, s2c, srv>>, pc' # "failed" => pc # "failed",
               conn' = "open" => conn = "open" /\ Written' = Written
        PROVE  Line(p, e)'
    <2>1. TornNow' = TornNow
      BY <1>4 DEF TornNow
    <2>2. QED
      BY <1>4, <2>1 DEF Line, Num
  <1>5. CASE LoopHead \/ WaitIdle \/ Pace
    <2>1. /\ pc \in Running /\ pc # "failed" /\ UNCHANGED <<events, got, c2s, s2c, srv, conn>>
          /\ Written' = Written
      <3>1. Pace => Written' = Written
        BY DEF Pace, Written, TypeInv, Scalars
      <3>2. QED
        BY <1>5, <3>1 DEF LoopHead, WaitIdle, Pace, packet, wire, Running, Looping, Written
    <2>2. PICK p, e \in Nat : Line(p, e)
      BY <2>1 DEF LineInv, Started
    <2>3. Line(p, e)'
      BY <1>4, <2>1, <2>2
    <2>4. QED
      BY <2>3
  <1>6. CASE WriteFails
    <2>1. /\ pc \in Running /\ UNCHANGED <<events, got, c2s, s2c, srv>> /\ conn' # "open"
          /\ pc' = "failed"
      BY <1>6 DEF WriteFails, Fails, packet, Running, Looping
    <2>2. PICK p, e \in Nat : Line(p, e)
      BY <2>1 DEF LineInv, Started
    <2>3. Line(p, e)'
      BY <1>4, <2>1, <2>2
    <2>4. QED
      BY <2>3
  <1>7. CASE Write
    <2>1. /\ pc = "write" /\ pc' = "wait" /\ conn = "open" /\ c2s' = Append(c2s, DataMsg(seq))
          /\ UNCHANGED <<seq, events, got, conn, s2c, srv>>
      BY <1>7 DEF Write
    <2>2. PICK p, e \in Nat : Line(p, e)
      BY <2>1 DEF LineInv, Started, Running, Looping
    <2>3. /\ Len(c2s') = Len(c2s) + 1 /\ c2s'[Len(c2s) + 1].seq = seq
          /\ \A k \in 1..Len(c2s) : c2s'[k] = c2s[k]
      <3>1. c2s \in Seq(Up) /\ DataMsg(seq) \in Up
        BY <2>1 DEF TypeInv, Phase, Book, Scalars, DataMsg, Up, Frame
      <3>2. QED
        BY <2>1, <3>1, SeqAppend DEF DataMsg
    <2>4. e + Len(c2s) = seq - 1
      BY <2>1, <2>2 DEF Line, Written
    <2>5. \A k \in 1..Len(c2s') : c2s'[k].seq = e + k
      <3>1. \A k \in 1..Len(c2s') : k \in 1..Len(c2s) \/ k = Len(c2s) + 1
        BY <2>3, Lengths
      <3>2. \A k \in 1..Len(c2s) : c2s[k].seq = e + k
        BY <2>2 DEF Line
      <3>3. seq = e + (Len(c2s) + 1)
        BY <2>4, Lengths
      <3>4. QED
        BY <2>3, <3>1, <3>2, <3>3
    <2>6. e + Len(c2s') = Written'
      BY <2>1, <2>3, <2>4, Lengths DEF Written
    <2>7. TornNow' = TornNow
      BY <2>1 DEF TornNow
    <2>8. Line(p, e)'
      BY <2>1, <2>2, <2>5, <2>6, <2>7 DEF Line, Num
    <2>9. QED
      BY <2>8
  <1>8. CASE ReadHalf
    <2>1. /\ pc = "wait" /\ s2c # <<>> /\ got' = Append(got, Head(s2c)) /\ s2c' = Tail(s2c)
          /\ UNCHANGED <<pc, seq, events, conn, c2s, srv>>
      BY <1>8 DEF ReadHalf, packet
    <2>2. PICK p, e \in Nat : Line(p, e)
      BY <2>1 DEF LineInv, Started, Running, Looping
    <2>3. /\ Head(s2c) = s2c[1] /\ 1 \in 1..Len(s2c) /\ Len(s2c') = Len(s2c) - 1 /\ Head(s2c) \in Half
          /\ \A k \in 1..Len(s2c') : s2c'[k] = s2c[k + 1] /\ k + 1 \in 1..Len(s2c)
      BY <2>1, SeqHeadTail DEF TypeInv, Phase, Running, Looping
    <2>4. /\ Len(got') = Len(got) + 1 /\ got'[Len(got) + 1] = s2c[1]
          /\ \A k \in 1..Len(got) : got'[k] = got[k]
          /\ \A k \in 1..Len(got') : k \in 1..Len(got) \/ k = Len(got) + 1
      BY <2>1, <2>3, SeqAppend, Lengths DEF TypeInv, Phase
    <2>5. \A k \in 1..Len(got') : Num(got'[k]) = p + k
      <3>1. Num(s2c[1]) = p + (Len(got) + 1)
        BY <2>2, <2>3, Lengths DEF Line
      <3>2. QED
        BY <2>2, <2>4, <3>1 DEF Line
    <2>6. \A k \in 1..Len(s2c') : Num(s2c'[k]) = p + Len(got') + k
      <3>1. \A k \in 1..Len(s2c) : Num(s2c[k]) = p + Len(got) + k
        BY <2>2 DEF Line
      <3>2. \A k \in 1..Len(s2c') : Num(s2c'[k]) = p + Len(got) + (k + 1)
        BY <2>3, <3>1
      <3>3. QED
        BY <2>3, <2>4, <3>2, Lengths
    <2>7. Len(got') + Len(s2c') = Len(got) + Len(s2c) /\ p + Len(got') + Len(s2c') = p + Len(got) + Len(s2c)
      BY <2>3, <2>4, Lengths
    <2>8. TornNow' = TornNow /\ Written' = Written
      BY <2>1 DEF TornNow, Written
    <2>9. Line(p, e)'
      BY <2>1, <2>2, <2>5, <2>6, <2>7, <2>8 DEF Line, Num
    <2>10. QED
      BY <2>9
  <1>9. CASE DecodeFails
    <2>1. /\ pc = "wait" /\ Len(got) = 2 /\ got' = <<>> /\ Len(got') = 0
          /\ pc' = "failed" /\ conn' # "open" /\ UNCHANGED <<events, c2s, s2c>>
      BY <1>9 DEF DecodeFails, Fails
    <2>2. PICK p, e \in Nat : Line(p, e)
      BY <2>1 DEF LineInv, Started, Running, Looping
    <2>3. /\ \A k \in 1..Len(s2c') : Num(s2c'[k]) = (p + 2) + Len(got') + k
          /\ \A k \in 1..Len(c2s') : c2s'[k].seq = e + k
          /\ (p + 2) + Len(got') + Len(s2c') <= 2 * e + 1
      <3>1. (p + 2) + Len(got') = p + Len(got)
        BY <2>1
      <3>2. \A k \in 1..Len(s2c') : Num(s2c'[k]) = (p + 2) + Len(got') + k
        BY <2>1, <2>2, <3>1 DEF Line
      <3>3. \A k \in 1..Len(c2s') : c2s'[k].seq = e + k
        BY <2>1, <2>2 DEF Line
      <3>4. (p + 2) + Len(got') + Len(s2c') <= 2 * e + 1
        BY <2>1, <2>2, <3>1 DEF Line
      <3>5. QED
        BY <3>2, <3>3, <3>4
    <2>4. \A i \in 1..Len(events') : events'[i].acked => 2 * i <= p + 2
      BY <2>1, <2>2, Lengths DEF Line
    <2>5. Line(p + 2, e)'
      BY <2>1, <2>2, <2>3, <2>4 DEF Line, Num
    <2>6. p + 2 \in Nat
      OBVIOUS
    <2>7. QED
      BY <2>5, <2>6
  <1>10. CASE ReadEcho \/ ReadFails \/ WaitTimesOut
    <2>1. pc = "wait"
      BY <1>10 DEF ReadEcho, ReadFails, WaitTimesOut
    <2>2. PICK p, e \in Nat : Line(p, e)
      BY <2>1 DEF LineInv, Started, Running, Looping
    <2>3. PICK q \in Nat : q = p + Len(got)
      BY <2>2, Lengths
    <2>4. Len(events) = seq - 1 /\ seq \in Nat /\ seq > 0 /\ p <= 2 * (seq - 1)
      <3>1. Len(events) = seq - 1 /\ seq \in Nat /\ seq > 0
        BY <2>1 DEF TypeInv, Book, Scalars
      <3>2. p = 2 * Len(events) \/ p < 2 * Len(events)
        BY <2>1, <2>2 DEF Line
      <3>3. QED
        BY <2>2, <3>1, <3>2
    <2>5. CASE ReadFails \/ WaitTimesOut
      <3>1. Report(FALSE) /\ Len(got) < 2
        BY <2>5 DEF ReadFails, WaitTimesOut
      <3>2. q < 2 * seq
        BY <2>2, <2>3, <2>4, <3>1, Lengths
      <3>3. Line(q, e)'
        BY <2>1, <2>2, <2>3, <3>1, <3>2, LineReport
      <3>4. QED
        BY <3>3
    <2>6. CASE ReadEcho
      <3>1. PICK acked \in BOOLEAN : acked = IsEcho(got, seq)
        BY DEF IsEcho
      <3>2. Report(acked) /\ Len(got) = 2 /\ Aligned(got)
        BY <2>6, <3>1 DEF ReadEcho
      <3>3. got[2].seq \in Nat /\ q = 2 * got[2].seq /\ q = p + 2
        BY <2>2, <2>3, <3>2, WholeEcho
      <3>4. acked <=> got[2].seq = seq
        BY <3>1 DEF IsEcho
      <3>5. acked => q = 2 * seq /\ p = 2 * (seq - 1)
        BY <2>2, <2>4, <3>3, <3>4
      <3>6. ~acked => q < 2 * seq
        BY <2>2, <2>4, <3>3, <3>4
      <3>7. Line(q, e)'
        BY <2>1, <2>2, <2>3, <3>2, <3>5, <3>6, LineReport
      <3>8. QED
        BY <3>7
    <2>7. QED
      BY <1>10, <2>5, <2>6
  <1>11. QED
    BY <1>1, <1>2, <1>3, <1>5, <1>6, <1>7, <1>8, <1>9, <1>10 DEF ClientNext

LEMMA LineOther == TypeInv /\ LineInv /\ OtherStep => LineInv'
  <1> SUFFICES ASSUME TypeInv, LineInv, OtherStep, Started'
               PROVE  \E p, e \in Nat : Line(p, e)'
    BY DEF LineInv
  <1>0. UNCHANGED <<pc, seq, events, got>> /\ Written' = Written
    BY ClientUntouched DEF packet, Written
  <1>1. PICK p, e \in Nat : Line(p, e)
    BY <1>0 DEF LineInv, Started
  <1>2. conn = "open" => pc \in Running /\ srv # "accept"
    BY <1>0 DEF Started, TypeInv, Scalars, Phase, Book, Running, Finished
  <1>3. CASE SrvHandshake
    BY <1>2, <1>3 DEF SrvHandshake
  <1>4. CASE SrvEchoFirst
    <2>1. /\ srv = "echo" /\ srv' = "echoing" /\ conn = "open" /\ c2s # <<>>
          /\ s2c' = Append(s2c, EchoHalf(Head(c2s).seq, 1)) /\ UNCHANGED <<conn, c2s>>
      BY <1>4 DEF SrvEchoFirst
    <2>2. Head(c2s) = c2s[1] /\ 1 \in 1..Len(c2s) /\ Head(c2s) \in Frame
      BY <1>2, <2>1, SeqHeadTail DEF TypeInv, Phase
    <2>3. EchoHalf(Head(c2s).seq, 1) \in Half /\ Num(EchoHalf(Head(c2s).seq, 1)) = 2 * e + 1
      <3>1. Head(c2s).seq = e + 1 /\ Head(c2s).seq \in 1..seq
        BY <1>1, <2>2 DEF Line, Frame
      <3>2. EchoHalf(e + 1, 1).seq = e + 1 /\ EchoHalf(e + 1, 1).half = 1
        BY DEF EchoHalf
      <3>3. Num(EchoHalf(e + 1, 1)) = 2 * e + 1
        <4>1. \A h : h.seq = e + 1 /\ h.half = 1 => Num(h) = 2 * ((e + 1) - 1) + 1
          BY DEF Num
        <4>2. 2 * ((e + 1) - 1) + 1 = 2 * e + 1
          BY <1>1
        <4>3. QED
          BY <3>2, <4>1, <4>2
      <3>4. EchoHalf(Head(c2s).seq, 1) \in Half
        BY <3>1 DEF EchoHalf, Half
      <3>5. QED
        BY <3>1, <3>3, <3>4
    <2>4. /\ Len(s2c') = Len(s2c) + 1 /\ s2c'[Len(s2c) + 1] = EchoHalf(Head(c2s).seq, 1)
          /\ \A k \in 1..Len(s2c) : s2c'[k] = s2c[k]
          /\ \A k \in 1..Len(s2c') : k \in 1..Len(s2c) \/ k = Len(s2c) + 1
      BY <1>2, <2>1, <2>3, SeqAppend DEF TypeInv, Phase
    <2>5. p + Len(got) + Len(s2c) = 2 * e
      BY <1>1, <2>1, Lengths DEF Line, TornNow
    <2>6. \A k \in 1..Len(s2c') : Num(s2c'[k]) = p + Len(got) + k
      <3>1. \A k \in 1..Len(s2c) : Num(s2c[k]) = p + Len(got) + k
        BY <1>1 DEF Line
      <3>2. Num(s2c'[Len(s2c) + 1]) = p + Len(got) + (Len(s2c) + 1)
        BY <2>3, <2>4, <2>5, Lengths
      <3>3. QED
        BY <2>4, <3>1, <3>2
    <2>7. p + Len(got) + Len(s2c') = 2 * e + TornNow' /\ TornNow' = 1
      BY <2>1, <2>4, <2>5, Lengths DEF TornNow
    <2>8. p + Len(got) + Len(s2c') <= 2 * e + 1
      BY <2>4, <2>5, Lengths
    <2>9. Line(p, e)'
      BY <1>0, <1>1, <2>1, <2>6, <2>7, <2>8 DEF Line
    <2>10. QED
      BY <2>9
  <1>5. CASE SrvEchoRest
    <2>1. /\ srv = "echoing" /\ srv' = "echo" /\ conn = "open" /\ c2s # <<>> /\ c2s' = Tail(c2s)
          /\ s2c' = Append(s2c, EchoHalf(Head(c2s).seq, 2)) /\ UNCHANGED conn
      BY <1>5 DEF SrvEchoRest, TypeInv, Phase
    <2>2. /\ Head(c2s) = c2s[1] /\ 1 \in 1..Len(c2s) /\ Head(c2s) \in Frame /\ Len(c2s') = Len(c2s) - 1
          /\ \A k \in 1..Len(c2s') : c2s'[k] = c2s[k + 1] /\ k + 1 \in 1..Len(c2s)
      BY <1>2, <2>1, SeqHeadTail DEF TypeInv, Phase
    <2>3. EchoHalf(Head(c2s).seq, 2) \in Half /\ Num(EchoHalf(Head(c2s).seq, 2)) = 2 * e + 2
      <3>1. Head(c2s).seq = e + 1
        BY <1>1, <2>2 DEF Line
      <3>2. QED
        BY <2>2, <3>1 DEF EchoHalf, Num, Half, Frame
    <2>4. /\ Len(s2c') = Len(s2c) + 1 /\ s2c'[Len(s2c) + 1] = EchoHalf(Head(c2s).seq, 2)
          /\ \A k \in 1..Len(s2c) : s2c'[k] = s2c[k]
          /\ \A k \in 1..Len(s2c') : k \in 1..Len(s2c) \/ k = Len(s2c) + 1
      BY <1>2, <2>1, <2>3, SeqAppend DEF TypeInv, Phase
    <2>5. p + Len(got) + Len(s2c) = 2 * e + 1
      BY <1>1, <2>1, Lengths DEF Line, TornNow
    <2>6. \A k \in 1..Len(s2c') : Num(s2c'[k]) = p + Len(got) + k
      <3>1. \A k \in 1..Len(s2c) : Num(s2c[k]) = p + Len(got) + k
        BY <1>1 DEF Line
      <3>2. Num(s2c'[Len(s2c) + 1]) = p + Len(got) + (Len(s2c) + 1)
        BY <2>3, <2>4, <2>5, Lengths
      <3>3. QED
        BY <2>4, <3>1, <3>2
    <2>7. \A k \in 1..Len(c2s') : c2s'[k].seq = (e + 1) + k
      <3>1. \A k \in 1..Len(c2s) : c2s[k].seq = e + k
        BY <1>1 DEF Line
      <3>2. \A k \in 1..Len(c2s') : c2s'[k].seq = e + (k + 1)
        BY <2>2, <3>1
      <3>3. QED
        BY <2>2, <3>2, Lengths
    <2>8. /\ p + Len(got) + Len(s2c') = 2 * (e + 1) + TornNow' /\ TornNow' = 0
          /\ (e + 1) + Len(c2s') = Written
      <3>1. e + Len(c2s) = Written
        BY <1>1, <2>1 DEF Line
      <3>2. (e + 1) + Len(c2s') = Written
        BY <2>2, <3>1, Lengths
      <3>3. TornNow' = 0
        BY <2>1 DEF TornNow
      <3>4. p + Len(got) + Len(s2c') = 2 * (e + 1)
        BY <2>4, <2>5, Lengths
      <3>5. QED
        BY <3>2, <3>3, <3>4
    <2>9. Line(p, e + 1)'
      BY <1>0, <1>1, <2>1, <2>6, <2>7, <2>8 DEF Line, Num
    <2>10. e + 1 \in Nat
      OBVIOUS
    <2>11. QED
      BY <2>9, <2>10
  <1>6. CASE SrvEof \/ SrvEnds \/ IdleTimeout \/ Tick \/ Terminating \/ UNCHANGED vars
    <2>1. /\ UNCHANGED <<c2s, s2c>>
          /\ conn' = "open" => conn = "open" /\ TornNow' = TornNow
      BY <1>6 DEF SrvEof, SrvEnds, IdleTimeout, Tick, Terminating, vars, wire, TornNow
    <2>2. Line(p, e)'
      BY <1>0, <1>1, <2>1 DEF Line, Num
    <2>3. QED
      BY <2>2
  <1>7. CASE ConnLost
    <2>1. UNCHANGED c2s /\ conn' = "lost"
      BY <1>7 DEF ConnLost
    <2>2. CASE s2c' = s2c
      <3>1. Line(p, e)'
        BY <1>0, <1>1, <2>1, <2>2 DEF Line, Num
      <3>2. QED
        BY <3>1
    <2>3. CASE s2c' = <<>>
      <3>1. Len(s2c') = 0 /\ p + Len(got) + Len(s2c') <= 2 * e + 1
        BY <1>1, <2>3, Lengths DEF Line
      <3>2. Line(p, e)'
        BY <1>0, <1>1, <2>1, <3>1 DEF Line, Num
      <3>3. QED
        BY <3>2
    <2>4. QED
      BY <1>7, <2>2, <2>3 DEF ConnLost
  <1>8. QED
    BY <1>3, <1>4, <1>5, <1>6, <1>7 DEF OtherStep, ServerNext

LEMMA LineHolds == Spec => [](TypeInv /\ LineInv)
  <1>1. Init => LineInv
    BY DEF Init, LineInv, Started, Running, Looping
  <1>2. QED
    BY <1>1, TypeHolds, LineClient, LineOther, StepKinds, PTL DEF Spec

\* An ack is for its own packet, whole: nothing of an acked packet or of an
\* earlier one is in the stream; and after the first loss, a torn read or a late
\* echo, no packet is acked any more.
THEOREM AcksInStepCorrect == Spec => []AcksInStep
  <1>1. TypeInv /\ LineInv => AcksInStep
    <2> SUFFICES ASSUME TypeInv, LineInv PROVE AcksInStep
      OBVIOUS
    <2>1. CASE ~Started
      <3>1. Len(events) = 0
        BY <2>1, Lengths DEF Started, TypeInv, Book
      <3>2. DOMAIN events = {}
        BY <3>1 DEF TypeInv, Book
      <3>3. QED
        BY <3>2 DEF AcksInStep, AckedIsGone, LossIsForever
    <2>2. CASE Started
      <3>1. PICK p, e \in Nat : Line(p, e)
        BY <2>2 DEF LineInv
      <3>2. DOMAIN events = 1..Len(events) /\ DOMAIN c2s = 1..Len(c2s) /\ DOMAIN s2c = 1..Len(s2c)
        BY DEF TypeInv, Book, Phase
      <3>3. LossIsForever
        BY <3>1, <3>2 DEF Line, LossIsForever
      <3>4. ASSUME NEW i \in 1..Len(events), events[i].acked
            PROVE  /\ \A k \in 1..Len(c2s) : c2s[k] # DataMsg(i)
                   /\ \A k \in 1..Len(s2c) : s2c[k].type = "Echo" => s2c[k].seq > i
        <4>1. i \in Nat /\ 2 * i <= p /\ i <= e
          BY <3>1, <3>4, Lengths DEF Line
        <4>2. \A k \in 1..Len(c2s) : c2s[k].seq # i
          BY <3>1, <4>1, Lengths DEF Line
        <4>3. ASSUME NEW k \in 1..Len(s2c), s2c[k].type = "Echo"
              PROVE  s2c[k].seq > i
          <5>1. s2c[k] \in Half
            <6>1. s2c[k] \in Down
              BY ElementOfSeq DEF TypeInv, Phase
            <6>2. QED
              BY <4>3, <6>1 DEF Down, AckMsgs, AckMsg
          <5>2. Num(s2c[k]) = p + Len(got) + k
            BY <3>1 DEF Line
          <5>3. s2c[k].seq \in Nat /\ s2c[k].half \in {1, 2}
            BY <5>1, Lengths DEF Half
          <5>4. 2 * (s2c[k].seq - 1) + s2c[k].half = p + Len(got) + k
            BY <5>2 DEF Num
          <5>5. p + Len(got) + k > 2 * i
            BY <4>1, Lengths
          <5>6. \A x, y \in Nat : \A h \in {1, 2} : 2 * (x - 1) + h > 2 * y => x > y
            OBVIOUS
          <5>7. QED
            BY <4>1, <5>3, <5>4, <5>5, <5>6
        <4>4. QED
          BY <4>2, <4>3 DEF DataMsg
      <3>5. AckedIsGone
        BY <3>2, <3>4 DEF AckedIsGone, TypeInv, Book
      <3>6. QED
        BY <3>3, <3>5 DEF AcksInStep
    <2>3. QED
      BY <2>1, <2>2
  <1>2. QED
    BY <1>1, LineHolds, PTL
=============================================================================
