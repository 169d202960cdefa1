--------------------------- MODULE UdpStreamProofs ---------------------------
(***************************************************************************)
(* Theorems about UdpStream, for every token, timing, buffer and number of *)
(* packets, and whatever the network loses, duplicates and reorders: the   *)
(* stream keeps its contract with the engine.                              *)
(***************************************************************************)
EXTENDS UdpStream, TLAPS, SequenceTheorems

LEMMA ConstantTypes ==
    /\ Warmup \in Nat /\ Duration \in Nat /\ Timeout \in Nat /\ Delay \in Nat
    /\ RxCap \in Nat /\ MaxCopies \in Nat /\ Horizon \in Nat /\ MaxSeq \in Nat
  BY UdpAssumption

\* A sequence over a set is one over every larger set.
LEMMA SeqMonotone ==
    ASSUME NEW S, NEW T, S \subseteq T, NEW q \in Seq(S)
    PROVE  q \in Seq(T)
  OBVIOUS

\* Consuming the head of a queue leaves a queue; the head was an element.
LEMMA SeqHeadTail ==
    ASSUME NEW S, NEW q \in Seq(S), q # <<>>
    PROVE  /\ Head(q) \in S /\ Tail(q) \in Seq(S)
           /\ Len(q) \in Nat /\ Len(q) > 0 /\ Len(Tail(q)) = Len(q) - 1
           /\ q[1] = Head(q)
           /\ \A k \in 1..Len(Tail(q)) : Tail(q)[k] = q[k + 1] /\ k + 1 \in 1..Len(q)
  BY HeadTailProperties

\* Adding an element: the old ones keep their places.
LEMMA SeqAppend ==
    ASSUME NEW S, NEW q \in Seq(S), NEW e \in S
    PROVE  /\ Append(q, e) \in Seq(S)
           /\ Len(q) \in Nat /\ Len(Append(q, e)) = Len(q) + 1
           /\ Append(q, e)[Len(q) + 1] = e
           /\ \A k \in 1..Len(q) : Append(q, e)[k] = q[k]
  BY AppendProperties

-----------------------------------------------------------------------------
(* The steps, by what they touch                                           *)

OtherStep ==
    \/ Tick \/ Terminating \/ Environment
    \/ \E m \in toSrv : SrvHello(m) \/ SrvData(m)
    \/ UNCHANGED vars

\* Nobody but the client touches the client's own state.
LEMMA ClientUntouched ==
    OtherStep => UNCHANGED <<config, client>>
  <1>1. Tick \/ Terminating \/ UNCHANGED vars => UNCHANGED <<config, client>>
    BY DEF Tick, Terminating, vars
  <1>2. Environment => UNCHANGED <<config, client>>
    BY DEF Environment, SrvDies, SrvStarts, Lose, Deliver, Bounce
  <1>3. \A m : SrvHello(m) \/ SrvData(m) => UNCHANGED <<config, client>>
    BY DEF SrvHello, SrvData, Reply
  <1>4. QED
    BY <1>1, <1>2, <1>3 DEF OtherStep

LEMMA StepKinds == [Next]_vars => ClientNext \/ OtherStep
  BY DEF Next, OtherStep, ServerNext

-----------------------------------------------------------------------------
(* Types                                                                   *)

Scalars ==
    /\ clientToken \in TokenOption /\ serverToken \in TokenOption
    /\ now \in Nat /\ waited \in Nat /\ seq \in Nat /\ nextSend \in Nat
    /\ pc \in {"hello", "ackwait"} \cup Looping \cup Finished
    /\ measured \in BOOLEAN /\ sockErr \in BOOLEAN
    /\ srvUp \in BOOLEAN /\ authorized \in BOOLEAN /\ copies \in 0..MaxCopies

Reports == [seq : Nat, acked : BOOLEAN, measured : BOOLEAN]

\* The client reports in order, one packet at a time: between two turns of its
\* loop every packet is reported, within a turn all but the last.
Book ==
    /\ events \in Seq(Reports)
    /\ \A i \in 1..Len(events) : events[i].seq = i
    /\ Len(events) <= seq
    /\ pc \in {"hello", "ackwait"} => seq = 0
    /\ pc \in {"head", "pace", "done"} => Len(events) = seq
    /\ pc \in {"send", "wait"} => seq > 0 /\ Len(events) = seq - 1

\* The datagrams on their way are the handshake's or about a numbered packet.
Datagrams == [type : {"Data"}, seq : 1..seq]
Wires ==
    /\ toSrv \subseteq HelloMsgs \cup Datagrams
    /\ toCli \subseteq Down
    /\ rx \in Seq(Down)

TypeInv == Scalars /\ Book /\ Wires

LEMMA InitTypes == Init => TypeInv
  <1>1. Init => Scalars
    <2>1. 0 \in 0..MaxCopies
      BY ConstantTypes
    <2>2. Init => now \in Nat /\ waited \in Nat /\ seq \in Nat /\ nextSend \in Nat
      BY DEF Init
    <2>3. Init => pc \in {"hello", "ackwait"} \cup Looping \cup Finished
      BY DEF Init
    <2>4. Init => /\ measured \in BOOLEAN /\ sockErr \in BOOLEAN
                  /\ srvUp \in BOOLEAN /\ authorized \in BOOLEAN
      BY DEF Init
    <2>5. Init => copies \in 0..MaxCopies
      BY <2>1 DEF Init
    <2>6. Init => clientToken \in TokenOption /\ serverToken \in TokenOption
      BY DEF Init
    <2>7. QED
      BY <2>2, <2>3, <2>4, <2>5, <2>6 DEF Scalars
  <1>2. Init => Book
    BY DEF Init, Book
  <1>3. Init => Wires
    BY DEF Init, Wires
  <1>4. QED
    BY <1>1, <1>2, <1>3 DEF TypeInv

LEMMA ScalarsClient == Scalars /\ ClientNext => Scalars'
  <1> USE DEF Scalars, Looping, Finished
  <1>1. Scalars /\ (SendHello \/ RecvAck \/ HandshakeFails \/ LoopHead) => Scalars'
    BY DEF SendHello, RecvAck, HandshakeFails, LoopHead, config, clock, socket, net, server
  <1>2. Scalars /\ Pace => Scalars'
    BY ConstantTypes DEF Pace, config, clock, socket, net, server
  <1>3. Scalars /\ (Send \/ SendFails) => Scalars'
    <2>1. MeasuredNow \in BOOLEAN
      BY DEF MeasuredNow
    <2>0. Send => measured' \in BOOLEAN
      BY <2>1 DEF Send
    <2>2. Scalars /\ Send => Scalars'
      BY <2>0 DEF Send, config, socket, server
    <2>3. Scalars /\ SendFails => Scalars'
      BY DEF SendFails, config, clock, net, server
    <2>4. QED
      BY <2>2, <2>3
  <1>4. Scalars /\ (RecvEcho \/ RecvFails \/ WaitTimesOut) => Scalars'
    BY DEF RecvEcho, RecvFails, WaitTimesOut, Report, config, clock, socket, net, server
  <1>5. QED
    BY <1>1, <1>2, <1>3, <1>4 DEF ClientNext

LEMMA ScalarsOther == Scalars /\ OtherStep => Scalars'
  <1> USE DEF Scalars, Looping, Finished
  <1>1. Scalars /\ (Tick \/ Terminating \/ UNCHANGED vars) => Scalars'
    BY DEF Tick, Terminating, vars, config, clock, client, socket, net, server
  <1>2. ASSUME Scalars, NEW m, NEW queue, NEW next, Arrives(m, queue, next)
        PROVE  copies' \in 0..MaxCopies
    BY <1>2, ConstantTypes DEF Arrives
  <1>3. Scalars /\ Environment => Scalars'
    <2>1. Scalars /\ (SrvDies \/ SrvStarts \/ Lose \/ Bounce) => Scalars'
      BY DEF SrvDies, SrvStarts, Lose, Bounce, config, clock, client, socket, net, server
    <2>2. Scalars /\ Deliver => Scalars'
      <3>1. Scalars /\ Deliver => copies' \in 0..MaxCopies
        BY <1>2 DEF Deliver
      <3>2. QED
        BY <3>1 DEF Deliver, config, clock, client, server
    <2>3. QED
      BY <2>1, <2>2 DEF Environment
  <1>4. ASSUME Scalars, NEW m, SrvHello(m) \/ SrvData(m)
        PROVE  Scalars'
    <2>1. copies' \in 0..MaxCopies
      BY <1>2, <1>4 DEF SrvHello, SrvData, Reply
    <2>2. authorized' \in BOOLEAN
      BY <1>4 DEF SrvHello, SrvData, token_matches
    <2>3. UNCHANGED <<config, clock, client, socket, srvUp>>
      BY <1>4 DEF SrvHello, SrvData, Reply
    <2>4. QED
      BY <1>4, <2>1, <2>2, <2>3 DEF config, clock, client, socket
  <1>5. QED
    BY <1>1, <1>3, <1>4 DEF OtherStep
LEMMA BookClient == Scalars /\ Book /\ ClientNext => Book'
  <1>1. Book /\ (SendHello \/ RecvAck \/ HandshakeFails \/ LoopHead) => Book'
    BY DEF Book, SendHello, RecvAck, HandshakeFails, LoopHead
  <1>2. Scalars /\ Book /\ Pace => Book'
    BY DEF Scalars, Book, Pace
  <1>3. Book /\ (Send \/ SendFails) => Book'
    BY DEF Book, Send, SendFails
  <1>4. ASSUME Scalars, Book, pc = "wait", NEW acked \in BOOLEAN, Report(acked)
        PROVE  Book'
    <2>1. PacketEvent(seq, acked, measured) \in Reports
      BY <1>4 DEF Scalars, Reports, PacketEvent
    <2>2. /\ events' \in Seq(Reports) /\ Len(events') = Len(events) + 1
          /\ events'[Len(events) + 1].seq = seq
          /\ \A i \in 1..Len(events) : events'[i] = events[i]
          /\ Len(events) \in Nat
      BY <1>4, <2>1, SeqAppend DEF Report, Book, PacketEvent
    <2>3. seq' = seq /\ pc' = "head" /\ Len(events') = seq'
      BY <1>4, <2>2 DEF Report, Book, Scalars
    <2>4. \A i \in 1..Len(events') : events'[i].seq = i
      BY <1>4, <2>2 DEF Book, Scalars
    <2>5. QED
      BY <1>4, <2>2, <2>3, <2>4 DEF Book, Scalars
  <1>5. Scalars /\ Book /\ (RecvEcho \/ RecvFails \/ WaitTimesOut) => Book'
    BY <1>4, Zenon DEF RecvEcho, RecvFails, WaitTimesOut, IsEcho
  <1>6. QED
    BY <1>1, <1>2, <1>3, <1>5 DEF ClientNext

LEMMA WiresClient == TypeInv /\ ClientNext => Wires'
  <1> SUFFICES ASSUME TypeInv, ClientNext PROVE Wires'
    OBVIOUS
  <1> USE DEF TypeInv, Wires
  <1>1. CASE SendHello
    <2>1. HelloMsg(ProtocolVersion, TokenHash(clientToken)) \in HelloMsgs
      BY ControlAssumption DEF Scalars, HelloMsgs, TokenHash, Digests, TokenOption
    <2>2. QED
      BY <1>1, <2>1 DEF SendHello, socket, Down, Datagrams
  <1>2. CASE RecvAck
    BY <1>2, SeqHeadTail DEF RecvAck, net, Down, Datagrams
  <1>3. CASE HandshakeFails \/ LoopHead \/ SendFails
    BY <1>3 DEF HandshakeFails, LoopHead, SendFails, socket, net, Down, Datagrams
  <1>4. CASE Pace
    <2>1. 1..seq \subseteq 1..seq'
      BY <1>4 DEF Pace, Scalars
    <2>2. Down \subseteq Down' /\ Datagrams \subseteq Datagrams'
      BY <2>1 DEF Down, Datagrams
    <2>3. rx \in Seq(Down')
      BY <2>2, SeqMonotone
    <2>4. QED
      BY <1>4, <2>2, <2>3 DEF Pace, socket, net
  <1>5. CASE Send
    <2>1. DataMsg(seq) \in Datagrams
      BY <1>5 DEF Send, Book, Scalars, DataMsg, Datagrams
    <2>2. QED
      BY <1>5, <2>1 DEF Send, socket, Down, Datagrams
  <1>6. CASE RecvEcho \/ RecvFails \/ WaitTimesOut
    <2>1. UNCHANGED <<toSrv, toCli, seq>>
      BY <1>6 DEF RecvEcho, RecvFails, WaitTimesOut, Report, net
    <2>2. rx' \in Seq(Down)
      BY <1>6, SeqHeadTail DEF RecvEcho, RecvFails, WaitTimesOut, socket
    <2>3. QED
      BY <2>1, <2>2 DEF Down, Datagrams
  <1>7. QED
    BY <1>1, <1>2, <1>3, <1>4, <1>5, <1>6 DEF ClientNext

LEMMA WiresOther == TypeInv /\ OtherStep => Wires'
  <1> SUFFICES ASSUME TypeInv, OtherStep PROVE Wires'
    OBVIOUS
  <1> USE DEF TypeInv, Wires
  <1>1. Down' = Down /\ Datagrams' = Datagrams
    BY ClientUntouched DEF client, Down, Datagrams
  <1>2. CASE Tick \/ Terminating \/ UNCHANGED vars
    BY <1>1, <1>2 DEF Tick, Terminating, vars, socket, net
  <1>3. CASE Environment
    <2>1. CASE SrvDies \/ SrvStarts \/ Lose \/ Bounce
      BY <1>1, <2>1 DEF SrvDies, SrvStarts, Lose, Bounce, socket, net
    <2>2. CASE Deliver
      <3>1. PICK m \in toCli : rx' = Append(rx, m) /\ Arrives(m, toCli, toCli')
        BY <2>2 DEF Deliver
      <3>2. toCli' \subseteq toCli
        BY <3>1 DEF Arrives
      <3>3. rx' \in Seq(Down)
        BY <3>1, SeqAppend
      <3>4. QED
        BY <1>1, <2>2, <3>2, <3>3 DEF Deliver
    <2>3. QED
      BY <1>3, <2>1, <2>2 DEF Environment
  <1>4. CASE \E m \in toSrv : SrvHello(m) \/ SrvData(m)
    <2>1. PICK m \in toSrv : SrvHello(m) \/ SrvData(m)
      BY <1>4
    <2>2. PICK answer : /\ answer \subseteq Down
                        /\ Arrives(m, toSrv, toSrv') /\ toCli' = toCli \cup answer
                        /\ UNCHANGED socket
      <3>1. CASE SrvHello(m)
        <4>1. PICK a \in BOOLEAN : Reply(m, {AckMsg(a)})
          BY <3>1, Zenon DEF SrvHello, token_matches
        <4>2. QED
          BY <4>1 DEF Reply, Down, AckMsgs
      <3>2. CASE SrvData(m)
        <4>1. m \in Datagrams
          BY <3>2 DEF SrvData, HelloMsgs, HelloMsg
        <4>2. EchoMsg(m.seq) \in Down
          BY <4>1 DEF Datagrams, Down, EchoMsg
        <4>3. QED
          BY <3>2, <4>2 DEF SrvData, Reply
      <3>3. QED
        BY <2>1, <3>1, <3>2
    <2>3. toSrv' \subseteq toSrv
      BY <2>2 DEF Arrives
    <2>4. QED
      BY <1>1, <2>2, <2>3 DEF socket
  <1>5. QED
    BY <1>2, <1>3, <1>4 DEF OtherStep

LEMMA TypeStep == TypeInv /\ [Next]_vars => TypeInv'
  <1>1. Book /\ OtherStep => Book'
    BY ClientUntouched DEF client, Book
  <1>2. QED
    BY <1>1, StepKinds, ScalarsClient, ScalarsOther, BookClient, WiresClient, WiresOther DEF TypeInv

LEMMA TypeHolds == Spec => []TypeInv
  BY InitTypes, TypeStep, PTL DEF Spec

\* Types, whatever the network does; with Book this says that every packet is
\* reported at most once and in order, and no echo is of a packet never sent.
THEOREM TypeCorrect == Spec => []TypeOK
  <1>1. TypeInv => TypeOK
    <2>1. ASSUME TypeInv PROVE events \in Seq(Event)
      <3>1. \A i \in 1..Len(events) : events[i] \in Event
        <4> SUFFICES ASSUME NEW i \in 1..Len(events) PROVE events[i] \in Event
          OBVIOUS
        <4>1. events[i] \in Reports /\ events[i].seq = i /\ i \in 1..seq
          BY <2>1 DEF TypeInv, Book, Scalars
        <4>2. QED
          BY <4>1 DEF Reports, Event
      <3>2. QED
        BY <2>1, <3>1 DEF TypeInv, Book
    <2>2. QED
      BY <2>1 DEF TypeInv, Scalars, Wires, Datagrams, TypeOK
  <1>2. QED
    BY <1>1, TypeHolds, PTL
-----------------------------------------------------------------------------
(* Authorization                                                           *)

\* What is known of the tokens, by who has said so: the server's set, an
\* acknowledgement on its way, the client that goes on.
AuthInv ==
    /\ \A m \in toSrv : m.type = "Hello" => m = HelloMsg(ProtocolVersion, TokenHash(clientToken))
    /\ authorized => Authorized
    /\ AckMsg(TRUE) \in toCli => Authorized
    /\ \A k \in 1..Len(rx) : rx[k] = AckMsg(TRUE) => Authorized
    /\ pc \in Looping \cup {"done"} \/ seq > 0 => Authorized

\* Digests of different tokens differ, and no digest stands for "no token".
LEMMA MatchingTokens ==
    ASSUME clientToken \in TokenOption, serverToken \in TokenOption,
           token_matches(serverToken, TokenHash(clientToken))
    PROVE  Authorized
  BY ControlAssumption DEF token_matches, TokenHash, hash_token, TokenOption, Authorized

LEMMA AuthInit == Init => AuthInv
  BY DEF Init, AuthInv, Looping

LEMMA AuthClient == TypeInv /\ AuthInv /\ ClientNext => AuthInv'
  <1> SUFFICES ASSUME TypeInv, AuthInv, ClientNext PROVE AuthInv'
    OBVIOUS
  <1> USE DEF AuthInv
  <1>0. Authorized' = Authorized /\ TokenHash(clientToken)' = TokenHash(clientToken)
        /\ authorized' = authorized
    BY DEF ClientNext, SendHello, RecvAck, HandshakeFails, LoopHead, Pace, Send, SendFails,
           RecvEcho, RecvFails, WaitTimesOut, Report, config, server, Authorized, TokenHash
  <1>1. rx # <<>> => /\ Head(rx) \in Down /\ Head(rx) = rx[1] /\ 1 \in 1..Len(rx)
                     /\ \A k \in 1..Len(Tail(rx)) : Tail(rx)[k] = rx[k + 1] /\ k + 1 \in 1..Len(rx)
    BY SeqHeadTail DEF TypeInv, Wires
  <1>2. CASE SendHello
    BY <1>0, <1>2 DEF SendHello, socket, Looping
  <1>3. CASE RecvAck
    <2>1. UNCHANGED <<toSrv, toCli, seq>>
      BY <1>3 DEF RecvAck, net
    <2>2. \A k \in 1..Len(rx') : rx'[k] = AckMsg(TRUE) => Authorized
      BY <1>1, <1>3 DEF RecvAck
    <2>3. pc' \in Looping \cup {"done"} => Authorized
      <3>1. CASE validate_ack(Head(rx))
        <4>1. Head(rx) = AckMsg(TRUE)
          BY <1>1, <1>3, <3>1 DEF RecvAck, validate_ack, Down, AckMsgs, AckMsg
        <4>2. QED
          BY <1>1, <1>3, <4>1 DEF RecvAck
      <3>2. CASE ~validate_ack(Head(rx))
        BY <1>3, <3>2 DEF RecvAck, Looping
      <3>3. QED
        BY <3>1, <3>2
    <2>4. QED
      BY <1>0, <2>1, <2>2, <2>3
  <1>4. CASE HandshakeFails \/ LoopHead \/ SendFails
    BY <1>0, <1>4 DEF HandshakeFails, LoopHead, SendFails, socket, net, Looping
  <1>5. CASE Pace
    BY <1>0, <1>5 DEF Pace, socket, net, Looping
  <1>6. CASE Send
    BY <1>0, <1>6 DEF Send, socket, Looping, DataMsg
  <1>7. CASE RecvEcho \/ RecvFails \/ WaitTimesOut
    <2>1. UNCHANGED <<toSrv, toCli, seq>> /\ pc = "wait"
      BY <1>7 DEF RecvEcho, RecvFails, WaitTimesOut, Report, net
    <2>2. \A k \in 1..Len(rx') : rx'[k] = AckMsg(TRUE) => Authorized
      BY <1>1, <1>7 DEF RecvEcho, RecvFails, WaitTimesOut, socket
    <2>3. QED
      BY <1>0, <2>1, <2>2 DEF Looping
  <1>8. QED
    BY <1>2, <1>3, <1>4, <1>5, <1>6, <1>7 DEF ClientNext

LEMMA AuthOther == TypeInv /\ AuthInv /\ OtherStep => AuthInv'
  <1> SUFFICES ASSUME TypeInv, AuthInv, OtherStep PROVE AuthInv'
    OBVIOUS
  <1> USE DEF AuthInv
  <1>0. Authorized' = Authorized /\ TokenHash(clientToken)' = TokenHash(clientToken)
        /\ UNCHANGED <<pc, seq>>
    BY ClientUntouched DEF config, client, Authorized, TokenHash
  <1>1. CASE Tick \/ Terminating \/ UNCHANGED vars
    <2>1. UNCHANGED <<toSrv, toCli, rx, authorized>>
      BY <1>1 DEF Tick, Terminating, vars, socket, net, server
    <2>2. QED
      BY <1>0, <2>1
  <1>2. CASE SrvDies \/ SrvStarts \/ Lose \/ Bounce
    <2>1. /\ toSrv' \subseteq toSrv /\ toCli' \subseteq toCli /\ rx' = rx
          /\ (authorized' => authorized)
      BY <1>2 DEF SrvDies, SrvStarts, Lose, Bounce, socket, net, server
    <2>2. QED
      BY <1>0, <2>1
  <1>3. CASE Deliver
    <2>1. PICK m \in toCli : rx' = Append(rx, m) /\ Arrives(m, toCli, toCli')
      BY <1>3 DEF Deliver
    <2>2. toCli' \subseteq toCli
      BY <2>1 DEF Arrives
    <2>3. \A k \in 1..Len(rx') : rx'[k] = AckMsg(TRUE) => Authorized
      <3>1. m \in Down /\ rx \in Seq(Down)
        BY <2>1 DEF TypeInv, Wires
      <3>2. /\ Len(rx) \in Nat /\ Len(rx') = Len(rx) + 1 /\ rx'[Len(rx) + 1] = m
            /\ \A k \in 1..Len(rx) : rx'[k] = rx[k]
        BY <2>1, <3>1, SeqAppend
      <3>3. \A k \in 1..Len(rx') : k \in 1..Len(rx) \/ k = Len(rx) + 1
        BY <3>2
      <3>4. QED
        BY <2>1, <3>2, <3>3
    <2>4. QED
      BY <1>0, <1>3, <2>2, <2>3 DEF Deliver, server
  <1>4. ASSUME NEW m \in toSrv, SrvHello(m) \/ SrvData(m)
        PROVE  AuthInv'
    <2>1. toSrv' \subseteq toSrv /\ rx' = rx
      BY <1>4 DEF SrvHello, SrvData, Reply, Arrives, socket
    <2>2. (authorized' => Authorized) /\ (AckMsg(TRUE) \in toCli' => Authorized)
      <3>1. CASE SrvHello(m)
        <4>1. token_matches(serverToken, m.token_hash) => Authorized
          BY <3>1, MatchingTokens DEF SrvHello, TypeInv, Scalars, HelloMsg
        <4> DEFINE accepted == m.version = ProtocolVersion /\ token_matches(serverToken, m.token_hash)
        <4>2. authorized' => authorized \/ accepted
          BY <3>1 DEF SrvHello
        <4>3. toCli' = toCli \cup {AckMsg(accepted)}
          BY <3>1 DEF SrvHello, Reply
        <4>4. AckMsg(TRUE) = AckMsg(accepted) => accepted
          BY DEF AckMsg
        <4>5. QED
          BY <4>1, <4>2, <4>3, <4>4
      <3>2. CASE SrvData(m)
        <4>1. authorized' = authorized
          BY <3>2 DEF SrvData
        <4>2. AckMsg(TRUE) \in toCli' => AckMsg(TRUE) \in toCli
          BY <3>2 DEF SrvData, Reply, EchoMsg, AckMsg
        <4>3. QED
          BY <4>1, <4>2
      <3>3. QED
        BY <1>4, <3>1, <3>2
    <2>3. QED
      BY <1>0, <2>1, <2>2
  <1>5. QED
    BY <1>1, <1>2, <1>3, <1>4 DEF OtherStep, Environment

LEMMA AuthHolds == Spec => []AuthInv
  BY TypeHolds, AuthInit, AuthClient, AuthOther, StepKinds, PTL DEF Spec

\* A packet is sent, and the server keeps an address, only if the tokens agree;
\* a server that was restarted and the datagrams it left behind included.
THEOREM EchoOnlyIfAuthorizedCorrect == Spec => []EchoOnlyIfAuthorized
  <1>1. AuthInv => EchoOnlyIfAuthorized
    BY DEF AuthInv, EchoOnlyIfAuthorized
  <1>2. QED
    BY <1>1, AuthHolds, PTL
-----------------------------------------------------------------------------
(* The contract with the engine                                            *)

Status == IF pc = "done" THEN "ok" ELSE IF pc = "failed" THEN "failed" ELSE "running"
Outcomes == [s \in 1..seq |-> Outcome(s)]

\* A report is the contract's report of the last packet: it is still open, and
\* every packet acked before it has a smaller number.
LEMMA ReportRefines ==
    ASSUME TypeInv, pc = "wait", NEW acked \in BOOLEAN, Report(acked)
    PROVE  Contract!Next
  <1>1. seq \in Nat /\ seq > 0 /\ Len(events) = seq - 1 /\ seq \in 1..seq
    BY DEF TypeInv, Scalars, Book
  <1>2. Status = "running" /\ Status' = "running" /\ seq' = seq
    BY DEF Report, Status
  <1>3. /\ events' = Append(events, PacketEvent(seq, acked, measured)) /\ Len(events') = seq
        /\ events'[seq].acked = acked
        /\ \A i \in 1..Len(events) : events'[i] = events[i]
    <2>1. PacketEvent(seq, acked, measured) \in Reports
      BY DEF TypeInv, Scalars, Reports, PacketEvent
    <2>2. QED
      BY <1>1, <2>1, SeqAppend DEF Report, TypeInv, Book, PacketEvent
  <1>4. Outcomes[seq] = "open"
    BY <1>1 DEF Outcomes, Outcome
  <1>5. \A t \in 1..seq : Outcomes[t] = "acked" => t < seq
    BY <1>1, <1>4
  <1>6. Outcomes' = [Outcomes EXCEPT ![seq] = IF acked THEN "acked" ELSE "lost"]
    <2>1. Outcome(seq)' = IF acked THEN "acked" ELSE "lost"
      BY <1>1, <1>2, <1>3 DEF Outcome
    <2>2. \A t \in 1..seq : t # seq => Outcome(t)' = Outcome(t)
      BY <1>1, <1>2, <1>3 DEF Outcome
    <2>3. QED
      BY <1>1, <1>2, <2>1, <2>2 DEF Outcomes
  <1>7. IF acked THEN Contract!ReportAcked(seq) ELSE Contract!ReportLost(seq)
    BY <1>2, <1>4, <1>5, <1>6 DEF Contract!ReportAcked, Contract!ReportLost, Status, Outcomes
  <1>8. QED
    BY <1>1, <1>7 DEF Contract!Next

LEMMA ContractStep ==
    ASSUME TypeInv, [Next]_vars
    PROVE  [Contract!Next]_(Contract!vars)
  <1>1. ASSUME UNCHANGED <<seq, events>>
        PROVE  Outcomes' = Outcomes
    BY <1>1 DEF Outcomes, Outcome
  <1>2. ASSUME UNCHANGED <<seq, events>>, Status' = Status
        PROVE  UNCHANGED Contract!vars
    BY <1>1, <1>2 DEF Contract!vars, Outcomes, Status
  <1>3. ASSUME UNCHANGED <<seq, events>>, Status = "running", Status' = "failed"
        PROVE  Contract!Next
    BY <1>1, <1>3 DEF Contract!Next, Contract!Fail, Outcomes, Status
  <1>4. CASE SendHello \/ Send
    BY <1>2, <1>4 DEF SendHello, Send, Status
  <1>5. CASE RecvAck
    <2>1. UNCHANGED <<seq, events>> /\ Status = "running"
          /\ (Status' = "running" \/ Status' = "failed")
      BY <1>5 DEF RecvAck, Status
    <2>2. QED
      BY <1>2, <1>3, <2>1
  <1>6. CASE HandshakeFails \/ SendFails
    <2>1. UNCHANGED <<seq, events>> /\ Status = "running" /\ Status' = "failed"
      BY <1>6 DEF HandshakeFails, SendFails, Status
    <2>2. QED
      BY <1>3, <2>1
  <1>7. CASE LoopHead
    <2>1. UNCHANGED <<seq, events>> /\ Status = "running"
          /\ (Status' = "running" \/ Status' = "ok")
      BY <1>7 DEF LoopHead, Status
    <2>2. CASE Status' = "ok"
      <3>1. Len(events) = seq
        BY <1>7 DEF LoopHead, TypeInv, Book
      <3>2. \A s \in 1..seq : Outcomes[s] # "open"
        BY <3>1 DEF Outcomes, Outcome, TypeInv, Scalars
      <3>3. Contract!Finish
        BY <1>1, <2>1, <2>2, <3>2 DEF Contract!Finish, Outcomes, Status
      <3>4. QED
        BY <3>3 DEF Contract!Next
    <2>3. QED
      BY <1>2, <2>1, <2>2
  <1>8. CASE Pace
    <2>1. Status = "running" /\ Status' = "running" /\ seq' = seq + 1 /\ events' = events
      BY <1>8 DEF Pace, Status
    <2>2. Len(events) = seq /\ seq \in Nat
      BY <1>8 DEF Pace, TypeInv, Book, Scalars
    <2>3. \A s \in 1..seq' : Outcome(s)' = IF s \in 1..seq THEN Outcome(s) ELSE "open"
      BY <2>1, <2>2 DEF Outcome
    <2>4. Outcomes' = [s \in 1..seq' |-> IF s \in 1..seq THEN Outcomes[s] ELSE "open"]
      BY <2>3 DEF Outcomes
    <2>5. Contract!Send
      BY <2>1, <2>4 DEF Contract!Send, Status, Outcomes
    <2>6. QED
      BY <2>5 DEF Contract!Next
  <1>9. CASE RecvEcho \/ RecvFails \/ WaitTimesOut
    <2>1. pc = "wait" /\ \E acked \in BOOLEAN : Report(acked)
      BY <1>9, Zenon DEF RecvEcho, RecvFails, WaitTimesOut, IsEcho
    <2>2. QED
      BY <2>1, ReportRefines
  <1>10. CASE OtherStep
    BY <1>2, <1>10, ClientUntouched DEF client, Status
  <1>11. QED
    BY <1>4, <1>5, <1>6, <1>7, <1>8, <1>9, <1>10, StepKinds DEF ClientNext

\* Whatever the network does, every behaviour of the stream is one the contract
\* allows: every packet reported once, in order, all of them if it ends well.
THEOREM ContractImplemented == Spec => ImplementsContract
  <1>1. Init => Contract!Init
    BY DEF Init, Contract!Init, Outcome
  <1>2. TypeInv /\ [Next]_vars => [Contract!Next]_(Contract!vars)
    BY ContractStep
  <1>3. QED
    BY <1>1, <1>2, TypeHolds, PTL DEF Spec, ImplementsContract, Contract!Spec
-----------------------------------------------------------------------------
(* What is on its way                                                      *)

\* The handshake counts as exchange 0, packet s as exchange s.
Request(s) == IF s = 0 THEN HelloMsg(ProtocolVersion, TokenHash(clientToken)) ELSE DataMsg(s)
Answers(s) == IF s = 0 THEN AckMsgs ELSE {EchoMsg(s)}

\* Nothing of exchange s is on its way, or in the client's socket buffer.
Clean(s) ==
    /\ Request(s) \notin toSrv
    /\ toCli \cap Answers(s) = {}
    /\ \A k \in 1..Len(rx) : rx[k] \notin Answers(s)

\* At most one datagram of exchange s is.
Single(s) ==
    /\ Request(s) \in toSrv =>
         toCli \cap Answers(s) = {} /\ \A k \in 1..Len(rx) : rx[k] \notin Answers(s)
    /\ toCli \cap Answers(s) # {} => \A k \in 1..Len(rx) : rx[k] \notin Answers(s)
    /\ \A m, n \in toCli \cap Answers(s) : m = n
    /\ \A j, k \in 1..Len(rx) : rx[j] \in Answers(s) /\ rx[k] \in Answers(s) => j = k

\* Without duplication an exchange is over when the client is done with it,
\* unless it gave up waiting.
OnceInv ==
    copies = 0 =>
      /\ \A s \in 0..seq : Single(s)
      /\ pc \in {"hello"} \cup Looping => Clean(0)
      /\ pc = "send" => Clean(seq)
      /\ \A i \in 1..Len(events) : events[i].acked => Clean(i)

\* Datagrams of different exchanges differ.
LEMMA Distinct ==
    ASSUME NEW s \in Nat, NEW t \in Nat
    PROVE  /\ Request(s) = Request(t) => s = t
           /\ \A m : m \in Answers(s) /\ m \in Answers(t) => s = t
  <1>1. \A v, d, n : HelloMsg(v, d) # DataMsg(n)
    BY DEF HelloMsg, DataMsg
  <1>2. \A n : EchoMsg(n) \notin AckMsgs
    BY DEF EchoMsg, AckMsgs, AckMsg
  <1>3. \A n, m : (EchoMsg(n) = EchoMsg(m) \/ DataMsg(n) = DataMsg(m)) => n = m
    BY DEF EchoMsg, DataMsg
  <1>4. QED
    BY <1>1, <1>2, <1>3 DEF Request, Answers

\* Every datagram belongs to an exchange.
LEMMA Belongs ==
    ASSUME TypeInv, AuthInv
    PROVE  /\ \A m \in toSrv : \E s \in 0..seq : m = Request(s)
           /\ \A m \in Down : \E s \in 0..seq : m \in Answers(s)
  <1>1. seq \in Nat /\ 0 \in 0..seq /\ \A s \in 1..seq : s \in 0..seq /\ s # 0
    BY DEF TypeInv, Scalars
  <1>2. \A m \in toSrv : \E s \in 0..seq : m = Request(s)
    <2> SUFFICES ASSUME NEW m \in toSrv PROVE \E s \in 0..seq : m = Request(s)
      OBVIOUS
    <2>1. CASE m \in HelloMsgs
      <3>1. m.type = "Hello"
        BY <2>1 DEF HelloMsgs, HelloMsg
      <3>2. m = Request(0)
        BY <3>1 DEF AuthInv, Request
      <3>3. QED
        BY <1>1, <3>2
    <2>2. CASE m \in Datagrams
      <3>1. m.seq \in 1..seq /\ m = DataMsg(m.seq)
        BY <2>2 DEF Datagrams, DataMsg
      <3>2. QED
        BY <1>1, <3>1 DEF Request
    <2>3. QED
      BY <2>1, <2>2 DEF TypeInv, Wires
  <1>3. \A m \in Down : \E s \in 0..seq : m \in Answers(s)
    <2> SUFFICES ASSUME NEW m \in Down PROVE \E s \in 0..seq : m \in Answers(s)
      OBVIOUS
    <2>1. CASE m \in AckMsgs
      BY <1>1, <2>1 DEF Answers
    <2>2. CASE m \in [type : {"Echo"}, seq : 1..seq]
      <3>1. m.seq \in 1..seq /\ m = EchoMsg(m.seq)
        BY <2>2 DEF EchoMsg
      <3>2. QED
        BY <1>1, <3>1 DEF Answers
    <2>3. QED
      BY <2>1, <2>2 DEF Down
  <1>4. QED
    BY <1>2, <1>3

\* Losing datagrams, or reading the first of the buffer, leaves no more of any exchange.
LEMMA Fewer ==
    ASSUME NEW s, TypeInv, clientToken' = clientToken,
           toSrv' \subseteq toSrv, toCli' \subseteq toCli,
           rx' = rx \/ (rx # <<>> /\ rx' = Tail(rx))
    PROVE  /\ Clean(s) => Clean(s)'
           /\ Single(s) => Single(s)'
           /\ (Single(s) /\ rx' # rx /\ Head(rx) \in Answers(s)) => Clean(s)'
  <1>1. Request(s)' = Request(s)
    BY DEF Request, TokenHash
  <1>2. CASE rx' = rx
    BY <1>1, <1>2 DEF Clean, Single
  <1>3. CASE rx # <<>> /\ rx' = Tail(rx)
    <2>1. /\ Head(rx) = rx[1] /\ 1 \in 1..Len(rx) /\ Len(rx) \in Nat
          /\ \A k \in 1..Len(rx') : rx'[k] = rx[k + 1] /\ k + 1 \in 1..Len(rx) /\ k + 1 # 1
      BY <1>3, SeqHeadTail DEF TypeInv, Wires
    <2>2. \A j, k \in 1..Len(rx') : j + 1 = k + 1 => j = k
      BY <2>1
    <2>3. Clean(s) => Clean(s)'
      BY <1>1, <2>1 DEF Clean
    <2>4. Single(s) => Single(s)'
      BY <1>1, <2>1, <2>2 DEF Single
    <2>5. Single(s) /\ Head(rx) \in Answers(s) => Clean(s)'
      BY <1>1, <2>1 DEF Single, Clean
    <2>6. QED
      BY <2>3, <2>4, <2>5
  <1>4. QED
    BY <1>2, <1>3
\* An answer that arrives, and is not duplicated, only changes places.
LEMMA Delivered ==
    ASSUME TypeInv, AuthInv, clientToken' = clientToken,
           NEW m \in toCli, toCli' = toCli \ {m}, rx' = Append(rx, m), toSrv' = toSrv,
           NEW t \in 0..seq
    PROVE  (Clean(t) => Clean(t)') /\ (Single(t) => Single(t)')
  <1>1. PICK s \in 0..seq : m \in Answers(s)
    BY Belongs DEF TypeInv, Wires
  <1>2. Request(t)' = Request(t)
    BY DEF Request, TokenHash
  <1>3. /\ Len(rx) \in Nat /\ rx'[Len(rx) + 1] = m
        /\ \A k \in 1..Len(rx) : rx'[k] = rx[k]
        /\ \A k \in 1..Len(rx') : k \in 1..Len(rx) \/ k = Len(rx) + 1
    <2>1. m \in Down /\ rx \in Seq(Down)
      BY DEF TypeInv, Wires
    <2>2. QED
      BY <2>1, SeqAppend
  <1>4. seq \in Nat
    BY DEF TypeInv, Scalars
  <1>5. CASE t = s
    <2>1. ~Clean(t)
      BY <1>1, <1>5 DEF Clean
    <2>2. ASSUME Single(t) PROVE Single(t)'
      <3>1. /\ Request(t) \notin toSrv /\ toCli' \cap Answers(t) = {}
            /\ \A k \in 1..Len(rx) : rx[k] \notin Answers(t)
        BY <1>1, <1>5, <2>2 DEF Single
      <3>2. \A k \in 1..Len(rx') : rx'[k] \in Answers(t) => k = Len(rx) + 1
        BY <1>3, <3>1
      <3>3. QED
        BY <1>2, <3>1, <3>2 DEF Single
    <2>3. QED
      BY <2>1, <2>2
  <1>6. CASE t # s
    <2>1. m \notin Answers(t)
      BY <1>1, <1>4, <1>6, Distinct
    <2>2. toCli' \cap Answers(t) = toCli \cap Answers(t)
      BY <2>1
    <2>3. \A k \in 1..Len(rx') : rx'[k] \in Answers(t) => k \in 1..Len(rx) /\ rx[k] \in Answers(t)
      BY <1>3, <2>1
    <2>4. Clean(t) => Clean(t)'
      BY <1>2, <2>2, <2>3 DEF Clean
    <2>5. Single(t) => Single(t)'
      BY <1>2, <2>2, <2>3 DEF Single
    <2>6. QED
      BY <2>4, <2>5
  <1>7. QED
    BY <1>5, <1>6

\* A request that is served, and is not duplicated, makes way for its answer.
LEMMA Served ==
    ASSUME TypeInv, AuthInv, clientToken' = clientToken,
           NEW s \in 0..seq, NEW answer \in SUBSET Answers(s),
           \A m, n \in answer : m = n,
           Request(s) \in toSrv, toSrv' = toSrv \ {Request(s)},
           toCli' = toCli \cup answer, rx' = rx,
           NEW t \in 0..seq
    PROVE  (Clean(t) => Clean(t)') /\ (Single(t) => Single(t)')
  <1>1. Request(t)' = Request(t) /\ seq \in Nat
    BY DEF Request, TokenHash, TypeInv, Scalars
  <1>2. CASE t = s
    <2>1. ~Clean(t)
      BY <1>2 DEF Clean
    <2>2. ASSUME Single(t) PROVE Single(t)'
      <3>1. toCli \cap Answers(t) = {} /\ \A k \in 1..Len(rx) : rx[k] \notin Answers(t)
        BY <1>2, <2>2 DEF Single
      <3>2. toCli' \cap Answers(t) = answer /\ Request(t) \notin toSrv'
        BY <1>2, <3>1
      <3>3. QED
        BY <1>1, <3>1, <3>2 DEF Single
    <2>3. QED
      BY <2>1, <2>2
  <1>3. CASE t # s
    <2>1. toCli' \cap Answers(t) = toCli \cap Answers(t)
      <3>1. \A m \in answer : m \notin Answers(t)
        BY <1>1, <1>3, Distinct
      <3>2. QED
        BY <3>1
    <2>2. Request(t) \in toSrv' <=> Request(t) \in toSrv
      BY <1>1, <1>3, Distinct
    <2>3. QED
      BY <1>1, <2>1, <2>2 DEF Clean, Single
  <1>4. QED
    BY <1>2, <1>3

\* What the server makes of a datagram it receives for the only time.
LEMMA OneAnswer ==
    ASSUME TypeInv, AuthInv, NEW m \in toSrv, SrvHello(m) \/ SrvData(m), copies' = 0
    PROVE  \E s \in 0..seq : \E answer \in SUBSET Answers(s) :
             /\ m = Request(s) /\ \A a, b \in answer : a = b
             /\ toSrv' = toSrv \ {m} /\ toCli' = toCli \cup answer /\ rx' = rx
  <1>1. PICK s \in 0..seq : m = Request(s)
    BY Belongs
  <1>2. toSrv' = toSrv \ {m} /\ rx' = rx
    BY DEF SrvHello, SrvData, Reply, Arrives, socket, TypeInv, Scalars
  <1>3. CASE SrvHello(m)
    <2>1. s = 0
      BY <1>1, <1>3 DEF SrvHello, Request, DataMsg
    <2>2. PICK a \in BOOLEAN : toCli' = toCli \cup {AckMsg(a)}
      <3>1. PICK a \in BOOLEAN : Reply(m, {AckMsg(a)})
        BY <1>3, Zenon DEF SrvHello, token_matches
      <3>2. QED
        BY <3>1 DEF Reply
    <2>3. {AckMsg(a)} \in SUBSET Answers(s)
      BY <2>1 DEF Answers, AckMsgs
    <2>4. QED
      BY <1>1, <1>2, <2>2, <2>3
  <1>4. CASE SrvData(m)
    <2>1. s # 0 /\ m.seq = s
      BY <1>1, <1>4 DEF SrvData, Request, DataMsg, HelloMsg
    <2>2. toCli' = toCli \cup (IF MayEcho THEN {EchoMsg(s)} ELSE {})
      BY <1>4, <2>1 DEF SrvData, Reply
    <2> DEFINE given == IF MayEcho THEN {EchoMsg(s)} ELSE {}
    <2>3. given \in SUBSET Answers(s) /\ \A a, b \in given : a = b
      BY <2>1 DEF Answers
    <2>4. toCli' = toCli \cup given
      BY <2>2
    <2> HIDE DEF given
    <2>5. QED
      BY <1>1, <1>2, <2>3, <2>4
  <1>5. QED
    BY <1>3, <1>4
LEMMA OnceInit == Init => OnceInv
  <1> SUFFICES ASSUME Init PROVE OnceInv
    OBVIOUS
  <1>1. \A s : Clean(s) /\ Single(s)
    BY DEF Init, Clean, Single
  <1>2. QED
    BY <1>1 DEF Init, OnceInv

LEMMA OnceClient == TypeInv /\ AuthInv /\ OnceInv /\ ClientNext => OnceInv'
  <1> SUFFICES ASSUME TypeInv, AuthInv, OnceInv, ClientNext, copies = 0, copies' = 0
      PROVE  OnceInv'
    <2>1. ClientNext => copies' = copies
      BY DEF ClientNext, SendHello, RecvAck, HandshakeFails, LoopHead, Pace, Send, SendFails,
             RecvEcho, RecvFails, WaitTimesOut, Report, net
    <2>2. QED
      BY <2>1 DEF OnceInv
  <1>0. clientToken' = clientToken
    BY DEF ClientNext, SendHello, RecvAck, HandshakeFails, LoopHead, Pace, Send, SendFails,
           RecvEcho, RecvFails, WaitTimesOut, Report, config
  <1>1. /\ \A s \in 0..seq : Single(s)
        /\ pc \in {"hello"} \cup Looping => Clean(0)
        /\ pc = "send" => Clean(seq)
        /\ \A i \in 1..Len(events) : events[i].acked => Clean(i)
    BY DEF OnceInv
  <1>2. seq \in Nat /\ Len(events) \in Nat /\ Len(events) <= seq /\ 0 \in 0..seq
    BY DEF TypeInv, Scalars, Book
  <1>3. CASE SendHello
    <2>1. seq = 0 /\ seq' = 0 /\ Len(events') = 0 /\ Clean(0) /\ pc' = "ackwait"
      BY <1>1, <1>2, <1>3 DEF SendHello, TypeInv, Book
    <2>2. Single(0)'
      BY <1>3, <2>1 DEF SendHello, Clean, Single, socket
    <2>3. QED
      BY <2>1, <2>2 DEF OnceInv, Looping
  <1>4. ASSUME UNCHANGED <<seq, events, toSrv, toCli>>,
               rx' = rx \/ (rx # <<>> /\ rx' = Tail(rx)),
               pc' \in {"hello"} \cup Looping => Clean(0) \/ Clean(0)', pc' # "send"
        PROVE  OnceInv'
    <2>1. \A s : (Clean(s) => Clean(s)') /\ (Single(s) => Single(s)')
      BY <1>0, <1>4, Fewer
    <2>2. QED
      BY <1>1, <1>4, <2>1 DEF OnceInv
  <1>5. CASE RecvAck
    <2>1. UNCHANGED <<seq, events, toSrv, toCli>> /\ rx # <<>> /\ rx' = Tail(rx)
          /\ (pc' = "failed" \/ (pc' = "head" /\ validate_ack(Head(rx))))
      BY <1>5, Zenon DEF RecvAck, net
    <2>2. validate_ack(Head(rx)) => Clean(0)'
      <3>1. Head(rx) \in Down /\ rx' # rx
        BY <2>1, SeqHeadTail DEF TypeInv, Wires
      <3>2. validate_ack(Head(rx)) => Head(rx) \in Answers(0)
        BY <3>1 DEF validate_ack, Down, Answers
      <3>3. QED
        BY <1>0, <1>1, <1>2, <2>1, <3>1, <3>2, Fewer
    <2>3. QED
      BY <1>4, <2>1, <2>2 DEF Looping
  <1>6. CASE HandshakeFails \/ LoopHead \/ SendFails
    <2>1. UNCHANGED <<seq, events, toSrv, toCli, rx>>
          /\ (pc' \in {"failed", "done"} \/ (pc' = "pace" /\ pc = "head"))
      BY <1>6 DEF HandshakeFails, LoopHead, SendFails, socket, net
    <2>2. QED
      BY <1>1, <1>4, <2>1 DEF Looping
  <1>7. CASE Pace
    <2>1. /\ UNCHANGED <<events, toSrv, toCli, rx>> /\ seq' = seq + 1 /\ pc' = "send"
          /\ pc \in Looping
      BY <1>7 DEF Pace, socket, net, Looping
    <2>2. \A s : (Clean(s) => Clean(s)') /\ (Single(s) => Single(s)')
      BY <1>0, <2>1, Fewer
    <2>3. Clean(seq + 1)
      <3>1. \A s \in 0..seq : s # seq + 1 /\ s \in Nat
        BY <1>2
      <3>2. Request(seq + 1) \notin toSrv
        BY <1>2, <3>1, Belongs, Distinct
      <3>3. \A m \in Down : m \notin Answers(seq + 1)
        BY <1>2, <3>1, Belongs, Distinct
      <3>4. \A k \in 1..Len(rx) : rx[k] \in Down
        BY DEF TypeInv, Wires
      <3>5. QED
        BY <3>2, <3>3, <3>4 DEF Clean, TypeInv, Wires
    <2>4. Single(seq + 1)
      BY <2>3 DEF Clean, Single
    <2>5. \A s \in 0..(seq + 1) : s \in 0..seq \/ s = seq + 1
      BY <1>2
    <2>6. QED
      BY <1>1, <2>1, <2>2, <2>3, <2>4, <2>5 DEF OnceInv
  <1>8. CASE Send
    <2>1. /\ UNCHANGED <<seq, events, toCli, rx>> /\ pc' = "wait" /\ pc = "send"
          /\ toSrv' = toSrv \cup {DataMsg(seq)} /\ Len(events) = seq - 1 /\ seq > 0
      BY <1>8 DEF Send, socket, TypeInv, Book
    <2>2. Clean(seq) /\ Clean(0) /\ Request(seq) = DataMsg(seq)
      BY <1>1, <2>1 DEF Looping, Request
    <2>3. \A s : Request(s)' = Request(s)
      BY <1>0 DEF Request, TokenHash
    <2>4. \A s \in 0..seq : s # seq => (Request(s) \in toSrv' <=> Request(s) \in toSrv)
      BY <1>2, <2>1, <2>2, Distinct
    <2>5. \A s \in 0..seq : s # seq => (Clean(s) => Clean(s)') /\ (Single(s) => Single(s)')
      BY <2>1, <2>3, <2>4 DEF Clean, Single
    <2>6. Single(seq)'
      BY <2>1, <2>2 DEF Clean, Single
    <2>7. \A i \in 1..Len(events) : i \in 0..seq /\ i # seq
      BY <1>2, <2>1
    <2>8. QED
      BY <1>1, <1>2, <2>1, <2>2, <2>5, <2>6, <2>7 DEF OnceInv
  <1>9. CASE RecvEcho \/ RecvFails \/ WaitTimesOut
    <2>1. PICK acked \in BOOLEAN :
            /\ Report(acked) /\ pc = "wait" /\ (rx' = rx \/ (rx # <<>> /\ rx' = Tail(rx)))
            /\ acked => rx # <<>> /\ rx' = Tail(rx) /\ IsEcho(Head(rx), seq)
      BY <1>9, Zenon DEF RecvEcho, RecvFails, WaitTimesOut, IsEcho, socket
    <2>2. \A s : (Clean(s) => Clean(s)') /\ (Single(s) => Single(s)')
      BY <1>0, <2>1, Fewer DEF Report, net
    <2>3. acked => \A s : s = seq => Clean(s)'
      <3> SUFFICES ASSUME acked, NEW s, s = seq PROVE Clean(s)'
        OBVIOUS
      <3>1. Head(rx) \in Down /\ rx # <<>> /\ rx' = Tail(rx) /\ rx' # rx
        BY <2>1, SeqHeadTail DEF TypeInv, Wires
      <3>2. Head(rx) \in Answers(s)
        BY <2>1, <3>1 DEF IsEcho, Down, AckMsgs, AckMsg, Answers, EchoMsg, TypeInv, Book
      <3>3. Single(s) /\ toSrv' \subseteq toSrv /\ toCli' \subseteq toCli
        BY <1>1, <1>2, <2>1 DEF Report, net
      <3>4. QED
        BY <1>0, <2>1, <3>1, <3>2, <3>3, Fewer
    <2>4. \A i \in 1..Len(events') : events'[i].acked => Clean(i)'
      <3>1. /\ Len(events) = seq - 1 /\ Len(events') = seq /\ events'[seq].acked = acked
            /\ \A i \in 1..Len(events) : events'[i] = events[i]
        <4>1. PacketEvent(seq, acked, measured) \in Reports
          BY DEF TypeInv, Scalars, Reports, PacketEvent
        <4>2. Len(events) = seq - 1 /\ events \in Seq(Reports)
          BY <2>1 DEF TypeInv, Book
        <4>3. QED
          BY <1>2, <2>1, <4>1, <4>2, SeqAppend DEF Report, PacketEvent
      <3>2. \A i \in 1..Len(events') : i \in 1..Len(events) \/ i = seq
        BY <1>2, <3>1
      <3>3. QED
        BY <1>1, <2>2, <2>3, <3>1, <3>2
    <2>5. QED
      BY <1>1, <2>1, <2>2, <2>4 DEF Report, OnceInv, Looping
  <1>10. QED
    BY <1>3, <1>5, <1>6, <1>7, <1>8, <1>9 DEF ClientNext

LEMMA OnceOther == TypeInv /\ AuthInv /\ OnceInv /\ OtherStep => OnceInv'
  <1> SUFFICES ASSUME TypeInv, AuthInv, OnceInv, OtherStep, copies' = 0
      PROVE  OnceInv'
    BY DEF OnceInv
  <1>1. UNCHANGED <<clientToken, pc, seq, events>>
    BY ClientUntouched DEF config, client
  <1>2. copies \in Nat /\ seq \in Nat /\ Len(events) <= seq /\ Len(events) \in Nat
    BY ConstantTypes DEF TypeInv, Scalars, Book
  <1>3. ASSUME copies = 0, \A s \in 0..seq : (Clean(s) => Clean(s)') /\ (Single(s) => Single(s)')
        PROVE  OnceInv'
    BY <1>1, <1>2, <1>3 DEF OnceInv
  <1>4. CASE Tick \/ Terminating \/ UNCHANGED vars \/ SrvDies \/ SrvStarts \/ Lose \/ Bounce
    <2>1. toSrv' \subseteq toSrv /\ toCli' \subseteq toCli /\ rx' = rx /\ copies' = copies
      BY <1>4 DEF Tick, Terminating, vars, SrvDies, SrvStarts, Lose, Bounce, socket, net
    <2>2. QED
      BY <1>1, <1>3, <2>1, Fewer
  <1>5. CASE Deliver
    <2>1. PICK m \in toCli : rx' = Append(rx, m) /\ Arrives(m, toCli, toCli')
      BY <1>5 DEF Deliver
    <2>2. copies = 0 /\ toCli' = toCli \ {m} /\ toSrv' = toSrv
      BY <1>2, <1>5, <2>1 DEF Arrives, Deliver
    <2>3. QED
      BY <1>1, <1>3, <2>1, <2>2, Delivered
  <1>6. CASE \E m \in toSrv : SrvHello(m) \/ SrvData(m)
    <2>1. PICK m \in toSrv : SrvHello(m) \/ SrvData(m)
      BY <1>6
    <2>2. copies = 0
      BY <1>2, <2>1 DEF SrvHello, SrvData, Reply, Arrives
    <2>3. PICK s \in 0..seq : \E answer \in SUBSET Answers(s) :
            /\ m = Request(s) /\ \A a, b \in answer : a = b
            /\ toSrv' = toSrv \ {m} /\ toCli' = toCli \cup answer /\ rx' = rx
      BY <2>1, OneAnswer
    <2>4. QED
      BY <1>1, <1>3, <2>2, <2>3, Served
  <1>7. QED
    BY <1>4, <1>5, <1>6 DEF OtherStep, Environment

LEMMA OnceHolds == Spec => [](TypeInv /\ OnceInv)
  BY TypeHolds, AuthHolds, OnceInit, OnceClient, OnceOther, StepKinds, PTL DEF Spec

\* As long as nothing was duplicated, an acked packet has nothing left on its
\* way: the ack was its own echo, whatever stale echoes there are.
THEOREM AckedIsGoneCorrect == Spec => []AckedIsGone
  <1>1. TypeInv /\ OnceInv => AckedIsGone
    <2> SUFFICES ASSUME TypeInv, OnceInv, copies = 0, NEW i \in DOMAIN events, events[i].acked
        PROVE  /\ DataMsg(events[i].seq) \notin toSrv
               /\ EchoMsg(events[i].seq) \notin toCli
               /\ \A k \in DOMAIN rx : rx[k] # EchoMsg(events[i].seq)
      BY DEF AckedIsGone
    <2>1. i \in 1..Len(events) /\ events[i].seq = i /\ i # 0 /\ DOMAIN rx = 1..Len(rx)
      BY DEF TypeInv, Book, Wires
    <2>2. Clean(i)
      BY <2>1 DEF OnceInv
    <2>3. QED
      BY <2>1, <2>2 DEF Clean, Request, Answers
  <1>2. QED
    BY <1>1, OnceHolds, PTL

\* And the first packet a stream loses had its full timeout, or the socket
\* reported it: no datagram of an earlier exchange can have taken its place.
THEOREM FirstLossIsGenuineCorrect == Spec => FirstLossIsGenuine
  <1>1. TypeInv /\ OnceInv /\ [Next]_vars =>
          [Lost /\ copies = 0 /\ (\A i \in DOMAIN events : events[i].acked)
             => waited >= Timeout \/ sockErr]_vars
    <2> SUFFICES ASSUME TypeInv, OnceInv, [Next]_vars, Lost, copies = 0, ~sockErr,
                        \A i \in DOMAIN events : events[i].acked
        PROVE  waited >= Timeout
      OBVIOUS
    <2>1. RecvEcho \/ WaitTimesOut
      <3>1. events' # events
        BY DEF Lost
      <3>2. ~OtherStep
        BY <3>1, ClientUntouched DEF client
      <3>3. QED
        BY <3>1, <3>2, StepKinds DEF ClientNext, SendHello, RecvAck, HandshakeFails, LoopHead,
           Pace, Send, SendFails, RecvFails
    <2>2. ~RecvEcho
      <3> SUFFICES ASSUME RecvEcho PROVE FALSE
        OBVIOUS
      <3>1. /\ Len(events) \in Nat /\ Len(events) = seq - 1 /\ seq \in Nat /\ seq > 0 /\ pc = "wait"
            /\ events \in Seq(Reports) /\ rx # <<>>
        BY DEF RecvEcho, TypeInv, Book, Scalars
      <3>2. ~IsEcho(Head(rx), seq)
        <4>1. PacketEvent(seq, IsEcho(Head(rx), seq), measured) \in Reports
          <5>1. IsEcho(Head(rx), seq) \in BOOLEAN
            BY Zenon DEF IsEcho
          <5>2. QED
            BY <5>1 DEF TypeInv, Scalars, Reports, PacketEvent
        <4>2. events' = Append(events, PacketEvent(seq, IsEcho(Head(rx), seq), measured))
          BY DEF RecvEcho, Report
        <4>3. Len(events') = Len(events) + 1
              /\ events'[Len(events')] = PacketEvent(seq, IsEcho(Head(rx), seq), measured)
          BY <3>1, <4>1, <4>2, SeqAppend
        <4>4. QED
          BY <4>3 DEF Lost, PacketEvent
      <3>3. Head(rx) \in Down /\ Head(rx) = rx[1] /\ 1 \in 1..Len(rx)
        BY <3>1, SeqHeadTail DEF TypeInv, Wires
      <3>4. Clean(0) /\ \A s \in 1..seq : s # seq => Clean(s)
        <4>1. \A s \in 1..seq : s # seq => s \in 1..Len(events) /\ s \in DOMAIN events
          BY <3>1
        <4>2. QED
          BY <3>1, <4>1 DEF OnceInv, Looping
      <3>5. Head(rx) \notin AckMsgs
        BY <3>3, <3>4 DEF Clean, Answers
      <3>6. Head(rx).seq \in 1..seq /\ Head(rx) = EchoMsg(Head(rx).seq) /\ Head(rx).type = "Echo"
        BY <3>3, <3>5 DEF Down, EchoMsg
      <3>7. Head(rx).seq # seq
        BY <3>2, <3>6 DEF IsEcho
      <3>8. Clean(Head(rx).seq) /\ Head(rx).seq # 0
        BY <3>4, <3>6, <3>7
      <3>9. QED
        BY <3>3, <3>6, <3>8 DEF Clean, Answers
    <2>3. QED
      BY <2>1, <2>2 DEF WaitTimesOut, TimeoutExpired
  <1>2. QED
    BY <1>1, OnceHolds, PTL DEF Spec, FirstLossIsGenuine
=============================================================================
