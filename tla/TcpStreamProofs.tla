--------------------------- MODULE TcpStreamProofs ---------------------------
(***************************************************************************)
(* Theorems about TcpStream, for every value of its constants.             *)
(***************************************************************************)
EXTENDS TcpStream, TLAPS, FiniteSetTheorems, SequenceTheorems

-----------------------------------------------------------------------------
(* Sequences                                                               *)

\* A sequence over a set is one over every larger set.
LEMMA SeqMonotone ==
    ASSUME NEW S, NEW T, S \subseteq T, NEW q \in Seq(S)
    PROVE  q \in Seq(T)
  OBVIOUS

\* Consuming the head of a queue leaves a queue; the head was an element.
LEMMA SeqHeadTail ==
    ASSUME NEW S, NEW q \in Seq(S), q # <<>>
    PROVE  Head(q) \in S /\ Tail(q) \in Seq(S)
  BY HeadTailProperties

\* Adding an element of the type keeps the type.
LEMMA SeqAppend ==
    ASSUME NEW S, NEW q \in Seq(S), NEW e \in S
    PROVE  Append(q, e) \in Seq(S)
  OBVIOUS

-----------------------------------------------------------------------------
(* Types and phases                                                        *)

LEMMA ConstantTypes ==
    /\ Warmup \in Nat /\ Duration \in Nat /\ Timeout \in Nat /\ Delay \in Nat
    /\ MinWindow \in Nat /\ MaxWindow \in Nat /\ MinWindow <= MaxWindow
  BY TcpAssumption

\* The types alone are not inductive: a handshake message where an echo is
\* expected would break them.  Phase says what the wires carry when.
Phase ==
    /\ reader = "none" =>
         /\ seq = 0 /\ DOMAIN pending = {} /\ events = <<>> /\ ackCh = <<>>
         /\ pc \in {"connect", "ackwait", "failed"}
         /\ \/ /\ c2s \in {<<>>, <<HelloMsg(ProtocolVersion, TokenHash(clientToken)), StartMsg>>}
               /\ s2c = <<>> /\ srv # "echo"
            \/ /\ c2s = <<>> /\ srv \in {"echo", "closed"}
               /\ \E a \in BOOLEAN :
                    s2c = <<AckMsg(a)>> /\ (a => Authorized) /\ (srv = "echo" => a)
    /\ reader # "none" =>
         /\ pc \notin {"connect", "ackwait"}
         /\ srv \in {"echo", "closed"}
         /\ c2s \in Seq(Data) /\ s2c \in Seq(Echo)
         /\ Authorized
    /\ pc \in {"write", "sent"} => seq > 0
    /\ pc = "connect" => c2s = <<>> /\ s2c = <<>> /\ srv = "backlog" /\ conn = "none"

TypeInv == TypeOK /\ Phase

\* The sets of messages depend on the number of packets only.
LEMMA SameSets ==
    ASSUME seq' = seq
    PROVE  Event' = Event /\ UpMsg' = UpMsg /\ DownMsg' = DownMsg /\ Data' = Data /\ Echo' = Echo
  BY DEF Event, UpMsg, DownMsg, Data, Echo

LEMMA TypesGrow ==
    ASSUME TypeOK, Phase, seq' = seq + 1,
           UNCHANGED <<pending, events, ackCh, c2s, s2c>>
    PROVE  /\ DOMAIN pending' \subseteq 1..seq'
           /\ pending' \in [DOMAIN pending' -> BOOLEAN]
           /\ events' \in Seq(Event')
           /\ ackCh' \in Seq(Echo')
           /\ c2s' \in Seq(UpMsg') /\ s2c' \in Seq(DownMsg')
           /\ reader # "none" => c2s' \in Seq(Data') /\ s2c' \in Seq(Echo')
  <1>1. 1..seq \subseteq 1..seq'
    BY DEF TypeOK
  <1>2. Event \subseteq Event' /\ UpMsg \subseteq UpMsg' /\ DownMsg \subseteq DownMsg'
        /\ Data \subseteq Data' /\ Echo \subseteq Echo'
    BY <1>1 DEF Event, UpMsg, DownMsg, Data, Echo
  <1>3. QED
    BY <1>1, <1>2, SeqMonotone DEF TypeOK, Phase

\* Taking one packet out of `pending`, or entering one, keeps its type.
LEMMA RemoveTypes ==
    ASSUME DOMAIN pending \subseteq 1..seq, pending \in [DOMAIN pending -> BOOLEAN],
           seq' = seq, NEW s, pending' = Restrict(pending, DOMAIN pending \ {s})
    PROVE  /\ DOMAIN pending' = DOMAIN pending \ {s}
           /\ DOMAIN pending' \subseteq 1..seq'
           /\ pending' \in [DOMAIN pending' -> BOOLEAN]
  BY DEF Restrict

LEMMA InsertTypes ==
    ASSUME DOMAIN pending \subseteq 1..seq, pending \in [DOMAIN pending -> BOOLEAN],
           seq \in 1..seq, Insert
    PROVE  /\ DOMAIN pending' = DOMAIN pending \cup {seq}
           /\ DOMAIN pending' \subseteq 1..seq'
           /\ pending' \in [DOMAIN pending' -> BOOLEAN]
  <1>1. DOMAIN pending' = DOMAIN pending \cup {seq} /\ seq' = seq
    BY DEF Insert
  <1>2. \A s \in DOMAIN pending' : pending'[s] \in BOOLEAN
    <2>1. MeasuredNow \in BOOLEAN
      BY DEF MeasuredNow
    <2>2. QED
      BY <1>1, <2>1 DEF Insert
  <1>3. pending' = [s \in DOMAIN pending' |-> pending'[s]]
    BY DEF Insert
  <1>4. QED
    BY <1>1, <1>2, <1>3

\* Settling an answer keeps the types of the packets waiting and of the reports.
LEMMA SettleTypes ==
    ASSUME TypeOK, NEW s \in 1..seq, Settle(s), seq' = seq
    PROVE  /\ DOMAIN pending' \subseteq 1..seq'
           /\ pending' \in [DOMAIN pending' -> BOOLEAN]
           /\ events' \in Seq(Event')
  <1>1. DOMAIN pending' \subseteq 1..seq' /\ pending' \in [DOMAIN pending' -> BOOLEAN]
    BY RemoveTypes DEF TypeOK, Settle
  <1>2. events \in Seq(Event) /\ Event' = Event
    BY SameSets DEF TypeOK
  <1>3. s \in DOMAIN pending => PacketEvent(s, TRUE, pending[s]) \in Event
    BY DEF TypeOK, PacketEvent, Event
  <1>4. s \in DOMAIN pending => Append(events, PacketEvent(s, TRUE, pending[s])) \in Seq(Event)
    BY <1>2, <1>3, SeqAppend
  <1>5. events' \in Seq(Event)
    BY <1>2, <1>4 DEF Settle
  <1>6. QED
    BY <1>1, <1>2, <1>5

LEMMA TypeInit == Init => TypeInv
  BY DEF Init, TypeInv, TypeOK, Phase, Looping, Finished

LEMMA TypeStep == TypeInv /\ [Next]_vars => TypeInv'
  <1> SUFFICES ASSUME TypeOK, Phase, [Next]_vars PROVE TypeOK' /\ Phase'
    BY DEF TypeInv
  <1> USE DEF Looping, Finished

  <1>1. CASE Connect
    <2>1. c2s' \in Seq(UpMsg')
      <3>1. TokenHash(clientToken) \in Digests
        BY DEF TokenHash, Digests, TypeOK, TokenOption
      <3>2. HelloMsg(ProtocolVersion, TokenHash(clientToken)) \in HelloMsgs
        BY <3>1, ControlAssumption DEF HelloMsgs
      <3>3. QED
        BY <1>1, <3>2 DEF Connect, UpMsg
    <2>2. pc = "connect" /\ reader = "none"
      BY <1>1 DEF Connect, Phase
    <2>3. QED
      BY <1>1, <2>1, <2>2, SameSets DEF Connect, TypeOK, Phase, config, client, wire, Authorized

  <1>2. CASE ReadAck
    <2>1. reader = "none" /\ c2s = <<>> /\ srv \in {"echo", "closed"} /\ seq = 0
      BY <1>2 DEF ReadAck, Phase
    <2>2. PICK a \in BOOLEAN :
              s2c = <<AckMsg(a)>> /\ (a => Authorized) /\ (srv = "echo" => a)
      BY <1>2, <2>1 DEF ReadAck, Phase
    <2>3. Head(s2c) = AckMsg(a) /\ Tail(s2c) = <<>>
      BY <2>2
    <2>4. validate_ack(Head(s2c)) = a
      BY <2>3 DEF validate_ack, AckMsg
    <2>5. CASE a
      <3>1. pc' = "head" /\ reader' = "reading" /\ s2c' = <<>>
        BY <1>2, <2>3, <2>4, <2>5 DEF ReadAck
      <3>2. QED
        BY <1>2, <2>1, <2>2, <2>5, <3>1, SameSets DEF ReadAck, TypeOK, Phase, config, Authorized
    <2>6. CASE ~a
      <3>1. pc' = "failed" /\ reader' = "none" /\ s2c' = <<>>
        BY <1>2, <2>1, <2>3, <2>4, <2>6 DEF ReadAck
      <3>2. srv = "closed"
        BY <2>1, <2>2, <2>6
      <3>3. QED
        BY <1>2, <2>1, <2>6, <3>1, <3>2, SameSets DEF ReadAck, TypeOK, Phase, config, Authorized
    <2>7. QED
      BY <2>5, <2>6

  <1>3. CASE Drain
    <2>0. reader # "none"
      BY <1>3 DEF Drain, Phase
    <2>1. CASE ackCh # <<>>
      <3>1. Head(ackCh) \in Echo /\ Tail(ackCh) \in Seq(Echo)
        BY <2>1, SeqHeadTail DEF TypeOK
      <3>2. Settle(Head(ackCh).seq) /\ ackCh' = Tail(ackCh) /\ seq' = seq
        BY <1>3, <2>1 DEF Drain
      <3>3. Head(ackCh).seq \in 1..seq
        BY <3>1 DEF Echo
      <3>4. QED
        BY <1>3, <2>0, <3>1, <3>2, <3>3, SettleTypes, SameSets DEF Drain, TypeOK, Phase, config, client, wire, Authorized
    <2>2. CASE ackCh = <<>>
      BY <1>3, <2>0, <2>2, SameSets DEF Drain, TypeOK, Phase, config, client, wire, Authorized
    <2>3. QED
      BY <2>1, <2>2

  <1>4. CASE Window
    <2>0. reader # "none"
      BY <1>4 DEF Window, Phase
    <2>1. CASE ackCh # <<>>
      <3>1. Head(ackCh) \in Echo /\ Tail(ackCh) \in Seq(Echo)
        BY <2>1, SeqHeadTail DEF TypeOK
      <3>2. Settle(Head(ackCh).seq) /\ ackCh' = Tail(ackCh) /\ seq' = seq
        BY <1>4, <2>1 DEF Window
      <3>3. Head(ackCh).seq \in 1..seq
        BY <3>1 DEF Echo
      <3>4. QED
        BY <1>4, <2>0, <3>1, <3>2, <3>3, SettleTypes, SameSets DEF Window, TypeOK, Phase, config, client, wire, Authorized
    <2>2. CASE ackCh = <<>>
      BY <1>4, <2>0, <2>2, SameSets DEF Window, TypeOK, Phase, config, client, wire, Authorized
    <2>3. QED
      BY <2>1, <2>2

  <1>5. CASE Pace
    <2>1. reader # "none" /\ seq' = seq + 1
      BY <1>5 DEF Pace, Phase
    <2>2. nextSend' \in Nat /\ seq' \in Nat
      BY <1>5, ConstantTypes DEF Pace, TypeOK
    <2>3. QED
      BY <1>5, <2>1, <2>2, TypesGrow DEF Pace, TypeOK, Phase, config, wire, Authorized

  <1>6. CASE Write
    <2>1. reader # "none" /\ seq \in 1..seq
      BY <1>6 DEF Write, Phase, TypeOK
    <2>2. DataMsg(seq) \in Data /\ Data \subseteq UpMsg
      BY <2>1 DEF DataMsg, Data, UpMsg
    <2>3. QED
      BY <1>6, <2>1, <2>2, SameSets DEF Write, TypeOK, Phase, config, client, wire, Authorized

  <1>7. CASE Insert
    <2>1. reader # "none" /\ seq \in 1..seq
      BY <1>7 DEF Insert, Phase, TypeOK
    <2>2. DOMAIN pending' \subseteq 1..seq' /\ pending' \in [DOMAIN pending' -> BOOLEAN]
      BY <1>7, <2>1, InsertTypes DEF TypeOK
    <2>3. QED
      BY <1>7, <2>1, <2>2, SameSets DEF Insert, TypeOK, Phase, config, client, wire, Authorized

  <1>8. CASE Flush
    <2>0. reader # "none"
      BY <1>8 DEF Flush, Phase
    <2>1. ASSUME NEW s \in DOMAIN pending,
                 events' = Append(events, PacketEvent(s, FALSE, pending[s])),
                 pending' = Restrict(pending, DOMAIN pending \ {s}),
                 UNCHANGED <<pc, reader>>
          PROVE  TypeOK' /\ Phase'
      <3>1. PacketEvent(s, FALSE, pending[s]) \in Event
        BY <2>1 DEF TypeOK, PacketEvent, Event
      <3>2. seq' = seq /\ Event' = Event
        BY <1>8, SameSets DEF Flush
      <3>3. events' \in Seq(Event')
        <4>1. Append(events, PacketEvent(s, FALSE, pending[s])) \in Seq(Event)
          BY <3>1, SeqAppend DEF TypeOK
        <4>2. QED
          BY <2>1, <3>2, <4>1
      <3>4. DOMAIN pending' \subseteq 1..seq' /\ pending' \in [DOMAIN pending' -> BOOLEAN]
        BY <2>1, <3>2, RemoveTypes DEF TypeOK
      <3>5. QED
        BY <1>8, <2>0, <2>1, <3>3, <3>4, SameSets DEF Flush, TypeOK, Phase, config, client, wire, Authorized
    <2>2. CASE UNCHANGED <<pending, events>> /\ pc' = "done" /\ reader' = "stopped"
      BY <1>8, <2>0, <2>2, SameSets DEF Flush, TypeOK, Phase, config, client, wire, Authorized
    <2>3. QED
      BY <1>8, <2>1, <2>2 DEF Flush

  <1>9. CASE ReaderRecv
    <2>1. Head(s2c) \in Echo /\ Tail(s2c) \in Seq(Echo)
      BY <1>9, SeqHeadTail DEF ReaderRecv, Phase
    <2>2. Tail(s2c) \in Seq(DownMsg)
      BY <2>1, SeqMonotone DEF DownMsg
    <2>3. QED
      BY <1>9, <2>1, <2>2, SameSets DEF ReaderRecv, TypeOK, Phase, config, client, wire, Authorized

  <1>10. CASE SrvHandshake
    <2>1. reader = "none" /\ s2c = <<>>
          /\ c2s = <<HelloMsg(ProtocolVersion, TokenHash(clientToken)), StartMsg>>
      BY <1>10 DEF SrvHandshake, Phase
    <2> DEFINE a == Accepts(c2s[1], c2s[2], serverToken)
    <2>2. a \in BOOLEAN /\ s2c' = <<AckMsg(a)>> /\ srv' = (IF a THEN "echo" ELSE "closed")
      BY <1>10, <2>1 DEF SrvHandshake, Accepts, token_matches
    <2>3. c2s' = <<>>
      BY <1>10, <2>1 DEF SrvHandshake
    <2>4. a => Authorized
      <3>1. a => serverToken = NoToken \/ TokenHash(clientToken) = hash_token(serverToken)
        BY <2>1 DEF Accepts, token_matches, HelloMsg, StartMsg
      <3>2. QED
        BY <3>1, ControlAssumption DEF TokenHash, hash_token, Authorized, TypeOK, TokenOption
    <2>5. s2c' \in Seq(DownMsg)
      BY <2>2 DEF DownMsg, AckMsgs
    <2> HIDE DEF a
    <2>6. QED
      BY <1>10, <2>1, <2>2, <2>3, <2>4, <2>5, SameSets DEF SrvHandshake, TypeOK, Phase, config, client, wire, Authorized

  <1>11. CASE SrvEcho
    <2>1. reader # "none" /\ c2s \in Seq(Data)
      BY <1>11 DEF SrvEcho, Phase
    <2>2. Head(c2s) \in Data /\ Tail(c2s) \in Seq(Data)
      BY <1>11, <2>1, SeqHeadTail DEF SrvEcho
    <2>3. EchoMsg(Head(c2s).seq) \in Echo
      BY <2>2 DEF Data, Echo, EchoMsg
    <2>4. Tail(c2s) \in Seq(UpMsg) /\ s2c' \in Seq(Echo) /\ s2c' \in Seq(DownMsg)
      BY <1>11, <2>2, <2>3, SeqMonotone DEF SrvEcho, UpMsg, DownMsg, Phase
    <2>5. QED
      BY <1>11, <2>1, <2>2, <2>3, <2>4, SameSets DEF SrvEcho, TypeOK, Phase, config, client, wire, Authorized

  <1>12. CASE ConnectFails
    BY <1>12, SameSets DEF ConnectFails, TypeOK, Phase, config, client, wire, Authorized

  <1>13. CASE ReadAckFails
    BY <1>13, SameSets DEF ReadAckFails, TypeOK, Phase, config, client, wire, Authorized

  <1>14. CASE LoopHead
    BY <1>14, SameSets DEF LoopHead, TypeOK, Phase, config, client, wire, Authorized

  <1>15. CASE Decide
    BY <1>15, SameSets DEF Decide, TypeOK, Phase, config, client, wire, Authorized

  <1>16. CASE WriteFails
    BY <1>16, SameSets DEF WriteFails, TypeOK, Phase, config, client, wire, Authorized

  <1>17. CASE ReaderStops
    BY <1>17, SameSets DEF ReaderStops, TypeOK, Phase, config, client, wire, Authorized

  <1>18. CASE SrvEof
    BY <1>18, SameSets DEF SrvEof, TypeOK, Phase, config, client, wire, Authorized

  <1>19. CASE SrvFails
    BY <1>19, SameSets DEF SrvFails, TypeOK, Phase, config, client, wire, Authorized

  <1>20. CASE Reset
    BY <1>20, SameSets DEF Reset, TypeOK, Phase, config, client, wire, Authorized

  <1>21. CASE SrvAccept
    <2>1. reader = "none" /\ srv' = "handshake" /\ s2c = <<>>
      BY <1>21 DEF SrvAccept, Phase
    <2>2. TypeOK'
      BY <1>21, <2>1, SameSets DEF SrvAccept, TypeOK, config, client
    <2>3. Phase'
      BY <1>21, <2>1, SameSets DEF SrvAccept, TypeOK, Phase, config, client, wire, Authorized
    <2>4. QED
      BY <2>2, <2>3

  <1>22. CASE Tick
    <2>1. now' \in Nat
      BY <1>22 DEF Tick, TypeOK
    <2>2. QED
      BY <1>22, <2>1, SameSets DEF Tick, TypeOK, Phase, config, client, wire, Authorized

  <1>23. CASE UNCHANGED vars
    BY <1>23, SameSets DEF vars, TypeOK, Phase, config, client, wire, Authorized

  <1>24. QED
    BY <1>1, <1>2, <1>3, <1>4, <1>5, <1>6, <1>7, <1>8, <1>9, <1>10, <1>11, <1>12, <1>13, <1>14, <1>15, <1>16, <1>17, <1>18, <1>19, <1>20, <1>21, <1>22, <1>23
    DEF Next, ClientNext, ReaderNext, ServerNext, Terminating

\* TypeOK holds in every reachable state, for every configuration.
THEOREM TypeCorrect == Spec => []TypeOK
  <1>1. Spec => []TypeInv
    BY TypeInit, TypeStep, PTL DEF Spec
  <1>2. TypeInv => TypeOK
    BY DEF TypeInv
  <1>3. QED
    BY <1>1, <1>2, PTL

-----------------------------------------------------------------------------
(* The seven kinds of step the bookkeeping can tell apart                  *)

SettleStep ==
    /\ pc \in {"drain", "window"} /\ pc' \in {"drain", "head"}
    /\ \E s \in 1..seq : Settle(s) /\ s \in SeqNums(ackCh)
    /\ seq' = seq /\ now' = now

LoseStep ==
    /\ pc = "flush" /\ pc' = "flush"
    /\ \E s \in DOMAIN pending :
         /\ events' = Append(events, PacketEvent(s, FALSE, pending[s]))
         /\ pending' = Restrict(pending, DOMAIN pending \ {s})
    /\ seq' = seq /\ now' = now

\* No packet changes its place.
IdleStep ==
    /\ UNCHANGED <<seq, pending, events>>
    /\ now' \in Nat /\ now' >= now
    /\ pc' # pc =>
         /\ pc \notin Finished
         /\ {pc, pc'} \cap {"write", "sent", "failed"} \subseteq {pc'} \cap {"failed"}
         /\ pc' = "done" => DOMAIN pending = {}
         /\ pc' = "pace" => ~WindowFull
         /\ pc' = "flush" => DOMAIN pending = {} \/ DrainExpired

LEMMA StepKinds ==
    ASSUME TypeInv, [Next]_vars
    PROVE  Pace \/ Write \/ WriteFails \/ Insert \/ SettleStep \/ LoseStep \/ IdleStep
  <1> USE DEF TypeInv, Finished
  <1>0. now \in Nat /\ now >= now
    BY DEF TypeOK
  <1>1. ASSUME Drain \/ Window, ackCh # <<>> PROVE SettleStep \/ IdleStep
    <2>1. Head(ackCh) \in Echo
      BY <1>1, SeqHeadTail DEF TypeOK
    <2>2. Head(ackCh).seq \in 1..seq /\ Head(ackCh).seq \in SeqNums(ackCh)
      <3>1. Head(ackCh) = ackCh[1] /\ 1 \in DOMAIN ackCh
        BY <1>1, HeadTailProperties DEF TypeOK
      <3>2. QED
        BY <2>1, <3>1 DEF Echo, SeqNums
    <2>3. QED
      BY <1>1, <2>2 DEF Drain, Window, SettleStep
  <1>2. ASSUME Drain \/ Window, ackCh = <<>> PROVE IdleStep
    BY <1>0, <1>2 DEF Drain, Window, IdleStep
  <1>3. CASE Flush
    <2>1. CASE pc' = pc
      BY <1>3, <2>1 DEF Flush, LoseStep
    <2>2. CASE pc' # pc
      BY <1>0, <1>3, <2>2 DEF Flush, IdleStep
    <2>3. QED
      BY <2>1, <2>2
  <1>4. CASE Decide
    BY <1>0, <1>4 DEF Decide, IdleStep
  <1>5. CASE LoopHead
    BY <1>0, <1>5 DEF LoopHead, IdleStep
  <1>6. CASE ReadAck
    BY <1>0, <1>6 DEF ReadAck, IdleStep
  <1>7. CASE Connect \/ ConnectFails \/ ReadAckFails
    BY <1>0, <1>7 DEF Connect, ConnectFails, ReadAckFails, IdleStep
  <1>8. CASE Tick
    BY <1>0, <1>8 DEF Tick, IdleStep, client
  <1>9. CASE ReaderNext \/ ServerNext \/ Reset
    BY <1>0, <1>9 DEF ReaderNext, ReaderRecv, ReaderStops, ServerNext, SrvAccept, SrvHandshake,
       SrvEcho, SrvEof, SrvFails, Reset, IdleStep, client
  <1>10. CASE UNCHANGED vars
    BY <1>0, <1>10 DEF vars, IdleStep, client
  <1>11. QED
    BY <1>1, <1>2, <1>3, <1>4, <1>5, <1>6, <1>7, <1>8, <1>9, <1>10
    DEF Next, ClientNext, Terminating

-----------------------------------------------------------------------------
(* Accounting                                                              *)

NoDoubleReport == \A i, j \in DOMAIN events : events[i].seq = events[j].seq => i = j

\* A report about a packet not reported before adds it to the reported ones.
LEMMA ReportOnce ==
    ASSUME TypeInv, NEW e \in Event, events' = Append(events, e), e.seq \notin Reported,
           NoDoubleReport
    PROVE  NoDoubleReport' /\ Reported' = Reported \cup {e.seq}
  <1>1. events \in Seq(Event)
    BY DEF TypeInv, TypeOK
  <1>2. /\ DOMAIN events' = DOMAIN events \cup {Len(events) + 1}
        /\ \A i \in DOMAIN events : events'[i] = events[i]
        /\ events'[Len(events) + 1] = e
        /\ Len(events) + 1 \notin DOMAIN events
    BY <1>1
  <1>3. Reported' = Reported \cup {e.seq}
    BY <1>2 DEF Reported
  <1>4. NoDoubleReport'
    BY <1>2 DEF NoDoubleReport, Reported
  <1>5. QED
    BY <1>3, <1>4

LEMMA AccountingStep ==
    ASSUME TypeInv, Accounting, [Next]_vars
    PROVE  Accounting'
  <1>0. /\ NoDoubleReport
        /\ Reported \cap DOMAIN pending = {}
        /\ InHand \cap (Reported \cup DOMAIN pending) = {}
        /\ pc # "failed" => Reported \cup DOMAIN pending \cup InHand = 1..seq
        /\ pc = "done" => DOMAIN pending = {}
    BY DEF Accounting, NoDoubleReport
  <1>1. SUFFICES /\ NoDoubleReport'
                 /\ Reported' \cap DOMAIN pending' = {}
                 /\ InHand' \cap (Reported' \cup DOMAIN pending') = {}
                 /\ pc' # "failed" => Reported' \cup DOMAIN pending' \cup InHand' = 1..seq'
                 /\ pc' = "done" => DOMAIN pending' = {}
    BY DEF Accounting, NoDoubleReport
  <1>2. Reported \subseteq 1..seq /\ DOMAIN pending \subseteq 1..seq /\ seq \in Nat
    <2>1. \A i \in DOMAIN events : events[i] \in Event
      BY DEF TypeInv, TypeOK
    <2>2. Reported \subseteq 1..seq
      BY <2>1 DEF Reported, Event
    <2>3. QED
      BY <2>2 DEF TypeInv, TypeOK
  <1>3. CASE Pace
    <2>1. InHand = {} /\ InHand' = {seq + 1} /\ seq' = seq + 1 /\ pc # "failed" /\ pc' = "write"
      BY <1>3 DEF Pace, InHand
    <2>2. UNCHANGED <<events, pending>> /\ Reported' = Reported /\ NoDoubleReport'
      BY <1>0, <1>3 DEF Pace, Reported, NoDoubleReport
    <2>3. 1..(seq + 1) = 1..seq \cup {seq + 1} /\ seq + 1 \notin 1..seq
      BY <1>2
    <2>4. QED
      BY <1>0, <1>2, <2>1, <2>2, <2>3
  <1>4. CASE Write \/ WriteFails
    <2>1. UNCHANGED <<events, pending, seq>> /\ Reported' = Reported /\ NoDoubleReport'
      BY <1>0, <1>4 DEF Write, WriteFails, Reported, NoDoubleReport
    <2>2. (pc' = "sent" /\ InHand' = InHand) \/ (pc' = "failed" /\ InHand' = {})
      <3>1. CASE Write
        BY <3>1 DEF Write, InHand
      <3>2. CASE WriteFails
        BY <3>2 DEF WriteFails, InHand
      <3>3. QED
        BY <1>4, <3>1, <3>2
    <2>3. pc # "failed"
      BY <1>4 DEF Write, WriteFails
    <2>4. QED
      BY <1>0, <2>1, <2>2, <2>3
  <1>5. CASE Insert
    <2>1. InHand = {seq} /\ InHand' = {} /\ seq' = seq /\ pc # "failed" /\ pc' = "head"
      BY <1>5 DEF Insert, InHand
    <2>2. events' = events /\ Reported' = Reported /\ NoDoubleReport'
      BY <1>0, <1>5 DEF Insert, Reported, NoDoubleReport
    <2>3. DOMAIN pending' = DOMAIN pending \cup {seq}
      BY <1>5 DEF Insert
    <2>4. QED
      BY <1>0, <2>1, <2>2, <2>3
  <1>6. ASSUME NEW s \in 1..seq, NEW acked \in BOOLEAN,
               s \in DOMAIN pending,
               events' = Append(events, PacketEvent(s, acked, pending[s])),
               pending' = Restrict(pending, DOMAIN pending \ {s}),
               seq' = seq, pc \notin {"write", "sent", "failed"},
               pc' \notin {"write", "sent", "failed", "done"}
        PROVE  Accounting'
    <2>1. PacketEvent(s, acked, pending[s]) \in Event /\ PacketEvent(s, acked, pending[s]).seq = s
      BY <1>6 DEF TypeInv, TypeOK, PacketEvent, Event
    <2>2. NoDoubleReport' /\ Reported' = Reported \cup {s}
      BY <1>0, <1>6, <2>1, ReportOnce
    <2>3. DOMAIN pending' = DOMAIN pending \ {s}
      BY <1>6 DEF Restrict
    <2>4. InHand = {} /\ InHand' = {}
      BY <1>6 DEF InHand
    <2>5. QED
      <3>1. Reported' \cap DOMAIN pending' = {}
        BY <1>0, <2>2, <2>3
      <3>2. Reported' \cup DOMAIN pending' \cup InHand' = 1..seq'
        BY <1>0, <1>6, <2>2, <2>3, <2>4
      <3>3. QED
        BY <1>6, <2>2, <2>4, <3>1, <3>2 DEF Accounting, NoDoubleReport
  <1>7. CASE SettleStep
    <2>1. PICK s \in 1..seq : Settle(s)
      BY <1>7 DEF SettleStep
    <2>2. CASE s \in DOMAIN pending
      BY <1>6, <1>7, <2>1, <2>2 DEF SettleStep, Settle, Accounting, NoDoubleReport
    <2>3. CASE s \notin DOMAIN pending
      <3>1. events' = events /\ DOMAIN pending' = DOMAIN pending
        BY <2>1, <2>3 DEF Settle, Restrict
      <3>2. Reported' = Reported /\ NoDoubleReport'
        BY <1>0, <3>1 DEF Reported, NoDoubleReport
      <3>3. InHand = {} /\ InHand' = {} /\ pc # "failed" /\ seq' = seq /\ pc' # "done"
        BY <1>7 DEF SettleStep, InHand
      <3>4. QED
        BY <1>0, <3>1, <3>2, <3>3
    <2>4. QED
      BY <2>2, <2>3
  <1>8. CASE LoseStep
    <2>1. PICK s \in DOMAIN pending :
            /\ events' = Append(events, PacketEvent(s, FALSE, pending[s]))
            /\ pending' = Restrict(pending, DOMAIN pending \ {s})
      BY <1>8 DEF LoseStep
    <2>2. QED
      BY <1>2, <1>6, <1>8, <2>1 DEF LoseStep, Accounting, NoDoubleReport
  <1>9. CASE IdleStep
    <2>1. UNCHANGED <<seq, pending, events>> /\ Reported' = Reported /\ NoDoubleReport'
      BY <1>0, <1>9 DEF IdleStep, Reported, NoDoubleReport
    <2>2. InHand' = InHand
      BY <1>9 DEF IdleStep, InHand
    <2>3. (pc' # "failed" => pc # "failed") /\ (pc' = "done" => DOMAIN pending = {})
      BY <1>0, <1>9 DEF IdleStep
    <2>4. QED
      BY <1>0, <2>1, <2>2, <2>3
  <1>10. QED
    BY <1>3, <1>4, <1>5, <1>7, <1>8, <1>9, StepKinds DEF Accounting

\* Every packet is reported exactly once or still on its way, for every
\* configuration of the stream.
THEOREM AccountingCorrect == Spec => []Accounting
  <1>1. Init => TypeInv /\ Accounting
    BY TypeInit DEF Init, Accounting, Reported, InHand
  <1>2. (TypeInv /\ Accounting) /\ [Next]_vars => (TypeInv /\ Accounting)'
    BY TypeStep, AccountingStep
  <1>3. QED
    BY <1>1, <1>2, PTL DEF Spec

-----------------------------------------------------------------------------
(* The in-flight window                                                    *)

LEMMA MaxInflightRange == MaxInflight \in MinWindow..MaxWindow
  <1> DEFINE w == WindowBudget \div (IF PayloadBytes = 0 THEN 1 ELSE PayloadBytes)
  <1>1. w \in Int
    BY TcpAssumption
  <1> HIDE DEF w
  <1>2. Clamp(w, MinWindow, MaxWindow) \in MinWindow..MaxWindow
    BY <1>1, ConstantTypes DEF Clamp
  <1>3. QED
    BY <1>2 DEF MaxInflight, w

\* The bound is not inductive: the check is three steps before the insertion,
\* and only the client task, which is between them, adds packets.
WindowInv ==
    /\ Cardinality(DOMAIN pending) <= MaxInflight
    /\ pc \in {"pace", "write", "sent"} => Cardinality(DOMAIN pending) < MaxInflight

LEMMA PendingFinite ==
    ASSUME TypeInv
    PROVE  IsFiniteSet(DOMAIN pending) /\ Cardinality(DOMAIN pending) \in Nat
  <1>0. 1 \in Int /\ seq \in Int
    BY DEF TypeInv, TypeOK
  <1>1. IsFiniteSet(1..seq)
    BY <1>0, FS_Interval
  <1>2. IsFiniteSet(DOMAIN pending)
    BY <1>1, FS_Subset DEF TypeInv, TypeOK
  <1>3. QED
    BY <1>2, FS_CardinalityType

\* Removing a packet, present or not, leaves no more of them.
LEMMA RemoveShrinks ==
    ASSUME TypeInv, NEW s, pending' = Restrict(pending, DOMAIN pending \ {s})
    PROVE  /\ Cardinality(DOMAIN pending') \in Nat
           /\ Cardinality(DOMAIN pending') <= Cardinality(DOMAIN pending)
  <1>1. DOMAIN pending' = DOMAIN pending \ {s}
    BY DEF Restrict
  <1>2. Cardinality(DOMAIN pending \ {s}) =
           IF s \in DOMAIN pending THEN Cardinality(DOMAIN pending) - 1
           ELSE Cardinality(DOMAIN pending)
    BY PendingFinite, FS_RemoveElement
  <1>3. IsFiniteSet(DOMAIN pending \ {s})
    BY PendingFinite, FS_Subset
  <1>4. Cardinality(DOMAIN pending \ {s}) \in Nat
    BY <1>3, FS_CardinalityType
  <1>5. QED
    BY <1>1, <1>2, <1>4, PendingFinite

LEMMA WindowStep ==
    ASSUME TypeInv, WindowInv, [Next]_vars
    PROVE  WindowInv'
  <1>0. MaxInflight \in Nat /\ Cardinality(DOMAIN pending) \in Nat
    BY MaxInflightRange, ConstantTypes, PendingFinite
  <1>1. CASE Pace \/ Write \/ WriteFails
    BY <1>1 DEF Pace, Write, WriteFails, WindowInv
  <1>2. CASE Insert
    <2>1. DOMAIN pending' = DOMAIN pending \cup {seq} /\ pc = "sent" /\ pc' = "head"
      BY <1>2 DEF Insert
    <2>2. Cardinality(DOMAIN pending') <= Cardinality(DOMAIN pending) + 1
      BY <1>0, <2>1, PendingFinite, FS_AddElement
    <2>3. Cardinality(DOMAIN pending') \in Nat
      BY <1>0, <2>1, PendingFinite, FS_AddElement
    <2>4. QED
      BY <1>0, <2>1, <2>2, <2>3 DEF WindowInv
  <1>3. CASE SettleStep
    <2>1. pc' \notin {"pace", "write", "sent"}
      BY <1>3 DEF SettleStep
    <2>2. PICK s : pending' = Restrict(pending, DOMAIN pending \ {s})
      BY <1>3 DEF SettleStep, Settle
    <2>3. Cardinality(DOMAIN pending') <= Cardinality(DOMAIN pending)
          /\ Cardinality(DOMAIN pending') \in Nat
      BY <2>2, RemoveShrinks
    <2>4. QED
      BY <1>0, <2>1, <2>3 DEF WindowInv
  <1>4. CASE LoseStep
    <2>1. pc' \notin {"pace", "write", "sent"}
      BY <1>4 DEF LoseStep
    <2>2. PICK s : pending' = Restrict(pending, DOMAIN pending \ {s})
      BY <1>4 DEF LoseStep
    <2>3. Cardinality(DOMAIN pending') <= Cardinality(DOMAIN pending)
          /\ Cardinality(DOMAIN pending') \in Nat
      BY <2>2, RemoveShrinks
    <2>4. QED
      BY <1>0, <2>1, <2>3 DEF WindowInv
  <1>5. CASE IdleStep
    <2>1. pc' \in {"pace", "write", "sent"} => pc' = pc \/ (pc' = "pace" /\ ~WindowFull)
      BY <1>5 DEF IdleStep
    <2>2. ~WindowFull => Cardinality(DOMAIN pending) < MaxInflight
      BY <1>0 DEF WindowFull
    <2>3. QED
      BY <1>5, <2>1, <2>2 DEF IdleStep, WindowInv
  <1>6. QED
    BY <1>1, <1>2, <1>3, <1>4, <1>5, StepKinds

\* No more packets than the clamped window are ever waiting for an answer.
THEOREM WindowCorrect == Spec => []WindowBound
  <1>1. Init => TypeInv /\ WindowInv
    <2>1. Init => Cardinality(DOMAIN pending) = 0
      BY FS_EmptySet DEF Init
    <2>2. QED
      BY <2>1, TypeInit, MaxInflightRange, ConstantTypes DEF Init, WindowInv
  <1>2. (TypeInv /\ WindowInv) /\ [Next]_vars => (TypeInv /\ WindowInv)'
    BY TypeStep, WindowStep
  <1>3. WindowInv => WindowBound
    BY MaxInflightRange DEF WindowInv, WindowBound
  <1>4. QED
    BY <1>1, <1>2, <1>3, PTL DEF Spec

-----------------------------------------------------------------------------
(* The drain deadline                                                      *)

LostInv ==
    /\ LostOnlyAfterDrain
    /\ pc = "flush" => DOMAIN pending = {} \/ DrainExpired

LEMMA LostStep ==
    ASSUME TypeInv, LostInv, [Next]_vars
    PROVE  LostInv'
  <1>0. DrainExpired <=> now >= Warmup + Duration + Timeout
    BY DEF DrainExpired, DrainDeadline, End, WarmupUntil
  <1>1. DrainExpired' <=> now' >= Warmup + Duration + Timeout
    BY DEF DrainExpired, DrainDeadline, End, WarmupUntil
  <1>2. now \in Nat /\ events \in Seq(Event)
    BY DEF TypeInv, TypeOK
  <1>3. CASE Pace \/ Write \/ WriteFails \/ Insert
    BY <1>3 DEF Pace, Write, WriteFails, Insert, LostInv, LostOnlyAfterDrain
  <1>4. CASE SettleStep
    <2>1. PICK s \in 1..seq : Settle(s)
      BY <1>4 DEF SettleStep
    <2>2. \A i \in DOMAIN events' : (i \in DOMAIN events /\ events'[i] = events[i]) \/ events'[i].acked
      BY <1>2, <2>1 DEF Settle, PacketEvent
    <2>3. QED
      BY <1>4, <2>2 DEF SettleStep, LostInv, LostOnlyAfterDrain
  <1>5. CASE LoseStep
    <2>1. DrainExpired /\ now' = now
      BY <1>5 DEF LoseStep, LostInv
    <2>2. QED
      BY <1>0, <1>1, <2>1 DEF LostInv, LostOnlyAfterDrain
  <1>6. CASE IdleStep
    <2>1. now' \in Nat /\ now' >= now /\ events' = events
      BY <1>6 DEF IdleStep
    <2>2. LostOnlyAfterDrain'
      BY <1>2, <2>1, ConstantTypes DEF LostInv, LostOnlyAfterDrain
    <2>3. DrainExpired => DrainExpired'
      BY <1>0, <1>1, <1>2, <2>1, ConstantTypes
    <2>4. QED
      BY <1>6, <2>2, <2>3 DEF IdleStep, LostInv
  <1>7. QED
    BY <1>3, <1>4, <1>5, <1>6, StepKinds

\* No packet is given up before the drain deadline.
THEOREM LostOnlyAfterDrainCorrect == Spec => []LostOnlyAfterDrain
  <1>1. Init => TypeInv /\ LostInv
    BY TypeInit DEF Init, LostInv, LostOnlyAfterDrain
  <1>2. (TypeInv /\ LostInv) /\ [Next]_vars => (TypeInv /\ LostInv)'
    BY TypeStep, LostStep
  <1>3. LostInv => LostOnlyAfterDrain
    BY DEF LostInv
  <1>4. QED
    BY <1>1, <1>2, <1>3, PTL DEF Spec

-----------------------------------------------------------------------------
(* Authorization                                                           *)

\* Measurement packets flow only in sessions the server's token admits.
THEOREM AuthorizedCorrect == Spec => []DataOnlyIfAuthorized
  <1>1. TypeInv => DataOnlyIfAuthorized
    BY DEF TypeInv, Phase, DataOnlyIfAuthorized
  <1>2. QED
    BY <1>1, TypeInit, TypeStep, PTL DEF Spec

-----------------------------------------------------------------------------
(* The order of answers                                                    *)

LEMMA EmptyQueue == SeqNums(<<>>) = {} /\ Increasing(<<>>)
  BY DEF SeqNums, Increasing

\* Taking the oldest entry of an increasing queue.
LEMMA QueueTail ==
    ASSUME NEW M, NEW q \in Seq(M), q # <<>>, \A m \in M : m.seq \in Nat, Increasing(q)
    PROVE  /\ SeqNums(q) = {Head(q).seq} \cup SeqNums(Tail(q))
           /\ Increasing(Tail(q))
           /\ Below({Head(q).seq}, SeqNums(Tail(q)))
  <1>1. /\ Len(q) \in Nat /\ Len(q) > 0
        /\ DOMAIN q = 1..Len(q) /\ DOMAIN Tail(q) = 1..(Len(q) - 1)
        /\ Head(q) = q[1] /\ \A i \in DOMAIN Tail(q) : Tail(q)[i] = q[i + 1]
    BY HeadTailProperties
  <1>2. SeqNums(Tail(q)) = {q[i].seq : i \in 2..Len(q)}
    <2>1. ASSUME NEW i \in 2..Len(q) PROVE i - 1 \in DOMAIN Tail(q) /\ Tail(q)[i - 1] = q[i]
      BY <1>1
    <2>2. ASSUME NEW i \in DOMAIN Tail(q) PROVE i + 1 \in 2..Len(q) /\ Tail(q)[i] = q[i + 1]
      BY <1>1
    <2>3. \A x \in SeqNums(Tail(q)) : x \in {q[i].seq : i \in 2..Len(q)}
      BY <2>2 DEF SeqNums
    <2>4. \A x \in {q[i].seq : i \in 2..Len(q)} : x \in SeqNums(Tail(q))
      BY <2>1 DEF SeqNums
    <2>5. QED
      BY <2>3, <2>4
  <1>3. SeqNums(q) = {q[1].seq} \cup {q[i].seq : i \in 2..Len(q)}
    BY <1>1 DEF SeqNums
  <1>4. Increasing(Tail(q))
    <2>1. ASSUME NEW i \in DOMAIN Tail(q), NEW j \in DOMAIN Tail(q), i < j
          PROVE  Tail(q)[i].seq < Tail(q)[j].seq
      <3>1. i + 1 \in DOMAIN q /\ j + 1 \in DOMAIN q /\ i + 1 < j + 1
        BY <1>1, <2>1
      <3>2. QED
        BY <1>1, <3>1 DEF Increasing
    <2>2. QED
      BY <2>1 DEF Increasing
  <1>5. Below({q[1].seq}, {q[i].seq : i \in 2..Len(q)})
    BY <1>1 DEF Below, Increasing
  <1>6. QED
    BY <1>1, <1>2, <1>3, <1>4, <1>5

\* Adding a later entry to an increasing queue.
LEMMA QueueAppend ==
    ASSUME NEW M, NEW q \in Seq(M), NEW m,
           Increasing(q), Below(SeqNums(q), {m.seq})
    PROVE  /\ SeqNums(Append(q, m)) = SeqNums(q) \cup {m.seq}
           /\ Increasing(Append(q, m))
  <1>1. /\ Len(q) \in Nat /\ DOMAIN q = 1..Len(q)
        /\ DOMAIN Append(q, m) = 1..(Len(q) + 1)
        /\ \A i \in 1..Len(q) : Append(q, m)[i] = q[i]
        /\ Append(q, m)[Len(q) + 1] = m
    BY AppendProperties
  <1>2. SeqNums(Append(q, m)) = SeqNums(q) \cup {m.seq}
    BY <1>1 DEF SeqNums
  <1>3. ASSUME NEW i \in DOMAIN Append(q, m), NEW j \in DOMAIN Append(q, m), i < j
        PROVE  Append(q, m)[i].seq < Append(q, m)[j].seq
    <2>1. i \in DOMAIN q
      BY <1>1, <1>3
    <2>2. CASE j \in DOMAIN q
      BY <1>1, <1>3, <2>1, <2>2 DEF Increasing
    <2>3. CASE j = Len(q) + 1
      BY <1>1, <2>1, <2>3 DEF Below, SeqNums
    <2>4. QED
      BY <1>1, <2>2, <2>3
  <1>4. QED
    BY <1>2, <1>3 DEF Increasing

EventOrder ==
    \A i, j \in DOMAIN events :
      i < j /\ events[i].acked /\ events[j].acked => events[i].seq < events[j].seq

\* A report later than all acks reported before keeps the acks in order.
LEMMA ReportInOrder ==
    ASSUME TypeOK, NEW e \in Event, events' = Append(events, e), EventOrder,
           e.acked => Below(AckedSeqs, {e.seq})
    PROVE  /\ AckedSeqs' = IF e.acked THEN AckedSeqs \cup {e.seq} ELSE AckedSeqs
           /\ EventOrder'
  <1>0. events \in Seq(Event)
    BY DEF TypeOK
  <1>1. /\ Len(events) \in Nat /\ DOMAIN events = 1..Len(events)
        /\ DOMAIN events' = 1..(Len(events) + 1)
        /\ \A i \in 1..Len(events) : events'[i] = events[i]
        /\ events'[Len(events) + 1] = e
    BY <1>0, AppendProperties
  <1>2. AckedSeqs' = IF e.acked THEN AckedSeqs \cup {e.seq} ELSE AckedSeqs
    BY <1>1 DEF AckedSeqs
  <1>3. ASSUME NEW i \in DOMAIN events', NEW j \in DOMAIN events', i < j,
               events'[i].acked, events'[j].acked
        PROVE  events'[i].seq < events'[j].seq
    <2>1. i \in DOMAIN events
      BY <1>1, <1>3
    <2>2. CASE j \in DOMAIN events
      BY <1>1, <1>3, <2>1, <2>2 DEF EventOrder
    <2>3. CASE j = Len(events) + 1
      BY <1>1, <1>3, <2>1, <2>3 DEF Below, AckedSeqs
    <2>4. QED
      BY <1>1, <2>2, <2>3
  <1>4. QED
    BY <1>2, <1>3 DEF EventOrder

\* What one stage holds is below what the next holds, and a packet about to be
\* written is above them all.
OrderInv ==
    reader # "none" =>
      /\ EventOrder
      /\ Increasing(ackCh) /\ Increasing(s2c) /\ Increasing(c2s)
      /\ Below(AckedSeqs, SeqNums(ackCh) \cup SeqNums(s2c) \cup SeqNums(c2s))
      /\ Below(SeqNums(ackCh), SeqNums(s2c) \cup SeqNums(c2s))
      /\ Below(SeqNums(s2c), SeqNums(c2s))
      /\ pc = "write" =>
           Below(AckedSeqs \cup SeqNums(ackCh) \cup SeqNums(s2c) \cup SeqNums(c2s), {seq})

LEMMA LineTypes ==
    ASSUME TypeInv, reader # "none"
    PROVE  /\ ackCh \in Seq(Echo) /\ s2c \in Seq(Echo) /\ c2s \in Seq(Data)
           /\ \A m \in Echo \cup Data : m.seq \in 1..seq /\ m.seq \in Nat
           /\ AckedSeqs \cup SeqNums(ackCh) \cup SeqNums(s2c) \cup SeqNums(c2s) \subseteq 1..seq
  <1>1. /\ events \in Seq(Event)
        /\ ackCh \in Seq(Echo) /\ s2c \in Seq(Echo) /\ c2s \in Seq(Data)
    BY DEF TypeInv, TypeOK, Phase
  <1>2. seq \in Nat /\ \A m \in Echo \cup Data \cup Event : m.seq \in 1..seq /\ m.seq \in Nat
    BY DEF TypeInv, TypeOK, Echo, Data, Event
  <1>3. \A q \in {ackCh, s2c, c2s, events} : \A i \in DOMAIN q : q[i] \in Echo \cup Data \cup Event
    BY <1>1
  <1>4. SeqNums(ackCh) \subseteq 1..seq /\ SeqNums(s2c) \subseteq 1..seq /\ SeqNums(c2s) \subseteq 1..seq
    BY <1>2, <1>3 DEF SeqNums
  <1>5. AckedSeqs \subseteq 1..seq
    BY <1>2, <1>3 DEF AckedSeqs
  <1>6. QED
    BY <1>1, <1>2, <1>4, <1>5

LEMMA OrderStep ==
    ASSUME TypeInv, OrderInv, [Next]_vars
    PROVE  OrderInv'
  <1>1. CASE UNCHANGED <<events, ackCh, s2c, c2s>> /\ (reader' # "none" => reader # "none")
             /\ (pc' = "write" => pc = "write" /\ seq' = seq)
    BY <1>1 DEF OrderInv, EventOrder, Increasing, Below, SeqNums, AckedSeqs
  <1>2. CASE reader' = "none"
    BY <1>2 DEF OrderInv
  <1>3. CASE ReadAck /\ reader' # "none"
    <2>1. reader = "none" /\ c2s = <<>> /\ ackCh = <<>> /\ events = <<>>
          /\ \E a \in BOOLEAN : s2c = <<AckMsg(a)>>
      BY <1>3 DEF ReadAck, TypeInv, Phase
    <2>2. s2c' = <<>> /\ c2s' = <<>> /\ ackCh' = <<>> /\ events' = <<>> /\ pc' # "write"
      BY <1>3, <2>1 DEF ReadAck
    <2>3. AckedSeqs' = {} /\ EventOrder'
      BY <2>2 DEF AckedSeqs, EventOrder
    <2>4. QED
      BY <2>2, <2>3, EmptyQueue DEF OrderInv, Below
  <1>4. CASE (Drain \/ Window) /\ ackCh # <<>>
    <2>1. reader # "none" /\ reader' = reader /\ pc' # "write" /\ s2c' = s2c /\ c2s' = c2s
          /\ ackCh' = Tail(ackCh) /\ Settle(Head(ackCh).seq)
      BY <1>4 DEF Drain, Window, wire, TypeInv, Phase
    <2> DEFINE s == Head(ackCh).seq
    <2>2. /\ SeqNums(ackCh) = {s} \cup SeqNums(ackCh') /\ Increasing(ackCh')
          /\ Below({s}, SeqNums(ackCh'))
      BY <1>4, <2>1, LineTypes, QueueTail DEF OrderInv
    <2>3. Head(ackCh) \in Echo /\ s \in 1..seq
      BY <1>4, <2>1, LineTypes, SeqHeadTail
    <2> HIDE DEF s
    <2>4. AckedSeqs' \subseteq AckedSeqs \cup {s} /\ EventOrder'
      <3>1. CASE s \in DOMAIN pending
        <4>1. PacketEvent(s, TRUE, pending[s]) \in Event
          BY <2>3, <3>1 DEF TypeInv, TypeOK, PacketEvent, Event
        <4>2. Below(AckedSeqs, {s}) /\ EventOrder
          BY <2>1, <2>2 DEF OrderInv, Below
        <4>3. events' = Append(events, PacketEvent(s, TRUE, pending[s]))
          BY <2>1, <3>1 DEF Settle, s
        <4>4. QED
          BY <4>1, <4>2, <4>3, ReportInOrder DEF TypeInv, PacketEvent
      <3>2. CASE s \notin DOMAIN pending
        BY <2>1, <3>2 DEF Settle, s, OrderInv, EventOrder, AckedSeqs
      <3>3. QED
        BY <3>1, <3>2
    <2>5. QED
      BY <2>1, <2>2, <2>4 DEF OrderInv, Below
  <1>5. CASE Pace
    <2>1. reader # "none" /\ reader' = reader /\ UNCHANGED <<events, ackCh, s2c, c2s>> /\ seq' = seq + 1
      BY <1>5 DEF Pace, wire, TypeInv, Phase
    <2>2. seq \in Nat /\ \A x \in 1..seq : x < seq + 1
      BY DEF TypeInv, TypeOK
    <2>3. Below(AckedSeqs \cup SeqNums(ackCh) \cup SeqNums(s2c) \cup SeqNums(c2s), {seq'})
      BY <2>1, <2>2, LineTypes DEF Below
    <2>4. EventOrder' = EventOrder /\ AckedSeqs' = AckedSeqs
      BY <2>1 DEF EventOrder, AckedSeqs
    <2>5. QED
      BY <2>1, <2>3, <2>4 DEF OrderInv
  <1>6. CASE Write
    <2>1. reader # "none" /\ reader' = reader /\ UNCHANGED <<events, ackCh, s2c>> /\ pc = "write"
          /\ pc' = "sent" /\ c2s' = Append(c2s, DataMsg(seq)) /\ DataMsg(seq).seq = seq
      BY <1>6 DEF Write, TypeInv, Phase, DataMsg
    <2>2. Below(SeqNums(c2s), {seq})
      BY <2>1 DEF OrderInv, Below
    <2>3. SeqNums(c2s') = SeqNums(c2s) \cup {seq} /\ Increasing(c2s')
      BY <2>1, <2>2, LineTypes, QueueAppend DEF OrderInv
    <2>4. EventOrder' = EventOrder /\ AckedSeqs' = AckedSeqs
      BY <2>1 DEF EventOrder, AckedSeqs
    <2>5. QED
      BY <2>1, <2>3, <2>4 DEF OrderInv, Below
  <1>7. CASE Flush /\ events' # events
    <2>1. reader # "none" /\ reader' = reader /\ pc' # "write" /\ UNCHANGED <<ackCh, s2c, c2s>>
      BY <1>7 DEF Flush, wire, TypeInv, Phase
    <2>2. PICK s \in DOMAIN pending : events' = Append(events, PacketEvent(s, FALSE, pending[s]))
      BY <1>7 DEF Flush
    <2>3. PacketEvent(s, FALSE, pending[s]) \in Event
      BY <2>2 DEF TypeInv, TypeOK, PacketEvent, Event
    <2>4. AckedSeqs' = AckedSeqs /\ EventOrder'
      BY <2>1, <2>2, <2>3, ReportInOrder DEF TypeInv, PacketEvent, OrderInv
    <2>5. QED
      BY <2>1, <2>4 DEF OrderInv
  <1>8. CASE ReaderRecv
    <2>1. reader # "none" /\ reader' = reader /\ s2c # <<>> /\ ackCh' = Append(ackCh, Head(s2c))
          /\ s2c' = Tail(s2c) /\ UNCHANGED <<events, c2s, pc, seq>>
      BY <1>8 DEF ReaderRecv, client
    <2> DEFINE s == Head(s2c).seq
    <2>2. SeqNums(s2c) = {s} \cup SeqNums(s2c') /\ Increasing(s2c') /\ Below({s}, SeqNums(s2c'))
      BY <2>1, LineTypes, QueueTail DEF OrderInv
    <2>3. SeqNums(ackCh') = SeqNums(ackCh) \cup {s} /\ Increasing(ackCh')
      <3>1. Below(SeqNums(ackCh), {s})
        BY <2>1, <2>2 DEF OrderInv, Below
      <3>2. QED
        BY <2>1, <3>1, LineTypes, QueueAppend DEF OrderInv
    <2>4. EventOrder' = EventOrder /\ AckedSeqs' = AckedSeqs
      BY <2>1 DEF EventOrder, AckedSeqs
    <2> HIDE DEF s
    <2>5. QED
      BY <2>1, <2>2, <2>3, <2>4 DEF OrderInv, Below
  <1>9. CASE SrvEcho
    <2>1. reader # "none" /\ reader' = reader /\ c2s # <<>>
          /\ s2c' = Append(s2c, EchoMsg(Head(c2s).seq)) /\ EchoMsg(Head(c2s).seq).seq = Head(c2s).seq
          /\ c2s' = Tail(c2s) /\ UNCHANGED <<events, ackCh, pc, seq>>
      BY <1>9 DEF SrvEcho, client, EchoMsg, TypeInv, Phase
    <2> DEFINE s == Head(c2s).seq
    <2>2. SeqNums(c2s) = {s} \cup SeqNums(c2s') /\ Increasing(c2s') /\ Below({s}, SeqNums(c2s'))
      BY <2>1, LineTypes, QueueTail DEF OrderInv
    <2>3. SeqNums(s2c') = SeqNums(s2c) \cup {s} /\ Increasing(s2c')
      <3>1. Below(SeqNums(s2c), {s})
        BY <2>1, <2>2 DEF OrderInv, Below
      <3>2. QED
        BY <2>1, <3>1, LineTypes, QueueAppend DEF OrderInv
    <2>4. EventOrder' = EventOrder /\ AckedSeqs' = AckedSeqs
      BY <2>1 DEF EventOrder, AckedSeqs
    <2> HIDE DEF s
    <2>5. QED
      BY <2>1, <2>2, <2>3, <2>4 DEF OrderInv, Below
  <1>10. CASE Connect \/ ConnectFails \/ ReadAckFails \/ SrvHandshake
    <2>1. reader' = "none"
      BY <1>10 DEF Connect, ConnectFails, ReadAckFails, SrvHandshake, TypeInv, Phase
    <2>2. QED
      BY <2>1 DEF OrderInv
  <1>11. CASE (Drain \/ Window) /\ ackCh = <<>>
    BY <1>1, <1>11 DEF Drain, Window, wire
  <1>12. CASE Flush /\ events' = events
    <2>1. reader # "none" /\ UNCHANGED <<ackCh, s2c, c2s>> /\ pc' # "write"
      BY <1>12 DEF Flush, wire, TypeInv, Phase
    <2>2. QED
      BY <1>1, <1>12, <2>1
  <1>13. CASE LoopHead \/ Decide \/ WriteFails \/ Insert
    BY <1>1, <1>13 DEF LoopHead, Decide, WriteFails, Insert, wire
  <1>14. CASE ReaderStops \/ SrvAccept \/ SrvEof \/ SrvFails \/ Reset \/ Tick \/ UNCHANGED vars
    <2>1. UNCHANGED <<events, ackCh, s2c, c2s, pc, seq>>
      BY <1>14 DEF ReaderStops, SrvAccept, SrvEof, SrvFails, Reset, Tick, vars, client, wire
    <2>2. reader' = reader \/ reader = "reading"
      BY <1>14 DEF ReaderStops, SrvAccept, SrvEof, SrvFails, Reset, Tick, vars
    <2>3. QED
      BY <1>1, <2>1, <2>2
  <1>15. QED
    BY <1>2, <1>3, <1>4, <1>5, <1>6, <1>7, <1>8, <1>9, <1>10, <1>11, <1>12, <1>13, <1>14
    DEF Next, ClientNext, ReaderNext, ServerNext, Terminating

\* No ack overtakes another anywhere between the client and the server, and
\* none is reported twice: the engine's reordering counter stays at zero.
THEOREM AnswersInOrderCorrect == Spec => []AnswersInOrder
  <1>1. Init => TypeInv /\ OrderInv
    BY TypeInit DEF Init, OrderInv
  <1>2. (TypeInv /\ OrderInv) /\ [Next]_vars => (TypeInv /\ OrderInv)'
    BY TypeStep, OrderStep
  <1>3. OrderInv => AnswersInOrder
    BY DEF OrderInv, AnswersInOrder, EventOrder
  <1>4. QED
    BY <1>1, <1>2, <1>3, PTL DEF Spec

-----------------------------------------------------------------------------
(* The contract                                                            *)

IInv == TypeInv /\ Accounting /\ OrderInv

LEMMA IInvInductive == Spec => []IInv
  <1>1. Init => IInv
    BY TypeInit DEF Init, IInv, Accounting, Reported, InHand, OrderInv
  <1>2. IInv /\ [Next]_vars => IInv'
    BY TypeStep, AccountingStep, OrderStep DEF IInv
  <1>3. QED
    BY <1>1, <1>2, PTL DEF Spec

Status == IF pc = "done" THEN "ok" ELSE IF pc = "failed" THEN "failed" ELSE "running"
Outcomes == [s \in 1..seq |-> Outcome(s)]

LEMMA AckedReported == AckedSeqs \subseteq Reported
  BY DEF AckedSeqs, Reported

\* A report about a waiting packet is a report of the contract.
LEMMA ReportRefines ==
    ASSUME IInv, NEW s \in DOMAIN pending, NEW acked \in BOOLEAN,
           events' = Append(events, PacketEvent(s, acked, pending[s])), seq' = seq,
           acked => Below(AckedSeqs, {s}),
           Status = "running", Status' = "running"
    PROVE  IF acked THEN Contract!ReportAcked(s) ELSE Contract!ReportLost(s)
  <1>1. s \in 1..seq /\ s \notin Reported /\ s \notin AckedSeqs /\ reader # "none"
    <2>1. s \in 1..seq /\ s \notin Reported
      BY DEF IInv, TypeInv, TypeOK, Accounting
    <2>2. reader # "none"
      BY DEF IInv, TypeInv, Phase
    <2>3. QED
      BY <2>1, <2>2, AckedReported
  <1>2. PacketEvent(s, acked, pending[s]) \in Event
    BY <1>1 DEF IInv, TypeInv, TypeOK, PacketEvent, Event
  <1>3. AckedSeqs' = IF acked THEN AckedSeqs \cup {s} ELSE AckedSeqs
    <2>1. EventOrder
      BY <1>1 DEF IInv, OrderInv
    <2>2. QED
      BY <1>2, <2>1, ReportInOrder DEF IInv, TypeInv, PacketEvent
  <1>4. Reported' = Reported \cup {s}
    <2>1. PacketEvent(s, acked, pending[s]).seq = s
      BY DEF PacketEvent
    <2>2. QED
      BY <1>1, <1>2, <2>1, ReportOnce DEF IInv, Accounting, NoDoubleReport
  <1>5. Outcome(s) = "open" /\ Outcomes[s] = "open"
    BY <1>1 DEF Outcome, Outcomes
  <1>6. Outcomes' = [Outcomes EXCEPT ![s] = IF acked THEN "acked" ELSE "lost"]
    <2>1. \A t \in 1..seq : t # s => Outcome(t)' = Outcome(t)
      BY <1>3, <1>4 DEF Outcome
    <2>2. Outcome(s)' = IF acked THEN "acked" ELSE "lost"
      BY <1>1, <1>3, <1>4 DEF Outcome
    <2>3. QED
      BY <2>1, <2>2 DEF Outcomes
  <1>7. \A t \in 1..seq : Outcomes[t] = "acked" => t \in AckedSeqs
    BY DEF Outcomes, Outcome
  <1>8. QED
    BY <1>5, <1>6, <1>7 DEF Below, Contract!ReportAcked, Contract!ReportLost, Status, Outcomes

LEMMA ContractStep ==
    ASSUME IInv, [Next]_vars
    PROVE  [Contract!Next]_(Contract!vars)
  <1>0. TypeInv
    BY DEF IInv
  <1>1. CASE Pace
    <2>1. Status = "running" /\ Status' = "running" /\ seq' = seq + 1 /\ events' = events
      BY <1>1 DEF Pace, Status
    <2>2. AckedSeqs' = AckedSeqs /\ Reported' = Reported /\ Reported \subseteq 1..seq
          /\ seq \in Nat
      <3>1. \A i \in DOMAIN events : events[i].seq \in 1..seq
        <4>1. \A i \in DOMAIN events : events[i] \in Event
          BY <1>0 DEF TypeInv, TypeOK
        <4>2. QED
          BY <4>1 DEF Event
      <3>2. seq \in Nat
        BY <1>0 DEF TypeInv, TypeOK
      <3>3. QED
        BY <2>1, <3>1, <3>2 DEF AckedSeqs, Reported
    <2>3. Outcomes' = [s \in 1..seq' |-> IF s \in 1..seq THEN Outcomes[s] ELSE "open"]
      <3>1. \A s \in 1..seq' : Outcome(s)' = IF s \in 1..seq THEN Outcome(s) ELSE "open"
        BY <2>2, AckedReported DEF Outcome
      <3>2. QED
        BY <3>1 DEF Outcomes
    <2>4. Contract!Send
      BY <2>1, <2>3 DEF Contract!Send, Status, Outcomes
    <2>5. QED
      BY <2>4 DEF Contract!Next
  <1>2. ASSUME UNCHANGED <<seq, events>>, Status' = Status
        PROVE  UNCHANGED Contract!vars
    <2>1. AckedSeqs' = AckedSeqs /\ Reported' = Reported
      BY <1>2 DEF AckedSeqs, Reported
    <2>2. Outcomes' = Outcomes
      BY <1>2, <2>1 DEF Outcomes, Outcome
    <2>3. QED
      BY <1>2, <2>2 DEF Contract!vars, Outcomes, Status
  <1>3. CASE Write \/ Insert
    BY <1>2, <1>3 DEF Write, Insert, Status
  <1>4. ASSUME UNCHANGED <<seq, events>>, Status = "running", Status' = "failed"
        PROVE  Contract!Fail
    <2>1. AckedSeqs' = AckedSeqs /\ Reported' = Reported
      BY <1>4 DEF AckedSeqs, Reported
    <2>2. Outcomes' = Outcomes
      BY <1>4, <2>1 DEF Outcomes, Outcome
    <2>3. QED
      BY <1>4, <2>2 DEF Contract!Fail, Outcomes, Status
  <1>5. CASE WriteFails
    <2>1. UNCHANGED <<seq, events>> /\ Status = "running" /\ Status' = "failed"
      BY <1>5 DEF WriteFails, Status
    <2>2. QED
      BY <1>4, <2>1 DEF Contract!Next
  <1>6. CASE SettleStep
    <2>1. Status = "running" /\ Status' = "running" /\ seq' = seq
      BY <1>6 DEF SettleStep, Status
    <2>2. CASE events' = events
      BY <1>2, <2>1, <2>2
    <2>3. CASE events' # events
      <3>1. PICK s \in 1..seq : Settle(s) /\ s \in SeqNums(ackCh)
        BY <1>6 DEF SettleStep
      <3>2. s \in DOMAIN pending /\ events' = Append(events, PacketEvent(s, TRUE, pending[s]))
        BY <2>3, <3>1 DEF Settle
      <3>3. Below(AckedSeqs, {s})
        <4>1. reader # "none"
          BY <1>0, <3>2 DEF TypeInv, Phase
        <4>2. QED
          BY <3>1, <4>1 DEF IInv, OrderInv, Below
      <3>4. Contract!ReportAcked(s)
        BY <2>1, <3>2, <3>3, ReportRefines
      <3>5. QED
        BY <3>1, <3>4 DEF Contract!Next
    <2>4. QED
      BY <2>2, <2>3
  <1>7. CASE LoseStep
    <2>1. Status = "running" /\ Status' = "running" /\ seq' = seq
      BY <1>7 DEF LoseStep, Status
    <2>2. PICK s \in DOMAIN pending : events' = Append(events, PacketEvent(s, FALSE, pending[s]))
      BY <1>7 DEF LoseStep
    <2>3. Contract!ReportLost(s)
      BY <2>1, <2>2, ReportRefines
    <2>4. s \in 1..seq
      BY <1>0 DEF TypeInv, TypeOK
    <2>5. QED
      BY <2>3, <2>4 DEF Contract!Next
  <1>8. CASE IdleStep
    <2>1. UNCHANGED <<seq, events, pending>>
      BY <1>8 DEF IdleStep
    <2>2. CASE Status' = Status
      BY <1>2, <2>1, <2>2
    <2>3. CASE Status' # Status /\ pc' = "failed"
      <3>1. Status = "running" /\ Status' = "failed"
        BY <1>8, <2>3 DEF IdleStep, Status, Finished
      <3>2. QED
        BY <1>4, <2>1, <3>1 DEF Contract!Next
    <2>4. CASE Status' # Status /\ pc' = "done"
      <3>1. Status = "running" /\ Status' = "ok" /\ DOMAIN pending = {} /\ InHand = {} /\ pc # "failed"
        BY <1>8, <2>4 DEF IdleStep, Status, Finished, InHand
      <3>2. \A s \in 1..seq : Outcomes[s] # "open"
        BY <3>1 DEF IInv, Accounting, Outcomes, Outcome
      <3>3. Outcomes' = Outcomes
        BY <2>1 DEF Outcomes, Outcome, AckedSeqs, Reported
      <3>4. Contract!Finish
        BY <2>1, <3>1, <3>2, <3>3 DEF Contract!Finish, Outcomes, Status
      <3>5. QED
        BY <3>4 DEF Contract!Next
    <2>5. QED
      BY <1>8, <2>2, <2>3, <2>4 DEF IdleStep, Status, Finished
  <1>9. QED
    BY <1>0, <1>1, <1>3, <1>5, <1>6, <1>7, <1>8, StepKinds

\* Every behaviour of the stream is one the contract allows.
THEOREM ContractImplemented == Spec => ImplementsContract
  <1>1. Init => Contract!Init
    BY DEF Init, Contract!Init, Outcome
  <1>2. Spec => []IInv
    BY IInvInductive
  <1>3. IInv /\ [Next]_vars => [Contract!Next]_(Contract!vars)
    BY ContractStep
  <1>4. QED
    BY <1>1, <1>2, <1>3, PTL DEF Spec, ImplementsContract, Contract!Spec
-----------------------------------------------------------------------------
(* The pacing schedule                                                     *)

\* The schedule is the slot of the next packet, and the slot of the last one
\* has begun: neither is visible in the bound on `nextSend` alone.
PaceInv ==
    /\ nextSend = seq * Delay
    /\ seq > 0 => (seq - 1) * Delay <= now

LEMMA PaceStep ==
    ASSUME TypeInv, PaceInv, [Next]_vars
    PROVE  PaceInv'
  <1>0. now \in Nat /\ seq \in Nat /\ nextSend \in Nat /\ Delay \in Nat
    BY ConstantTypes DEF TypeInv, TypeOK
  <1>1. CASE Pace
    <2>1. seq' = seq + 1 /\ nextSend' = nextSend + Delay /\ now' = now /\ now >= nextSend
      BY <1>1 DEF Pace, ScheduleReached
    <2>2. (seq + 1) * Delay = seq * Delay + Delay /\ (seq + 1) - 1 = seq
      BY <1>0
    <2>3. QED
      BY <1>0, <2>1, <2>2 DEF PaceInv
  <1>2. CASE UNCHANGED <<seq, nextSend>> /\ (now' = now \/ now' = now + 1)
    <2>1. seq * Delay \in Nat /\ (seq > 0 => (seq - 1) * Delay \in Nat)
      BY <1>0
    <2>2. QED
      BY <1>0, <1>2, <2>1 DEF PaceInv
  <1>3. CASE ReaderNext \/ ServerNext \/ Reset \/ Tick \/ UNCHANGED vars
    BY <1>2, <1>3 DEF ReaderNext, ReaderRecv, ReaderStops, ServerNext, SrvAccept, SrvHandshake,
       SrvEcho, SrvEof, SrvFails, Reset, Tick, vars, client
  <1>4. CASE Connect \/ ConnectFails \/ ReadAck \/ ReadAckFails \/ LoopHead \/ Drain \/ Decide
             \/ Window \/ Write \/ WriteFails \/ Insert \/ Flush
    BY <1>2, <1>4 DEF Connect, ConnectFails, ReadAck, ReadAckFails, LoopHead, Drain, Decide,
       Window, Write, WriteFails, Insert, Flush
  <1>5. QED
    BY <1>1, <1>3, <1>4 DEF Next, ClientNext, Terminating

\* No packet is sent before its slot, and the schedule never runs ahead.
THEOREM PacingCorrect == Spec => []PacingSchedule
  <1>1. Init => TypeInv /\ PaceInv
    BY TypeInit, ConstantTypes DEF Init, PaceInv
  <1>2. (TypeInv /\ PaceInv) /\ [Next]_vars => (TypeInv /\ PaceInv)'
    BY TypeStep, PaceStep
  <1>3. TypeInv /\ PaceInv => PacingSchedule
    <2> SUFFICES ASSUME TypeInv, PaceInv PROVE PacingSchedule
      OBVIOUS
    <2>0. now \in Nat /\ seq \in Nat /\ Delay \in Nat
      BY ConstantTypes DEF TypeInv, TypeOK
    <2>1. seq * Delay = (seq - 1) * Delay + Delay /\ (seq = 0 => seq * Delay = 0)
      BY <2>0
    <2>2. QED
      BY <2>0, <2>1 DEF PaceInv, PacingSchedule
  <1>4. QED
    BY <1>1, <1>2, <1>3, PTL DEF Spec

-----------------------------------------------------------------------------
(* The warm-up                                                             *)

\* The cut holds because a measured packet was entered after the end of the
\* warm-up and packets are entered in the order of their numbers.
WarmupInv ==
    /\ WarmupIsPrefix
    /\ \A s \in 1..seq : Marked(s, TRUE) => now >= WarmupUntil

\* A report passes the mark of its packet on.
LEMMA ReportKeepsMarks ==
    ASSUME TypeInv, NEW s \in DOMAIN pending, NEW acked \in BOOLEAN,
           events' = Append(events, PacketEvent(s, acked, pending[s])),
           pending' = Restrict(pending, DOMAIN pending \ {s})
    PROVE  \A t \in 1..seq, b \in BOOLEAN : Marked(t, b)' => Marked(t, b)
  <1>1. events \in Seq(Event)
    BY DEF TypeInv, TypeOK
  <1> DEFINE e == PacketEvent(s, acked, pending[s])
  <1>2. e.seq = s /\ e.measured = pending[s]
    BY DEF PacketEvent
  <1> HIDE DEF e
  <1>3. events' = Append(events, e)
    BY DEF e
  <1>4. \A i \in DOMAIN events' : (i \in DOMAIN events /\ events'[i] = events[i]) \/ events'[i] = e
    BY <1>1, <1>3
  <1>5. DOMAIN pending' \subseteq DOMAIN pending /\ \A t \in DOMAIN pending' : pending'[t] = pending[t]
    BY DEF Restrict
  <1>6. \A t \in 1..seq, b \in BOOLEAN :
          t \in DOMAIN pending' /\ pending'[t] = b => t \in DOMAIN pending /\ pending[t] = b
    BY <1>5
  <1>7. \A t \in 1..seq, b \in BOOLEAN :
          (\E i \in DOMAIN events' : events'[i].seq = t /\ events'[i].measured = b) =>
            \/ t \in DOMAIN pending /\ pending[t] = b
            \/ \E i \in DOMAIN events : events[i].seq = t /\ events[i].measured = b
    BY <1>2, <1>4
  <1>8. QED
    BY <1>6, <1>7, Zenon DEF Marked

LEMMA MarksKept ==
    ASSUME TypeInv, WarmupInv, seq' = seq, now' \in Nat, now' >= now,
           \A t \in 1..seq, b \in BOOLEAN : Marked(t, b)' => Marked(t, b)
    PROVE  WarmupInv'
  <1>1. now \in Nat /\ WarmupUntil \in Nat /\ WarmupUntil' = WarmupUntil
    BY ConstantTypes DEF TypeInv, TypeOK, WarmupUntil
  <1>2. WarmupIsPrefix'
    BY DEF WarmupInv, WarmupIsPrefix
  <1>3. ASSUME NEW s \in 1..seq, Marked(s, TRUE)' PROVE now' >= WarmupUntil'
    <2>1. Marked(s, TRUE)
      BY <1>3
    <2>2. now >= WarmupUntil
      BY <2>1 DEF WarmupInv
    <2>3. QED
      BY <1>1, <2>2
  <1>4. QED
    BY <1>2, <1>3 DEF WarmupInv

LEMMA WarmupStep ==
    ASSUME IInv, WarmupInv, [Next]_vars
    PROVE  WarmupInv'
  <1>0. /\ TypeInv /\ now \in Nat /\ now >= now /\ seq \in Nat
        /\ DOMAIN pending \subseteq 1..seq
        /\ \A i \in DOMAIN events : events[i].seq \in 1..seq
    <2>1. TypeInv /\ now \in Nat /\ seq \in Nat /\ DOMAIN pending \subseteq 1..seq
      BY DEF IInv, TypeInv, TypeOK
    <2>2. \A i \in DOMAIN events : events[i] \in Event
      BY DEF IInv, TypeInv, TypeOK
    <2>3. QED
      BY <2>1, <2>2 DEF Event
  <1>1. CASE UNCHANGED <<pending, events, seq>> /\ now' \in Nat /\ now' >= now
    <2>1. \A t \in 1..seq, b \in BOOLEAN : Marked(t, b)' => Marked(t, b)
      BY <1>1 DEF Marked
    <2>2. QED
      BY <1>0, <1>1, <2>1, MarksKept
  <1>2. CASE Pace
    <2>1. UNCHANGED <<pending, events, now>> /\ seq' = seq + 1
      BY <1>2 DEF Pace
    <2>2. \A t, b : Marked(t, b)' => Marked(t, b) /\ t \in 1..seq
      BY <1>0, <2>1 DEF Marked
    <2>3. WarmupIsPrefix'
      BY <2>2 DEF WarmupInv, WarmupIsPrefix
    <2>4. \A s \in 1..seq' : Marked(s, TRUE)' => now' >= WarmupUntil'
      BY <2>1, <2>2 DEF WarmupInv, WarmupUntil
    <2>5. QED
      BY <2>3, <2>4 DEF WarmupInv
  <1>3. CASE Insert
    <2>1. /\ UNCHANGED <<seq, now, events>>
          /\ pending' = [s \in DOMAIN pending \cup {seq} |->
                            IF s = seq THEN MeasuredNow ELSE pending[s]]
          /\ seq \notin Reported
      BY <1>3 DEF Insert, IInv, Accounting, InHand
    <2>2. \A t \in 1..seq, b \in BOOLEAN : t # seq /\ Marked(t, b)' => Marked(t, b)
      BY <2>1 DEF Marked
    <2>3. \A t \in 1..seq, b \in BOOLEAN : t = seq /\ Marked(t, b)' => b = MeasuredNow
      BY <2>1 DEF Marked, Reported
    <2>4. WarmupIsPrefix'
      <3> SUFFICES ASSUME NEW s \in 1..seq, NEW t \in 1..seq, s < t,
                          Marked(s, TRUE)', Marked(t, FALSE)'
                   PROVE  FALSE
        BY <2>1 DEF WarmupIsPrefix
      <3>0. s # seq
        BY <1>0
      <3>1. Marked(s, TRUE)
        BY <2>2, <3>0
      <3>2. CASE t = seq
        <4>1. now >= WarmupUntil
          BY <3>1 DEF WarmupInv
        <4>2. FALSE = MeasuredNow
          BY <2>3, <3>2
        <4>3. QED
          BY <4>1, <4>2 DEF MeasuredNow
      <3>3. CASE t # seq
        BY <2>2, <3>1, <3>3 DEF WarmupInv, WarmupIsPrefix
      <3>4. QED
        BY <3>2, <3>3
    <2>5. ASSUME NEW s \in 1..seq, Marked(s, TRUE)' PROVE now >= WarmupUntil
      <3>1. CASE s = seq
        <4>1. TRUE = MeasuredNow
          BY <2>3, <2>5, <3>1
        <4>2. QED
          BY <4>1 DEF MeasuredNow
      <3>2. CASE s # seq
        BY <2>2, <2>5, <3>2 DEF WarmupInv
      <3>3. QED
        BY <3>1, <3>2
    <2>6. QED
      BY <2>1, <2>4, <2>5 DEF WarmupInv, WarmupUntil
  <1>4. CASE SettleStep
    <2>1. PICK s \in 1..seq : Settle(s)
      BY <1>4 DEF SettleStep
    <2>2. seq' = seq /\ now' = now
      BY <1>4 DEF SettleStep
    <2>3. \A t \in 1..seq, b \in BOOLEAN : Marked(t, b)' => Marked(t, b)
      <3>1. CASE s \in DOMAIN pending
        BY <1>0, <2>1, <3>1, ReportKeepsMarks DEF Settle
      <3>2. CASE s \notin DOMAIN pending
        <4>1. events' = events /\ DOMAIN pending' \subseteq DOMAIN pending
              /\ \A t \in DOMAIN pending' : pending'[t] = pending[t]
          BY <2>1, <3>2 DEF Settle, Restrict
        <4>2. QED
          BY <4>1 DEF Marked
      <3>3. QED
        BY <3>1, <3>2
    <2>4. QED
      BY <1>0, <2>2, <2>3, MarksKept
  <1>5. CASE LoseStep
    <2>1. PICK s \in DOMAIN pending :
            /\ events' = Append(events, PacketEvent(s, FALSE, pending[s]))
            /\ pending' = Restrict(pending, DOMAIN pending \ {s})
      BY <1>5 DEF LoseStep
    <2>2. seq' = seq /\ now' = now
      BY <1>5 DEF LoseStep
    <2>3. \A t \in 1..seq, b \in BOOLEAN : Marked(t, b)' => Marked(t, b)
      BY <1>0, <2>1, ReportKeepsMarks
    <2>4. QED
      BY <1>0, <2>2, <2>3, MarksKept
  <1>6. CASE Write \/ WriteFails \/ IdleStep
    BY <1>0, <1>1, <1>6 DEF Write, WriteFails, IdleStep
  <1>7. QED
    BY <1>0, <1>2, <1>3, <1>4, <1>5, <1>6, StepKinds

\* After the first measured packet every packet is measured.
THEOREM WarmupCorrect == Spec => []WarmupIsPrefix
  <1>1. Init => WarmupInv
    BY DEF Init, WarmupInv, WarmupIsPrefix, Marked
  <1>2. IInv /\ WarmupInv /\ [Next]_vars => WarmupInv'
    BY WarmupStep
  <1>3. WarmupInv => WarmupIsPrefix
    BY DEF WarmupInv
  <1>4. QED
    BY <1>1, <1>2, <1>3, IInvInductive, PTL DEF Spec

-----------------------------------------------------------------------------
(* Nothing is dropped                                                      *)

OnTheLine == SeqNums(ackCh) \cup SeqNums(s2c) \cup SeqNums(c2s)
Unanswered == DOMAIN pending \cup (IF pc = "sent" THEN {seq} ELSE {})

LEMMA SeqNumsAppend ==
    ASSUME NEW M, NEW q \in Seq(M), NEW m
    PROVE  SeqNums(Append(q, m)) = SeqNums(q) \cup {m.seq}
  <1>1. /\ Len(q) \in Nat /\ DOMAIN q = 1..Len(q)
        /\ DOMAIN Append(q, m) = 1..(Len(q) + 1)
        /\ \A i \in 1..Len(q) : Append(q, m)[i] = q[i]
        /\ Append(q, m)[Len(q) + 1] = m
    BY AppendProperties
  <1>2. QED
    BY <1>1 DEF SeqNums

LEMMA NothingDroppedStep ==
    ASSUME IInv, NothingDropped, [Next]_vars
    PROVE  NothingDropped'
  <1>0. TypeInv
    BY DEF IInv
  <1> SUFFICES ASSUME conn' = "open", reader' = "reading" PROVE (Unanswered \subseteq OnTheLine)'
    BY DEF NothingDropped, OnTheLine, Unanswered
  <1>1. CASE ReadAck
    <2>1. reader = "none" /\ pc' # "sent" /\ pending' = pending
      BY <1>1 DEF ReadAck, IInv, TypeInv, Phase
    <2>2. QED
      BY <2>1 DEF IInv, TypeInv, Phase, Unanswered
  <1>2. ASSUME conn = "open", reader = "reading" PROVE (Unanswered \subseteq OnTheLine)'
    <2>0. /\ ackCh \in Seq(Echo) /\ s2c \in Seq(Echo) /\ c2s \in Seq(Data)
          /\ \A m \in Echo \cup Data : m.seq \in Nat
      BY <1>0, <1>2, LineTypes
    <2>1. Increasing(ackCh) /\ Increasing(s2c) /\ Increasing(c2s)
      BY <1>2 DEF IInv, OrderInv
    <2>2. Unanswered \subseteq OnTheLine
      BY <1>2 DEF NothingDropped, OnTheLine, Unanswered
    <2>3. CASE UNCHANGED <<ackCh, s2c, c2s>> /\ Unanswered' \subseteq Unanswered
      <3>1. OnTheLine' = OnTheLine
        BY <2>3 DEF OnTheLine
      <3>2. QED
        BY <2>2, <2>3, <3>1
    <2>4. CASE (Drain \/ Window) /\ ackCh # <<>>
      <3>1. /\ pc # "sent" /\ pc' # "sent" /\ ackCh' = Tail(ackCh) /\ UNCHANGED <<s2c, c2s>>
            /\ pending' = Restrict(pending, DOMAIN pending \ {Head(ackCh).seq})
        BY <2>4 DEF Drain, Window, Settle, wire
      <3>2. SeqNums(ackCh) = {Head(ackCh).seq} \cup SeqNums(ackCh')
        BY <2>0, <2>1, <2>4, <3>1, QueueTail
      <3>3. Unanswered' = Unanswered \ {Head(ackCh).seq}
        BY <3>1 DEF Unanswered, Restrict
      <3>4. OnTheLine \subseteq OnTheLine' \cup {Head(ackCh).seq}
        BY <3>1, <3>2 DEF OnTheLine
      <3>5. QED
        BY <2>2, <3>3, <3>4
    <2>5. CASE Write
      <3>1. UNCHANGED <<ackCh, s2c, pending, seq>> /\ c2s' = Append(c2s, DataMsg(seq))
            /\ pc' = "sent" /\ pc = "write"
        BY <2>5 DEF Write
      <3>2. SeqNums(c2s') = SeqNums(c2s) \cup {seq}
        BY <2>0, <3>1, SeqNumsAppend DEF DataMsg
      <3>3. QED
        BY <2>2, <3>1, <3>2 DEF Unanswered, OnTheLine
    <2>6. CASE Insert
      <3>1. UNCHANGED <<ackCh, s2c, c2s>> /\ Unanswered' = Unanswered
        BY <2>6 DEF Insert, wire, Unanswered
      <3>2. QED
        BY <2>3, <3>1
    <2>7. CASE ReaderRecv
      <3>1. /\ UNCHANGED <<pc, seq, pending, c2s>> /\ s2c # <<>>
            /\ s2c' = Tail(s2c) /\ ackCh' = Append(ackCh, Head(s2c))
        BY <2>7 DEF ReaderRecv, client
      <3>2. SeqNums(s2c) = {Head(s2c).seq} \cup SeqNums(s2c')
        BY <2>0, <2>1, <3>1, QueueTail
      <3>3. SeqNums(ackCh') = SeqNums(ackCh) \cup {Head(s2c).seq}
        BY <2>0, <3>1, SeqNumsAppend
      <3>4. Unanswered' = Unanswered /\ OnTheLine' = OnTheLine
        BY <3>1, <3>2, <3>3 DEF Unanswered, OnTheLine
      <3>5. QED
        BY <2>2, <3>4
    <2>8. CASE SrvEcho
      <3>1. /\ UNCHANGED <<pc, seq, pending, ackCh>> /\ c2s # <<>>
            /\ c2s' = Tail(c2s) /\ s2c' = Append(s2c, EchoMsg(Head(c2s).seq))
        BY <2>8 DEF SrvEcho, client
      <3>2. SeqNums(c2s) = {Head(c2s).seq} \cup SeqNums(c2s')
        BY <2>0, <2>1, <3>1, QueueTail
      <3>3. SeqNums(s2c') = SeqNums(s2c) \cup {Head(c2s).seq}
        BY <2>0, <3>1, SeqNumsAppend DEF EchoMsg
      <3>4. Unanswered' = Unanswered /\ OnTheLine' = OnTheLine
        BY <3>1, <3>2, <3>3 DEF Unanswered, OnTheLine
      <3>5. QED
        BY <2>2, <3>4
    <2>9. CASE SrvHandshake \/ Connect \/ ConnectFails \/ ReadAckFails
      BY <1>0, <1>2, <2>9 DEF SrvHandshake, Connect, ConnectFails, ReadAckFails, TypeInv, Phase
    <2>10. CASE Flush
      <3>1. UNCHANGED <<ackCh, s2c, c2s>> /\ pc # "sent" /\ pc' # "sent"
            /\ DOMAIN pending' \subseteq DOMAIN pending
        BY <2>10 DEF Flush, wire, Restrict
      <3>2. QED
        BY <2>3, <3>1 DEF Unanswered
    <2>11. CASE (Drain \/ Window) /\ ackCh = <<>>
      BY <2>3, <2>11 DEF Drain, Window, wire, Unanswered
    <2>12. CASE LoopHead \/ Decide \/ Pace \/ WriteFails
      BY <2>3, <2>12 DEF LoopHead, Decide, Pace, WriteFails, wire, Unanswered
    <2>13. CASE ReaderStops \/ SrvAccept \/ SrvEof \/ SrvFails \/ Reset \/ Tick \/ UNCHANGED vars
      BY <2>3, <2>13 DEF ReaderStops, SrvAccept, SrvEof, SrvFails, Reset, Tick, vars, client, wire,
         Unanswered
    <2>14. QED
      BY <1>1, <2>4, <2>5, <2>6, <2>7, <2>8, <2>9, <2>10, <2>11, <2>12, <2>13
      DEF Next, ClientNext, ReaderNext, ServerNext, Terminating
  <1>3. CASE ~(conn = "open" /\ reader = "reading") /\ ~ReadAck
    \* Connect opens the connection before there is a reader.
    BY <1>0, <1>3 DEF Next, ClientNext, ReaderNext, ServerNext, Terminating, vars, wire,
       Connect, ConnectFails, ReadAckFails, LoopHead, Drain, Decide, Window, Pace, Write,
       WriteFails, Insert, Flush, ReaderRecv, ReaderStops, SrvAccept, SrvHandshake, SrvEcho,
       SrvEof, SrvFails, Reset, Tick, TypeInv, TypeOK, Phase
  <1>4. QED
    BY <1>1, <1>2, <1>3

\* On a connection that was never reset each packet without an answer is still
\* in the line.
THEOREM NothingDroppedCorrect == Spec => []NothingDropped
  <1>1. Init => NothingDropped
    BY DEF Init, NothingDropped
  <1>2. IInv /\ NothingDropped /\ [Next]_vars => NothingDropped'
    BY NothingDroppedStep
  <1>3. QED
    BY <1>1, <1>2, IInvInductive, PTL DEF Spec
=============================================================================
