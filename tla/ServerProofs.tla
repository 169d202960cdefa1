----------------------------- MODULE ServerProofs -----------------------------
(***************************************************************************)
(* Theorems about Server, for every range of ports and every instance of   *)
(* the accept loop: the composed server implements TcpServer, so what is   *)
(* proved of the loop alone holds of the loop beside UDP and QUIC.         *)
(***************************************************************************)
EXTENDS Server, TcpServerProofs

FrontTypes ==
    /\ transport \in Servers \cup {"all"} /\ port \in 0..MaxPort
    /\ task \in [Servers -> {"unwanted", "unbound", "up", "ended"}]
    /\ at \in [Servers -> 0..MaxPort \cup {NoPort}]
    /\ process \in {"running", "failed", "ok"}
    /\ \A s \in Servers : task[s] = "up" <=> at[s] # NoPort

\* What the tasks say of the process.  Only a QUIC endpoint ends without it.
Tasks ==
    /\ process = "running" => up
    /\ \A s \in Servers : s \notin Wanted <=> task[s] = "unwanted"
    /\ process # "running" => \A s \in Servers : task[s] \in {"unwanted", "ended"}
    /\ process = "running" =>
         /\ task["tcp"] # "ended" /\ task["udp"] # "ended"
         /\ Wanted = {"quic"} => task["quic"] # "ended"

\* Where the servers of --transport all are.  That QUIC could be bound beside
\* UDP is what shows that nothing was saturated.
BoundPlaces ==
    transport = "all" =>
      /\ task["tcp"] = "up" /\ port # 0 => at["tcp"] = port
      /\ task["udp"] = "up" => at["udp"] = SaturatingAdd(port, 1)
      /\ task["quic"] = "up" => at["quic"] = SaturatingAdd(port, 2)
      /\ process = "running" /\ task["quic"] # "unbound" => port + 2 <= MaxPort

Quiet == process # "running" => \A c \in Clients : state[c] \in {"away", "over", "cut"}

SInv == FrontTypes /\ Tasks /\ BoundPlaces /\ Quiet

-----------------------------------------------------------------------------
(* Lemmas                                                                  *)

LEMMA PortTypes ==
    /\ MaxPort \in Nat \ {0} /\ Ports \subseteq 0..MaxPort
    /\ Ephemeral \subseteq 1..MaxPort /\ NoPort \notin Nat
  BY PortAssumption

LEMMA WantedServers ==
    /\ Servers = {"tcp", "udp", "quic"}
    /\ Offset["tcp"] = 0 /\ Offset["udp"] = 1 /\ Offset["quic"] = 2
    /\ transport = "all" => Wanted = Servers
  BY DEF Servers, Offset, Wanted

LEMMA Saturates ==
    ASSUME NEW p \in 0..MaxPort, NEW n \in {0, 1, 2}
    PROVE  /\ SaturatingAdd(p, n) \in 0..MaxPort
           /\ n > 0 => SaturatingAdd(p, n) # 0
           /\ SaturatingAdd(p, 0) = p
           /\ p + n <= MaxPort => SaturatingAdd(p, n) = p + n
           /\ p + 2 > MaxPort => SaturatingAdd(p, 1) = SaturatingAdd(p, 2)
  BY PortTypes DEF SaturatingAdd

\* The end of the process puts every server and every client where it belongs.
LEMMA StopHolds ==
    ASSUME SInv, IInv, Cut, NEW r \in {"failed", "ok"}, Stop(r)
    PROVE  SInv'
  <1>0. FrontTypes /\ Tasks
    BY DEF SInv
  <1>1. /\ process' = r /\ transport' = transport /\ port' = port
        /\ task' = [s \in Servers |-> IF s \in Wanted THEN "ended" ELSE "unwanted"]
        /\ at' = [s \in Servers |-> NoPort]
    BY DEF Stop
  <1>2. Wanted' = Wanted
    BY <1>1 DEF Wanted
  <1>3. FrontTypes'
    BY <1>0, <1>1 DEF FrontTypes
  <1>4. Tasks'
    BY <1>1, <1>2 DEF Tasks
  <1>5. BoundPlaces'
    BY <1>1, WantedServers DEF BoundPlaces
  <1>6. Quiet'
    <2>1. state \in [Clients -> {"away", "backlog", "held", "served", "over", "cut"}]
      BY DEF IInv, Types
    <2>2. \A c \in Clients :
            state'[c] = IF state[c] \in {"backlog", "held", "served"} THEN "cut" ELSE state[c]
      BY DEF Cut
    <2>3. \A c \in Clients : state'[c] \in {"away", "over", "cut"}
      BY <2>1, <2>2
    <2> QED BY <2>3 DEF Quiet
  <1> QED BY <1>3, <1>4, <1>5, <1>6 DEF SInv

-----------------------------------------------------------------------------
(* The invariant                                                           *)

LEMMA ServerInitHolds == ServerInit => SInv
  <1> SUFFICES ASSUME ServerInit PROVE SInv
    OBVIOUS
  <1>1. /\ transport \in Servers \cup {"all"} /\ port \in 0..MaxPort /\ process = "running"
        /\ task = [s \in Servers |-> IF s \in Wanted THEN "unbound" ELSE "unwanted"]
        /\ at = [s \in Servers |-> NoPort] /\ up
    BY PortTypes DEF ServerInit, Init
  <1>2. FrontTypes
    BY <1>1 DEF FrontTypes
  <1>3. Tasks
    BY <1>1, WantedServers DEF Tasks
  <1>4. BoundPlaces
    BY <1>1, WantedServers DEF BoundPlaces
  <1> QED BY <1>1, <1>2, <1>3, <1>4 DEF SInv, Quiet

LEMMA ServerStepHolds == SInv /\ IInv /\ [ServerSpecNext]_allVars => SInv'
  <1> SUFFICES ASSUME SInv, IInv, [ServerSpecNext]_allVars PROVE SInv'
    OBVIOUS
  <1>0. FrontTypes /\ Tasks /\ BoundPlaces /\ Quiet
    BY DEF SInv
  <1>1. ASSUME NEW s \in Servers, Bind(s) PROVE SInv'
    <2>1. PICK p \in 1..MaxPort :
            /\ at' = [at EXCEPT ![s] = p] /\ ~Taken(s, p)
            /\ p = BindPort(s) \/ BindPort(s) = 0
      <3>1. BindPort(s) \in 0..MaxPort
        BY <1>0, WantedServers, Saturates DEF BindPort, FrontTypes
      <3>2. CASE BindPort(s) = 0
        BY <1>1, <3>2, PortTypes DEF Bind
      <3>3. CASE BindPort(s) # 0
        <4>1. ~Taken(s, BindPort(s)) /\ at' = [at EXCEPT ![s] = BindPort(s)]
          BY <1>1, <3>3 DEF Bind
        <4>2. BindPort(s) \in 1..MaxPort
          BY <3>1, <3>3, PortTypes
        <4> QED BY <4>1, <4>2
      <3> QED BY <3>2, <3>3
    <2>2. /\ process = "running" /\ task[s] = "unbound"
          /\ \A r \in Servers : Offset[r] < Offset[s] => task[r] # "unbound"
          /\ task' = [task EXCEPT ![s] = "up"]
          /\ UNCHANGED <<vars, transport, port, process>>
      BY <1>1 DEF Bind, Turn
    <2>3. up' = up /\ state' = state /\ Wanted' = Wanted
      BY <2>2 DEF vars, Wanted
    <2>4. \A r \in Servers : /\ task'[r] = IF r = s THEN "up" ELSE task[r]
                             /\ at'[r] = IF r = s THEN p ELSE at[r]
      BY <1>0, <2>1, <2>2 DEF FrontTypes
    <2>5. FrontTypes'
      <3>1. p \in 0..MaxPort /\ p # NoPort
        BY <2>1, PortTypes
      <3> QED BY <1>0, <2>1, <2>2, <2>4, <3>1 DEF FrontTypes
    <2>6. Tasks'
      BY <1>0, <2>2, <2>3, <2>4, WantedServers DEF Tasks
    <2>7. BoundPlaces'
      <3> SUFFICES ASSUME transport = "all" PROVE BoundPlaces'
        BY <2>2 DEF BoundPlaces
      <3>1. BindPort(s) = SaturatingAdd(port, Offset[s]) /\ port \in 0..MaxPort
        BY <1>0 DEF BindPort, FrontTypes
      <3>2. s = "udp" => p = SaturatingAdd(port, 1)
        BY <2>1, <3>1, WantedServers, Saturates
      <3>3. s = "quic" => p = SaturatingAdd(port, 2)
        BY <2>1, <3>1, WantedServers, Saturates
      <3>4. s = "tcp" /\ port # 0 => p = port
        BY <2>1, <3>1, WantedServers, Saturates
      <3>5. s = "quic" => port + 2 <= MaxPort
        <4> SUFFICES ASSUME s = "quic" PROVE port + 2 <= MaxPort
          OBVIOUS
        <4>1. task["udp"] = "up"
          <5>1. task["udp"] # "unbound"
            BY <2>2, WantedServers
          <5>2. task["udp"] # "unwanted" /\ task["udp"] # "ended"
            BY <1>0, <2>2, WantedServers DEF Tasks
          <5> QED BY <1>0, <5>1, <5>2, WantedServers DEF FrontTypes
        <4>2. at["udp"] = SaturatingAdd(port, 1)
          BY <1>0, <4>1 DEF BoundPlaces
        <4>3. p # at["udp"]
          BY <2>1, <4>1 DEF Taken
        <4> QED BY <3>1, <3>3, <4>2, <4>3, Saturates, PortTypes
      <3> QED BY <1>0, <2>2, <2>4, <3>2, <3>3, <3>4, <3>5, WantedServers DEF BoundPlaces
    <2>8. Quiet'
      BY <2>2 DEF Quiet
    <2> QED BY <2>5, <2>6, <2>7, <2>8 DEF SInv
  <1>2. ASSUME NEW s \in Servers, BindFails(s) PROVE SInv'
    BY <1>2, StopHolds DEF BindFails
  <1>3. CASE LoopNext
    <2>1. UNCHANGED frontVars /\ process = "running"
      BY <1>3 DEF LoopNext, Up
    <2>2. up' = up
      BY <1>3 DEF LoopNext, ServerNext, Accept, Acquire, HandlerEnds, Arrive, HangUp
    <2>3. Wanted' = Wanted
      BY <2>1 DEF frontVars, Wanted
    <2>4. FrontTypes' /\ BoundPlaces'
      BY <1>0, <2>1 DEF frontVars, FrontTypes, BoundPlaces
    <2>5. Tasks' /\ Quiet'
      BY <1>0, <2>1, <2>2, <2>3 DEF frontVars, Tasks, Quiet
    <2> QED BY <2>4, <2>5 DEF SInv
  <1>4. CASE TcpFails
    BY <1>4, StopHolds DEF TcpFails, AcceptFails
  <1>5. CASE UdpFails
    BY <1>5, StopHolds DEF UdpFails
  <1>6. CASE QuicEnds
    <2>1. CASE Wanted = {"quic"}
      BY <1>6, <2>1, StopHolds DEF QuicEnds
    <2>2. CASE Wanted # {"quic"}
      <3>1. /\ process = "running" /\ task["quic"] = "up"
            /\ task' = [task EXCEPT !["quic"] = "ended"]
            /\ at' = [at EXCEPT !["quic"] = NoPort]
            /\ UNCHANGED <<vars, transport, port, process>>
        BY <1>6, <2>2 DEF QuicEnds, Up
      <3>2. up' = up /\ Wanted' = Wanted
        BY <3>1 DEF vars, Wanted
      <3>3. \A r \in Servers : /\ task'[r] = IF r = "quic" THEN "ended" ELSE task[r]
                               /\ at'[r] = IF r = "quic" THEN NoPort ELSE at[r]
        BY <1>0, <3>1 DEF FrontTypes
      <3>4. FrontTypes'
        BY <1>0, <3>1, <3>3 DEF FrontTypes
      <3>5. Tasks'
        BY <1>0, <2>2, <3>1, <3>2, <3>3, WantedServers DEF Tasks
      <3>6. BoundPlaces' /\ Quiet'
        BY <1>0, <3>1, <3>3, WantedServers DEF BoundPlaces, Quiet
      <3> QED BY <3>4, <3>5, <3>6 DEF SInv
    <2> QED BY <2>1, <2>2
  <1>7. CASE UNCHANGED allVars
    <2>1. UNCHANGED <<vars, transport, port, task, at, process>>
      BY <1>7 DEF allVars, frontVars
    <2>2. up' = up /\ state' = state /\ Wanted' = Wanted
      BY <2>1 DEF vars, Wanted
    <2>3. FrontTypes' /\ BoundPlaces'
      BY <1>0, <2>1 DEF FrontTypes, BoundPlaces
    <2>4. Tasks' /\ Quiet'
      BY <1>0, <2>1, <2>2 DEF Tasks, Quiet
    <2> QED BY <2>3, <2>4 DEF SInv
  <1> QED BY <1>1, <1>2, <1>3, <1>4, <1>5, <1>6, <1>7 DEF ServerSpecNext, Start, Over

\* A step of the whole server is one of the accept loop or changes nothing of it.
LEMMA StepImplements == SInv /\ [ServerSpecNext]_allVars => [Next]_vars
  <1> SUFFICES ASSUME SInv, [ServerSpecNext]_allVars PROVE [Next]_vars
    OBVIOUS
  <1>1. process = "running" => up
    BY DEF SInv, Tasks
  <1>2. ASSUME Cut, process = "running" PROVE Next
    BY <1>1, <1>2 DEF Next, Killed
  <1>3. ASSUME NEW s \in Servers, Bind(s) \/ BindFails(s) PROVE [Next]_vars
    BY <1>2, <1>3 DEF Bind, BindFails, Turn
  <1>4. CASE LoopNext
    BY <1>4 DEF LoopNext, Next
  <1>5. CASE TcpFails \/ UdpFails \/ QuicEnds
    BY <1>2, <1>5 DEF TcpFails, UdpFails, QuicEnds, Up, AcceptFails
  <1>6. CASE UNCHANGED allVars
    BY <1>6 DEF allVars
  <1> QED BY <1>3, <1>4, <1>5, <1>6 DEF ServerSpecNext, Start, Over

LEMMA ServerHolds == ServerSpec => []SInv
  <1>1. ServerInit => SInv /\ IInv
    BY ServerInitHolds, InitConserved DEF ServerInit
  <1>2. SInv /\ IInv /\ [ServerSpecNext]_allVars => (SInv /\ IInv)'
    BY ServerStepHolds, StepImplements, StepConserved
  <1> QED BY <1>1, <1>2, PTL DEF ServerSpec

-----------------------------------------------------------------------------
(* The theorems                                                            *)

\* run_server keeps run_tcp_server as it is: whatever the other servers and the
\* process do, what the clients of TCP see is a behaviour of the accept loop.
THEOREM AcceptLoopImplemented == ServerSpec => Spec
  <1>1. ServerInit => Init
    BY DEF ServerInit
  <1> QED BY <1>1, StepImplements, ServerHolds, PTL DEF ServerSpec, Spec

\* The permits of the whole server: none is lost or made beside UDP and QUIC.
THEOREM ServerPermitsConserved == ServerSpec => []PermitsConserved
  BY AcceptLoopImplemented, PermitsConservedCorrect, PTL

\* Nor does anything in the whole server change the order of the clients.
THEOREM ServerFirstComeFirstServed == ServerSpec => []FirstComeFirstServed
  BY AcceptLoopImplemented, FirstComeFirstServedCorrect, PTL

\* The state of the whole server keeps its types, and a bound port is one.
THEOREM ServerTypeCorrect == ServerSpec => []ServerTypeOK
  <1>1. SInv /\ TypeOK => ServerTypeOK
    BY DEF SInv, FrontTypes, ServerTypeOK
  <1> QED BY <1>1, ServerHolds, AcceptLoopImplemented, TypeCorrect, PTL

\* Saturated or not, a server that runs with --transport all has the ports that
\* README.md announces, for every range of ports.
THEOREM AnnouncedPortsCorrect == ServerSpec => []AnnouncedPorts
  <1>1. SInv => AnnouncedPorts
    <2> SUFFICES ASSUME SInv, Started, transport = "all", NEW s \in Servers,
                        task[s] = "up", s # "tcp" \/ port # 0
                 PROVE  at[s] = port + Offset[s]
      BY DEF AnnouncedPorts
    <2>1. port \in 0..MaxPort /\ port + 2 <= MaxPort
      BY WantedServers DEF SInv, FrontTypes, BoundPlaces, Started
    <2>2. SaturatingAdd(port, 1) = port + 1 /\ SaturatingAdd(port, 2) = port + 2
      BY <2>1, PortTypes, Saturates
    <2>3. CASE s = "tcp"
      BY <2>1, <2>3, WantedServers DEF SInv, BoundPlaces
    <2>4. CASE s = "udp"
      BY <2>2, <2>4, WantedServers DEF SInv, BoundPlaces
    <2>5. CASE s = "quic"
      BY <2>2, <2>5, WantedServers DEF SInv, BoundPlaces
    <2> QED BY <2>3, <2>4, <2>5, WantedServers
  <1> QED BY <1>1, ServerHolds, PTL

\* try_join! leaves no half of a server, and an ended process no client waiting.
THEOREM NoHalfServerCorrect == ServerSpec => []NoHalfServer
  <1>1. SInv => NoHalfServer
    <2> SUFFICES ASSUME SInv PROVE NoHalfServer
      OBVIOUS
    <2>0. FrontTypes /\ Tasks /\ Quiet
      BY DEF SInv
    <2>1. ASSUME Started, NEW s \in Wanted, s # "quic" \/ Wanted = {"quic"}
          PROVE  task[s] = "up"
      <3>1. s \in Servers
        BY <2>0 DEF Wanted, FrontTypes
      <3>2. task[s] # "unbound" /\ process = "running"
        BY <2>1, <3>1 DEF Started
      <3>3. task[s] # "unwanted" /\ task[s] # "ended"
        BY <2>0, <2>1, <3>1, <3>2, WantedServers DEF Tasks
      <3> QED BY <2>0, <3>1, <3>2, <3>3 DEF FrontTypes
    <2>2. ASSUME Started PROVE \E s \in Wanted : task[s] = "up"
      <3>1. \E s \in Wanted : s # "quic" \/ Wanted = {"quic"}
        BY <2>0, WantedServers DEF Wanted, FrontTypes
      <3> QED BY <2>1, <2>2, <3>1
    <2>3. ASSUME process # "running", NEW s \in Servers PROVE at[s] = NoPort
      BY <2>0, <2>3 DEF Tasks, FrontTypes
    <2> QED BY <2>0, <2>1, <2>2, <2>3 DEF NoHalfServer, Quiet
  <1> QED BY <1>1, ServerHolds, PTL
=============================================================================
