------------------------------- MODULE Server -------------------------------
(***************************************************************************)
(* `ipfusch server`: run_server and the life of its process.  Of the three *)
(* servers the accept loop of TCP is here in full (TcpServer); of UDP and  *)
(* QUIC, whose work is in UdpStream and QuicStream, there is what decides  *)
(* the life of the process: they bind a port, run and end.                 *)
(***************************************************************************)
EXTENDS TcpServer

CONSTANTS
    Ports,      \* the ports --bind may name
    MaxPort,    \* u16::MAX
    Ephemeral,  \* the ports the kernel gives to who binds port 0
    NoPort

ASSUME PortAssumption ==
    /\ MaxPort \in Nat \ {0} /\ Ports \subseteq 0..MaxPort
    /\ Ephemeral \subseteq 1..MaxPort /\ NoPort \notin Nat

Servers == {"tcp", "udp", "quic"}
Offset == [tcp |-> 0, udp |-> 1, quic |-> 2]

VARIABLES
    transport,  \* --transport: one of Servers or "all"
    port,       \* --bind
    task,       \* server -> "unwanted", "unbound", "up" or "ended"
    at,         \* server -> the port it has bound
    process     \* "running", "failed" or "ok": how main returned

frontVars == <<transport, port, task, at, process>>
allVars == <<vars, frontVars>>

Wanted == IF transport = "all" THEN Servers ELSE {transport}

ServerInit ==
    /\ Init
    /\ transport \in Servers \cup {"all"} /\ port \in Ports
    /\ task = [s \in Servers |-> IF s \in Wanted THEN "unbound" ELSE "unwanted"]
    /\ at = [s \in Servers |-> NoPort]
    /\ process = "running"

-----------------------------------------------------------------------------
(* The end of the process                                                  *)

\* Whatever run_server was doing is dropped where it stands, and the handlers
\* that were spawned go with the runtime.
Stop(result) ==
    /\ process' = result
    /\ task' = [s \in Servers |-> IF s \in Wanted THEN "ended" ELSE "unwanted"]
    /\ at' = [s \in Servers |-> NoPort]
    /\ UNCHANGED <<transport, port>>

-----------------------------------------------------------------------------
(* Starting: the futures are polled in turn, and a bind ends in one poll   *)

WrappingAdd(p, n) == (p + n) % (MaxPort + 1)
PlainAdd(p, n) == p + n
SaturatingAdd(p, n) == IF p + n > MaxPort THEN MaxPort ELSE p + n

BindPort(s) == IF transport = "all" THEN SaturatingAdd(port, Offset[s]) ELSE port

Turn(s) ==
    /\ process = "running" /\ task[s] = "unbound"
    /\ \A r \in Servers : Offset[r] < Offset[s] => task[r] # "unbound"

\* UDP and QUIC share the ports of UDP.
Taken(s, p) == s # "tcp" /\ \E r \in {"udp", "quic"} : task[r] = "up" /\ at[r] = p

Bind(s) ==
    /\ Turn(s)
    /\ \E p \in IF BindPort(s) = 0 THEN Ephemeral ELSE {BindPort(s)} :
         ~Taken(s, p) /\ at' = [at EXCEPT ![s] = p]
    /\ task' = [task EXCEPT ![s] = "up"]
    /\ UNCHANGED <<vars, transport, port, process>>

\* The port is taken, here or by another process, or it is not ours to bind, or
\* the certificate of QUIC is no good.
BindFails(s) == Turn(s) /\ Cut /\ Stop("failed")

-----------------------------------------------------------------------------
(* Running                                                                 *)

Up(s) == process = "running" /\ task[s] = "up"

LoopNext ==
    /\ Up("tcp")
    /\ ServerNext \/ \E c \in Clients : Arrive(c) \/ HangUp(c)
    /\ UNCHANGED frontVars

TcpFails == Up("tcp") /\ AcceptFails /\ Stop("failed")

\* join! instead of try_join!
UdpFailsAlone ==
    /\ Up("udp")
    /\ task' = [task EXCEPT !["udp"] = "ended"]
    /\ at' = [at EXCEPT !["udp"] = NoPort]
    /\ UNCHANGED <<vars, transport, port, process>>

\* "udp recv failed", "udp echo failed"
UdpFails == Up("udp") /\ Cut /\ Stop("failed")

\* The endpoint is lost: accept returns None, which is no error, and try_join!
\* goes on waiting for the other two.
QuicEnds ==
    /\ Up("quic")
    /\ IF Wanted = {"quic"}
       THEN Cut /\ Stop("ok")
       ELSE /\ task' = [task EXCEPT !["quic"] = "ended"]
            /\ at' = [at EXCEPT !["quic"] = NoPort]
            /\ UNCHANGED <<vars, transport, port, process>>

Over == process # "running" /\ UNCHANGED allVars

Start == \E s \in Servers : Bind(s) \/ BindFails(s)

ServerSpecNext == Start \/ LoopNext \/ TcpFails \/ UdpFails \/ QuicEnds \/ Over

ServerSpec == ServerInit /\ [][ServerSpecNext]_allVars

\* The tasks are scheduled and every client ends its stream (TcpServer); no
\* server has to fail.
FairServerSpec ==
    /\ ServerSpec
    /\ WF_allVars(Start)
    /\ WF_allVars(Up("tcp") /\ Accept /\ UNCHANGED frontVars)
    /\ WF_allVars(Up("tcp") /\ Acquire /\ UNCHANGED frontVars)
    /\ \A c \in Clients :
         /\ WF_allVars(Up("tcp") /\ HandlerEnds(c) /\ UNCHANGED frontVars)
         /\ WF_allVars(Up("tcp") /\ HangUp(c) /\ UNCHANGED frontVars)

-----------------------------------------------------------------------------
(* Properties                                                              *)

\* Types, those of the accept loop included; a bound port is a port.
ServerTypeOK ==
    /\ TypeOK
    /\ transport \in Servers \cup {"all"} /\ port \in 0..MaxPort
    /\ task \in [Servers -> {"unwanted", "unbound", "up", "ended"}]
    /\ at \in [Servers -> 0..MaxPort \cup {NoPort}]
    /\ process \in {"running", "failed", "ok"}
    /\ \A s \in Servers : task[s] = "up" <=> at[s] # NoPort

Started == process = "running" /\ \A s \in Servers : task[s] # "unbound"

\* What README.md says of --transport all: once it runs, TCP is on the port,
\* UDP on the next and QUIC on the one after.  At the end of the port range the
\* sum saturates and UDP is bound to another port, but not for long: QUIC is
\* bound last, to the same one.
AnnouncedPorts ==
    Started /\ transport = "all" =>
      \A s \in Servers : task[s] = "up" /\ (s # "tcp" \/ port # 0) => at[s] = port + Offset[s]

\* There is no half of a server: one that has started has all the servers it
\* was asked for, but for a QUIC endpoint that was lost; when the process is
\* over nothing is bound and no client is left waiting or served, whichever
\* server was the cause.
NoHalfServer ==
    /\ Started => /\ \A s \in Wanted \ {"quic"} : task[s] = "up"
                  /\ \E s \in Wanted : task[s] = "up"
    /\ process # "running" =>
         /\ \A s \in Servers : at[s] = NoPort
         /\ \A c \in Clients : state[c] \in {"away", "over", "cut"}
=============================================================================
