------------------------------ MODULE TcpServer ------------------------------
(***************************************************************************)
(* The accept loop of run_tcp_server and its permits.  A connection is     *)
(* accepted first and waits for its permit in the loop itself, so while all*)
(* permits are out one client is held and the others stay in the kernel's  *)
(* backlog; a handler gives its permit back when it ends, however it ends. *)
(* What a handler does with its client is TcpStream; here it is served     *)
(* until the client hangs up.                                              *)
(***************************************************************************)
EXTENDS Naturals, Sequences, FiniteSets, SequencesExt

CONSTANTS
    Clients,
    Nobody,      \* the loop holds no accepted connection
    MaxClients,  \* --max-clients, the permits of the semaphore
    Backlog      \* connections the kernel completes before accept

ASSUME ServerAssumption ==
    /\ IsFiniteSet(Clients) /\ Nobody \notin Clients
    /\ MaxClients \in Nat /\ Backlog \in Nat

VARIABLES
    up,       \* run_tcp_server has not returned
    state,    \* client -> "away", "backlog", "held", "served", "over" or "cut"
    gone,     \* the clients that have closed their end
    backlog,  \* completed connections, in order
    held,     \* accepted, waiting for a permit
    permits,  \* available permits
    arrived   \* history: the clients in order of arrival

vars == <<up, state, gone, backlog, held, permits, arrived>>

Init ==
    /\ up = TRUE
    /\ state = [c \in Clients |-> "away"]
    /\ gone = {} /\ backlog = <<>> /\ held = Nobody
    /\ permits = MaxClients
    /\ arrived = <<>>

-----------------------------------------------------------------------------
(* The clients: each connects once                                         *)

Arrive(c) ==
    /\ up /\ state[c] = "away" /\ Len(backlog) < Backlog
    /\ state' = [state EXCEPT ![c] = "backlog"]
    /\ backlog' = Append(backlog, c)
    /\ arrived' = Append(arrived, c)
    /\ UNCHANGED <<up, gone, held, permits>>

\* Its stream has ended, or it gave up waiting: in any state.
HangUp(c) ==
    /\ state[c] \in {"backlog", "held", "served"} /\ c \notin gone
    /\ gone' = gone \cup {c}
    /\ UNCHANGED <<up, state, backlog, held, permits, arrived>>

-----------------------------------------------------------------------------
(* The accept loop                                                         *)

\* the newest first
AcceptNewest ==
    /\ up /\ held = Nobody /\ backlog # <<>>
    /\ held' = Last(backlog)
    /\ backlog' = Front(backlog)
    /\ state' = [state EXCEPT ![Last(backlog)] = "held"]
    /\ UNCHANGED <<up, gone, permits, arrived>>

\* A connection whose client is gone is accepted all the same.
Accept ==
    /\ up /\ held = Nobody /\ backlog # <<>>
    /\ held' = Head(backlog)
    /\ backlog' = Tail(backlog)
    /\ state' = [state EXCEPT ![Head(backlog)] = "held"]
    /\ UNCHANGED <<up, gone, permits, arrived>>

\* acquire_owned().await, then the handler is spawned with the permit.
Acquire ==
    /\ up /\ held # Nobody /\ permits > 0
    /\ permits' = permits - 1
    /\ state' = [state EXCEPT ![held] = "served"]
    /\ held' = Nobody
    /\ UNCHANGED <<up, gone, backlog, arrived>>

\* the permit is forgotten
HandlerLeaks(c) ==
    /\ state[c] = "served" /\ c \in gone
    /\ state' = [state EXCEPT ![c] = "over"]
    /\ UNCHANGED <<up, gone, backlog, held, permits, arrived>>

\* Ok or Err, the handler ends when it finds the client gone; _permit is dropped.
HandlerEnds(c) ==
    /\ state[c] = "served" /\ c \in gone
    /\ state' = [state EXCEPT ![c] = "over"]
    /\ permits' = permits + 1
    /\ UNCHANGED <<up, gone, backlog, held, arrived>>

\* The loop is gone, and with the process every connection it has.
Cut ==
    /\ up' = FALSE
    /\ state' = [c \in Clients |->
                   IF state[c] \in {"backlog", "held", "served"} THEN "cut" ELSE state[c]]
    /\ backlog' = <<>> /\ held' = Nobody
    /\ permits' = MaxClients
    /\ UNCHANGED <<gone, arrived>>

\* "tcp accept failed"
AcceptFails == up /\ held = Nobody /\ Cut

\* The process ends for a reason of its own: see Server.
Killed == up /\ Cut

Terminating ==
    /\ ~up \/ \A c \in Clients : state[c] = "over"
    /\ UNCHANGED vars

ServerNext == Accept \/ Acquire \/ (\E c \in Clients : HandlerEnds(c))

Next ==
    \/ \E c \in Clients : Arrive(c) \/ HangUp(c)
    \/ ServerNext \/ AcceptFails \/ Killed \/ Terminating

Spec == Init /\ [][Next]_vars

\* The loop and the handlers are scheduled; clients may stay for ever.
FairServer ==
    /\ WF_vars(Accept) /\ WF_vars(Acquire)
    /\ \A c \in Clients : WF_vars(HandlerEnds(c))
IdleSpec == Spec /\ FairServer

\* Every client ends its stream, as TcpStream's Termination says.
FairSpec == IdleSpec /\ \A c \in Clients : WF_vars(HangUp(c))

-----------------------------------------------------------------------------
(* Properties                                                              *)

InState(s) == {c \in Clients : state[c] = s}

TypeOK ==
    /\ up \in BOOLEAN
    /\ state \in [Clients -> {"away", "backlog", "held", "served", "over", "cut"}]
    /\ gone \subseteq Clients
    /\ backlog \in Seq(Clients) /\ Len(backlog) <= Backlog
    /\ held \in Clients \cup {Nobody}
    /\ permits \in 0..MaxClients
    /\ arrived \in Seq(Clients)

\* No permit is lost or made: they are free or with the clients being served,
\* whatever ends a handler, and so there are never more than --max-clients.
PermitsConserved == permits + Cardinality(InState("served")) = MaxClients

\* First come, first served: the clients not served yet are the last to have
\* arrived, though the one in hand and those in the backlog wait differently.
Waiting == (IF held = Nobody THEN <<>> ELSE <<held>>) \o backlog
FirstComeFirstServed == up => IsSuffix(Waiting, arrived)

\* Every client that connects is served, if there is a permit at all and the
\* ones being served leave; a client that gave up in the queue blocks nobody.
EventuallyServed ==
    \A c \in Clients :
      state[c] \in {"backlog", "held"} ~> state[c] \in {"served", "over", "cut"}

\* What --idle-timeout announces: a client that does nothing loses its place.
IdleClientDropped == \A c \in Clients : state[c] = "served" ~> state[c] # "served"
=============================================================================
