--------------------------- MODULE TcpServerProofs ---------------------------
(***************************************************************************)
(* Theorems about TcpServer, for every set of clients, number of permits   *)
(* and backlog.                                                            *)
(***************************************************************************)
EXTENDS TcpServer, TLAPS, FiniteSetTheorems, SequenceTheorems

\* The types but for the permits, whose range follows from their conservation.
Types ==
    /\ up \in BOOLEAN
    /\ state \in [Clients -> {"away", "backlog", "held", "served", "over", "cut"}]
    /\ gone \subseteq Clients
    /\ backlog \in Seq(Clients) /\ Len(backlog) <= Backlog
    /\ held \in Clients \cup {Nobody}
    /\ permits \in Nat
    /\ arrived \in Seq(Clients)

\* A client's state says where it is: the permits are only conserved because
\* the loop does not hand one to a client that has one already.
Places ==
    /\ held # Nobody => up /\ state[held] = "held"
    /\ \A k \in 1..Len(backlog) : state[backlog[k]] = "backlog"
    /\ \A j, k \in 1..Len(backlog) : j # k => backlog[j] # backlog[k]

\* The same as IsSuffix, position by position.
EndsWith(s, t) ==
    /\ Len(s) <= Len(t)
    /\ \A k \in 1..Len(s) : s[k] = t[Len(t) - Len(s) + k]

Order == up => EndsWith(Waiting, arrived)

IInv == Types /\ PermitsConserved /\ Places

-----------------------------------------------------------------------------
(* Lemmas                                                                  *)

LEMMA ConstantTypes ==
    /\ IsFiniteSet(Clients) /\ Nobody \notin Clients
    /\ MaxClients \in Nat /\ Backlog \in Nat
  BY ServerAssumption

\* There are finitely many clients in each state.
LEMMA FiniteStates ==
    ASSUME NEW s
    PROVE  IsFiniteSet(InState(s)) /\ Cardinality(InState(s)) \in Nat
  BY ConstantTypes, FS_Subset, FS_CardinalityType DEF InState

\* The head of the backlog leaves a backlog of other clients.
LEMMA TailOfBacklog ==
    ASSUME Types, Places, backlog # <<>>
    PROVE  /\ Head(backlog) = backlog[1] /\ Head(backlog) \in Clients
           /\ Len(backlog) \in Nat \ {0}
           /\ Tail(backlog) \in Seq(Clients) /\ Len(Tail(backlog)) = Len(backlog) - 1
           /\ \A k \in 1..Len(Tail(backlog)) :
                /\ Tail(backlog)[k] = backlog[k + 1]
                /\ Tail(backlog)[k] # Head(backlog)
  <1>1. backlog \in Seq(Clients)
    BY DEF Types
  <1>2. Head(backlog) = backlog[1] /\ Head(backlog) \in Clients /\ Len(backlog) \in Nat \ {0}
    BY <1>1
  <1>3. Tail(backlog) \in Seq(Clients) /\ Len(Tail(backlog)) = Len(backlog) - 1
        /\ \A k \in 1..Len(Tail(backlog)) : Tail(backlog)[k] = backlog[k + 1]
    BY <1>1
  <1>4. \A k \in 1..Len(Tail(backlog)) : Tail(backlog)[k] # Head(backlog)
    BY <1>2, <1>3 DEF Places
  <1> QED BY <1>2, <1>3, <1>4

\* EndsWith is what the community module's IsSuffix means.
LEMMA SuffixByPosition ==
    ASSUME NEW S, NEW s \in Seq(S), NEW t \in Seq(S), EndsWith(s, t)
    PROVE  IsSuffix(s, t)
  <1> DEFINE rs == Reverse(s)
             rt == Reverse(t)
  <1>1. Len(rs) = Len(s) /\ Len(rt) = Len(t) /\ rs \in Seq(S) /\ rt \in Seq(S)
    BY DEF Reverse
  <1>2. Len(s) <= Len(t) /\ Len(s) \in Nat /\ Len(t) \in Nat
    BY DEF EndsWith
  <1>3. ASSUME NEW i \in 1..Len(s) PROVE rs[i] = rt[i]
    <2>1. rs[i] = s[(Len(s) - i) + 1] /\ rt[i] = t[(Len(t) - i) + 1]
      BY <1>2 DEF Reverse
    <2>2. (Len(s) - i) + 1 \in 1..Len(s)
      BY <1>2
    <2>3. s[(Len(s) - i) + 1] = t[Len(t) - Len(s) + ((Len(s) - i) + 1)]
      BY <2>2 DEF EndsWith
    <2>4. Len(t) - Len(s) + ((Len(s) - i) + 1) = (Len(t) - i) + 1
      BY <1>2
    <2> QED BY <2>1, <2>3, <2>4
  <1>4. /\ SubSeq(rs, 1, Len(s)) \in Seq(S) /\ Len(SubSeq(rs, 1, Len(s))) = Len(s)
        /\ \A i \in 1..Len(s) : SubSeq(rs, 1, Len(s))[i] = rs[i]
    BY <1>1, <1>2
  <1>5. /\ SubSeq(rt, 1, Len(s)) \in Seq(S) /\ Len(SubSeq(rt, 1, Len(s))) = Len(s)
        /\ \A i \in 1..Len(s) : SubSeq(rt, 1, Len(s))[i] = rt[i]
    BY <1>1, <1>2
  <1>6. SubSeq(rs, 1, Len(s)) = SubSeq(rt, 1, Len(s))
    BY <1>3, <1>4, <1>5, SeqEqual
  <1>7. IsPrefix(rs, rt)
    BY <1>1, <1>2, <1>6 DEF IsPrefix
  <1> QED BY <1>7 DEF IsSuffix

-----------------------------------------------------------------------------
(* Permits                                                                 *)

\* A step that leaves the permits and the served clients alone.
LEMMA SameServed ==
    ASSUME IInv, Types', permits' = permits,
           \A c \in Clients : state'[c] = "served" <=> state[c] = "served"
    PROVE  PermitsConserved'
  <1>1. InState("served")' = InState("served")
    BY DEF InState
  <1> QED BY <1>1 DEF IInv, PermitsConserved

\* At the start all permits are free.
LEMMA InitConserved == Init => IInv
  <1> SUFFICES ASSUME Init PROVE IInv
    OBVIOUS
  <1>1. Types /\ Places
    BY ConstantTypes DEF Init, Types, Places
  <1>2. InState("served") = {}
    BY DEF Init, InState
  <1>3. PermitsConserved
    BY <1>2, FS_EmptySet, ConstantTypes DEF PermitsConserved, Init
  <1> QED BY <1>1, <1>3 DEF IInv

\* No step loses or makes a permit.
LEMMA StepConserved == IInv /\ [Next]_vars => IInv'
  <1> SUFFICES ASSUME IInv, [Next]_vars PROVE IInv'
    OBVIOUS
  <1> USE ConstantTypes
  <1>0. Types /\ PermitsConserved /\ Places
    BY DEF IInv
  <1>1. ASSUME NEW c \in Clients, Arrive(c) PROVE IInv'
    <2>1. Types'
      BY <1>0, <1>1 DEF Arrive, Types
    <2>2. \A d \in Clients : state'[d] = IF d = c THEN "backlog" ELSE state[d]
      BY <1>0, <1>1 DEF Arrive, Types
    <2>3. PermitsConserved'
      BY <1>1, <2>1, <2>2, SameServed DEF Arrive
    <2>4. Len(backlog') = Len(backlog) + 1 /\ Len(backlog) \in Nat
          /\ \A k \in 1..Len(backlog') :
               backlog'[k] = IF k = Len(backlog) + 1 THEN c ELSE backlog[k]
      BY <1>0, <1>1 DEF Arrive, Types
    <2>5. \A k \in 1..Len(backlog) : backlog[k] \in Clients /\ backlog[k] # c
      BY <1>0, <1>1 DEF Arrive, Places, Types
    <2>6. Places'
      <3>1. (held # Nobody => up /\ state[held] = "held")'
        BY <1>0, <1>1, <2>2 DEF Arrive, Places, Types
      <3>2. \A k \in 1..Len(backlog') : state'[backlog'[k]] = "backlog"
        BY <1>0, <2>2, <2>4, <2>5 DEF Places
      <3>3. \A j, k \in 1..Len(backlog') : j # k => backlog'[j] # backlog'[k]
        BY <1>0, <2>4, <2>5 DEF Places
      <3> QED BY <3>1, <3>2, <3>3 DEF Places
    <2> QED BY <2>1, <2>3, <2>6 DEF IInv
  <1>2. ASSUME NEW c \in Clients, HangUp(c) PROVE IInv'
    <2>1. Types' /\ Places'
      BY <1>0, <1>2 DEF HangUp, Types, Places
    <2>2. PermitsConserved'
      BY <1>2, <2>1, SameServed DEF HangUp
    <2> QED BY <2>1, <2>2 DEF IInv
  <1>3. ASSUME Accept PROVE IInv'
    <2> DEFINE h == Head(backlog)
    <2>1. backlog # <<>>
      BY <1>3 DEF Accept
    <2>2. TRUE /\ \A d \in Clients : state'[d] = IF d = h THEN "held" ELSE state[d]
      BY <1>0, <1>3 DEF Accept, Types
    <2>3. Types'
      BY <1>0, <1>3, <2>1, TailOfBacklog DEF Accept, Types
    <2>4. state[h] = "backlog" /\ h \in Clients
      BY <1>0, <2>1, TailOfBacklog DEF Places
    <2>5. PermitsConserved'
      BY <1>3, <2>2, <2>3, <2>4, SameServed DEF Accept
    <2>6. Places'
      <3>1. (held # Nobody => up /\ state[held] = "held")'
        BY <1>3, <2>2, <2>4 DEF Accept
      <3>2. backlog' = Tail(backlog)
        BY <1>3 DEF Accept
      <3>3. ASSUME NEW k \in 1..Len(backlog')
            PROVE  k + 1 \in 1..Len(backlog) /\ backlog'[k] = backlog[k + 1]
                   /\ backlog'[k] # h /\ backlog'[k] \in Clients
        BY <1>0, <2>1, <3>2, TailOfBacklog
      <3>4. \A k \in 1..Len(backlog') : state'[backlog'[k]] = "backlog"
        BY <1>0, <2>2, <3>3 DEF Places
      <3>5. \A j, k \in 1..Len(backlog') : j # k => backlog'[j] # backlog'[k]
        BY <1>0, <3>3 DEF Places
      <3> QED BY <3>1, <3>4, <3>5 DEF Places
    <2> QED BY <2>3, <2>5, <2>6 DEF IInv
  <1>4. ASSUME Acquire PROVE IInv'
    <2>1. held \in Clients /\ state[held] = "held"
      BY <1>0, <1>4 DEF Acquire, Types, Places
    <2>2. Types'
      BY <1>0, <1>4, <2>1 DEF Acquire, Types
    <2>3. \A d \in Clients : state'[d] = IF d = held THEN "served" ELSE state[d]
      BY <1>0, <1>4 DEF Acquire, Types
    <2>4. InState("served")' = InState("served") \cup {held} /\ held \notin InState("served")
      BY <2>1, <2>3 DEF InState
    <2>5. Cardinality(InState("served")') = Cardinality(InState("served")) + 1
      BY <2>4, FiniteStates, FS_AddElement
    <2>6. permits' = permits - 1
      BY <1>4 DEF Acquire
    <2>7. PermitsConserved'
      BY <1>0, <2>5, <2>6, FiniteStates DEF PermitsConserved, Types
    <2>8. Places'
      BY <1>0, <1>4, <2>1, <2>3 DEF Acquire, Places, Types
    <2> QED BY <2>2, <2>7, <2>8 DEF IInv
  <1>5. ASSUME NEW c \in Clients, HandlerEnds(c) PROVE IInv'
    <2>1. state[c] = "served" /\ permits' = permits + 1
      BY <1>5 DEF HandlerEnds
    <2>2. Types'
      BY <1>0, <1>5 DEF HandlerEnds, Types
    <2>3. \A d \in Clients : state'[d] = IF d = c THEN "over" ELSE state[d]
      BY <1>0, <1>5 DEF HandlerEnds, Types
    <2>4. InState("served")' = InState("served") \ {c} /\ c \in InState("served")
      BY <2>1, <2>3 DEF InState
    <2>5. Cardinality(InState("served")') = Cardinality(InState("served")) - 1
      BY <2>4, FiniteStates, FS_RemoveElement
    <2>6. PermitsConserved'
      BY <1>0, <2>1, <2>5, FiniteStates DEF PermitsConserved, Types
    <2>7. Places'
      BY <1>0, <1>5, <2>1, <2>3 DEF HandlerEnds, Places, Types
    <2> QED BY <2>2, <2>6, <2>7 DEF IInv
  <1>6. ASSUME Cut PROVE IInv'
    <2>1. Types'
      <3>1. state' \in [Clients -> {"away", "backlog", "held", "served", "over", "cut"}]
        BY <1>0, <1>6 DEF Cut, Types
      <3>2. backlog' \in Seq(Clients) /\ Len(backlog') = 0
        BY <1>6 DEF Cut
      <3>3. up' \in BOOLEAN /\ permits' \in Nat
        BY <1>6 DEF Cut
      <3>4. gone' = gone /\ held' = Nobody /\ arrived' = arrived
        BY <1>6 DEF Cut
      <3> QED BY <1>0, <3>1, <3>2, <3>3, <3>4 DEF Types
    <2>2. InState("served")' = {}
      BY <1>6 DEF Cut, InState
    <2>3. PermitsConserved'
      <3>1. Cardinality(InState("served")') = 0
        BY <2>2, FS_EmptySet
      <3>2. permits' = MaxClients
        BY <1>6 DEF Cut
      <3> QED BY <3>1, <3>2 DEF PermitsConserved
    <2>4. Places'
      BY <1>6 DEF Cut, Places
    <2> QED BY <2>1, <2>3, <2>4 DEF IInv
  <1>7. CASE UNCHANGED vars
    <2>1. Types' /\ Places'
      BY <1>0, <1>7 DEF vars, Types, Places
    <2>2. PermitsConserved'
      BY <1>7, <2>1, SameServed DEF vars
    <2> QED BY <2>1, <2>2 DEF IInv
  <1> QED BY <1>1, <1>2, <1>3, <1>4, <1>5, <1>6, <1>7
          DEF Next, ServerNext, AcceptFails, Killed, Terminating

LEMMA Conserved == Spec => []IInv
  BY InitConserved, StepConserved, PTL DEF Spec

\* No permit is lost or made however the handlers of run_tcp_server end, for
\* every number of clients, permits and places in the backlog.
THEOREM PermitsConservedCorrect == Spec => []PermitsConserved
  <1>1. IInv => PermitsConserved
    BY DEF IInv
  <1> QED BY <1>1, Conserved, PTL

\* The accept loop keeps its types; there are never fewer than no permits, nor
\* more than --max-clients.
THEOREM TypeCorrect == Spec => []TypeOK
  <1>1. IInv => TypeOK
    <2> SUFFICES ASSUME IInv PROVE TypeOK
      OBVIOUS
    <2>1. permits \in 0..MaxClients
      BY ConstantTypes, FiniteStates DEF IInv, PermitsConserved, Types
    <2> QED BY <2>1 DEF IInv, Types, TypeOK
  <1> QED BY <1>1, Conserved, PTL

-----------------------------------------------------------------------------
(* Order                                                                   *)

\* What joins the end of both keeps the suffix.
LEMMA SuffixAppend ==
    ASSUME NEW S, NEW s \in Seq(S), NEW t \in Seq(S), NEW e \in S, EndsWith(s, t)
    PROVE  EndsWith(Append(s, e), Append(t, e))
  <1>1. Len(Append(s, e)) = Len(s) + 1 /\ Len(Append(t, e)) = Len(t) + 1
        /\ Len(s) \in Nat /\ Len(t) \in Nat
    OBVIOUS
  <1>2. ASSUME NEW k \in 1..(Len(s) + 1)
        PROVE  Append(s, e)[k] = Append(t, e)[Len(t) - Len(s) + k]
    <2>1. CASE k = Len(s) + 1
      BY <1>1, <2>1 DEF EndsWith
    <2>2. CASE k # Len(s) + 1
      <3>1. k \in 1..Len(s) /\ Len(t) - Len(s) + k \in 1..Len(t)
        BY <1>1, <2>2 DEF EndsWith
      <3> QED BY <3>1 DEF EndsWith
    <2> QED BY <2>1, <2>2
  <1>3. Len(s) <= Len(t) /\ Len(Append(t, e)) - Len(Append(s, e)) = Len(t) - Len(s)
    BY <1>1 DEF EndsWith
  <1>4. Len(Append(s, e)) <= Len(Append(t, e))
    BY <1>1, <1>3
  <1>5. \A k \in 1..Len(Append(s, e)) :
          Append(s, e)[k] = Append(t, e)[Len(Append(t, e)) - Len(Append(s, e)) + k]
    BY <1>1, <1>2, <1>3, Zenon
  <1> QED BY <1>4, <1>5 DEF EndsWith

\* A suffix without its first element is one.
LEMMA SuffixOfSuffix ==
    ASSUME NEW S, NEW s \in Seq(S), NEW t \in Seq(S), NEW e \in S, EndsWith(<<e>> \o s, t)
    PROVE  EndsWith(s, t)
  <1>1. Len(<<e>> \o s) = Len(s) + 1 /\ Len(s) \in Nat /\ Len(t) \in Nat
    OBVIOUS
  <1>2. ASSUME NEW k \in 1..Len(s) PROVE s[k] = t[Len(t) - Len(s) + k]
    <2>1. s[k] = (<<e>> \o s)[k + 1]
      OBVIOUS
    <2>2. (<<e>> \o s)[k + 1] = t[Len(t) - (Len(s) + 1) + (k + 1)]
      <3>1. k + 1 \in 1..Len(<<e>> \o s)
        BY <1>1
      <3> QED BY <1>1, <3>1 DEF EndsWith
    <2>3. Len(t) - (Len(s) + 1) + (k + 1) = Len(t) - Len(s) + k
      BY <1>1
    <2> QED BY <2>1, <2>2, <2>3
  <1> QED BY <1>1, <1>2 DEF EndsWith

LEMMA WaitingType ==
    ASSUME Types
    PROVE  /\ Waiting \in Seq(Clients)
           /\ held = Nobody => Waiting = backlog
           /\ held # Nobody => held \in Clients /\ Waiting = <<held>> \o backlog
  BY DEF Types, Waiting

\* A step moves a client through the queue and the loop's hands, never past
\* another one.
LEMMA StepOrder == IInv /\ IInv' /\ Order /\ [Next]_vars => Order'
  <1> SUFFICES ASSUME IInv, IInv', Order, [Next]_vars, up' PROVE EndsWith(Waiting', arrived')
    BY DEF Order
  <1>0. Types /\ Types' /\ Places
    BY DEF IInv
  <1>1. up /\ EndsWith(Waiting, arrived) /\ arrived \in Seq(Clients)
    <2>1. up
      BY <1>0 DEF Types, Next, ServerNext, Arrive, HangUp, Accept, Acquire, HandlerEnds,
           AcceptFails, Killed, Cut, Terminating, vars
    <2> QED BY <1>0, <2>1 DEF Order, Types
  <1>2. ASSUME NEW c \in Clients, Arrive(c) PROVE EndsWith(Waiting', arrived')
    <2>1. arrived' = Append(arrived, c) /\ backlog' = Append(backlog, c) /\ held' = held
      BY <1>2 DEF Arrive
    <2>2. Waiting' = Append(Waiting, c)
      BY <1>0, <2>1, <1>2 DEF Waiting, Types
    <2> QED BY <1>0, <1>1, <2>1, <2>2, WaitingType, SuffixAppend
  <1>3. ASSUME Accept PROVE EndsWith(Waiting', arrived')
    <2>1. held = Nobody /\ backlog # <<>> /\ arrived' = arrived
          /\ held' = Head(backlog) /\ backlog' = Tail(backlog)
      BY <1>3 DEF Accept
    <2>2. held' \in Clients /\ held' # Nobody
      BY <1>0, <2>1, TailOfBacklog, ConstantTypes
    <2>3. Waiting' = <<Head(backlog)>> \o Tail(backlog)
      BY <2>1, <2>2 DEF Waiting
    <2>4. backlog \in Seq(Clients)
      BY <1>0 DEF Types
    <2>5. <<Head(backlog)>> \o Tail(backlog) = backlog
      BY <2>1, <2>4
    <2> QED BY <1>0, <1>1, <2>1, <2>3, <2>5, WaitingType
  <1>4. ASSUME Acquire PROVE EndsWith(Waiting', arrived')
    <2>1. held # Nobody /\ held' = Nobody /\ backlog' = backlog /\ arrived' = arrived
      BY <1>4 DEF Acquire
    <2>2. Waiting = <<held>> \o backlog /\ held \in Clients /\ backlog \in Seq(Clients)
      BY <1>0, <2>1, WaitingType DEF Types
    <2>3. EndsWith(backlog, arrived)
      BY <1>1, <2>2, SuffixOfSuffix
    <2>4. Waiting' = backlog
      BY <2>1, <2>2 DEF Waiting
    <2> QED BY <2>1, <2>3, <2>4
  <1>5. ASSUME held' = held, backlog' = backlog, arrived' = arrived
        PROVE  EndsWith(Waiting', arrived')
    BY <1>1, <1>5 DEF Waiting
  <1>6. ASSUME NEW c \in Clients, HangUp(c) \/ HandlerEnds(c)
        PROVE  held' = held /\ backlog' = backlog /\ arrived' = arrived
    BY <1>6 DEF HangUp, HandlerEnds
  <1>7. ~AcceptFails /\ ~Killed
    BY DEF AcceptFails, Killed, Cut
  <1>8. ASSUME UNCHANGED vars PROVE held' = held /\ backlog' = backlog /\ arrived' = arrived
    BY <1>8 DEF vars
  <1> QED BY <1>2, <1>3, <1>4, <1>5, <1>6, <1>7, <1>8 DEF Next, ServerNext, Terminating

\* Clients that wait in the accept loop of run_tcp_server and in the kernel's
\* backlog are served in the order of their arrival.
THEOREM FirstComeFirstServedCorrect == Spec => []FirstComeFirstServed
  <1>1. Init => Order
    BY DEF Init, Order, Waiting, EndsWith
  <1>2. IInv /\ Order => FirstComeFirstServed
    <2> SUFFICES ASSUME IInv, Order, up PROVE IsSuffix(Waiting, arrived)
      BY DEF FirstComeFirstServed
    <2>1. Waiting \in Seq(Clients) /\ arrived \in Seq(Clients)
      BY WaitingType DEF IInv, Types
    <2> QED BY <2>1, SuffixByPosition DEF Order
  <1> QED BY <1>1, <1>2, StepOrder, Conserved, PTL DEF Spec
=============================================================================
