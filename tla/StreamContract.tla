--------------------------- MODULE StreamContract ---------------------------
(***************************************************************************)
(* What one measurement stream promises the engine, whatever its transport:*)
(* the packets are numbered 1, 2, 3, ...; every packet is reported once, as*)
(* acked or as lost, and stays so; acks are reported in sending order; a   *)
(* stream that ends well has reported every packet it sent.                *)
(***************************************************************************)
EXTENDS Naturals

VARIABLES
    sent,     \* packets numbered so far
    outcome,  \* what was reported of each of them
    status    \* "running", "ok" or "failed": the stream task's result

vars == <<sent, outcome, status>>

Outcomes == {"open", "acked", "lost"}

TypeOK ==
    /\ sent \in Nat
    /\ outcome \in [1..sent -> Outcomes]
    /\ status \in {"running", "ok", "failed"}

Init ==
    /\ sent = 0
    /\ outcome = [s \in 1..0 |-> "open"]
    /\ status = "running"

Send ==
    /\ status = "running"
    /\ sent' = sent + 1
    /\ outcome' = [s \in 1..sent' |-> IF s \in 1..sent THEN outcome[s] ELSE "open"]
    /\ UNCHANGED status

ReportAcked(s) ==
    /\ status = "running"
    /\ outcome[s] = "open"
    /\ \A t \in 1..sent : outcome[t] = "acked" => t < s
    /\ outcome' = [outcome EXCEPT ![s] = "acked"]
    /\ UNCHANGED <<sent, status>>

ReportLost(s) ==
    /\ status = "running"
    /\ outcome[s] = "open"
    /\ outcome' = [outcome EXCEPT ![s] = "lost"]
    /\ UNCHANGED <<sent, status>>

Finish ==
    /\ status = "running"
    /\ \A s \in 1..sent : outcome[s] # "open"
    /\ status' = "ok"
    /\ UNCHANGED <<sent, outcome>>

Fail ==
    /\ status = "running"
    /\ status' = "failed"
    /\ UNCHANGED <<sent, outcome>>

Next ==
    \/ Send
    \/ \E s \in 1..sent : ReportAcked(s) \/ ReportLost(s)
    \/ Finish
    \/ Fail

Spec == Init /\ [][Next]_vars
=============================================================================
