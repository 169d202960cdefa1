---------------------------- MODULE FrontendProofs ----------------------------
(***************************************************************************)
(* Theorems about Frontend, for every number of intervals and every length *)
(* of the dashboard's list.                                                *)
(***************************************************************************)
EXTENDS Frontend, TLAPS, SequenceTheorems

\* The part of TypeOK the proofs need: the dashboard's list plays no part.
Types ==
    /\ runner \in {"running", "ok", "failed"}
    /\ produced \in Nat /\ queue \in Seq(Nat) /\ shown \in Seq(Nat)
    /\ ui \in {"show", "await", "output", "exited"}
    /\ exit \in {"none", "ok", "failed"}
    /\ paused \in BOOLEAN /\ everPaused \in BOOLEAN

\* The channel holds the latest intervals, what was shown is older, and until a
\* pause nothing is missing between the two.
Line ==
    /\ Len(queue) <= produced
    /\ \A k \in 1..Len(queue) : queue[k] = produced - Len(queue) + k
    /\ \A i \in 1..Len(shown) : shown[i] <= produced - Len(queue)
    /\ \A i, j \in 1..Len(shown) : i < j => shown[i] < shown[j]

Whole ==
    ~everPaused =>
      /\ \A i \in 1..Len(shown) : shown[i] = i
      /\ Listening => Len(shown) + Len(queue) = produced

\* Only the dashboard pauses, only those who listen are sent anything, and a
\* --jsonl run reaches its output with nothing queued.
Phase ==
    /\ queue # <<>> => Listening \/ exit # "none"
    /\ paused => everPaused
    /\ everPaused => Mode = "tui"
    /\ Mode = "jsonl" /\ (ui = "output" \/ exit = "ok") => queue = <<>> /\ runner = "ok"

IInv == Types /\ Line /\ Whole /\ Phase

-----------------------------------------------------------------------------
(* Taking intervals off the channel                                        *)

\* Showing the oldest one queued.
LEMMA TakeOne ==
    ASSUME Types, Line, Whole, Listening, queue # <<>>,
           produced' = produced, everPaused' = everPaused,
           shown' = Append(shown, Head(queue)), queue' = Tail(queue)
    PROVE  shown' \in Seq(Nat) /\ queue' \in Seq(Nat) /\ Line' /\ Whole'
  <1> DEFINE q == Len(queue)
             n == Len(shown)
  <1>1. queue \in Seq(Nat) /\ shown \in Seq(Nat) /\ produced \in Nat /\ q \in Nat \ {0} /\ n \in Nat
    BY DEF Types
  <1>2. Head(queue) = queue[1] /\ Head(queue) \in Nat /\ Head(queue) = produced - q + 1
    BY <1>1 DEF Line
  <1>3. /\ queue' \in Seq(Nat) /\ Len(queue') = q - 1
        /\ \A k \in 1..(q - 1) : queue'[k] = queue[k + 1]
    BY <1>1
  <1>4. /\ shown' \in Seq(Nat) /\ Len(shown') = n + 1 /\ shown'[n + 1] = produced - q + 1
        /\ \A k \in 1..n : shown'[k] = shown[k] /\ shown[k] \in Nat
    BY <1>1, <1>2
  <1>5. q <= produced /\ \A k \in 1..n : shown[k] <= produced - q
    BY DEF Line
  <1>6. \A k \in 1..(q - 1) : queue'[k] = produced - (q - 1) + k
    <2> TAKE k \in 1..(q - 1)
    <2>1. k + 1 \in 1..q /\ queue'[k] = queue[k + 1]
      BY <1>1, <1>3
    <2>2. queue[k + 1] = produced - q + (k + 1)
      BY <2>1 DEF Line
    <2> QED BY <1>1, <2>1, <2>2
  <1>7. \A i \in 1..(n + 1) : shown'[i] <= produced - (q - 1)
    <2> TAKE i \in 1..(n + 1)
    <2>1. CASE i \in 1..n
      BY <1>1, <1>4, <1>5, <2>1
    <2>2. CASE i = n + 1
      BY <1>1, <1>4, <2>2
    <2> QED BY <1>1, <2>1, <2>2
  <1>8. ASSUME NEW i \in 1..(n + 1), NEW j \in 1..(n + 1), i < j
        PROVE  shown'[i] < shown'[j]
    <2>1. i \in 1..n
      BY <1>1, <1>8
    <2>2. CASE j \in 1..n
      BY <1>4, <1>8, <2>1, <2>2 DEF Line
    <2>3. CASE j = n + 1
      BY <1>1, <1>4, <1>5, <2>1, <2>3
    <2> QED BY <1>1, <2>2, <2>3
  <1>9. Line'
    BY <1>1, <1>3, <1>4, <1>5, <1>6, <1>7, <1>8 DEF Line
  <1>10. ASSUME ~everPaused
         PROVE  (\A i \in 1..(n + 1) : shown'[i] = i) /\ n + 1 + (q - 1) = produced
    <2>1. n + q = produced /\ \A i \in 1..n : shown[i] = i
      BY <1>10 DEF Whole
    <2> QED BY <1>1, <1>4, <2>1
  <1>11. Whole'
    BY <1>3, <1>4, <1>10 DEF Whole
  <1> QED BY <1>3, <1>4, <1>9, <1>11

\* Showing all that is queued.
LEMMA TakeAll ==
    ASSUME Types, Line, Whole, Listening, produced' = produced, everPaused' = everPaused,
           shown' = shown \o queue, queue' = <<>>
    PROVE  shown' \in Seq(Nat) /\ queue' \in Seq(Nat) /\ Line' /\ Whole'
  <1> DEFINE q == Len(queue)
             n == Len(shown)
  <1>1. queue \in Seq(Nat) /\ shown \in Seq(Nat) /\ produced \in Nat /\ q \in Nat /\ n \in Nat
    BY DEF Types
  <1>2. shown' \in Seq(Nat) /\ Len(shown') = n + q /\ queue' \in Seq(Nat) /\ Len(queue') = 0
        /\ \A i \in 1..(n + q) : shown'[i] = IF i <= n THEN shown[i] ELSE queue[i - n]
    BY <1>1
  <1>3. q <= produced /\ \A i \in 1..n : shown[i] <= produced - q /\ shown[i] \in Nat
    BY <1>1 DEF Line
  <1>4. \A i \in (n + 1)..(n + q) : shown'[i] = produced - q + (i - n)
    <2> TAKE i \in (n + 1)..(n + q)
    <2>1. i - n \in 1..q /\ shown'[i] = queue[i - n]
      BY <1>1, <1>2
    <2> QED BY <2>1 DEF Line
  <1>5. \A i \in 1..n : shown'[i] = shown[i]
    BY <1>1, <1>2
  <1>6. \A i \in 1..(n + q) : shown'[i] <= produced
    <2> TAKE i \in 1..(n + q)
    <2>1. CASE i \in 1..n
      BY <1>1, <1>3, <1>5, <2>1
    <2>2. CASE i \in (n + 1)..(n + q)
      BY <1>1, <1>4, <2>2
    <2> QED BY <1>1, <2>1, <2>2
  <1>7. ASSUME NEW i \in 1..(n + q), NEW j \in 1..(n + q), i < j
        PROVE  shown'[i] < shown'[j]
    <2>1. CASE j \in 1..n
      BY <1>1, <1>5, <1>7, <2>1 DEF Line
    <2>2. CASE i \in 1..n /\ j \in (n + 1)..(n + q)
      <3>1. shown'[i] <= produced - q /\ shown'[i] \in Nat
        BY <1>3, <1>5, <2>2
      <3>2. shown'[j] = produced - q + (j - n)
        BY <1>4, <2>2
      <3> QED BY <1>1, <2>2, <3>1, <3>2
    <2>3. CASE i \in (n + 1)..(n + q) /\ j \in (n + 1)..(n + q)
      <3>1. shown'[i] = produced - q + (i - n) /\ shown'[j] = produced - q + (j - n)
        BY <1>4, <2>3
      <3> QED BY <1>1, <1>7, <2>3, <3>1
    <2> QED BY <1>1, <1>7, <2>1, <2>2, <2>3
  <1>8. Line'
    BY <1>1, <1>2, <1>6, <1>7 DEF Line
  <1>9. ASSUME ~everPaused PROVE (\A i \in 1..(n + q) : shown'[i] = i) /\ n + q = produced
    <2>1. n + q = produced /\ \A i \in 1..n : shown[i] = i
      BY <1>9 DEF Whole
    <2>2. ASSUME NEW i \in 1..(n + q) PROVE shown'[i] = i
      <3>1. CASE i \in 1..n
        BY <1>5, <2>1, <3>1
      <3>2. CASE i \in (n + 1)..(n + q)
        BY <1>1, <1>4, <2>1, <3>2
      <3> QED BY <1>1, <3>1, <3>2
    <2> QED BY <2>1, <2>2
  <1>10. Whole'
    BY <1>1, <1>2, <1>9 DEF Whole
  <1> QED BY <1>2, <1>8, <1>10

\* Dropping some of what is queued: a paused dashboard, or one that is left.
LEMMA TakeAway ==
    ASSUME Types, Line, produced' = produced, shown' = shown,
           queue' \in {<<>>, Tail(queue)}, queue # <<>> \/ queue' = <<>>
    PROVE  queue' \in Seq(Nat) /\ Line'
  <1>1. queue \in Seq(Nat) /\ shown \in Seq(Nat) /\ produced \in Nat /\ Len(queue) \in Nat
        /\ Len(shown) \in Nat
    BY DEF Types
  <1>2. \A i \in 1..Len(shown) : shown[i] \in Nat /\ shown[i] <= produced - Len(queue)
    BY <1>1 DEF Line
  <1>3. CASE queue' = <<>>
    BY <1>1, <1>2, <1>3 DEF Line
  <1>4. CASE queue # <<>> /\ queue' = Tail(queue)
    <2>1. /\ queue' \in Seq(Nat) /\ Len(queue') = Len(queue) - 1
          /\ \A k \in 1..Len(queue') : queue'[k] = queue[k + 1] /\ k + 1 \in 1..Len(queue)
      BY <1>1, <1>4
    <2>2. \A k \in 1..Len(queue') : queue'[k] = produced - Len(queue') + k
      <3> TAKE k \in 1..Len(queue')
      <3>1. queue[k + 1] = produced - Len(queue) + (k + 1)
        BY <2>1 DEF Line
      <3> QED BY <1>1, <2>1, <3>1
    <2>3. \A i \in 1..Len(shown) : shown[i] <= produced - Len(queue')
      <3> TAKE i \in 1..Len(shown)
      <3>1. shown[i] \in Nat /\ shown[i] <= produced - Len(queue)
        BY <1>2
      <3> QED BY <1>1, <2>1, <3>1
    <2> QED BY <1>1, <2>1, <2>2, <2>3 DEF Line
  <1> QED BY <1>3, <1>4

-----------------------------------------------------------------------------
(* The steps                                                               *)

\* Everything else leaves the line of intervals alone.
LEMMA SameLine ==
    ASSUME Types, Line, Whole, UNCHANGED <<flags, produced, queue, shown, everPaused>>,
           Listening' => Listening
    PROVE  Line' /\ Whole'
  BY DEF Line, Whole

\* main listens as long as it may show anything; it never starts to again.
LEMMA ListeningModes ==
    /\ Mode \in {"tui", "jsonl", "json", "human"}
    /\ Mode \in {"jsonl", "human"} => Listening
    /\ Mode = "tui" => (Listening <=> ui = "show")
    /\ Mode = "json" => ~Listening
  BY DEF Mode, Listening

LEMMA InitHolds == Init => IInv
  <1> SUFFICES ASSUME Init PROVE IInv
    OBVIOUS
  <1>1. Types
    <2>1. queue \in Seq(Nat) /\ shown \in Seq(Nat)
      BY DEF Init
    <2>2. paused \in BOOLEAN /\ everPaused \in BOOLEAN
      BY DEF Init
    <2>3. produced \in Nat /\ runner = "running" /\ ui = "show" /\ exit = "none"
      BY DEF Init
    <2> QED BY <2>1, <2>2, <2>3 DEF Types
  <1>2. Line /\ Whole
    BY DEF Init, Line, Whole
  <1>3. Phase
    BY DEF Init, Phase
  <1> QED BY <1>1, <1>2, <1>3 DEF IInv

LEMMA StepHolds == IInv /\ [Next]_vars => IInv'
  <1> SUFFICES ASSUME IInv, [Next]_vars PROVE IInv'
    OBVIOUS
  <1>0. Types /\ Line /\ Whole /\ Phase
    BY DEF IInv
  <1>1. flags' = flags /\ Mode' = Mode
    BY DEF Next, RunnerNext, MainNext, UserNext, Terminating, Produce, RunnerEnds, HumanRecv,
           HumanResult, DashTick, DashRecv, DashClosed, LeaveDashboard, TuiResult, PrinterRecv,
           JsonlResult, JsonResult, TakeResult, Emit, OutputFails, KeyPause, KeyExport, KeyQuit,
           DashFails, vars, Mode
  <1>2. CASE Produce
    <2>1. runner = "running" /\ exit = "none" /\ produced' = produced + 1
          /\ UNCHANGED <<runner, ui, exit, shown, paused, everPaused>>
      BY <1>2 DEF Produce, screen
    <2>2. Listening' = Listening
      BY <1>1, <2>1 DEF Listening
    <2>3. CASE Listening
      <3>1. queue' = Append(queue, produced + 1)
        BY <1>2, <2>1, <2>3 DEF Produce
      <3>2. queue \in Seq(Nat) /\ produced \in Nat /\ Len(queue) \in Nat /\ Len(shown) \in Nat
            /\ shown \in Seq(Nat)
        BY <1>0 DEF Types
      <3>3. /\ queue' \in Seq(Nat) /\ Len(queue') = Len(queue) + 1
            /\ queue'[Len(queue) + 1] = produced + 1
            /\ \A k \in 1..Len(queue) : queue'[k] = queue[k]
        BY <3>1, <3>2
      <3>4. \A k \in 1..(Len(queue) + 1) : queue'[k] = produced + 1 - (Len(queue) + 1) + k
        <4> TAKE k \in 1..(Len(queue) + 1)
        <4>1. CASE k \in 1..Len(queue)
          <5>1. queue[k] = produced - Len(queue) + k
            BY <1>0, <4>1 DEF Line
          <5> QED BY <3>2, <3>3, <4>1, <5>1
        <4>2. CASE k = Len(queue) + 1
          BY <3>2, <3>3, <4>2
        <4> QED BY <3>2, <4>1, <4>2
      <3>5. Line'
        BY <1>0, <2>1, <3>2, <3>3, <3>4 DEF Line
      <3>6. Whole'
        <4>1. ~everPaused =>
                (\A i \in 1..Len(shown) : shown[i] = i) /\ Len(shown) + Len(queue) = produced
          BY <1>0, <2>3 DEF Whole
        <4>2. everPaused' = everPaused /\ shown' = shown /\ produced' = produced + 1
              /\ Len(queue') = Len(queue) + 1
          BY <2>1, <3>3
        <4>3. ASSUME ~everPaused'
              PROVE  (\A i \in 1..Len(shown') : shown'[i] = i) /\ Len(shown') + Len(queue') = produced'
          BY <3>2, <4>1, <4>2, <4>3
        <4> QED BY <4>3 DEF Whole
      <3>7. Types'
        BY <1>0, <2>1, <3>2, <3>3 DEF Types
      <3>8. Phase'
        BY <1>0, <1>1, <2>1, <2>2, <2>3 DEF Phase
      <3> QED BY <3>5, <3>6, <3>7, <3>8 DEF IInv
    <2>4. CASE ~Listening
      <3>1. queue' = queue /\ queue = <<>>
        BY <1>0, <1>2, <2>4 DEF Produce, Phase
      <3>2. Len(queue) = 0 /\ produced \in Nat /\ shown \in Seq(Nat)
        BY <1>0, <3>1 DEF Types
      <3>3. \A i \in 1..Len(shown) : shown[i] <= produced /\ shown[i] \in Nat
        BY <1>0, <3>2 DEF Line
      <3>4. Line' /\ Whole'
        BY <1>0, <2>1, <2>2, <2>4, <3>1, <3>2, <3>3 DEF Line, Whole
      <3>5. Types' /\ Phase'
        BY <1>0, <1>1, <2>1, <2>2, <3>1 DEF Types, Phase
      <3> QED BY <3>4, <3>5 DEF IInv
    <2> QED BY <2>3, <2>4
  <1>3. CASE RunnerEnds
    <2>1. UNCHANGED <<flags, produced, queue, ui, exit, shown, paused, everPaused>>
          /\ runner = "running" /\ runner' \in {"ok", "failed"}
      BY <1>3 DEF RunnerEnds, screen
    <2>2. Listening' = Listening
      BY <1>1, <2>1 DEF Listening
    <2>3. Types' /\ Phase'
      BY <1>0, <1>1, <2>1, <2>2 DEF Types, Phase
    <2> QED BY <1>0, <2>1, <2>2, <2>3, SameLine DEF IInv
  <1>4. CASE HumanRecv \/ PrinterRecv \/ (DashRecv /\ ~paused)
    <2>1. queue # <<>> /\ ui = "show" /\ Mode # "json"
      BY <1>4 DEF HumanRecv, PrinterRecv, DashRecv, Dashboard
    <2>2. Append(shown, Head(queue)) = shown \o <<Head(queue)>>
      BY <1>0, <2>1 DEF Types
    <2>3. UNCHANGED <<runner, produced, ui, exit, paused, everPaused>>
          /\ shown' = Append(shown, Head(queue)) /\ queue' = Tail(queue)
      BY <1>4, <2>2 DEF HumanRecv, PrinterRecv, DashRecv, Display
    <2>4. Listening /\ Listening'
      BY <1>1, <2>1, <2>3, ListeningModes DEF Listening
    <2>5. shown' \in Seq(Nat) /\ queue' \in Seq(Nat) /\ Line' /\ Whole'
      BY <1>0, <2>1, <2>3, <2>4, TakeOne
    <2>6. Types'
      BY <1>0, <2>3, <2>5 DEF Types
    <2>7. Phase'
      BY <1>0, <1>1, <2>1, <2>3, <2>4 DEF Phase
    <2> QED BY <2>5, <2>6, <2>7 DEF IInv
  <1>5. CASE DashTick
    <2>1. UNCHANGED <<runner, produced, ui, exit, paused, everPaused>>
          /\ shown' = shown \o queue /\ queue' = <<>> /\ ui = "show" /\ Mode = "tui"
      BY <1>5 DEF DashTick, Display, Dashboard
    <2>2. Listening /\ Listening'
      BY <1>1, <2>1 DEF Listening
    <2>3. shown' \in Seq(Nat) /\ queue' \in Seq(Nat) /\ Line' /\ Whole'
      BY <1>0, <2>1, <2>2, TakeAll
    <2>4. Types' /\ Phase'
      BY <1>0, <1>1, <2>1, <2>2, <2>3 DEF Types, Phase
    <2> QED BY <2>3, <2>4 DEF IInv
  <1>6. CASE DashRecv /\ paused
    <2>1. UNCHANGED <<runner, produced, ui, exit, paused, everPaused, shown>>
          /\ queue # <<>> /\ queue' = Tail(queue) /\ Mode = "tui"
      BY <1>6 DEF DashRecv, Dashboard
    <2>2. everPaused /\ Listening' = Listening
      BY <1>0, <1>1, <1>6, <2>1 DEF Phase, Listening
    <2>3. queue' \in Seq(Nat) /\ Line'
      BY <1>0, <2>1, TakeAway
    <2>4. Types' /\ Phase' /\ Whole'
      BY <1>0, <1>1, <2>1, <2>2, <2>3 DEF Types, Phase, Whole
    <2> QED BY <2>3, <2>4 DEF IInv
  <1>7. CASE DashClosed \/ KeyQuit
    <2>1. UNCHANGED <<runner, produced, exit, paused, everPaused, shown>>
          /\ queue' = <<>> /\ Mode = "tui" /\ ui' = "await"
      BY <1>7 DEF DashClosed, KeyQuit, LeaveDashboard, Dashboard, screen
    <2>2. ~Listening'
      BY <1>1, <2>1 DEF Listening
    <2>3. queue' \in Seq(Nat) /\ Line'
      BY <1>0, <2>1, TakeAway
    <2>4. Types' /\ Phase' /\ Whole'
      BY <1>0, <1>1, <2>1, <2>2, <2>3 DEF Types, Phase, Whole
    <2> QED BY <2>3, <2>4 DEF IInv
  <1>8. CASE KeyPause
    <2>1. UNCHANGED <<runner, produced, exit, ui, shown, queue>> /\ everPaused' = TRUE
          /\ paused' \in BOOLEAN /\ Mode = "tui"
      BY <1>0, <1>8 DEF KeyPause, Dashboard, Types
    <2>2. Listening' = Listening
      BY <1>1, <2>1 DEF Listening
    <2>3. Types' /\ Line' /\ Whole' /\ Phase'
      BY <1>0, <1>1, <2>1, <2>2 DEF Types, Line, Whole, Phase
    <2> QED BY <2>3 DEF IInv
  <1>9. CASE HumanResult \/ TuiResult \/ JsonlResult \/ JsonResult
    <2>1. /\ UNCHANGED <<flags, runner, produced, queue, shown, paused, everPaused>>
          /\ ui' \in {"output", "exited"} /\ exit' \in {exit, "failed"}
          /\ ui' = "output" => runner = "ok" /\ exit' = exit
      BY <1>9 DEF HumanResult, TuiResult, JsonlResult, JsonResult, TakeResult, screen
    <2>2. Mode = "jsonl" /\ runner = "ok" => queue = <<>>
      BY <1>9 DEF HumanResult, TuiResult, JsonlResult, JsonResult, Closed
    <2>3. Mode = "tui" => ui = "await"
      BY <1>9 DEF HumanResult, TuiResult, JsonlResult, JsonResult
    <2>4. Listening' = Listening
      BY <1>1, <2>1, <2>3 DEF Listening
    <2>5. Types' /\ Phase'
      BY <1>0, <1>1, <2>1, <2>2, <2>4 DEF Types, Phase
    <2> QED BY <1>0, <2>1, <2>4, <2>5, SameLine DEF IInv
  <1>10. CASE Emit \/ OutputFails \/ DashFails
    <2>1. /\ UNCHANGED <<flags, runner, produced, queue, shown, paused, everPaused>>
          /\ ui' = "exited" /\ exit' \in {"ok", "failed"} /\ (exit' = "ok" => ui = "output")
      BY <1>10 DEF Emit, OutputFails, DashFails, screen
    <2>2. Listening' => Listening
      BY <1>1, <2>1 DEF Listening
    <2>3. Mode = "tui" \/ Listening' = Listening
      BY <1>1 DEF Listening
    <2>4. Types' /\ Phase'
      BY <1>0, <1>1, <2>1, <2>3 DEF Types, Phase
    <2> QED BY <1>0, <2>1, <2>2, <2>4, SameLine DEF IInv
  <1>11. CASE KeyExport \/ UNCHANGED vars
    <2>1. UNCHANGED <<flags, runner, produced, queue, ui, exit, shown, paused, everPaused>>
      BY <1>11 DEF KeyExport, vars, screen
    <2>2. Listening' = Listening
      BY <1>1, <2>1 DEF Listening
    <2>3. Types' /\ Phase'
      BY <1>0, <1>1, <2>1, <2>2 DEF Types, Phase
    <2> QED BY <1>0, <2>1, <2>2, <2>3, SameLine DEF IInv
  <1> QED BY <1>2, <1>3, <1>4, <1>5, <1>6, <1>7, <1>8, <1>9, <1>10, <1>11
          DEF Next, RunnerNext, MainNext, UserNext, Terminating

LEMMA Holds == Spec => []IInv
  BY InitHolds, StepHolds, PTL DEF Spec

\* Whichever loop, branch or task of the run command takes the intervals off
\* the channel, they are shown once and in order, and only a pause skips any.
THEOREM ShownInOrderCorrect == Spec => []ShownInOrder
  <1>1. IInv => ShownInOrder
    <2> SUFFICES ASSUME IInv PROVE ShownInOrder
      OBVIOUS
    <2>1. Types /\ Line /\ Whole
      BY DEF IInv
    <2>2. /\ shown \in Seq(Nat) /\ queue \in Seq(Nat) /\ produced \in Nat
          /\ DOMAIN shown = 1..Len(shown) /\ DOMAIN queue = 1..Len(queue) /\ Len(queue) \in Nat
      BY <2>1 DEF Types
    <2>3. \A i, j \in 1..Len(shown) : i < j => shown[i] < shown[j]
      BY <2>1 DEF Line
    <2>4. ASSUME NEW i \in 1..Len(shown), NEW k \in 1..Len(queue) PROVE shown[i] < queue[k]
      <3>1. shown[i] <= produced - Len(queue) /\ queue[k] = produced - Len(queue) + k
        BY <2>1, <2>4 DEF Line
      <3>2. shown[i] \in Nat
        BY <2>2, <2>4
      <3> QED BY <2>2, <3>1, <3>2
    <2>5. ~everPaused => \A i \in 1..Len(shown) : shown[i] = i
      BY <2>1 DEF Whole
    <2> QED BY <2>2, <2>3, <2>4, <2>5 DEF ShownInOrder
  <1> QED BY <1>1, Holds, PTL

\* A --jsonl run that ends well has printed every interval it was sent.
THEOREM JsonlCompleteCorrect == Spec => []JsonlComplete
  <1>1. IInv => JsonlComplete
    <2> SUFFICES ASSUME IInv, Mode = "jsonl", exit = "ok"
                 PROVE  Len(shown) = produced /\ runner = "ok"
      BY DEF JsonlComplete
    <2>1. queue = <<>> /\ runner = "ok" /\ ~everPaused
      BY DEF IInv, Phase
    <2>2. Len(shown) + Len(queue) = produced
      BY <2>1, ListeningModes DEF IInv, Whole
    <2>3. Len(shown) \in Nat /\ Len(queue) = 0
      BY <2>1 DEF IInv, Types
    <2> QED BY <2>1, <2>2, <2>3
  <1> QED BY <1>1, Holds, PTL
-----------------------------------------------------------------------------
(* Types, and the dashboard's memory                                       *)

\* r is the end of s.
EndOf(r, s) ==
    /\ Len(r) <= Len(s)
    /\ \A k \in 1..Len(r) : r[k] = s[Len(s) - Len(r) + k]

\* The form of the library, by way of the reversed sequences.
LEMMA EndIsSuffix ==
    ASSUME NEW S, NEW r \in Seq(S), NEW s \in Seq(S), EndOf(r, s)
    PROVE  IsSuffix(r, s)
  <1> DEFINE n == Len(r)
             m == Len(s)
  <1>1. n \in Nat /\ m \in Nat /\ n <= m
    BY DEF EndOf
  <1>2. /\ Len(Reverse(r)) = n /\ Len(Reverse(s)) = m
        /\ \A i \in 1..n : Reverse(r)[i] = r[(n - i) + 1] /\ (n - i) + 1 \in 1..n
        /\ \A i \in 1..m : Reverse(s)[i] = s[(m - i) + 1] /\ (m - i) + 1 \in 1..m
    BY <1>1 DEF Reverse
  <1>3. \A i \in 1..n : Reverse(r)[i] \in S /\ Reverse(s)[i] \in S /\ Reverse(r)[i] = Reverse(s)[i]
    <2> TAKE i \in 1..n
    <2>1. r[(n - i) + 1] = s[m - n + ((n - i) + 1)]
      BY <1>2 DEF EndOf
    <2>2. m - n + ((n - i) + 1) = (m - i) + 1 /\ i \in 1..m
      BY <1>1
    <2>3. Reverse(r)[i] = r[(n - i) + 1] /\ Reverse(s)[i] = s[(m - i) + 1]
      BY <1>2, <2>2
    <2>4. r[(n - i) + 1] \in S
      BY <1>2
    <2> QED BY <2>1, <2>2, <2>3, <2>4
  <1> DEFINE a == SubSeq(Reverse(r), 1, n)
             b == SubSeq(Reverse(s), 1, n)
  <1>4. a \in Seq(S) /\ Len(a) = n /\ \A i \in 1..n : a[i] = Reverse(r)[i]
    <2>1. /\ a \in Seq(S) /\ Len(a) = IF 1 <= n THEN n - 1 + 1 ELSE 0
          /\ \A i \in 1..(n - 1 + 1) : a[i] = Reverse(r)[1 + i - 1]
      BY <1>1, <1>3, SubSeqProperties
    <2> QED BY <1>1, <2>1
  <1>5. b \in Seq(S) /\ Len(b) = n /\ \A i \in 1..n : b[i] = Reverse(s)[i]
    <2>1. /\ b \in Seq(S) /\ Len(b) = IF 1 <= n THEN n - 1 + 1 ELSE 0
          /\ \A i \in 1..(n - 1 + 1) : b[i] = Reverse(s)[1 + i - 1]
      BY <1>1, <1>3, SubSeqProperties
    <2> QED BY <1>1, <2>1
  <1> HIDE DEF a, b
  <1>6. a = b
    BY <1>1, <1>3, <1>4, <1>5, SeqEqual
  <1> QED BY <1>1, <1>2, <1>6 DEF IsSuffix, IsPrefix, a, b

\* Adding to both, and keeping the last Window of the list.
LEMMA KeepsEnd ==
    ASSUME NEW S, NEW r \in Seq(S), NEW s \in Seq(S), NEW u \in Seq(S), EndOf(r, s)
    PROVE  /\ KeepRecent(r \o u) \in Seq(S) /\ Len(KeepRecent(r \o u)) <= Window
           /\ s \o u \in Seq(S) /\ EndOf(KeepRecent(r \o u), s \o u)
  <1> DEFINE n == Len(r)
             m == Len(s)
             l == Len(u)
             ru == r \o u
             su == s \o u
  <1>1. n \in Nat /\ m \in Nat /\ l \in Nat /\ n <= m /\ Window \in Nat \ {0}
    BY FrontendAssumption DEF EndOf
  <1>2. /\ ru \in Seq(S) /\ Len(ru) = n + l /\ su \in Seq(S) /\ Len(su) = m + l
        /\ \A i \in 1..(n + l) : ru[i] = IF i <= n THEN r[i] ELSE u[i - n]
        /\ \A i \in 1..(m + l) : su[i] = IF i <= m THEN s[i] ELSE u[i - m]
    BY ConcatProperties
  <1> HIDE DEF ru, su
  <1>3. \A k \in 1..(n + l) : ru[k] \in S /\ ru[k] = su[m - n + k]
    <2> TAKE k \in 1..(n + l)
    <2>1. CASE k <= n
      <3>1. k \in 1..n /\ m - n + k <= m /\ m - n + k \in 1..(m + l)
        BY <1>1, <2>1
      <3>2. r[k] = s[m - n + k] /\ r[k] \in S
        BY <3>1 DEF EndOf
      <3>3. ru[k] = r[k]
        BY <1>2, <2>1
      <3>4. su[m - n + k] = s[m - n + k]
        BY <1>2, <3>1
      <3> QED BY <3>2, <3>3, <3>4
    <2>2. CASE ~(k <= n)
      <3>1. /\ ~(m - n + k <= m) /\ m - n + k \in 1..(m + l) /\ (m - n + k) - m = k - n
            /\ k - n \in 1..l
        BY <1>1, <2>2
      <3>2. ru[k] = u[k - n] /\ su[m - n + k] = u[k - n]
        BY <1>2, <2>2, <3>1
      <3>3. u[k - n] \in S
        BY <3>1
      <3> QED BY <3>2, <3>3
    <2> QED BY <2>1, <2>2
  <1>4. CASE n + l <= Window
    <2>1. KeepRecent(ru) = ru
      BY <1>1, <1>2, <1>4 DEF KeepRecent
    <2>2. (m + l) - (n + l) = m - n /\ n + l <= m + l
      BY <1>1
    <2>3. EndOf(ru, su)
      BY <1>2, <1>3, <2>2 DEF EndOf
    <2> QED BY <1>2, <1>4, <2>1, <2>3 DEF ru, su
  <1>5. CASE ~(n + l <= Window)
    <2> DEFINE c == SubSeq(ru, (n + l) - Window + 1, n + l)
    <2>1. KeepRecent(ru) = c
      BY <1>1, <1>2, <1>5 DEF KeepRecent
    <2>2. /\ c \in Seq(S) /\ Len(c) = Window
          /\ \A k \in 1..Window : c[k] = ru[(n + l) - Window + k]
      <3>1. /\ (n + l) - Window + 1 \in Int /\ n + l \in Int /\ (n + l) - Window + 1 <= n + l
            /\ \A i \in ((n + l) - Window + 1)..(n + l) : i \in 1..(n + l)
            /\ (n + l) - ((n + l) - Window + 1) + 1 = Window
            /\ \A k \in 1..Window : ((n + l) - Window + 1) + k - 1 = (n + l) - Window + k
        BY <1>1, <1>5
      <3>2. \A i \in ((n + l) - Window + 1)..(n + l) : ru[i] \in S
        BY <1>3, <3>1
      <3>3. /\ c \in Seq(S)
            /\ Len(c) = IF (n + l) - Window + 1 <= n + l
                        THEN (n + l) - ((n + l) - Window + 1) + 1 ELSE 0
            /\ \A k \in 1..((n + l) - ((n + l) - Window + 1) + 1) :
                 c[k] = ru[((n + l) - Window + 1) + k - 1]
        BY <3>1, <3>2, SubSeqProperties
      <3> QED BY <3>1, <3>3
    <2> HIDE DEF c
    <2>3. \A k \in 1..Window : c[k] = su[(m + l) - Window + k]
      <3> TAKE k \in 1..Window
      <3>1. (n + l) - Window + k \in 1..(n + l)
            /\ m - n + ((n + l) - Window + k) = (m + l) - Window + k
        BY <1>1, <1>5
      <3> QED BY <1>3, <2>2, <3>1
    <2>4. Window <= m + l
      BY <1>1, <1>5
    <2>5. EndOf(c, su)
      BY <1>2, <2>2, <2>3, <2>4 DEF EndOf
    <2> QED BY <1>1, <1>2, <2>1, <2>2, <2>5 DEF ru, su
  <1> QED BY <1>4, <1>5

\* What TypeOK says beyond Types, and that only the dashboard keeps a list.
Memory ==
    /\ flags \in [tui : BOOLEAN, jsonl : BOOLEAN, json : BOOLEAN]
    /\ queue \in Seq(1..produced)
    /\ shown \in Seq(1..produced) /\ recent \in Seq(1..produced)
    /\ Len(recent) <= Window /\ EndOf(recent, shown)
    /\ Mode # "tui" => recent = <<>>
    /\ snapshot \in {0} \cup {shown[i] : i \in DOMAIN shown}
    /\ out \in Seq({"json", "text"})

LEMMA EmptyMemory ==
    ASSUME NEW S, NEW s \in Seq(S)
    PROVE  <<>> \in Seq(S) /\ Len(<<>>) = 0 /\ EndOf(<<>>, s)
  BY DEF EndOf

LEMMA MemoryInit == Init => Memory
  <1> SUFFICES ASSUME Init PROVE Memory
    OBVIOUS
  <1>1. queue = <<>> /\ shown = <<>> /\ recent = <<>> /\ out = <<>> /\ snapshot = 0
        /\ flags \in [tui : BOOLEAN, jsonl : BOOLEAN, json : BOOLEAN]
    BY DEF Init
  <1>2. \A S : <<>> \in Seq(S)
    OBVIOUS
  <1>3. EndOf(recent, shown) /\ Len(recent) <= Window
    BY <1>1, FrontendAssumption DEF EndOf
  <1> QED BY <1>1, <1>2, <1>3 DEF Memory

\* Showing more: the last picture saved is still one of those shown.
LEMMA MemoryShown ==
    ASSUME Memory, NEW u \in Seq(1..produced), UNCHANGED <<flags, produced, snapshot>>,
           shown' = shown \o u,
           recent' = (IF Mode = "tui" THEN KeepRecent(recent \o u) ELSE recent),
           queue' \in Seq(1..produced), out' \in Seq({"json", "text"})
    PROVE  Memory'
  <1>1. shown \in Seq(1..produced) /\ recent \in Seq(1..produced) /\ EndOf(recent, shown)
        /\ Len(recent) <= Window /\ Mode' = Mode
    BY DEF Memory, Mode
  <1>2. /\ KeepRecent(recent \o u) \in Seq(1..produced) /\ Len(KeepRecent(recent \o u)) <= Window
        /\ shown' \in Seq(1..produced) /\ EndOf(KeepRecent(recent \o u), shown')
    BY <1>1, KeepsEnd
  <1>3. recent' \in Seq(1..produced) /\ Len(recent') <= Window /\ EndOf(recent', shown')
        /\ (Mode' # "tui" => recent' = <<>>)
    <2>1. CASE Mode = "tui"
      BY <1>1, <1>2, <2>1
    <2>2. CASE Mode # "tui"
      <3>1. recent' = recent /\ recent = <<>>
        BY <2>2 DEF Memory
      <3> QED BY <1>1, <1>2, <2>2, <3>1, EmptyMemory
    <2> QED BY <2>1, <2>2
  <1>4. \A i \in DOMAIN shown : i \in DOMAIN shown' /\ shown'[i] = shown[i]
    <2>1. /\ Len(shown') = Len(shown) + Len(u) /\ Len(shown) \in Nat /\ Len(u) \in Nat
          /\ \A i \in 1..(Len(shown) + Len(u)) :
               shown'[i] = IF i <= Len(shown) THEN shown[i] ELSE u[i - Len(shown)]
      BY <1>1, ConcatProperties
    <2> QED BY <1>1, <1>2, <2>1
  <1>5. snapshot' \in {0} \cup {shown'[i] : i \in DOMAIN shown'}
    <2>1. snapshot' = snapshot /\ (snapshot = 0 \/ \E i \in DOMAIN shown : snapshot = shown[i])
      BY DEF Memory
    <2> QED BY <1>4, <2>1
  <1> QED BY <1>2, <1>3, <1>5 DEF Memory

\* Nothing more is shown.
LEMMA MemoryKept ==
    ASSUME Memory, UNCHANGED <<flags, produced, shown, recent, snapshot>>,
           queue' \in Seq(1..produced), out' \in Seq({"json", "text"})
    PROVE  Memory'
  <1>1. Mode' = Mode
    BY DEF Mode
  <1>2. EndOf(recent', shown')
    BY DEF Memory
  <1> QED BY <1>1, <1>2 DEF Memory

LEMMA MemoryStep == Types /\ Memory /\ [Next]_vars => Memory'
  <1> SUFFICES ASSUME Types, Memory, [Next]_vars PROVE Memory'
    OBVIOUS
  <1>0. /\ queue \in Seq(1..produced) /\ shown \in Seq(1..produced) /\ recent \in Seq(1..produced)
        /\ out \in Seq({"json", "text"}) /\ produced \in Nat
    BY DEF Types, Memory
  <1>00. <<>> \in Seq(1..produced)
    OBVIOUS
  <1>1. CASE Produce
    <2>1. produced' = produced + 1 /\ UNCHANGED <<flags, shown, recent, snapshot, out>>
          /\ queue' \in {queue, Append(queue, produced + 1)}
      BY <1>1 DEF Produce, screen
    <2>2. 1..produced \subseteq 1..produced' /\ produced + 1 \in 1..produced'
      BY <1>0, <2>1
    <2>3. \A q \in Seq(1..produced) : q \in Seq(1..produced')
      <3> TAKE q \in Seq(1..produced)
      <3> QED BY <2>2, SeqMonotonic
    <2>4. queue' \in Seq(1..produced')
      <3>1. queue \in Seq(1..produced')
        BY <1>0, <2>3
      <3>2. Append(queue, produced + 1) \in Seq(1..produced')
        BY <2>1, <2>2, <3>1
      <3> QED BY <2>1, <3>1, <3>2
    <2>5. EndOf(recent', shown') /\ Mode' = Mode
      BY <2>1 DEF Memory, Mode
    <2> QED BY <1>0, <2>1, <2>3, <2>4, <2>5 DEF Memory
  <1>2. CASE HumanRecv \/ PrinterRecv \/ (DashRecv /\ ~paused)
    <2>1. queue # <<>> /\ queue' = Tail(queue) /\ UNCHANGED <<flags, produced, snapshot>>
      BY <1>2 DEF HumanRecv, PrinterRecv, DashRecv
    <2>2. Head(queue) \in 1..produced /\ Tail(queue) \in Seq(1..produced)
      BY <1>0, <2>1, HeadTailProperties
    <2> DEFINE u == <<Head(queue)>>
    <2>3. u \in Seq(1..produced) /\ Append(shown, Head(queue)) = shown \o u
      BY <1>0, <2>2
    <2>4. shown' = shown \o u
      BY <1>2, <2>3 DEF HumanRecv, PrinterRecv, DashRecv, Display
    <2>5. recent' = (IF Mode = "tui" THEN KeepRecent(recent \o u) ELSE recent)
      BY <1>2 DEF HumanRecv, PrinterRecv, DashRecv, Display, Dashboard
    <2>6. out' \in Seq({"json", "text"})
      <3>1. out' = out \/ out' = Append(out, "json")
        BY <1>2 DEF HumanRecv, PrinterRecv, DashRecv
      <3>2. Append(out, "json") \in Seq({"json", "text"})
        BY <1>0
      <3> QED BY <1>0, <3>1, <3>2
    <2> HIDE DEF u
    <2>7. queue' \in Seq(1..produced)
      BY <2>1, <2>2
    <2> QED BY <2>1, <2>3, <2>4, <2>5, <2>6, <2>7, MemoryShown
  <1>3. CASE DashTick
    <2>1. /\ shown' = shown \o queue /\ recent' = KeepRecent(recent \o queue) /\ Mode = "tui"
          /\ queue' = <<>> /\ out' = out /\ UNCHANGED <<flags, produced, snapshot>>
      BY <1>3 DEF DashTick, Display, Dashboard
    <2>2. queue' \in Seq(1..produced) /\ out' \in Seq({"json", "text"})
      BY <1>0, <1>00, <2>1
    <2>3. recent' = (IF Mode = "tui" THEN KeepRecent(recent \o queue) ELSE recent)
      BY <2>1
    <2> QED BY <1>0, <2>1, <2>2, <2>3, MemoryShown
  <1>4. CASE DashRecv /\ paused
    <2>1. queue # <<>> /\ queue' = Tail(queue)
          /\ UNCHANGED <<flags, produced, shown, recent, snapshot, out>>
      BY <1>4 DEF DashRecv
    <2>2. Tail(queue) \in Seq(1..produced)
      BY <1>0, <2>1, HeadTailProperties
    <2> QED BY <1>0, <2>1, <2>2, MemoryKept
  <1>5. CASE DashClosed \/ KeyQuit
    <2>1. queue' = <<>> /\ UNCHANGED <<flags, produced, shown, recent, snapshot, out>>
      BY <1>5 DEF DashClosed, KeyQuit, LeaveDashboard, screen
    <2> QED BY <1>0, <1>00, <2>1, MemoryKept
  <1>6. CASE KeyExport
    <2>1. /\ UNCHANGED <<flags, produced, queue, shown, recent, out>>
          /\ snapshot' \in {snapshot, IF shown = <<>> THEN 0 ELSE Last(shown)}
      BY <1>6 DEF KeyExport
    <2>2. shown # <<>> => Len(shown) \in DOMAIN shown /\ Last(shown) = shown[Len(shown)]
      BY <1>0 DEF Last
    <2>3. snapshot' \in {0} \cup {shown[i] : i \in DOMAIN shown}
      BY <2>1, <2>2 DEF Memory
    <2>4. Mode' = Mode /\ EndOf(recent', shown')
      BY <2>1 DEF Mode, Memory
    <2> QED BY <2>1, <2>3, <2>4 DEF Memory
  <1>7. CASE Emit
    <2>1. UNCHANGED <<flags, produced, queue, shown, recent, snapshot>>
          /\ out' = Append(out, IF flags.json THEN "json" ELSE "text")
      BY <1>7 DEF Emit, screen
    <2>2. out' \in Seq({"json", "text"})
      BY <1>0, <2>1
    <2> QED BY <1>0, <2>1, <2>2, MemoryKept
  <1>8. CASE RunnerEnds \/ HumanResult \/ TuiResult \/ JsonlResult \/ JsonResult \/ OutputFails
             \/ DashFails \/ KeyPause \/ UNCHANGED vars
    <2>1. UNCHANGED <<flags, produced, queue, shown, recent, snapshot, out>>
      BY <1>8 DEF RunnerEnds, HumanResult, TuiResult, JsonlResult, JsonResult, TakeResult,
         OutputFails, DashFails, KeyPause, vars, screen
    <2> QED BY <1>0, <2>1, MemoryKept
  <1> QED BY <1>1, <1>2, <1>3, <1>4, <1>5, <1>6, <1>7, <1>8
          DEF Next, RunnerNext, MainNext, UserNext, Terminating

\* TypeOK holds: in particular the dashboard's list is the end of what was
\* displayed and no longer than its window.
THEOREM TypeCorrect == Spec => []TypeOK
  <1>1. IInv /\ Memory => TypeOK
    <2> SUFFICES ASSUME Types, Memory PROVE TypeOK
      BY DEF IInv
    <2>1. IsSuffix(recent, shown)
      BY EndIsSuffix DEF Memory
    <2> QED BY <2>1 DEF Types, Memory, TypeOK
  <1>2. IInv => Types
    BY DEF IInv
  <1> QED BY <1>1, <1>2, Holds, MemoryInit, MemoryStep, PTL DEF Spec
=============================================================================
