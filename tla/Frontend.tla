------------------------------- MODULE Frontend -------------------------------
(***************************************************************************)
(* What `ipfusch run` does with the intervals of a running benchmark, in   *)
(* each of its modes: the dashboard (--tui), the line printer (--jsonl),   *)
(* nothing (--json) and the progress bar.  The runner is Engine, as far as *)
(* it can be seen from here: it sends intervals on an unbounded channel,   *)
(* closes it when it ends, and ends well or not.  Wording and drawing are  *)
(* left out.                                                               *)
(***************************************************************************)
EXTENDS Naturals, Sequences, SequencesExt

CONSTANTS
    Window,       \* intervals the dashboard keeps
    MaxIntervals  \* bound: intervals of one run

ASSUME FrontendAssumption == Window \in Nat \ {0} /\ MaxIntervals \in Nat

VARIABLES
    flags,      \* the options --tui, --jsonl, --json
    runner,     \* "running", "ok" or "failed": the benchmark task
    produced,   \* intervals sent so far
    queue,      \* the interval channel
    ui,         \* "show", "await", "output" or "exited"
    exit,       \* "none", "ok" or "failed": what main returns
    shown,      \* intervals displayed or printed
    recent,     \* the dashboard's deque
    paused,
    everPaused, \* history: the dashboard was paused before
    snapshot,   \* what the last file of the snapshot key holds, 0 for the default
    out         \* what was written to stdout, line by line

screen == <<shown, recent, paused, everPaused, snapshot>>
vars == <<flags, runner, produced, queue, ui, exit, screen, out>>

\* if args.tui .. else if cli.jsonl .. else if cli.json .. else
Mode ==
    IF flags.tui THEN "tui" ELSE IF flags.jsonl THEN "jsonl"
    ELSE IF flags.json THEN "json" ELSE "human"

Init ==
    /\ flags \in [tui : BOOLEAN, jsonl : BOOLEAN, json : BOOLEAN]
    /\ runner = "running" /\ produced = 0 /\ queue = <<>>
    /\ ui = "show" /\ exit = "none"
    /\ shown = <<>> /\ recent = <<>> /\ paused = FALSE /\ everPaused = FALSE
    /\ snapshot = 0
    /\ out = <<>>

-----------------------------------------------------------------------------
(* The benchmark task                                                      *)

\* --json passes no channel, and a dashboard that was left has dropped its end.
Listening == Mode # "json" /\ ~(Mode = "tui" /\ ui # "show")

Produce ==
    /\ runner = "running" /\ exit = "none" /\ produced < MaxIntervals
    /\ produced' = produced + 1
    /\ queue' = IF Listening THEN Append(queue, produced') ELSE queue
    /\ UNCHANGED <<flags, runner, ui, exit, screen, out>>

RunnerEnds ==
    /\ runner = "running" /\ exit = "none"
    /\ runner' \in {"ok", "failed"}
    /\ UNCHANGED <<flags, produced, queue, ui, exit, screen, out>>

Closed == runner # "running" /\ queue = <<>>

-----------------------------------------------------------------------------
(* How the result is taken                                                 *)

\* report.await?? : a report goes on to the output, an error ends main.
TakeResult ==
    /\ runner # "running"
    /\ IF runner = "ok" THEN ui' = "output" /\ UNCHANGED exit
                        ELSE ui' = "exited" /\ exit' = "failed"
    /\ UNCHANGED <<flags, runner, produced, queue, screen, out>>

-----------------------------------------------------------------------------
(* run_with_progress                                                       *)

HumanRecvLatest ==
    /\ Mode = "human" /\ ui = "show" /\ queue # <<>>
    /\ shown' = Append(shown, Last(queue))
    /\ queue' = <<>>
    /\ UNCHANGED <<flags, runner, produced, ui, exit, recent, paused, everPaused, snapshot, out>>

HumanRecv ==
    /\ Mode = "human" /\ ui = "show" /\ queue # <<>>
    /\ shown' = Append(shown, Head(queue))
    /\ queue' = Tail(queue)
    /\ UNCHANGED <<flags, runner, produced, ui, exit, recent, paused, everPaused, snapshot, out>>

\* select! may take this branch with intervals still queued.
HumanResult == Mode = "human" /\ ui = "show" /\ TakeResult

-----------------------------------------------------------------------------
(* run_dashboard                                                           *)

Dashboard == Mode = "tui" /\ ui = "show"

KeepAll(s) == s
KeepRecent(s) == IF Len(s) > Window THEN SubSeq(s, Len(s) - Window + 1, Len(s)) ELSE s

Display(updates) ==
    /\ shown' = shown \o updates
    /\ recent' = KeepRecent(recent \o updates)

KeyPause ==
    /\ Dashboard
    /\ paused' = ~paused /\ everPaused' = TRUE
    /\ UNCHANGED <<flags, runner, produced, queue, ui, exit, shown, recent, snapshot, out>>

\* `latest` goes to a file, while paused too; it may not be writable.
KeyExport ==
    /\ Dashboard
    /\ snapshot' \in {snapshot, IF shown = <<>> THEN 0 ELSE Last(shown)}
    /\ UNCHANGED <<flags, runner, produced, queue, ui, exit, shown, recent, paused,
                   everPaused, out>>

\* The receiver is dropped; main waits for the runner.
LeaveDashboard ==
    /\ ui' = "await" /\ queue' = <<>>
    /\ UNCHANGED <<flags, runner, produced, exit, screen, out>>

KeyQuit == Dashboard /\ LeaveDashboard

\* The ticker drains what is queued, unless paused.
DashTick ==
    /\ Dashboard /\ ~paused /\ queue # <<>>
    /\ Display(queue)
    /\ queue' = <<>>
    /\ UNCHANGED <<flags, runner, produced, ui, exit, paused, everPaused, snapshot, out>>

\* An update that arrives while paused is taken off the channel all the same.
DashRecv ==
    /\ Dashboard /\ queue # <<>>
    /\ IF paused THEN UNCHANGED <<shown, recent>> ELSE Display(<<Head(queue)>>)
    /\ queue' = Tail(queue)
    /\ UNCHANGED <<flags, runner, produced, ui, exit, paused, everPaused, snapshot, out>>

\* a closed channel leaves the last picture on the screen until q is pressed
DashClosedWaits == FALSE /\ UNCHANGED vars
DashClosed == Dashboard /\ Closed /\ LeaveDashboard

\* An error of the terminal ends main; the runner goes with the process.
DashFails ==
    /\ Dashboard
    /\ ui' = "exited" /\ exit' = "failed"
    /\ UNCHANGED <<flags, runner, produced, queue, screen, out>>

TuiResult == Mode = "tui" /\ ui = "await" /\ TakeResult

-----------------------------------------------------------------------------
(* --jsonl and --json                                                      *)

PrinterRecv ==
    /\ Mode = "jsonl" /\ ui = "show" /\ queue # <<>>
    /\ shown' = Append(shown, Head(queue))
    /\ out' = Append(out, "json")
    /\ queue' = Tail(queue)
    /\ UNCHANGED <<flags, runner, produced, ui, exit, recent, paused, everPaused, snapshot>>

JsonlResultAtOnce == Mode = "jsonl" /\ ui = "show" /\ TakeResult

\* A report waits for the printer; an error does not.
JsonlResult ==
    /\ Mode = "jsonl" /\ ui = "show"
    /\ Closed \/ runner = "failed"
    /\ TakeResult

JsonResult == Mode = "json" /\ ui = "show" /\ TakeResult

-----------------------------------------------------------------------------
(* The report                                                              *)

Emit ==
    /\ ui = "output"
    /\ out' = Append(out, IF flags.json THEN "json" ELSE "text")
    /\ ui' = "exited" /\ exit' = "ok"
    /\ UNCHANGED <<flags, runner, produced, queue, screen>>

\* --output names a file that cannot be written.
OutputFails ==
    /\ ui = "output"
    /\ ui' = "exited" /\ exit' = "failed"
    /\ UNCHANGED <<flags, runner, produced, queue, screen, out>>

Terminating == ui = "exited" /\ UNCHANGED vars

RunnerNext == Produce \/ RunnerEnds
MainNext ==
    \/ HumanRecv \/ HumanResult \/ DashTick \/ DashRecv \/ DashClosed \/ TuiResult
    \/ PrinterRecv \/ JsonlResult \/ JsonResult \/ Emit
UserNext == KeyPause \/ KeyExport \/ KeyQuit \/ DashFails \/ OutputFails

Next == RunnerNext \/ MainNext \/ UserNext \/ Terminating

Spec == Init /\ [][Next]_vars

\* The runner ends (Engine's Termination) and main's task is scheduled; nobody
\* needs to press a key.
FairSpec == Spec /\ WF_vars(RunnerNext) /\ WF_vars(MainNext)

-----------------------------------------------------------------------------
(* Properties                                                              *)

\* Types; in particular the dashboard's memory is bounded and holds the last
\* intervals displayed.
TypeOK ==
    /\ flags \in [tui : BOOLEAN, jsonl : BOOLEAN, json : BOOLEAN]
    /\ runner \in {"running", "ok", "failed"}
    /\ produced \in Nat /\ queue \in Seq(1..produced)
    /\ ui \in {"show", "await", "output", "exited"}
    /\ exit \in {"none", "ok", "failed"}
    /\ shown \in Seq(1..produced)
    /\ recent \in Seq(1..produced) /\ Len(recent) <= Window /\ IsSuffix(recent, shown)
    /\ paused \in BOOLEAN /\ everPaused \in BOOLEAN
    /\ snapshot \in {0} \cup {shown[i] : i \in DOMAIN shown}
    /\ out \in Seq({"json", "text"})

\* Intervals are displayed once and in order, whichever of the two branches of
\* the dashboard takes them; only a pause leaves any of them out.
ShownInOrder ==
    /\ \A i, j \in DOMAIN shown : i < j => shown[i] < shown[j]
    /\ \A i \in DOMAIN shown, k \in DOMAIN queue : shown[i] < queue[k]
    /\ ~everPaused => \A i \in DOMAIN shown : shown[i] = i

\* A --jsonl run that ends well has printed every interval, though they were
\* printed by another task.
JsonlComplete ==
    Mode = "jsonl" /\ exit = "ok" => Len(shown) = produced /\ runner = "ok"

\* Main ends when the runner has: a paused dashboard, with intervals it will
\* not show, does not keep it.
Termination == <>(ui = "exited")

\* Of the output mode "JSONL": what it writes is JSON, line by line.
JsonlIsJson == Mode = "jsonl" => \A i \in DOMAIN out : out[i] = "json"
=============================================================================
