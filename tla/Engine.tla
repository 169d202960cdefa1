-------------------------------- MODULE Engine --------------------------------
(***************************************************************************)
(* run_benchmark of ipfusch-engine: the stream tasks it spawns, the channel*)
(* all of them report on, the select loop that counts the reports and cuts *)
(* them into intervals, and the join that decides whether there is a report*)
(* A stream here is what StreamContract promises, which TcpStream and      *)
(* UdpStream are shown to implement, with a warm-up of its own that starts *)
(* when it is connected.  Bytes follow from packets, and latencies are left*)
(* out but for the order of the acks.                                      *)
(***************************************************************************)
EXTENDS Naturals, Sequences, FiniteSets, FiniteSetsExt

CONSTANTS
    Streams,           \* cfg.streams
    Warmup, Duration,  \* in ticks
    Interval,          \* the period of the interval timer
    NoTick,            \* no interval was cut yet
    MaxPackets,        \* bound: packets of all streams together
    Horizon            \* bound: the clock stops here

ASSUME EngineAssumption ==
    /\ Streams \in Nat /\ Warmup \in Nat /\ Duration \in Nat
    /\ Interval \in Nat \ {0} /\ NoTick \notin Nat /\ MaxPackets \in Nat
    /\ Horizon \in Nat /\ Horizon >= Warmup + Duration

Ids == 0..(Streams - 1)
MeasurementStart == Warmup

VARIABLES
    now,       \* the clock, in ticks since `started`
    status,    \* stream -> "connecting", "running", "ok" or "failed"
    start,     \* stream -> when its loop started
    marks,     \* stream -> the `measured` flag of each packet sent
    open,      \* stream -> packets without a report
    acked,     \* stream -> the last packet reported acked
    chan,      \* the event channel
    pc,        \* "loop", "join", "reported" or "failed"
    acc,       \* stream -> StreamAccumulator, for those that have one
    totals, totalsPrev,
    intervals,
    lastTick,  \* last_interval_tick, or NoTick
    nextTick,  \* when the interval timer is due
    joined     \* handles awaited

streamVars == <<status, start, marks, open, acked>>
countVars == <<acc, totals, totalsPrev, intervals, lastTick>>
vars == <<now, streamVars, chan, pc, countVars, nextTick, joined>>

NoCount == [sent |-> 0, acked |-> 0, lost |-> 0]
NewAccumulator == [count |-> NoCount, last_seq |-> 0, reordered |-> 0]

Init ==
    /\ now = 0
    /\ status = [i \in Ids |-> "connecting"] /\ start = [i \in Ids |-> 0]
    /\ marks = [i \in Ids |-> <<>>] /\ open = [i \in Ids |-> {}]
    /\ acked = [i \in Ids |-> 0]
    /\ chan = <<>> /\ pc = "loop"
    /\ acc = [i \in {} |-> NewAccumulator]
    /\ totals = NoCount /\ totalsPrev = NoCount
    /\ intervals = <<>> /\ lastTick = NoTick
    /\ nextTick = 0   \* the first tick of a tokio interval is immediate
    /\ joined = 0

-----------------------------------------------------------------------------
(* The stream tasks                                                        *)

\* A connection that comes too late for the Horizon is left out.
Connected(i) ==
    /\ status[i] = "connecting" /\ now + Warmup + Duration <= Horizon
    /\ status' = [status EXCEPT ![i] = "running"]
    /\ start' = [start EXCEPT ![i] = now]
    /\ UNCHANGED <<now, marks, open, acked, chan, pc, countVars, nextTick, joined>>

Packets == MapThenSumSet(LAMBDA i : Len(marks[i]), Ids)

Send(i) ==
    /\ status[i] = "running" /\ Packets < MaxPackets
    /\ marks' = [marks EXCEPT ![i] = Append(@, now >= start[i] + Warmup)]
    /\ open' = [open EXCEPT ![i] = @ \cup {Len(marks[i]) + 1}]
    /\ UNCHANGED <<now, status, start, acked, chan, pc, countVars, nextTick, joined>>

PacketEvent(i, s, ack) ==
    [stream |-> i, seq |-> s, acked |-> ack, measured |-> marks[i][s]]

Report(i, s, ack) ==
    /\ status[i] = "running"
    /\ ack => s > acked[i]
    /\ acked' = IF ack THEN [acked EXCEPT ![i] = s] ELSE acked
    /\ open' = [open EXCEPT ![i] = @ \ {s}]
    /\ chan' = Append(chan, PacketEvent(i, s, ack))
    /\ UNCHANGED <<now, status, start, marks, pc, countVars, nextTick, joined>>

Ended(i) == status[i] \in {"ok", "failed"}

Finish(i) ==
    /\ status[i] = "running" /\ open[i] = {}
    /\ now >= start[i] + Warmup + Duration
    /\ status' = [status EXCEPT ![i] = "ok"]
    /\ UNCHANGED <<now, start, marks, open, acked, chan, pc, countVars, nextTick, joined>>

\* The packets it had not reported are never reported.
Fail(i) ==
    /\ ~Ended(i)
    /\ status' = [status EXCEPT ![i] = "failed"]
    /\ UNCHANGED <<now, start, marks, open, acked, chan, pc, countVars, nextTick, joined>>

StreamNext(i) ==
    \/ Connected(i) \/ Send(i) \/ Finish(i) \/ Fail(i)
    \/ \E s \in open[i], ack \in BOOLEAN : Report(i, s, ack)

-----------------------------------------------------------------------------
(* The select loop                                                         *)

Counted(c, e) ==
    [sent  |-> c.sent + 1,
     acked |-> c.acked + (IF e.acked THEN 1 ELSE 0),
     lost  |-> c.lost + (IF e.acked THEN 0 ELSE 1)]

\* the losses take part in the order too
AccumulatedOrdersLosses(a, e) ==
    [count     |-> Counted(a.count, e),
     reordered |-> a.reordered + (IF a.last_seq > e.seq THEN 1 ELSE 0),
     last_seq  |-> IF e.seq > a.last_seq THEN e.seq ELSE a.last_seq]

Accumulated(a, e) ==
    [count     |-> Counted(a.count, e),
     reordered |-> a.reordered + (IF e.acked /\ a.last_seq > e.seq THEN 1 ELSE 0),
     last_seq  |-> IF e.acked /\ e.seq > a.last_seq THEN e.seq ELSE a.last_seq]

Accumulator(i) == IF i \in DOMAIN acc THEN acc[i] ELSE NewAccumulator

\* apply_event
Apply(e) ==
    /\ acc' = [i \in DOMAIN acc \cup {e.stream} |->
                 IF i = e.stream THEN Accumulated(Accumulator(i), e) ELSE acc[i]]
    /\ totals' = Counted(totals, e)
    /\ UNCHANGED <<totalsPrev, intervals, lastTick>>

\* the warm-up counts as well
RecvUnfiltered ==
    /\ pc = "loop" /\ chan # <<>>
    /\ chan' = Tail(chan)
    /\ Apply(Head(chan))
    /\ UNCHANGED <<now, streamVars, pc, nextTick, joined>>

Recv ==
    /\ pc = "loop" /\ chan # <<>>
    /\ chan' = Tail(chan)
    /\ IF Head(chan).measured THEN Apply(Head(chan)) ELSE UNCHANGED countVars
    /\ UNCHANGED <<now, streamVars, pc, nextTick, joined>>

\* the engine keeps a sender of its own
ChannelClosedNever == FALSE
ChannelClosed == chan = <<>> /\ \A i \in Ids : Ended(i)

\* recv() returns None: every stream's sender is dropped and nothing is queued.
LoopEnds ==
    /\ pc = "loop" /\ ChannelClosed
    /\ pc' = "join"
    /\ UNCHANGED <<now, streamVars, chan, countVars, nextTick, joined>>

SatSubSwapped(a, b) == b - a
SatSub(a, b) == IF a > b THEN a - b ELSE 0
CountDiff(c, d) ==
    [sent |-> SatSub(c.sent, d.sent), acked |-> SatSub(c.acked, d.acked),
     lost |-> SatSub(c.lost, d.lost)]

\* start_ms and end_ms count from measurement_start
BuildInterval ==
    LET since == now - MeasurementStart
        passed == IF lastTick = NoTick THEN since ELSE now - lastTick
        span == IF passed = 0 THEN Interval ELSE passed
    IN  [index |-> Len(intervals), start |-> SatSub(since, span), end |-> since,
         count |-> CountDiff(totals, totalsPrev)]

\* MissedTickBehavior::Skip: back onto the grid, after `now`.
Rearm == nextTick' = now + Interval - ((now - nextTick) % Interval)

\* totals_prev is not moved on
CutIntervalKeepsPrev ==
    /\ intervals' = Append(intervals, BuildInterval)
    /\ lastTick' = now
    /\ UNCHANGED <<totalsPrev, acc, totals>>

\* last_interval_tick is not moved on
CutIntervalKeepsTick ==
    /\ intervals' = Append(intervals, BuildInterval)
    /\ totalsPrev' = totals
    /\ UNCHANGED <<lastTick, acc, totals>>

CutInterval ==
    /\ intervals' = Append(intervals, BuildInterval)
    /\ totalsPrev' = totals
    /\ lastTick' = now
    /\ UNCHANGED <<acc, totals>>

TimerTick ==
    /\ pc = "loop" /\ now >= nextTick
    /\ Rearm
    /\ IF now < MeasurementStart THEN UNCHANGED countVars ELSE CutInterval
    /\ UNCHANGED <<now, streamVars, chan, pc, joined>>

JoinIgnoresResult ==
    /\ pc = "join" /\ joined < Streams
    /\ joined' = joined + 1 /\ UNCHANGED pc
    /\ UNCHANGED <<now, streamVars, chan, countVars, nextTick>>

\* handle.await?? : the first failed stream fails the run
Join ==
    /\ pc = "join" /\ joined < Streams
    /\ IF status[joined] = "ok" THEN joined' = joined + 1 /\ UNCHANGED pc
                                ELSE pc' = "failed" /\ UNCHANGED joined
    /\ UNCHANGED <<now, streamVars, chan, countVars, nextTick>>

MakeReport ==
    /\ pc = "join" /\ joined = Streams
    /\ pc' = "reported"
    /\ UNCHANGED <<now, streamVars, chan, countVars, nextTick, joined>>

EngineNext == Recv \/ LoopEnds \/ TimerTick \/ Join \/ MakeReport

Tick ==
    /\ pc = "loop" /\ now < Horizon
    /\ now' = now + 1
    /\ UNCHANGED <<streamVars, chan, pc, countVars, nextTick, joined>>

Terminating == pc \in {"reported", "failed"} /\ UNCHANGED vars

Next == (\E i \in Ids : StreamNext(i)) \/ EngineNext \/ Tick \/ Terminating

Spec == Init /\ [][Next]_vars

\* Tasks are scheduled, time passes, and every stream ends, as TcpStream and
\* UdpStream show of theirs.
FairSpec ==
    /\ Spec
    /\ WF_vars(EngineNext) /\ WF_vars(Tick)
    /\ \A i \in Ids : WF_vars(StreamNext(i))

-----------------------------------------------------------------------------
(* Properties                                                              *)

Counts == [sent : Nat, acked : Nat, lost : Nat]
Accumulators == [count : Counts, last_seq : Nat, reordered : Nat]
Intervals == [index : Nat, start : Nat, end : Nat, count : Counts]
Events == [stream : Ids, seq : Nat \ {0}, acked : BOOLEAN, measured : BOOLEAN]

TypeOK ==
    /\ now \in Nat /\ nextTick \in Nat /\ joined \in 0..Streams
    /\ status \in [Ids -> {"connecting", "running", "ok", "failed"}]
    /\ start \in [Ids -> Nat] /\ marks \in [Ids -> Seq(BOOLEAN)]
    /\ acked \in [Ids -> Nat]
    /\ open \in [Ids -> SUBSET Nat]
    /\ \A i \in Ids : open[i] \subseteq 1..Len(marks[i])
    /\ chan \in Seq(Events)
    /\ pc \in {"loop", "join", "reported", "failed"}
    /\ DOMAIN acc \subseteq Ids /\ acc \in [DOMAIN acc -> Accumulators]
    /\ totals \in Counts /\ totalsPrev \in Counts
    /\ intervals \in Seq(Intervals)
    /\ lastTick \in Nat \cup {NoTick}

\* The sum of a function is the number of things it counts.
Counting(f) == UNION {{i} \X (1..f[i]) : i \in DOMAIN f}
Sum(f) == Cardinality(Counting(f))

\* The entries of one field in a book of counts, of the streams or the intervals.
Entries(book, field) == [i \in DOMAIN book |-> book[i].count[field]]
Fields == {"sent", "acked", "lost"}

\* The aggregate is the sum of the streams, field by field, at every moment.
AggregateIsSumOfStreams == \A x \in Fields : totals[x] = Sum(Entries(acc, x))

\* The intervals cut the reports without gap or overlap: together they are what
\* was counted up to the last cut.
IntervalsAddUp == \A x \in Fields : totalsPrev[x] = Sum(Entries(intervals, x))

\* The three books of the run agree: streams, totals and intervals.
CountsAddUp == AggregateIsSumOfStreams /\ IntervalsAddUp

\* They also cut time without gap or overlap, from measurement_start on, even
\* when the loop was late and the timer skipped ticks.
IntervalsContiguous ==
    \A k \in DOMAIN intervals :
      /\ intervals[k].index = k - 1
      /\ intervals[k].start = (IF k = 1 THEN 0 ELSE intervals[k - 1].end)
      /\ k > 1 => intervals[k].start < intervals[k].end

MeasuredOf(i) == {s \in DOMAIN marks[i] : marks[i][s]}
QueuedOf(i) == {k \in DOMAIN chan : chan[k].stream = i /\ chan[k].measured}

\* No measured packet is lost between its stream and the report or counted
\* twice, and no packet of the warm-up is counted.
CountedExactly ==
    \A i \in Ids :
      Accumulator(i).count.sent + Cardinality(QueuedOf(i))
        + Cardinality(open[i] \cap MeasuredOf(i)) = Cardinality(MeasuredOf(i))

\* packets_reordered never leaves 0: acks come in order, losses do not count.
NeverReordered == \A i \in DOMAIN acc : acc[i].reordered = 0

\* A report covers complete streams only: each one ended well, and each of its
\* measured packets is in the report.
ReportIsComplete ==
    pc = "reported" =>
      \A i \in Ids :
        /\ status[i] = "ok"
        /\ Accumulator(i).count.sent = Cardinality(MeasuredOf(i))

\* The run ends once its streams have, and with a report if they ended well.
Termination == <>(pc \in {"reported", "failed"})

\* What the integration test asserts of every report: a row for each stream.
ReportHasEveryStream == pc = "reported" => Cardinality(DOMAIN acc) = Streams
=============================================================================
