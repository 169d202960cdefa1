----------------------------- MODULE EngineProofs -----------------------------
(***************************************************************************)
(* Theorems about Engine, for every number of streams and packets, every   *)
(* warm-up, duration and interval.                                         *)
(***************************************************************************)
EXTENDS Engine, TLAPS, FiniteSetTheorems, SequenceTheorems

LEMMA ConstantTypes ==
    /\ Streams \in Nat /\ Warmup \in Nat /\ Duration \in Nat
    /\ Interval \in Nat \ {0} /\ NoTick \notin Nat
    /\ MeasurementStart = Warmup
  BY EngineAssumption DEF MeasurementStart

-----------------------------------------------------------------------------
(* Types                                                                   *)

\* TypeOK in two parts, which different steps touch.
StreamTypes ==
    /\ status \in [Ids -> {"connecting", "running", "ok", "failed"}]
    /\ start \in [Ids -> Nat] /\ marks \in [Ids -> Seq(BOOLEAN)]
    /\ acked \in [Ids -> Nat]
    /\ open \in [Ids -> SUBSET Nat]
    /\ \A i \in Ids : open[i] \subseteq 1..Len(marks[i])

CountTypes ==
    /\ DOMAIN acc \subseteq Ids /\ acc \in [DOMAIN acc -> Accumulators]
    /\ totals \in Counts /\ totalsPrev \in Counts
    /\ intervals \in Seq(Intervals)
    /\ lastTick \in Nat \cup {NoTick}

LoopTypes ==
    /\ now \in Nat /\ nextTick \in Nat /\ joined \in 0..Streams
    /\ chan \in Seq(Events)
    /\ pc \in {"loop", "join", "reported", "failed"}

LEMMA TypeParts ==
    /\ TypeOK <=> StreamTypes /\ CountTypes /\ LoopTypes
    /\ TypeOK' <=> StreamTypes' /\ CountTypes' /\ LoopTypes'
  BY DEF TypeOK, StreamTypes, CountTypes, LoopTypes

\* The head of the channel is an event, and what follows it a channel.
LEMMA HeadOfChannel ==
    ASSUME LoopTypes, chan # <<>>
    PROVE  /\ Head(chan) = chan[1] /\ Head(chan) \in Events
           /\ Tail(chan) \in Seq(Events) /\ Len(chan) \in Nat \ {0}
           /\ Len(Tail(chan)) = Len(chan) - 1
           /\ \A k \in 1..Len(Tail(chan)) : Tail(chan)[k] = chan[k + 1]
  <1>1. chan \in Seq(Events)
    BY DEF LoopTypes
  <1>2. Head(chan) = chan[1] /\ Len(chan) \in Nat \ {0}
    BY <1>1
  <1>3. Tail(chan) \in Seq(Events) /\ Len(Tail(chan)) = Len(chan) - 1
        /\ \A k \in 1..Len(Tail(chan)) : Tail(chan)[k] = chan[k + 1]
    BY <1>1
  <1>4. Head(chan) \in Events
    BY <1>1, <1>2
  <1> QED BY <1>2, <1>3, <1>4

LEMMA EventFields ==
    ASSUME NEW e \in Events
    PROVE  e.stream \in Ids /\ e.seq \in Nat \ {0} /\ e.acked \in BOOLEAN /\ e.measured \in BOOLEAN
  BY DEF Events

LEMMA AccumulatorType ==
    ASSUME CountTypes, NEW i
    PROVE  Accumulator(i) \in Accumulators
  <1>1. NewAccumulator \in Accumulators
    BY DEF NewAccumulator, NoCount, Accumulators, Counts
  <1> QED BY <1>1 DEF CountTypes, Accumulator

LEMMA CountedType ==
    ASSUME NEW c \in Counts, NEW e
    PROVE  Counted(c, e) \in Counts
  BY DEF Counted, Counts

LEMMA AccumulatedType ==
    ASSUME NEW a \in Accumulators, NEW e \in Events
    PROVE  Accumulated(a, e) \in Accumulators
  <1>1. a.count \in Counts /\ a.reordered \in Nat /\ a.last_seq \in Nat
    BY DEF Accumulators
  <1>2. Counted(a.count, e) \in Counts
    BY <1>1, CountedType
  <1>3. e.seq \in Nat
    BY EventFields
  <1> QED BY <1>1, <1>2, <1>3 DEF Accumulated, Accumulators

\* What a measured event changes of the accumulators: its own stream's.
LEMMA ApplyEffect ==
    ASSUME CountTypes, NEW e \in Events, Apply(e)
    PROVE  /\ DOMAIN acc' = DOMAIN acc \cup {e.stream}
           /\ \A i : Accumulator(i)' = IF i = e.stream THEN Accumulated(Accumulator(i), e)
                                                       ELSE Accumulator(i)
  BY DEF Apply, Accumulator

LEMMA ApplyTypes ==
    ASSUME CountTypes, NEW e \in Events, Apply(e)
    PROVE  CountTypes'
  <1>1. DOMAIN acc' = DOMAIN acc \cup {e.stream} /\ DOMAIN acc' \subseteq Ids
    BY EventFields DEF Apply, CountTypes
  <1>2. \A i \in DOMAIN acc' : acc'[i] \in Accumulators
    BY AccumulatorType, AccumulatedType DEF Apply, CountTypes
  <1>3. acc' = [i \in DOMAIN acc' |-> acc'[i]]
    BY DEF Apply
  <1>4. acc' \in [DOMAIN acc' -> Accumulators]
    BY <1>2, <1>3
  <1>5. totals' \in Counts
    BY CountedType DEF Apply, CountTypes
  <1>6. UNCHANGED <<totalsPrev, intervals, lastTick>>
    BY DEF Apply
  <1> QED BY <1>1, <1>4, <1>5, <1>6 DEF CountTypes

LEMMA CountDiffType ==
    ASSUME NEW c \in Counts, NEW d \in Counts
    PROVE  CountDiff(c, d) \in Counts
  <1>1. \A a, b \in Nat : SatSub(a, b) \in Nat
    BY DEF SatSub
  <1> QED BY <1>1 DEF CountDiff, Counts

\* The interval an ordinary tick of the timer would cut.
LEMMA IntervalType ==
    ASSUME CountTypes, LoopTypes, now >= MeasurementStart
    PROVE  BuildInterval \in Intervals
  <1> DEFINE since == now - MeasurementStart
             passed == IF lastTick = NoTick THEN since ELSE now - lastTick
             span == IF passed = 0 THEN Interval ELSE passed
  <1>1. since \in Nat /\ span \in Int
    BY ConstantTypes DEF LoopTypes, CountTypes
  <1>2. SatSub(since, span) \in Nat
    BY <1>1 DEF SatSub
  <1>3. Len(intervals) \in Nat /\ CountDiff(totals, totalsPrev) \in Counts
    BY CountDiffType DEF CountTypes
  <1>4. BuildInterval = [index |-> Len(intervals), start |-> SatSub(since, span),
                         end |-> since, count |-> CountDiff(totals, totalsPrev)]
    BY DEF BuildInterval
  <1> HIDE DEF since, span
  <1> QED BY <1>1, <1>2, <1>3, <1>4 DEF Intervals

\* The timer goes back onto its grid, beyond the present.
LEMMA RearmForward ==
    ASSUME LoopTypes, now >= nextTick, Rearm
    PROVE  nextTick' \in Nat /\ nextTick' > now
  <1> DEFINE late == (now - nextTick) % Interval
  <1>1. now - nextTick \in Nat /\ now \in Nat
    BY DEF LoopTypes
  <1>2. late \in 0..(Interval - 1)
    BY <1>1, ConstantTypes
  <1>3. nextTick' = now + Interval - late
    BY DEF Rearm
  <1> HIDE DEF late
  <1> QED BY <1>1, <1>2, <1>3, ConstantTypes

LEMMA InitTypes == Init => TypeOK
  <1> SUFFICES ASSUME Init PROVE TypeOK
    OBVIOUS
  <1>1. StreamTypes
    BY DEF Init, StreamTypes
  <1>2. NoCount \in Counts
    BY DEF NoCount, Counts
  <1>3. DOMAIN acc \subseteq Ids /\ acc \in [DOMAIN acc -> Accumulators]
    BY DEF Init
  <1>4. CountTypes
    BY <1>2, <1>3 DEF Init, CountTypes
  <1>5. LoopTypes
    BY ConstantTypes DEF Init, LoopTypes
  <1> QED BY <1>1, <1>4, <1>5, TypeParts

\* A step of a stream task keeps the types, and leaves the counting alone.
LEMMA StreamStepTypes ==
    ASSUME TypeOK, NEW i \in Ids, StreamNext(i)
    PROVE  TypeOK'
  <1>0. StreamTypes /\ CountTypes /\ LoopTypes
    BY TypeParts
  <1>1. CASE Connected(i)
    <2>1. StreamTypes'
      BY <1>0, <1>1 DEF Connected, StreamTypes, LoopTypes
    <2>2. CountTypes' /\ LoopTypes'
      BY <1>0, <1>1 DEF Connected, CountTypes, LoopTypes, countVars
    <2> QED BY <2>1, <2>2, TypeParts
  <1>2. CASE Send(i)
    <2>1. CountTypes' /\ LoopTypes'
      BY <1>0, <1>2 DEF Send, CountTypes, LoopTypes, countVars
    <2> DEFINE m == now >= start[i] + Warmup
    <2>2a. m \in BOOLEAN
      OBVIOUS
    <2>2. marks' = [marks EXCEPT ![i] = Append(@, m)]
      BY <1>2, Zenon DEF Send
    <2> HIDE DEF m
    <2>3. open' = [open EXCEPT ![i] = @ \cup {Len(marks[i]) + 1}]
      BY <1>2 DEF Send
    <2>4. UNCHANGED <<status, start, acked>>
      BY <1>2 DEF Send
    <2>5. marks[i] \in Seq(BOOLEAN) /\ open[i] \subseteq 1..Len(marks[i])
      BY <1>0 DEF StreamTypes
    <2>6. Append(marks[i], m) \in Seq(BOOLEAN) /\ Len(Append(marks[i], m)) = Len(marks[i]) + 1
          /\ Len(marks[i]) \in Nat
      BY <2>2a, <2>5
    <2>7. open[i] \cup {Len(marks[i]) + 1} \subseteq 1..Len(Append(marks[i], m))
      BY <2>5, <2>6
    <2>8. StreamTypes'
      BY <1>0, <2>2, <2>3, <2>4, <2>6, <2>7 DEF StreamTypes
    <2> QED BY <2>1, <2>8, TypeParts
  <1>3. CASE Finish(i) \/ Fail(i)
    <2>1. StreamTypes'
      BY <1>0, <1>3 DEF Finish, Fail, StreamTypes
    <2>2. CountTypes' /\ LoopTypes'
      BY <1>0, <1>3 DEF Finish, Fail, CountTypes, LoopTypes, countVars
    <2> QED BY <2>1, <2>2, TypeParts
  <1>4. ASSUME NEW s \in open[i], NEW ack \in BOOLEAN, Report(i, s, ack) PROVE TypeOK'
    <2>1. s \in 1..Len(marks[i]) /\ marks[i] \in Seq(BOOLEAN) /\ s \in Nat \ {0}
      BY <1>0 DEF StreamTypes
    <2>2. marks[i][s] \in BOOLEAN
      BY <2>1
    <2>3. PacketEvent(i, s, ack) \in Events
      BY <2>1, <2>2 DEF PacketEvent, Events
    <2>4. chan' = Append(chan, PacketEvent(i, s, ack))
      BY <1>4 DEF Report
    <2>5. chan' \in Seq(Events)
      BY <1>0, <2>3, <2>4 DEF LoopTypes
    <2>6. UNCHANGED <<now, pc, countVars, nextTick, joined>>
      BY <1>4 DEF Report
    <2>7. LoopTypes'
      BY <1>0, <2>5, <2>6 DEF LoopTypes
    <2>8. CountTypes'
      BY <1>0, <2>6 DEF CountTypes, countVars
    <2>9. StreamTypes'
      BY <1>0, <1>4, <2>1 DEF Report, StreamTypes
    <2> QED BY <2>7, <2>8, <2>9, TypeParts
  <1> QED BY <1>1, <1>2, <1>3, <1>4 DEF StreamNext

LEMMA EngineStepTypes ==
    ASSUME TypeOK, EngineNext \/ Tick \/ UNCHANGED vars
    PROVE  TypeOK'
  <1>0. StreamTypes /\ CountTypes /\ LoopTypes
    BY TypeParts
  <1>1. StreamTypes'
    <2>1. UNCHANGED streamVars
      BY DEF EngineNext, Recv, LoopEnds, TimerTick, Join, MakeReport, Tick, vars
    <2> QED BY <1>0, <2>1 DEF StreamTypes, streamVars
  <1>2. CASE Recv
    <2>1. LoopTypes'
      BY <1>0, <1>2, HeadOfChannel DEF Recv, LoopTypes
    <2>2. CASE UNCHANGED countVars
      BY <1>0, <1>1, <2>1, <2>2, TypeParts DEF CountTypes, countVars
    <2>3. CASE Apply(Head(chan))
      BY <1>0, <1>1, <1>2, <2>1, <2>3, HeadOfChannel, ApplyTypes, TypeParts DEF Recv
    <2> QED BY <1>2, <2>2, <2>3 DEF Recv
  <1>3. CASE TimerTick
    <2>1. nextTick' \in Nat
      BY <1>0, <1>3, RearmForward DEF TimerTick
    <2>2. LoopTypes'
      BY <1>0, <1>3, <2>1 DEF TimerTick, LoopTypes
    <2>3. CASE UNCHANGED countVars
      BY <1>0, <1>1, <2>2, <2>3, TypeParts DEF CountTypes, countVars
    <2>4. CASE now >= MeasurementStart /\ CutInterval
      <3>1. BuildInterval \in Intervals
        BY <1>0, <2>4, IntervalType
      <3>2. intervals' \in Seq(Intervals)
        BY <1>0, <2>4, <3>1 DEF CutInterval, CountTypes
      <3>3. CountTypes'
        BY <1>0, <2>4, <3>2 DEF CutInterval, CountTypes, LoopTypes
      <3> QED BY <1>1, <2>2, <3>3, TypeParts
    <2> QED BY <1>0, <1>3, <2>3, <2>4, ConstantTypes DEF TimerTick, LoopTypes
  <1>4. CASE LoopEnds \/ Join \/ MakeReport \/ Tick \/ UNCHANGED vars
    <2>1. UNCHANGED <<countVars, chan>>
      BY <1>4 DEF LoopEnds, Join, MakeReport, Tick, vars
    <2>2. CountTypes'
      BY <1>0, <2>1 DEF CountTypes, countVars
    <2>3. LoopTypes'
      BY <1>0, <1>4, ConstantTypes DEF LoopEnds, Join, MakeReport, Tick, vars, LoopTypes
    <2> QED BY <1>1, <2>2, <2>3, TypeParts
  <1> QED BY <1>2, <1>3, <1>4 DEF EngineNext

\* Sorts the steps of Next.
LEMMA NextCases ==
    ASSUME [Next]_vars
    PROVE  (\E i \in Ids : StreamNext(i)) \/ EngineNext \/ Tick \/ UNCHANGED vars
  BY DEF Next, Terminating

LEMMA StepTypes == TypeOK /\ [Next]_vars => TypeOK'
  BY NextCases, StreamStepTypes, EngineStepTypes

\* The engine's state keeps its types; no event ever refers to a packet or a
\* stream that does not exist.
THEOREM TypeCorrect == Spec => []TypeOK
  BY InitTypes, StepTypes, PTL DEF Spec

-----------------------------------------------------------------------------
(* Intervals                                                               *)

\* Contiguity is inductive with what the timer and the last cut have to do with
\* the clock: the timer is armed beyond the last cut, so no cut is empty, and
\* the last interval ends where the next one starts.
TicksInv ==
    /\ intervals = <<>> <=> lastTick = NoTick
    /\ intervals # <<>> =>
         /\ MeasurementStart <= lastTick /\ lastTick <= now /\ lastTick < nextTick
         /\ intervals[Len(intervals)].end = lastTick - MeasurementStart

IntervalsInv == TicksInv /\ IntervalsContiguous

\* A cut starts at 0 or at the last one, and only the first may be empty.
LEMMA CutSpan ==
    ASSUME CountTypes, LoopTypes, TicksInv, now >= MeasurementStart, now >= nextTick
    PROVE  /\ BuildInterval.index = Len(intervals)
           /\ BuildInterval.end = now - MeasurementStart
           /\ intervals = <<>> => BuildInterval.start = 0
           /\ intervals # <<>> =>
                /\ BuildInterval.start = intervals[Len(intervals)].end
                /\ BuildInterval.start < BuildInterval.end
  <1> DEFINE since == now - MeasurementStart
             passed == IF lastTick = NoTick THEN since ELSE now - lastTick
             span == IF passed = 0 THEN Interval ELSE passed
  <1>1. BuildInterval = [index |-> Len(intervals), start |-> SatSub(since, span),
                         end |-> since, count |-> CountDiff(totals, totalsPrev)]
    BY DEF BuildInterval
  <1>2. /\ BuildInterval.index = Len(intervals) /\ BuildInterval.end = since
        /\ BuildInterval.start = SatSub(since, span)
    BY <1>1
  <1>3. since \in Nat
    BY ConstantTypes DEF LoopTypes
  <1>4. ASSUME intervals = <<>> PROVE SatSub(since, span) = 0
    <2>1. lastTick = NoTick
      BY <1>4 DEF TicksInv
    <2>2. span = IF since = 0 THEN Interval ELSE since
      BY <2>1
    <2> QED BY <1>3, <2>2, ConstantTypes DEF SatSub
  <1>5. ASSUME intervals # <<>>
        PROVE  SatSub(since, span) = intervals[Len(intervals)].end /\ SatSub(since, span) < since
    <2>1. lastTick # NoTick /\ lastTick \in Nat /\ MeasurementStart <= lastTick /\ lastTick < nextTick
          /\ intervals[Len(intervals)].end = lastTick - MeasurementStart
      BY <1>5 DEF TicksInv, CountTypes
    <2>2. now - lastTick > 0
      BY <2>1, ConstantTypes DEF LoopTypes
    <2>3. span = now - lastTick
      BY <2>1, <2>2
    <2>4. SatSub(since, span) = lastTick - MeasurementStart
      BY <2>1, <2>2, <2>3, ConstantTypes DEF SatSub, LoopTypes
    <2> QED BY <2>1, <2>2, <2>4, ConstantTypes DEF LoopTypes
  <1> QED BY <1>2, <1>4, <1>5

\* A cut continues the intervals before it.
LEMMA CutContiguous ==
    ASSUME CountTypes, LoopTypes, IntervalsInv, now >= MeasurementStart, now >= nextTick,
           now' = now, nextTick' \in Nat, nextTick' > now, CutInterval
    PROVE  IntervalsInv'
  <1> DEFINE n == Len(intervals)
             b == BuildInterval
  <1>1. intervals \in Seq(Intervals) /\ n \in Nat
    BY DEF CountTypes
  <1>2. intervals' = Append(intervals, b) /\ lastTick' = now
    BY DEF CutInterval
  <1>3. b \in Intervals
    BY IntervalType
  <1>4. /\ b.index = n /\ b.end = now - MeasurementStart
        /\ intervals = <<>> => b.start = 0
        /\ intervals # <<>> => b.start = intervals[n].end /\ b.start < b.end
    BY CutSpan DEF IntervalsInv
  <1> HIDE DEF b
  <1>5. Len(intervals') = n + 1 /\ intervals'[n + 1] = b /\ intervals' # <<>>
        /\ \A k \in 1..n : intervals'[k] = intervals[k]
    BY <1>1, <1>2, <1>3
  <1>6. TicksInv'
    BY <1>2, <1>4, <1>5, ConstantTypes DEF TicksInv, LoopTypes, MeasurementStart
  <1>7. \A k \in 1..(n + 1) :
          /\ intervals'[k].index = k - 1
          /\ intervals'[k].start = (IF k = 1 THEN 0 ELSE intervals'[k - 1].end)
          /\ k > 1 => intervals'[k].start < intervals'[k].end
    <2> TAKE k \in 1..(n + 1)
    <2>1. CASE k \in 1..n
      <3>1. /\ intervals[k].index = k - 1
            /\ intervals[k].start = (IF k = 1 THEN 0 ELSE intervals[k - 1].end)
            /\ k > 1 => intervals[k].start < intervals[k].end
        BY <1>1, <2>1 DEF IntervalsInv, IntervalsContiguous
      <3>2. intervals'[k] = intervals[k] /\ (k > 1 => intervals'[k - 1] = intervals[k - 1])
        BY <1>1, <1>5, <2>1
      <3> QED BY <3>1, <3>2
    <2>2. CASE k = n + 1 /\ n = 0
      <3>1. intervals = <<>>
        BY <1>1, <2>2
      <3> QED BY <1>4, <1>5, <2>2, <3>1
    <2>3. CASE k = n + 1 /\ n > 0
      <3>1. intervals # <<>> /\ intervals'[n] = intervals[n]
        BY <1>1, <1>5, <2>3
      <3> QED BY <1>1, <1>4, <1>5, <2>3, <3>1
    <2> QED BY <1>1, <2>1, <2>2, <2>3
  <1>8. DOMAIN intervals' = 1..(n + 1)
    BY <1>1, <1>2, <1>3, <1>5
  <1>9. IntervalsContiguous'
    BY <1>7, <1>8 DEF IntervalsContiguous
  <1> QED BY <1>6, <1>9 DEF IntervalsInv

LEMMA StepIntervals == TypeOK /\ IntervalsInv /\ [Next]_vars => IntervalsInv'
  <1> SUFFICES ASSUME TypeOK, IntervalsInv, [Next]_vars PROVE IntervalsInv'
    OBVIOUS
  <1>0. CountTypes /\ LoopTypes
    BY TypeParts
  <1>1. ASSUME UNCHANGED <<intervals, lastTick>>, now' \in Nat, now' >= now,
               nextTick' \in Nat, nextTick' >= nextTick
        PROVE  IntervalsInv'
    BY <1>0, <1>1, ConstantTypes
       DEF IntervalsInv, TicksInv, IntervalsContiguous, CountTypes, LoopTypes, MeasurementStart
  <1>2. ASSUME NEW i \in Ids, StreamNext(i) PROVE IntervalsInv'
    <2>1. UNCHANGED <<intervals, lastTick, now, nextTick>>
      BY <1>2 DEF StreamNext, Connected, Send, Finish, Fail, Report, countVars
    <2> QED BY <1>0, <1>1, <2>1 DEF LoopTypes
  <1>3. CASE TimerTick
    <2>1. nextTick' \in Nat /\ nextTick' > now /\ now' = now /\ now >= nextTick
      BY <1>0, <1>3, RearmForward DEF TimerTick
    <2>2. CASE UNCHANGED countVars
      BY <1>0, <1>1, <2>1, <2>2 DEF countVars, LoopTypes
    <2>3. CASE now >= MeasurementStart /\ CutInterval
      BY <1>0, <2>1, <2>3, CutContiguous
    <2> QED BY <1>0, <1>3, <2>2, <2>3, ConstantTypes DEF TimerTick, LoopTypes
  <1>4. CASE Recv \/ LoopEnds \/ Join \/ MakeReport \/ Tick \/ UNCHANGED vars
    <2>1. UNCHANGED <<intervals, lastTick, nextTick>> /\ now' \in {now, now + 1}
      BY <1>4 DEF Recv, Apply, LoopEnds, Join, MakeReport, Tick, vars, countVars
    <2> QED BY <1>0, <1>1, <2>1 DEF LoopTypes
  <1> QED BY <1>2, <1>3, <1>4, NextCases DEF EngineNext

\* The intervals build_interval cuts follow one another without gap or overlap
\* from measurement_start on, for every period, however late the timer is
\* served and whatever it skips.
THEOREM IntervalsContiguousCorrect == Spec => []IntervalsContiguous
  <1>1. Init => IntervalsInv
    BY DEF Init, IntervalsInv, TicksInv, IntervalsContiguous
  <1>2. IntervalsInv => IntervalsContiguous
    BY DEF IntervalsInv
  <1> QED BY <1>1, <1>2, StepIntervals, TypeCorrect, PTL DEF Spec

-----------------------------------------------------------------------------
(* The order of acks                                                       *)

\* NeverReordered is inductive with the whole way of an ack: those of a stream
\* are queued in order, after the last one counted and up to the last reported.
IsAckOf(e, i) == e.stream = i /\ e.acked

AckOrder ==
    /\ \A i \in Ids : Accumulator(i).reordered = 0 /\ Accumulator(i).last_seq <= acked[i]
    /\ \A i \in Ids : \A k \in 1..Len(chan) :
         IsAckOf(chan[k], i) =>
           Accumulator(i).last_seq < chan[k].seq /\ chan[k].seq <= acked[i]
    /\ \A i \in Ids : \A j, k \in 1..Len(chan) :
         IsAckOf(chan[j], i) /\ IsAckOf(chan[k], i) /\ j < k => chan[j].seq < chan[k].seq

\* A report adds the newest ack to the channel.
LEMMA ReportOrder ==
    ASSUME StreamTypes, CountTypes, LoopTypes, StreamTypes', AckOrder, NEW i \in Ids, NEW s \in open[i],
           NEW ack \in BOOLEAN, Report(i, s, ack)
    PROVE  AckOrder'
  <1> DEFINE n == Len(chan)
             e == PacketEvent(i, s, ack)
  <1>1. chan \in Seq(Events) /\ n \in Nat
    BY DEF LoopTypes
  <1>2. chan' = Append(chan, e) /\ acc' = acc
    BY DEF Report, countVars
  <1>3. s \in Nat /\ (ack => s > acked[i])
    BY DEF Report, StreamTypes
  <1>4. e.stream = i /\ e.acked = ack /\ e.seq = s
    BY DEF PacketEvent
  <1> HIDE DEF e
  <1>5. Len(chan') = n + 1 /\ chan'[n + 1] = e /\ \A k \in 1..n : chan'[k] = chan[k]
    BY <1>1, <1>2
  <1>6. \A j \in Ids : acked[j] \in Nat /\ acked'[j] \in Nat /\ acked'[j] >= acked[j]
    BY <1>3 DEF Report, StreamTypes
  <1>7. ack => acked'[i] = s
    BY DEF Report, StreamTypes
  <1>8. \A j : Accumulator(j)' = Accumulator(j)
    BY <1>2 DEF Accumulator
  <1>9. \A j : Accumulator(j).last_seq \in Nat
    BY AccumulatorType DEF Accumulators
  <1>10. \A k \in 1..n : chan[k].seq \in Nat
    BY <1>1, EventFields
  <1>11. \A j \in Ids : Accumulator(j)'.reordered = 0 /\ Accumulator(j)'.last_seq <= acked'[j]
    BY <1>6, <1>8, <1>9 DEF AckOrder
  <1>12. ASSUME NEW j \in Ids, NEW k \in 1..(n + 1), IsAckOf(chan'[k], j)
         PROVE  Accumulator(j)'.last_seq < chan'[k].seq /\ chan'[k].seq <= acked'[j]
    <2>1. CASE k \in 1..n
      <3>1. Accumulator(j).last_seq < chan[k].seq /\ chan[k].seq <= acked[j]
        BY <1>5, <1>12, <2>1 DEF AckOrder
      <3> QED BY <1>5, <1>6, <1>8, <1>10, <2>1, <3>1
    <2>2. CASE k = n + 1
      <3>1. ack /\ j = i /\ chan'[k].seq = s
        BY <1>4, <1>5, <1>12, <2>2 DEF IsAckOf
      <3>2. Accumulator(i).last_seq <= acked[i]
        BY DEF AckOrder
      <3> QED BY <1>3, <1>6, <1>7, <1>8, <1>9, <3>1, <3>2
    <2> QED BY <1>1, <2>1, <2>2
  <1>13. ASSUME NEW h \in Ids, NEW j \in 1..(n + 1), NEW k \in 1..(n + 1),
                IsAckOf(chan'[j], h), IsAckOf(chan'[k], h), j < k
         PROVE  chan'[j].seq < chan'[k].seq
    <2>1. j \in 1..n /\ chan'[j] = chan[j]
      BY <1>1, <1>5, <1>13
    <2>2. CASE k \in 1..n
      BY <1>5, <1>13, <2>1, <2>2 DEF AckOrder
    <2>3. CASE k = n + 1
      <3>1. ack /\ h = i /\ chan'[k].seq = s
        BY <1>4, <1>5, <1>13, <2>3 DEF IsAckOf
      <3>2. chan[j].seq <= acked[i]
        BY <1>13, <2>1, <3>1 DEF AckOrder
      <3> QED BY <1>3, <1>6, <1>10, <2>1, <3>1, <3>2
    <2> QED BY <1>1, <2>2, <2>3
  <1> QED BY <1>5, <1>11, <1>12, <1>13 DEF AckOrder

\* Counting the head of the channel.
LEMMA RecvOrder ==
    ASSUME CountTypes, LoopTypes, AckOrder, Recv
    PROVE  AckOrder'
  <1> DEFINE h == Head(chan)
  <1>1. chan # <<>> /\ chan' = Tail(chan) /\ acked' = acked
    BY DEF Recv, streamVars
  <1>2. /\ h = chan[1] /\ h \in Events /\ Len(chan) \in Nat \ {0}
        /\ Len(chan') = Len(chan) - 1
        /\ \A k \in 1..Len(chan') : chan'[k] = chan[k + 1] /\ k + 1 \in 1..Len(chan)
    BY <1>1, HeadOfChannel
  <1>3. h.seq \in Nat /\ h.acked \in BOOLEAN /\ 1 \in 1..Len(chan)
    BY <1>2, EventFields
  <1>4. \A i : Accumulator(i).last_seq \in Nat /\ Accumulator(i).reordered \in Nat
    BY AccumulatorType DEF Accumulators
  <1>5. \A i \in Ids : \/ Accumulator(i)' = Accumulator(i)
                       \/ h.stream = i /\ Accumulator(i)' = Accumulated(Accumulator(i), h)
    <2>1. CASE UNCHANGED countVars
      BY <2>1 DEF countVars, Accumulator
    <2>2. CASE Apply(h)
      BY <1>2, <2>2, ApplyEffect
    <2> QED BY <2>1, <2>2 DEF Recv
  <1>6. ASSUME NEW i \in Ids
        PROVE  /\ Accumulator(i)'.reordered = 0 /\ Accumulator(i)'.last_seq <= acked[i]
               /\ \A k \in 1..Len(chan') : IsAckOf(chan'[k], i) =>
                    Accumulator(i)'.last_seq < chan'[k].seq /\ chan'[k].seq <= acked[i]
    <2>1. Accumulator(i).reordered = 0 /\ Accumulator(i).last_seq <= acked[i]
      BY DEF AckOrder
    <2>2. \A k \in 1..Len(chan') : IsAckOf(chan'[k], i) =>
            Accumulator(i).last_seq < chan'[k].seq /\ chan'[k].seq <= acked[i]
      BY <1>2 DEF AckOrder
    <2>3. CASE Accumulator(i)' = Accumulator(i)
      BY <2>1, <2>2, <2>3
    <2>4. CASE h.stream = i /\ h.acked /\ Accumulator(i)' = Accumulated(Accumulator(i), h)
      <3>1. Accumulator(i).last_seq < h.seq /\ h.seq <= acked[i]
        BY <1>2, <1>3, <2>4 DEF AckOrder, IsAckOf
      <3>2. Accumulator(i)'.reordered = 0 /\ Accumulator(i)'.last_seq = h.seq
        BY <1>3, <1>4, <2>1, <2>4, <3>1 DEF Accumulated
      <3>3. \A k \in 1..Len(chan') : IsAckOf(chan'[k], i) => h.seq < chan'[k].seq
        BY <1>2, <1>3, <2>4 DEF AckOrder, IsAckOf
      <3> QED BY <2>2, <3>1, <3>2, <3>3
    <2>5. CASE ~h.acked /\ Accumulator(i)' = Accumulated(Accumulator(i), h)
      <3>1. Accumulator(i)'.reordered = 0 /\ Accumulator(i)'.last_seq = Accumulator(i).last_seq
        BY <1>4, <2>1, <2>5 DEF Accumulated
      <3> QED BY <2>1, <2>2, <3>1
    <2> QED BY <1>3, <1>5, <2>3, <2>4, <2>5
  <1>7. \A i \in Ids : \A j, k \in 1..Len(chan') :
          IsAckOf(chan'[j], i) /\ IsAckOf(chan'[k], i) /\ j < k => chan'[j].seq < chan'[k].seq
    <2> TAKE i \in Ids
    <2> TAKE j, k \in 1..Len(chan')
    <2>1. /\ chan'[j] = chan[j + 1] /\ j + 1 \in 1..Len(chan)
          /\ chan'[k] = chan[k + 1] /\ k + 1 \in 1..Len(chan)
          /\ (j < k => j + 1 < k + 1)
      BY <1>2
    <2>2. IsAckOf(chan[j + 1], i) /\ IsAckOf(chan[k + 1], i) /\ j + 1 < k + 1
            => chan[j + 1].seq < chan[k + 1].seq
      BY <2>1 DEF AckOrder
    <2> QED BY <2>1, <2>2
  <1> QED BY <1>1, <1>6, <1>7 DEF AckOrder

LEMMA StepOrder == TypeOK /\ TypeOK' /\ AckOrder /\ [Next]_vars => AckOrder'
  <1> SUFFICES ASSUME TypeOK, TypeOK', AckOrder, [Next]_vars PROVE AckOrder'
    OBVIOUS
  <1>0. StreamTypes /\ CountTypes /\ LoopTypes /\ StreamTypes'
    BY TypeParts
  <1>1. ASSUME UNCHANGED <<acc, chan, acked>> PROVE AckOrder'
    <2>1. \A i : Accumulator(i)' = Accumulator(i)
      BY <1>1 DEF Accumulator
    <2> QED BY <1>1, <2>1 DEF AckOrder
  <1>2. ASSUME NEW i \in Ids, StreamNext(i) PROVE AckOrder'
    <2>1. CASE Connected(i) \/ Send(i) \/ Finish(i) \/ Fail(i)
      BY <1>1, <2>1 DEF Connected, Send, Finish, Fail, countVars
    <2>2. CASE \E s \in open[i], ack \in BOOLEAN : Report(i, s, ack)
      BY <1>0, <2>2, ReportOrder
    <2> QED BY <1>2, <2>1, <2>2 DEF StreamNext
  <1>3. CASE Recv
    BY <1>0, <1>3, RecvOrder
  <1>4. CASE LoopEnds \/ TimerTick \/ Join \/ MakeReport \/ Tick \/ UNCHANGED vars
    BY <1>1, <1>4 DEF LoopEnds, TimerTick, CutInterval, Join, MakeReport, Tick, vars, countVars, streamVars
  <1> QED BY <1>2, <1>3, <1>4, NextCases DEF EngineNext

\* apply_event never counts a reordered packet, for any number of streams and
\* any interleaving of their reports on the channel.
THEOREM NeverReorderedCorrect == Spec => []NeverReordered
  <1>1. Init => AckOrder
    <2> SUFFICES ASSUME Init PROVE AckOrder
      OBVIOUS
    <2>1. Len(chan) = 0 /\ \A i : Accumulator(i) = NewAccumulator
      BY DEF Init, Accumulator
    <2>2. \A i \in Ids : acked[i] = 0
      BY DEF Init
    <2> QED BY <2>1, <2>2 DEF AckOrder, NewAccumulator
  <1>2. TypeOK /\ AckOrder => NeverReordered
    BY DEF TypeOK, AckOrder, NeverReordered, Accumulator
  <1> QED BY <1>1, <1>2, StepOrder, TypeCorrect, PTL DEF Spec

-----------------------------------------------------------------------------
(* What is counted                                                         *)

Balanced(i) ==
    Accumulator(i).count.sent + Cardinality(QueuedOf(i))
      + Cardinality(open[i] \cap MeasuredOf(i)) = Cardinality(MeasuredOf(i))

LEMMA FiniteQueued ==
    ASSUME LoopTypes, NEW i
    PROVE  IsFiniteSet(QueuedOf(i)) /\ Cardinality(QueuedOf(i)) \in Nat
  <1>1. Len(chan) \in Nat /\ DOMAIN chan = 1..Len(chan)
    BY DEF LoopTypes
  <1>2. IsFiniteSet(1..Len(chan)) /\ QueuedOf(i) \in SUBSET (1..Len(chan))
    BY <1>1, FS_Interval DEF QueuedOf
  <1> QED BY <1>2, FS_Subset, FS_CardinalityType

LEMMA FiniteMeasured ==
    ASSUME StreamTypes, NEW i \in Ids
    PROVE  /\ MeasuredOf(i) \subseteq 1..Len(marks[i]) /\ DOMAIN marks[i] = 1..Len(marks[i])
           /\ IsFiniteSet(MeasuredOf(i)) /\ Cardinality(MeasuredOf(i)) \in Nat
           /\ IsFiniteSet(open[i] \cap MeasuredOf(i))
           /\ Cardinality(open[i] \cap MeasuredOf(i)) \in Nat
  <1>1. Len(marks[i]) \in Nat /\ DOMAIN marks[i] = 1..Len(marks[i])
    BY DEF StreamTypes
  <1>2. IsFiniteSet(1..Len(marks[i])) /\ MeasuredOf(i) \in SUBSET (1..Len(marks[i]))
        /\ open[i] \cap MeasuredOf(i) \in SUBSET (1..Len(marks[i]))
    BY <1>1, FS_Interval DEF MeasuredOf
  <1> QED BY <1>1, <1>2, FS_Subset, FS_CardinalityType

LEMMA SentIsNat ==
    ASSUME CountTypes, NEW i
    PROVE  Accumulator(i).count.sent \in Nat
  BY AccumulatorType DEF Accumulators, Counts

\* Taking the head off the channel renumbers what is queued.
LEMMA QueuedAfterHead ==
    ASSUME LoopTypes, chan # <<>>, chan' = Tail(chan), NEW i
    PROVE  Cardinality(QueuedOf(i)') = Cardinality(QueuedOf(i) \ {1})
  <1> DEFINE rest == QueuedOf(i) \ {1}
             f == [k \in rest |-> k - 1]
  <1>1. /\ Len(chan) \in Nat \ {0} /\ Len(chan') = Len(chan) - 1
        /\ DOMAIN chan = 1..Len(chan) /\ DOMAIN chan' = 1..Len(chan')
        /\ \A k \in 1..Len(chan') : chan'[k] = chan[k + 1]
    BY HeadOfChannel DEF LoopTypes
  <1>2. QueuedOf(i) = {k \in 1..Len(chan) : chan[k].stream = i /\ chan[k].measured}
    BY <1>1 DEF QueuedOf
  <1>3. QueuedOf(i)' = {k \in 1..Len(chan') : chan'[k].stream = i /\ chan'[k].measured}
    BY <1>1 DEF QueuedOf
  <1>4. \A k \in rest : k - 1 \in QueuedOf(i)'
    BY <1>1, <1>2, <1>3
  <1>5. \A k \in QueuedOf(i)' : k + 1 \in rest /\ k = (k + 1) - 1
    BY <1>1, <1>2, <1>3
  <1>6. \A j, k \in rest : j - 1 = k - 1 => j = k
    BY <1>1, <1>2
  <1>7. f \in [rest -> QueuedOf(i)'] /\ \A k \in rest : f[k] = k - 1
    BY <1>4
  <1>8. \A k \in QueuedOf(i)' : \E j \in rest : f[j] = k
    BY <1>5, <1>7
  <1>9. \A j, k \in rest : f[j] = f[k] => j = k
    BY <1>6, <1>7
  <1> HIDE DEF f, rest
  <1>10. f \in Bijection(rest, QueuedOf(i)')
    BY <1>7, <1>8, <1>9, Zenon DEF Bijection, Injection, Surjection, IsInjective
  <1>11. IsFiniteSet(rest)
    BY FiniteQueued, FS_RemoveElement DEF rest
  <1>12. Cardinality(QueuedOf(i)') = Cardinality(rest)
    BY <1>10, <1>11, FS_Bijection DEF ExistsBijection
  <1> QED BY <1>12 DEF rest

\* A packet is numbered, measured or not, and open.
LEMMA SendBalanced ==
    ASSUME StreamTypes, CountTypes, LoopTypes, StreamTypes', NEW i \in Ids, NEW j \in Ids, Send(i), Balanced(j)
    PROVE  Balanced(j)'
  <1> DEFINE n == Len(marks[i]) + 1
             m == now >= start[i] + Warmup
  <1>1. /\ marks' = [marks EXCEPT ![i] = Append(@, m)]
        /\ open' = [open EXCEPT ![i] = @ \cup {n}]
        /\ chan' = chan /\ acc' = acc
    BY Zenon DEF Send, countVars
  <1>2. Accumulator(j)' = Accumulator(j) /\ QueuedOf(j)' = QueuedOf(j)
    BY <1>1 DEF Accumulator, QueuedOf
  <1>3. CASE j # i
    <2>1. marks'[j] = marks[j] /\ open'[j] = open[j]
      BY <1>1, <1>3 DEF StreamTypes
    <2>2. MeasuredOf(j)' = MeasuredOf(j)
      BY <2>1 DEF MeasuredOf
    <2> QED BY <1>2, <2>1, <2>2 DEF Balanced
  <1>4. CASE j = i
    <2>1. m \in BOOLEAN /\ marks[i] \in Seq(BOOLEAN) /\ Len(marks[i]) \in Nat
          /\ open[i] \subseteq 1..Len(marks[i])
      BY DEF StreamTypes
    <2> HIDE DEF m
    <2>2. open'[i] = open[i] \cup {n} /\ marks'[i] = Append(marks[i], m)
      BY <1>1 DEF StreamTypes
    <2>3. DOMAIN marks'[i] = 1..n /\ marks'[i][n] = m
          /\ \A s \in 1..Len(marks[i]) : marks'[i][s] = marks[i][s]
      BY <2>1, <2>2
    <2>4. MeasuredOf(i) \subseteq 1..Len(marks[i]) /\ n \notin MeasuredOf(i) /\ n \notin open[i]
      <3>1. MeasuredOf(i) \subseteq 1..Len(marks[i])
        BY FiniteMeasured
      <3>2. n \notin 1..Len(marks[i])
        BY <2>1
      <3> QED BY <2>1, <3>1, <3>2
    <2>5. \A s : s \in MeasuredOf(i)' <=> s \in MeasuredOf(i) \/ (m /\ s = n)
      BY <2>1, <2>3, FiniteMeasured DEF MeasuredOf
    <2>6. CASE ~m
      <3>1. MeasuredOf(i)' = MeasuredOf(i)
        BY <2>5, <2>6
      <3>2. open'[i] \cap MeasuredOf(i)' = open[i] \cap MeasuredOf(i)
        BY <2>2, <2>4, <3>1
      <3> QED BY <1>2, <1>4, <3>1, <3>2 DEF Balanced
    <2>7. CASE m
      <3>1. MeasuredOf(i)' = MeasuredOf(i) \cup {n}
        BY <2>5, <2>7
      <3>2. open'[i] \cap MeasuredOf(i)' = (open[i] \cap MeasuredOf(i)) \cup {n}
        BY <2>2, <2>4, <3>1
      <3>3. Cardinality(MeasuredOf(i)') = Cardinality(MeasuredOf(i)) + 1
        BY <2>4, <3>1, FiniteMeasured, FS_AddElement
      <3>4. Cardinality(open'[i] \cap MeasuredOf(i)') = Cardinality(open[i] \cap MeasuredOf(i)) + 1
        <4>1. n \notin open[i] \cap MeasuredOf(i)
          BY <2>4
        <4>2. IsFiniteSet(open[i] \cap MeasuredOf(i))
          BY FiniteMeasured
        <4>3. Cardinality((open[i] \cap MeasuredOf(i)) \cup {n}) =
                Cardinality(open[i] \cap MeasuredOf(i)) + 1
          BY <4>1, <4>2, FS_AddElement
        <4> QED BY <3>2, <4>3
      <3>5. Accumulator(i).count.sent \in Nat /\ Cardinality(QueuedOf(i)) \in Nat
        BY SentIsNat, FiniteQueued
      <3>6. Cardinality(MeasuredOf(i)) \in Nat /\ Cardinality(open[i] \cap MeasuredOf(i)) \in Nat
        BY FiniteMeasured
      <3> QED BY <1>2, <1>4, <3>3, <3>4, <3>5, <3>6 DEF Balanced
    <2> QED BY <2>6, <2>7
  <1> QED BY <1>3, <1>4

\* A report moves a packet from the open ones to the channel.
LEMMA ReportBalanced ==
    ASSUME StreamTypes, CountTypes, LoopTypes, NEW i \in Ids, NEW j \in Ids,
           NEW s \in open[i], NEW ack \in BOOLEAN, Report(i, s, ack), Balanced(j)
    PROVE  Balanced(j)'
  <1> DEFINE n == Len(chan) + 1
             e == PacketEvent(i, s, ack)
             Q == QueuedOf(j)
             O == open[j] \cap MeasuredOf(j)
  <1>1. marks' = marks /\ acc' = acc /\ chan' = Append(chan, e)
        /\ open' = [open EXCEPT ![i] = @ \ {s}]
    BY DEF Report, countVars
  <1>2. Accumulator(j)' = Accumulator(j) /\ MeasuredOf(j)' = MeasuredOf(j)
    BY <1>1 DEF Accumulator, MeasuredOf
  <1>3. e.stream = i /\ e.measured = marks[i][s] /\ s \in DOMAIN marks[i]
    BY FiniteMeasured DEF PacketEvent, StreamTypes
  <1>4. s \in MeasuredOf(i) <=> e.measured
    BY <1>3 DEF MeasuredOf
  <1> HIDE DEF e
  <1>5. /\ Len(chan) \in Nat /\ DOMAIN chan = 1..Len(chan) /\ DOMAIN chan' = 1..n
        /\ chan'[n] = e /\ \A k \in 1..Len(chan) : chan'[k] = chan[k]
    BY <1>1 DEF LoopTypes
  <1>6. n \notin Q /\ \A k : k \in Q' <=> k \in Q \/ (k = n /\ i = j /\ e.measured)
    BY <1>3, <1>5 DEF QueuedOf
  <1>7. open'[j] = IF j = i THEN open[i] \ {s} ELSE open[j]
    BY <1>1 DEF StreamTypes
  <1>8. Accumulator(j).count.sent \in Nat /\ Cardinality(Q) \in Nat /\ IsFiniteSet(Q)
    BY SentIsNat, FiniteQueued
  <1>9. Cardinality(MeasuredOf(j)) \in Nat /\ Cardinality(O) \in Nat /\ IsFiniteSet(O)
    BY FiniteMeasured
  <1>10. CASE j = i /\ e.measured
    <2>1. Q' = Q \cup {n}
      BY <1>6, <1>10
    <2>2. O' = O \ {s} /\ s \in O
      BY <1>2, <1>4, <1>7, <1>10
    <2>3. Cardinality(Q') = Cardinality(Q) + 1
      BY <1>6, <1>8, <2>1, FS_AddElement
    <2>4. Cardinality(O') = Cardinality(O) - 1
      <3> HIDE DEF O
      <3>1. Cardinality(O \ {s}) = Cardinality(O) - 1
        BY <1>9, <2>2, FS_RemoveElement
      <3> QED BY <2>2, <3>1
    <2> QED BY <1>2, <1>8, <1>9, <2>3, <2>4 DEF Balanced
  <1>11. CASE ~(j = i /\ e.measured)
    <2>1. Q' = Q
      BY <1>6, <1>11
    <2>2. O' = O
      BY <1>2, <1>4, <1>7, <1>11
    <2> QED BY <1>2, <2>1, <2>2 DEF Balanced
  <1> QED BY <1>10, <1>11

\* The loop moves a measured packet from the channel to its stream's count, and
\* drops one that is not measured.
LEMMA RecvBalanced ==
    ASSUME CountTypes, LoopTypes, NEW j \in Ids, Recv, Balanced(j)
    PROVE  Balanced(j)'
  <1> DEFINE h == Head(chan)
             Q == QueuedOf(j)
  <1>1. chan # <<>> /\ chan' = Tail(chan) /\ UNCHANGED <<marks, open>>
    BY DEF Recv, streamVars
  <1>2. h = chan[1] /\ h \in Events /\ 1 \in DOMAIN chan /\ h.measured \in BOOLEAN
    BY <1>1, HeadOfChannel, EventFields DEF LoopTypes
  <1>3. MeasuredOf(j)' = MeasuredOf(j) /\ open'[j] = open[j]
    BY <1>1 DEF MeasuredOf
  <1>4. 1 \in Q <=> h.stream = j /\ h.measured
    BY <1>2 DEF QueuedOf
  <1>5. Cardinality(Q') = Cardinality(Q \ {1})
    BY <1>1, QueuedAfterHead
  <1>6. Accumulator(j).count.sent \in Nat /\ IsFiniteSet(Q) /\ Cardinality(Q) \in Nat
    BY SentIsNat, FiniteQueued
  <1>7. CASE h.stream = j /\ h.measured
    <2>1. Cardinality(Q') = Cardinality(Q) - 1
      BY <1>4, <1>5, <1>6, <1>7, FS_RemoveElement
    <2>2. Apply(h)
      BY <1>7 DEF Recv
    <2>3. Accumulator(j)' = Accumulated(Accumulator(j), h)
      BY <1>2, <1>7, <2>2, ApplyEffect
    <2>4. Accumulator(j)'.count.sent = Accumulator(j).count.sent + 1
      BY <2>3 DEF Accumulated, Counted
    <2>5. Accumulator(j)'.count.sent + Cardinality(Q') = Accumulator(j).count.sent + Cardinality(Q)
      BY <1>6, <2>1, <2>4
    <2> QED BY <1>3, <2>5 DEF Balanced
  <1>8. CASE ~(h.stream = j /\ h.measured)
    <2>1. Q \ {1} = Q
      BY <1>4, <1>8
    <2>2. Accumulator(j)' = Accumulator(j)
      <3>1. CASE h.measured
        BY <1>2, <1>8, <3>1, ApplyEffect DEF Recv
      <3>2. CASE ~h.measured
        BY <3>2 DEF Recv, countVars, Accumulator
      <3> QED BY <3>1, <3>2
    <2> QED BY <1>3, <1>5, <2>1, <2>2 DEF Balanced
  <1> QED BY <1>7, <1>8

LEMMA StepCounted == TypeOK /\ TypeOK' /\ CountedExactly /\ [Next]_vars => CountedExactly'
  <1> SUFFICES ASSUME TypeOK, TypeOK', CountedExactly, [Next]_vars, NEW j \in Ids
               PROVE  Balanced(j)'
    BY DEF CountedExactly, Balanced
  <1>0. StreamTypes /\ CountTypes /\ LoopTypes /\ StreamTypes' /\ Balanced(j)
    BY TypeParts DEF CountedExactly, Balanced
  <1>1. ASSUME UNCHANGED <<acc, chan, marks, open>> PROVE Balanced(j)'
    BY <1>0, <1>1 DEF Balanced, Accumulator, QueuedOf, MeasuredOf
  <1>2. ASSUME NEW i \in Ids, StreamNext(i) PROVE Balanced(j)'
    <2>1. CASE Connected(i) \/ Finish(i) \/ Fail(i)
      BY <1>1, <2>1 DEF Connected, Finish, Fail, countVars
    <2>2. CASE Send(i)
      BY <1>0, <2>2, SendBalanced
    <2>3. CASE \E s \in open[i], ack \in BOOLEAN : Report(i, s, ack)
      BY <1>0, <2>3, ReportBalanced
    <2> QED BY <1>2, <2>1, <2>2, <2>3 DEF StreamNext
  <1>3. CASE Recv
    BY <1>0, <1>3, RecvBalanced
  <1>4. CASE LoopEnds \/ TimerTick \/ Join \/ MakeReport \/ Tick \/ UNCHANGED vars
    BY <1>1, <1>4 DEF LoopEnds, TimerTick, CutInterval, Join, MakeReport, Tick, vars, countVars, streamVars
  <1> QED BY <1>2, <1>3, <1>4, NextCases DEF EngineNext

\* Every measured packet of every stream is open, queued or counted, exactly
\* one of them, at every moment of run_benchmark; no packet of a warm-up is.
THEOREM CountedExactlyCorrect == Spec => []CountedExactly
  <1>1. Init => CountedExactly
    <2> SUFFICES ASSUME Init, NEW i \in Ids PROVE Balanced(i)
      BY DEF CountedExactly, Balanced
    <2>1. Accumulator(i).count.sent = 0
      BY DEF Init, Accumulator, NewAccumulator, NoCount
    <2>2. MeasuredOf(i) = {} /\ open[i] \cap MeasuredOf(i) = {} /\ QueuedOf(i) = {}
      BY DEF Init, MeasuredOf, QueuedOf
    <2> QED BY <2>1, <2>2, FS_EmptySet DEF Balanced
  <1> QED BY <1>1, StepCounted, TypeCorrect, PTL DEF Spec

-----------------------------------------------------------------------------
(* The report                                                              *)

\* After the loop nothing can arrive any more: the channel is empty and every
\* sender is gone; what has been joined has ended well, with nothing open.
EndInv ==
    /\ \A i \in Ids : status[i] = "ok" => open[i] = {}
    /\ pc # "loop" => ChannelClosed
    /\ \A i \in Ids : i < joined => status[i] = "ok"
    /\ pc = "reported" => joined = Streams

LEMMA StepEnd == TypeOK /\ EndInv /\ [Next]_vars => EndInv'
  <1> SUFFICES ASSUME TypeOK, EndInv, [Next]_vars PROVE EndInv'
    OBVIOUS
  <1>0. StreamTypes /\ LoopTypes
    BY TypeParts
  <1>1. ASSUME NEW i \in Ids, StreamNext(i) PROVE EndInv'
    <2>1. status[i] \in {"connecting", "running"} /\ pc = "loop" /\ pc' = pc /\ joined' = joined
      BY <1>0, <1>1
         DEF StreamNext, Connected, Send, Finish, Fail, Report, Ended, EndInv, ChannelClosed, StreamTypes
    <2>2. \A j \in Ids : j # i => status'[j] = status[j] /\ open'[j] = open[j]
      BY <1>0, <1>1 DEF StreamNext, Connected, Send, Finish, Fail, Report, StreamTypes
    <2>3. status'[i] = "ok" => open'[i] = {}
      BY <1>0, <1>1 DEF StreamNext, Connected, Send, Finish, Fail, Report, StreamTypes
    <2> QED BY <2>1, <2>2, <2>3 DEF EndInv
  <1>2. CASE LoopEnds
    BY <1>2 DEF LoopEnds, EndInv, ChannelClosed, Ended, streamVars
  <1>3. CASE Join
    <2>1. UNCHANGED <<status, open, chan>> /\ pc = "join" /\ pc' \in {"join", "failed"}
      BY <1>3 DEF Join, streamVars
    <2>2. joined' = joined \/ (joined' = joined + 1 /\ status[joined] = "ok")
      BY <1>3 DEF Join
    <2>3. \A i \in Ids : i < joined' => status'[i] = "ok"
      BY <1>0, <2>1, <2>2, ConstantTypes DEF EndInv, LoopTypes, Ids
    <2> QED BY <2>1, <2>3 DEF EndInv, ChannelClosed, Ended
  <1>4. CASE MakeReport
    BY <1>4 DEF MakeReport, EndInv, ChannelClosed, Ended, streamVars
  <1>5. CASE Recv \/ TimerTick \/ Tick \/ UNCHANGED vars
    <2>1. UNCHANGED <<status, open, pc, joined>> /\ (pc = "loop" \/ chan' = chan)
      BY <1>5 DEF Recv, TimerTick, Tick, vars, streamVars
    <2> QED BY <2>1 DEF EndInv, ChannelClosed, Ended
  <1> QED BY <1>1, <1>2, <1>3, <1>4, <1>5, NextCases DEF EngineNext

\* A report of run_benchmark covers streams that ended well and every measured
\* packet of theirs.
THEOREM ReportIsCompleteCorrect == Spec => []ReportIsComplete
  <1>1. Init => EndInv
    BY ConstantTypes DEF Init, EndInv, Ids
  <1>2. TypeOK /\ EndInv /\ CountedExactly => ReportIsComplete
    <2> SUFFICES ASSUME TypeOK, EndInv, CountedExactly, pc = "reported", NEW i \in Ids
                 PROVE  status[i] = "ok" /\ Accumulator(i).count.sent = Cardinality(MeasuredOf(i))
      BY DEF ReportIsComplete
    <2>0. StreamTypes /\ CountTypes /\ LoopTypes
      BY TypeParts
    <2>1. status[i] = "ok" /\ open[i] = {} /\ chan = <<>>
      BY ConstantTypes DEF EndInv, ChannelClosed, Ids
    <2>2. QueuedOf(i) = {} /\ open[i] \cap MeasuredOf(i) = {}
      BY <2>1 DEF QueuedOf
    <2>3. Cardinality(QueuedOf(i)) = 0 /\ Cardinality(open[i] \cap MeasuredOf(i)) = 0
      BY <2>2, FS_EmptySet
    <2>4. Accumulator(i).count.sent \in Nat
      BY <2>0, SentIsNat
    <2> QED BY <2>1, <2>3, <2>4 DEF CountedExactly
  <1> QED BY <1>1, <1>2, StepEnd, TypeCorrect, CountedExactlyCorrect, PTL DEF Spec

-----------------------------------------------------------------------------
(* The books                                                               *)

\* A book whose entries come to n.
Comes(f, n) == IsFiniteSet(Counting(f)) /\ Sum(f) = n

LEMMA CountingMember ==
    \A f, p : p \in Counting(f) <=> \E i \in DOMAIN f : \E m \in 1..f[i] : p = <<i, m>>
  BY DEF Counting

\* So many natural numbers in a row, each with i.
Row(i, a, d) == {i} \X ((a + 1)..(a + d))

LEMMA RowCount ==
    ASSUME NEW i, NEW a \in Nat, NEW d \in Nat
    PROVE  IsFiniteSet(Row(i, a, d)) /\ Cardinality(Row(i, a, d)) = d
  <1>1. IsFiniteSet((a + 1)..(a + d)) /\ Cardinality((a + 1)..(a + d)) = d
    BY FS_Interval
  <1>2. IsFiniteSet({i}) /\ Cardinality({i}) = 1
    BY FS_Singleton
  <1>3. /\ IsFiniteSet(Row(i, a, d))
        /\ Cardinality(Row(i, a, d)) = Cardinality({i}) * Cardinality((a + 1)..(a + d))
    BY <1>1, <1>2, FS_Product DEF Row
  <1> QED BY <1>1, <1>2, <1>3

\* One entry that grows by d, a new one from 0, adds d to what the book comes to.
LEMMA BookGrows ==
    ASSUME NEW f, NEW g, NEW n \in Nat, NEW x, NEW old \in Nat, NEW d \in Nat,
           DOMAIN g = DOMAIN f \cup {x},
           \A i \in DOMAIN f : i # x => g[i] = f[i],
           g[x] = old + d,
           x \in DOMAIN f => f[x] = old,
           x \notin DOMAIN f => old = 0,
           Comes(f, n)
    PROVE  Comes(g, n + d)
  <1> DEFINE row == Row(x, old, d)
  <1>1. \A m : m \in 1..g[x] <=> m \in 1..old \/ m \in (old + 1)..(old + d)
    OBVIOUS
  <1>2. \A p : p \in row <=> \E m \in (old + 1)..(old + d) : p = <<x, m>>
    BY DEF Row
  <1>3. IsFiniteSet(row) /\ Cardinality(row) = d
    BY RowCount
  <1> HIDE DEF row
  <1>4. Counting(g) = Counting(f) \cup row
    <2>1. ASSUME NEW p \in Counting(g) PROVE p \in Counting(f) \cup row
      <3>0. PICK i \in DOMAIN g : \E m \in 1..g[i] : p = <<i, m>>
        BY CountingMember
      <3>1. PICK m \in 1..g[i] : p = <<i, m>>
        BY <3>0
      <3>2. CASE i # x
        BY <3>1, <3>2, CountingMember
      <3>3. CASE i = x /\ m \in (old + 1)..(old + d)
        BY <1>2, <3>1, <3>3
      <3>4. CASE i = x /\ m \in 1..old
        <4>1. old # 0
          BY <3>4
        <4> QED BY <3>1, <3>4, <4>1, CountingMember
      <3> QED BY <1>1, <3>1, <3>2, <3>3, <3>4
    <2>2. ASSUME NEW p \in Counting(f) PROVE p \in Counting(g)
      <3>0. PICK i \in DOMAIN f : \E m \in 1..f[i] : p = <<i, m>>
        BY CountingMember
      <3>1. PICK m \in 1..f[i] : p = <<i, m>>
        BY <3>0
      <3>2. CASE i # x
        BY <3>1, <3>2, CountingMember
      <3>3. CASE i = x
        <4>1. m \in 1..g[x]
          BY <1>1, <3>1, <3>3
        <4> QED BY <3>1, <3>3, <4>1, CountingMember
      <3> QED BY <3>2, <3>3
    <2>3. ASSUME NEW p \in row PROVE p \in Counting(g)
      <3>1. PICK m \in (old + 1)..(old + d) : p = <<x, m>>
        BY <1>2
      <3>2. m \in 1..g[x]
        BY <1>1
      <3> QED BY <3>1, <3>2, CountingMember
    <2> QED BY <2>1, <2>2, <2>3
  <1>5. Counting(f) \cap row = {}
    <2> SUFFICES ASSUME NEW p \in Counting(f), p \in row PROVE FALSE
      OBVIOUS
    <2>0. PICK i \in DOMAIN f : \E m \in 1..f[i] : p = <<i, m>>
      BY CountingMember
    <2>1. PICK m \in 1..f[i] : p = <<i, m>>
      BY <2>0
    <2>2. PICK k \in (old + 1)..(old + d) : p = <<x, k>>
      BY <1>2
    <2>3. i = x /\ m = k
      BY <2>1, <2>2
    <2> QED BY <2>1, <2>2, <2>3
  <1>6. IsFiniteSet(Counting(f)) /\ Cardinality(Counting(f)) = n
    BY DEF Comes, Sum
  <1>7. Cardinality(Counting(f) \cap row) = 0
    BY <1>5, FS_EmptySet
  <1>8. IsFiniteSet(Counting(g)) /\ Cardinality(Counting(g)) = n + d
    <2>1. /\ IsFiniteSet(Counting(f) \cup row)
          /\ Cardinality(Counting(f) \cup row) =
               Cardinality(Counting(f)) + Cardinality(row) - Cardinality(Counting(f) \cap row)
      BY <1>3, <1>6, FS_Union
    <2> QED BY <1>3, <1>4, <1>6, <1>7, <2>1
  <1> QED BY <1>8 DEF Comes, Sum

LEMMA EmptyBook == \A f : DOMAIN f = {} => Comes(f, 0)
  <1> TAKE f
  <1> SUFFICES ASSUME DOMAIN f = {} PROVE Comes(f, 0)
    OBVIOUS
  <1>1. Counting(f) = {}
    BY CountingMember
  <1> QED BY <1>1, FS_EmptySet DEF Comes, Sum

\* The three books agree, and what the intervals have is part of the totals.
BooksInv ==
    \A x \in Fields :
      /\ Comes(Entries(acc, x), totals[x])
      /\ Comes(Entries(intervals, x), totalsPrev[x])
      /\ totalsPrev[x] <= totals[x]

\* What an event adds to a field of a count.
Added(e, x) == IF x = "sent" THEN 1
               ELSE IF x = "acked" THEN (IF e.acked THEN 1 ELSE 0)
               ELSE (IF e.acked THEN 0 ELSE 1)

LEMMA CountFields ==
    ASSUME NEW c \in Counts, NEW x \in Fields
    PROVE  c[x] \in Nat /\ NoCount[x] = 0
  BY DEF Counts, Fields, NoCount

LEMMA CountedAdds ==
    ASSUME NEW c \in Counts, NEW e, NEW x \in Fields
    PROVE  Added(e, x) \in Nat /\ Counted(c, e)[x] = c[x] + Added(e, x)
  <1>1. CASE x = "sent"
    BY <1>1 DEF Added, Counted
  <1>2. CASE x = "acked"
    BY <1>2 DEF Added, Counted
  <1>3. CASE x = "lost"
    BY <1>3 DEF Added, Counted
  <1> QED BY <1>1, <1>2, <1>3 DEF Fields

LEMMA DiffOfCounts ==
    ASSUME NEW c \in Counts, NEW d \in Counts, NEW x \in Fields, d[x] <= c[x]
    PROVE  CountDiff(c, d)[x] = c[x] - d[x]
  <1>1. \A a, b \in Nat : b <= a => SatSub(a, b) = a - b
    BY DEF SatSub
  <1>2. CountDiff(c, d)[x] = SatSub(c[x], d[x])
    BY DEF CountDiff, Fields
  <1> QED BY <1>1, <1>2, CountFields

\* An event is counted for its stream and in the totals, or in neither.
LEMMA ApplyKeepsBooks ==
    ASSUME CountTypes, BooksInv, NEW e \in Events, Apply(e)
    PROVE  BooksInv'
  <1> SUFFICES ASSUME NEW x \in Fields
               PROVE  /\ Comes(Entries(acc, x)', totals'[x])
                      /\ Comes(Entries(intervals, x)', totalsPrev'[x])
                      /\ totalsPrev'[x] <= totals'[x]
    BY DEF BooksInv
  <1> DEFINE f == Entries(acc, x)
             s == e.stream
             old == Accumulator(s).count[x]
  <1>1. totals \in Counts /\ totalsPrev \in Counts /\ Accumulator(s) \in Accumulators
    BY AccumulatorType DEF CountTypes
  <1>2. Accumulator(s).count \in Counts
    BY <1>1 DEF Accumulators
  <1>3. totals[x] \in Nat /\ totalsPrev[x] \in Nat /\ old \in Nat
    BY <1>1, <1>2, CountFields
  <1>4. Added(e, x) \in Nat /\ totals'[x] = totals[x] + Added(e, x)
    BY <1>1, CountedAdds DEF Apply
  <1>5. Entries(intervals, x)' = Entries(intervals, x) /\ totalsPrev' = totalsPrev
    BY DEF Apply, Entries
  <1>6. DOMAIN acc' = DOMAIN acc \cup {s}
        /\ acc'[s] = Accumulated(Accumulator(s), e)
        /\ \A i \in DOMAIN acc : i # s => acc'[i] = acc[i]
    BY DEF Apply
  <1>7. acc'[s].count[x] = old + Added(e, x)
    BY <1>2, <1>6, CountedAdds DEF Accumulated
  <1>8. s \in DOMAIN acc => acc[s].count[x] = old
    BY DEF Accumulator
  <1>9. s \notin DOMAIN acc => old = 0
    BY <1>1, CountFields DEF Accumulator, NewAccumulator
  <1>10. /\ DOMAIN f = DOMAIN acc /\ DOMAIN f' = DOMAIN acc'
         /\ \A i \in DOMAIN acc : f[i] = acc[i].count[x]
         /\ \A i \in DOMAIN acc' : f'[i] = acc'[i].count[x]
    BY DEF Entries
  <1>11. Comes(f, totals[x]) /\ totalsPrev[x] <= totals[x]
         /\ Comes(Entries(intervals, x), totalsPrev[x])
    BY DEF BooksInv
  <1> HIDE DEF f, old, s
  <1>12. Comes(f', totals[x] + Added(e, x))
    <2>1. DOMAIN f' = DOMAIN f \cup {s} /\ \A i \in DOMAIN f : i # s => f'[i] = f[i]
      BY <1>6, <1>10
    <2>2. f'[s] = old + Added(e, x)
      BY <1>6, <1>7, <1>10
    <2>3. (s \in DOMAIN f => f[s] = old) /\ (s \notin DOMAIN f => old = 0)
      BY <1>8, <1>9, <1>10
    <2> QED BY <1>3, <1>4, <1>11, <2>1, <2>2, <2>3, BookGrows
  <1> QED BY <1>3, <1>4, <1>5, <1>11, <1>12 DEF f

\* A cut enters in the intervals what the totals have more than they.
LEMMA CutKeepsBooks ==
    ASSUME CountTypes, BooksInv, CutInterval
    PROVE  BooksInv'
  <1> SUFFICES ASSUME NEW x \in Fields
               PROVE  /\ Comes(Entries(acc, x)', totals'[x])
                      /\ Comes(Entries(intervals, x)', totalsPrev'[x])
                      /\ totalsPrev'[x] <= totals'[x]
    BY DEF BooksInv
  <1> DEFINE f == Entries(intervals, x)
             n == Len(intervals)
             d == totals[x] - totalsPrev[x]
  <1>1. /\ acc' = acc /\ totals' = totals /\ totalsPrev' = totals
        /\ intervals' = Append(intervals, BuildInterval)
    BY DEF CutInterval
  <1>2. totals \in Counts /\ totalsPrev \in Counts /\ intervals \in Seq(Intervals)
    BY DEF CountTypes
  <1>3. totals[x] \in Nat /\ totalsPrev[x] \in Nat
    BY <1>2, CountFields
  <1>4. /\ Comes(f, totalsPrev[x]) /\ totalsPrev[x] <= totals[x]
        /\ Comes(Entries(acc, x), totals[x])
    BY DEF BooksInv
  <1>5. BuildInterval.count[x] = d /\ d \in Nat
    BY <1>2, <1>3, <1>4, DiffOfCounts DEF BuildInterval
  <1>6. /\ n \in Nat /\ DOMAIN intervals = 1..n /\ DOMAIN intervals' = (1..n) \cup {n + 1}
        /\ intervals'[n + 1] = BuildInterval
        /\ \A k \in 1..n : intervals'[k] = intervals[k]
    BY <1>1, <1>2
  <1>7. /\ DOMAIN f = 1..n /\ DOMAIN f' = (1..n) \cup {n + 1}
        /\ \A i \in 1..n : f[i] = intervals[i].count[x]
        /\ \A i \in (1..n) \cup {n + 1} : f'[i] = intervals'[i].count[x]
    BY <1>6 DEF Entries
  <1>8. n + 1 \notin 1..n
    BY <1>6
  <1> HIDE DEF f, n, d
  <1>9. Comes(f', totalsPrev[x] + d)
    <2>1. DOMAIN f' = DOMAIN f \cup {n + 1} /\ \A i \in DOMAIN f : i # n + 1 => f'[i] = f[i]
      BY <1>6, <1>7
    <2>2. f'[n + 1] = 0 + d /\ n + 1 \notin DOMAIN f
      BY <1>5, <1>6, <1>7, <1>8
    <2> QED BY <1>3, <1>4, <1>5, <2>1, <2>2, BookGrows
  <1>10. totalsPrev[x] + d = totals[x]
    BY <1>3 DEF d
  <1>11. Entries(acc, x)' = Entries(acc, x)
    BY <1>1 DEF Entries
  <1>12. Comes(f', totalsPrev'[x])
    BY <1>1, <1>9, <1>10
  <1> QED BY <1>1, <1>3, <1>4, <1>11, <1>12 DEF f

LEMMA StepBooks == TypeOK /\ BooksInv /\ [Next]_vars => BooksInv'
  <1> SUFFICES ASSUME TypeOK, BooksInv, [Next]_vars PROVE BooksInv'
    OBVIOUS
  <1>0. CountTypes /\ LoopTypes
    BY TypeParts
  <1>1. CASE UNCHANGED countVars
    BY <1>1 DEF countVars, BooksInv, Entries
  <1>2. CASE Recv
    <2>1. CASE Head(chan).measured
      <3>1. Head(chan) \in Events /\ Apply(Head(chan))
        BY <1>0, <1>2, <2>1, HeadOfChannel DEF Recv
      <3> QED BY <1>0, <3>1, ApplyKeepsBooks
    <2>2. CASE ~Head(chan).measured
      BY <1>1, <1>2, <2>2 DEF Recv
    <2> QED BY <2>1, <2>2
  <1>3. CASE TimerTick
    BY <1>0, <1>1, <1>3, CutKeepsBooks DEF TimerTick
  <1>4. CASE (\E i \in Ids : StreamNext(i)) \/ LoopEnds \/ Join \/ MakeReport \/ Tick \/ UNCHANGED vars
    BY <1>1, <1>4 DEF StreamNext, Connected, Send, Report, Finish, Fail,
                      LoopEnds, Join, MakeReport, Tick, vars
  <1> QED BY <1>2, <1>3, <1>4, NextCases DEF EngineNext

\* The accumulators of the streams come to the totals, and the intervals to the
\* totals at the last cut, field by field: for any number of streams and packets,
\* and however the cuts fall between the events.
THEOREM CountsAddUpCorrect == Spec => []CountsAddUp
  <1>1. Init => BooksInv
    <2> SUFFICES ASSUME Init, NEW x \in Fields
                 PROVE  /\ Comes(Entries(acc, x), totals[x])
                        /\ Comes(Entries(intervals, x), totalsPrev[x])
                        /\ totalsPrev[x] <= totals[x]
      BY DEF BooksInv
    <2>1. totals = NoCount /\ totalsPrev = NoCount /\ DOMAIN acc = {} /\ intervals = <<>>
      BY DEF Init
    <2>2. DOMAIN Entries(acc, x) = {} /\ DOMAIN Entries(intervals, x) = {}
      BY <2>1 DEF Entries
    <2>3. NoCount[x] = 0
      BY DEF NoCount, Fields
    <2> QED BY <2>1, <2>2, <2>3, EmptyBook
  <1>2. BooksInv => CountsAddUp
    BY DEF BooksInv, Comes, CountsAddUp, AggregateIsSumOfStreams, IntervalsAddUp
  <1> QED BY <1>1, <1>2, StepBooks, TypeCorrect, PTL DEF Spec
=============================================================================
