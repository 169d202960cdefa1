-------------------------------- MODULE Sweep --------------------------------
(***************************************************************************)
(* run_sweep: one benchmark for every pair of a stream count and a rate,   *)
(* and the ranking of their reports.  A benchmark is Engine, seen from     *)
(* here: it fails, or ends in a report with some outcome.  Scores are      *)
(* exact fractions, of units that are small enough to compare.             *)
(***************************************************************************)
EXTENDS Rates, Integers, FiniteSets

CONSTANTS
    SweepConfigs,  \* what run_sweep may be called with: see ConfigTypes
    Outcomes       \* what a benchmark may measure: see OutcomeTypes

Objectives == {"throughput", "maxefficiency", "balanced"}

ConfigTypes ==
    [transport : Transports, streams : Seq(0..MaxU16), rates : Seq(RateModes),
     objective : Objectives, top : Nat]
OutcomeTypes ==
    [throughput : Nat, latencies : Seq(Nat), sent : Nat, lost : Nat]

ASSUME SweepAssumption ==
    /\ \A c \in SweepConfigs : c \in ConfigTypes
    /\ \A o \in Outcomes : o \in OutcomeTypes /\ o.lost <= o.sent

VARIABLES
    cfg,    \* the SweepConfig, or Invalid before the call
    sweep,  \* "idle", "running", "ok", "failed" or "panicked"
    runs,   \* the reports
    top     \* top_recommendations

sweepVars == <<cfg, sweep, runs, top>>

SweepInit == cfg = Invalid /\ sweep = "idle" /\ runs = <<>> /\ top = <<>>

-----------------------------------------------------------------------------
(* The statistics of one report                                            *)

\* The value at a rank of the sorted list: the least that has so many up to it.
UpTo(values, i) == Cardinality({j \in DOMAIN values : values[j] <= values[i]})
AtRank(values, rank, i) ==
    /\ UpTo(values, i) >= rank
    /\ \A j \in DOMAIN values : values[j] < values[i] => UpTo(values, j) < rank

\* the nearest rank, halves rounded up
NearestRank(n, percent) == 1 + ((n - 1) * percent + 50) \div 100

quantile(values, percent) ==
    IF values = <<>> THEN 0
    ELSE values[CHOOSE i \in DOMAIN values :
                  AtRank(values, NearestRank(Len(values), percent), i)]

\* loss_pct as a fraction; nothing sent is no loss
loss_pct(o) == IF o.sent = 0 THEN [num |-> 0, den |-> 1]
                             ELSE [num |-> 100 * o.lost, den |-> o.sent]

\* score_run, as a fraction with a positive denominator
score_run(objective, o) ==
    LET p99 == quantile(o.latencies, 99)
        loss == loss_pct(o)
    IN  CASE objective = "throughput" -> [num |-> o.throughput, den |-> 1]
          [] objective = "maxefficiency" ->
               [num |-> o.throughput * loss.den, den |-> (1 + p99) * loss.den + loss.num]
          [] objective = "balanced" ->
               [num |-> (100 * o.throughput - p99) * loss.den - 5 * loss.num,
                den |-> 100 * loss.den]

\* Every call with the same aggregate gives the same score.
Scores == [objective \in Objectives |-> [o \in Outcomes |-> score_run(objective, o)]]
Score(r) == Scores[cfg.objective][r.outcome]
Greater(x, y) == x.num * y.den > y.num * x.den

-----------------------------------------------------------------------------
(* The grid                                                                *)

CallSweep ==
    /\ sweep = "idle"
    /\ cfg' \in SweepConfigs
    /\ sweep' = "running"
    /\ UNCHANGED <<runs, top>>

GridSize == Len(cfg.streams) * Len(cfg.rates)
InGrid == sweep = "running" /\ Len(runs) < GridSize

\* the two lists side by side
GridPointZipped(n) ==
    [streams |-> cfg.streams[1 + (n % Len(cfg.streams))],
     rate    |-> cfg.rates[1 + (n % Len(cfg.rates))]]

\* for streams in .. { for rate in .. }
GridPoint(n) ==
    [streams |-> cfg.streams[1 + n \div Len(cfg.rates)],
     rate    |-> cfg.rates[1 + (n % Len(cfg.rates))]]

\* `point` is history: the pair's place in the grid.
Report(point, n, outcome) ==
    LET rate == resolve_rate(point.rate, cfg.transport)
    IN  [point |-> n, streams |-> point.streams, rate_bps |-> rate,
         per_stream |-> per_stream_rate(rate, point.streams), outcome |-> outcome]

Benchmark ==
    /\ InGrid
    /\ GridPoint(Len(runs)).streams > 0
    /\ \E o \in Outcomes :
         runs' = Append(runs, Report(GridPoint(Len(runs)), Len(runs), o))
    /\ UNCHANGED <<cfg, sweep, top>>

\* The reports that were there are dropped with the sweep.
EndsWithout(result) ==
    /\ sweep' = result /\ runs' = <<>>
    /\ UNCHANGED <<cfg, top>>

BenchmarkFails == InGrid /\ GridPoint(Len(runs)).streams > 0 /\ EndsWithout("failed")

\* v / cfg.streams: run_benchmark divides before it looks at anything.
BenchmarkPanics == InGrid /\ GridPoint(Len(runs)).streams = 0 /\ EndsWithout("panicked")

-----------------------------------------------------------------------------
(* The ranking                                                             *)

Before(r, s) == Greater(Score(r), Score(s))

\* Equal scores keep their order: the sort is stable.
Ahead(r, s) == Before(r, s) \/ (~Before(s, r) /\ r.point < s.point)

\* A report's place in the sorted list follows from the number of those ahead.
Place(rs, i) == 1 + Cardinality({j \in DOMAIN rs : Ahead(rs[j], rs[i])})
Ranked(rs) ==
    [k \in DOMAIN rs |-> rs[CHOOSE i \in DOMAIN rs : Place(rs, i) = k]]

Recommendation(r) ==
    [streams |-> r.streams, rate_bps |-> r.rate_bps, score |-> Score(r)]

Rank ==
    /\ sweep = "running" /\ Len(runs) = GridSize
    /\ sweep' = "ok"
    /\ runs' = Ranked(runs)
    /\ top' = [k \in 1..(IF cfg.top < GridSize THEN cfg.top ELSE GridSize) |->
                 Recommendation(runs'[k])]
    /\ UNCHANGED cfg

SweepNext == Benchmark \/ BenchmarkFails \/ BenchmarkPanics \/ Rank

-----------------------------------------------------------------------------
(* Properties                                                              *)

SweepOver == sweep \in {"ok", "failed", "panicked"}

\* A stream is told to send at least one bit a second, and the streams of a run
\* together no more than the run's rate, or one bit each.
Shared(streams, rate, share) ==
    streams > 0 => share >= 1 /\ (streams * share <= rate \/ share = 1)

\* Each stream count was run with each rate, once, as the two lists ask for it,
\* and the ranking has lost and doubled none of the reports.
WholeGrid ==
    /\ \A k \in DOMAIN runs : Shared(runs[k].streams, runs[k].rate_bps, runs[k].per_stream)
    /\ sweep \in {"failed", "panicked"} => runs = <<>> /\ top = <<>>
    /\ sweep = "ok" =>
         /\ Len(runs) = GridSize
         /\ \A i \in DOMAIN cfg.streams, j \in DOMAIN cfg.rates :
              \E k \in DOMAIN runs :
                /\ runs[k].point = (i - 1) * Len(cfg.rates) + j - 1
                /\ runs[k].streams = cfg.streams[i]
                /\ runs[k].rate_bps = resolve_rate(cfg.rates[j], cfg.transport)

\* The best report comes first and equal ones in the order they were run; the
\* recommendations are the best of them all, in the same order.
BestFirst ==
    sweep = "ok" =>
      /\ \A k, l \in DOMAIN runs : k < l =>
           /\ ~Greater(Score(runs[l]), Score(runs[k]))
           /\ ~Greater(Score(runs[k]), Score(runs[l])) => runs[k].point < runs[l].point
      /\ \A k \in DOMAIN top : top[k] = Recommendation(runs[k])

\* What a caller of run_sweep relies on: a ranking of the whole grid, or an error
\* and no part of it.
SweepIsWhole == WholeGrid /\ BestFirst
=============================================================================
