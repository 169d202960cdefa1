--------------------------------- MODULE Cli ---------------------------------
(***************************************************************************)
(* main from the command line to its end, for the two commands that        *)
(* benchmark: what clap makes of the options, `ipfusch run` over Frontend, *)
(* and `ipfusch sweep`.  run_sweep is also called as the library function  *)
(* it is, with a configuration of the caller's own.                        *)
(***************************************************************************)
EXTENDS Frontend, Sweep

CONSTANTS
    RunCases,    \* the command lines of `run`: see RunTypes
    SweepCases,  \* the lists of `sweep`: [streams, rates]
    Nothing      \* no text, no run

RunTypes ==
    [flags : [tui : BOOLEAN, jsonl : BOOLEAN, json : BOOLEAN], transport : Transports,
     streams : Nat \cup {Invalid}, rate : {AutoMode, Invalid} \cup Amounts, interval : Nat]

ASSUME CliAssumption ==
    /\ \A c \in RunCases : c \in RunTypes
    /\ Nothing \notin Nat

VARIABLES
    command,  \* "run", "sweep" or "library"
    typed,    \* a member of RunCases or SweepCases
    phase,    \* "parse", "usage", "panicked", "run" or "library"
    spec      \* of `run`: its streams, its rate and the rate of each stream

cliVars == <<command, typed, phase, spec>>
mainVars == <<vars, sweepVars, cliVars>>

CliInit ==
    /\ Init /\ SweepInit
    /\ phase = "parse" /\ spec = Nothing
    /\ \/ command = "run" /\ typed \in RunCases /\ flags = typed.flags
       \/ /\ \/ command = "sweep" /\ typed \in SweepCases
             \/ command = "library" /\ typed = Nothing
          /\ flags = [tui |-> FALSE, jsonl |-> FALSE, json |-> FALSE]

-----------------------------------------------------------------------------
(* Cli::parse                                                              *)

\* run takes any u16 for its stream count, sweep's own parser does not.
Parses ==
    /\ command = "run" => typed.streams \in 0..MaxU16 /\ parse_rate_mode(typed.rate) # Invalid
    /\ command = "sweep" => /\ parse_streams_list(typed.streams) # Invalid
                            /\ parse_rates_list(typed.rates) # Invalid

UsageError ==
    /\ phase = "parse" /\ ~Parses
    /\ phase' = "usage"
    /\ UNCHANGED <<vars, sweepVars, command, typed, spec>>

\* The rates of the streams, but for no stream at all: then the division panics.
StartRun ==
    /\ phase = "parse" /\ command = "run" /\ Parses
    /\ LET rate == resolve_rate(parse_rate_mode(typed.rate), typed.transport)
       IN  spec' = [streams |-> typed.streams, rate_bps |-> rate,
                    per_stream |-> IF typed.streams = 0 THEN Nothing
                                   ELSE per_stream_rate(rate, typed.streams)]
    /\ phase' = "run"
    /\ UNCHANGED <<vars, sweepVars, command, typed>>

\* The value parsers return whole lists; clap's derive takes the elements of a
\* Vec<u16> for the values, asks for values of type u16, and panics.
SweepPanics ==
    /\ phase = "parse" /\ command = "sweep" /\ Parses
    /\ phase' = "panicked"
    /\ UNCHANGED <<vars, sweepVars, command, typed, spec>>

-----------------------------------------------------------------------------
(* What was called                                                         *)

\* A benchmark without streams panics when it divides the rate by their number,
\* one with --interval 0s when it makes its timer: no interval was sent by then.
\* A spawned task that panics is one that failed.
Panics == spec.streams = 0 \/ typed.interval = 0

RunStep ==
    /\ phase = "run" /\ Next
    /\ Panics => runner' # "ok" /\ produced' = 0
    /\ UNCHANGED <<sweepVars, cliVars>>

LibraryCall ==
    /\ phase = "parse" /\ command = "library"
    /\ phase' = "library"
    /\ CallSweep
    /\ UNCHANGED <<vars, command, typed, spec>>

LibraryStep ==
    /\ phase = "library" /\ SweepNext
    /\ UNCHANGED <<vars, cliVars>>

Ended ==
    \/ phase \in {"usage", "panicked"}
    \/ phase = "run" /\ ui = "exited"
    \/ phase = "library" /\ SweepOver

Over == Ended /\ UNCHANGED mainVars

ParseNext == UsageError \/ StartRun \/ SweepPanics \/ LibraryCall

CliNext == ParseNext \/ RunStep \/ LibraryStep \/ Over

CliSpec == CliInit /\ [][CliNext]_mainVars

\* main runs, the benchmarks end (Engine's Termination), nobody presses a key.
FairCliSpec ==
    /\ CliSpec
    /\ WF_mainVars(ParseNext) /\ WF_mainVars(LibraryStep)
    /\ WF_mainVars(RunStep /\ RunnerNext) /\ WF_mainVars(RunStep /\ MainNext)

-----------------------------------------------------------------------------
(* Properties                                                              *)

\* Types, those of the run's display and of the sweep included.
CliTypeOK ==
    /\ TypeOK
    /\ command \in {"run", "sweep", "library"}
    /\ phase \in {"parse", "usage", "panicked", "run", "library"}
    /\ typed \in RunCases \cup SweepCases \cup {Nothing}
    /\ spec = Nothing \/ spec \in [streams : 0..MaxU16, rate_bps : 1..MaxU64,
                                   per_stream : 1..MaxU64 \cup {Nothing}]
    /\ sweep \in {"idle", "running", "ok", "failed", "panicked"}
    /\ cfg \in SweepConfigs \cup {Invalid}
    /\ cfg # Invalid => Len(runs) <= GridSize /\ Len(top) <= cfg.top

\* A run has exactly the rate that was asked for: digits times unit however
\* large, never what is left of it by an overflow, or what the tuner selects for
\* its transport.  Each stream's share of it is at least one bit a second, and
\* they are no more than the rate together but for that.
RateHonoured ==
    phase = "run" =>
      /\ spec.rate_bps = IF typed.rate = AutoMode THEN AutoRate[typed.transport]
                         ELSE typed.rate.digits * Scale[typed.rate.unit]
      /\ spec.rate_bps \in 1..MaxU64
      /\ Shared(spec.streams, spec.rate_bps, spec.per_stream)

\* main comes to its end: a paused dashboard, with intervals it will not show,
\* does not keep it, nor does a benchmark that panics, nor a sweep.
MainEnds == <>Ended

\* README.md lists a "sweep mode with ranked recommendations": the command does
\* not panic on options it has just accepted.
SweepCommandRuns == command = "sweep" => phase # "panicked"
=============================================================================
