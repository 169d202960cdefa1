-------------------------------- MODULE MCCli --------------------------------
(* Small instances of Cli for TLC: see the .cfg files. *)
EXTENDS Cli

\* Three bits of a rate, units of two, three streams at most.
MCAutoRate == [tcp |-> 7, udp |-> 5, quic |-> 2]

Amount(n, u) == [digits |-> n, unit |-> u]
RateTexts ==
    {AutoMode, Invalid} \cup {Amount(n, u) : n \in {0, 1, 3, 7, 8}, u \in DOMAIN Scale}

AnyFlags == [tui : BOOLEAN, jsonl : BOOLEAN, json : BOOLEAN]
Quiet == [tui |-> FALSE, jsonl |-> FALSE, json |-> TRUE]
Run(f, t, n, r, i) ==
    [flags |-> f, transport |-> t, streams |-> n, rate |-> r, interval |-> i]

\* Every text of a rate and of a stream count with --json, and every mode of the
\* display with one rate, a period of zero included.
MCRunCases ==
    {Run(Quiet, t, n, r, 1) : t \in Transports, n \in {Invalid, 0, 1, 2, 3, 4}, r \in RateTexts}
      \cup {Run(f, "udp", n, Amount(3, "bps"), i) :
                f \in AnyFlags, n \in {0, 2}, i \in {0, 1}}

MCSweepCases ==
    [streams : {<<1>>, <<2, 3>>, <<0, 1>>, <<1, 4>>, <<Invalid>>},
     rates : {<<AutoMode>>, <<AutoMode, Amount(3, "k")>>, <<Amount(7, "k")>>, <<Invalid, AutoMode>>}]

Config(t, s, r, o, n) ==
    [transport |-> t, streams |-> s, rates |-> r, objective |-> o, top |-> n]

\* Grids of every shape up to three by two, with equal rates and a stream count of
\* zero, and lists of recommendations shorter and longer than the grid.
MCSweepConfigs ==
    {Config("tcp", s, r, o, n) :
       s \in {<<>>, <<1>>, <<2, 1>>, <<1, 0>>, <<1, 2, 3>>}, r \in {<<7>>, <<AutoMode, 3>>},
       o \in Objectives, n \in {0, 2, 9}}

\* Fast and slow, with and without loss, nothing acked, nothing sent; and two
\* with equal scores by throughput that differ by the others.
Outcome(b, l, s, x) == [throughput |-> b, latencies |-> l, sent |-> s, lost |-> x]
MCOutcomes ==
    {Outcome(2, <<9, 1>>, 2, 0), Outcome(2, <<1>>, 2, 1), Outcome(1, <<>>, 1, 1),
     Outcome(0, <<>>, 0, 0)}
=============================================================================
