-------------------------------- MODULE Rates --------------------------------
(***************************************************************************)
(* Rates and stream counts, from the text of an option to what a stream is *)
(* given: parse_rate_mode and the list parsers of the command line,        *)
(* resolve_rate and the division of run_benchmark.  A part of an option is *)
(* "auto", digits with a unit, or text that is no number; the width of the *)
(* integers and the thousand are constants so that TLC can go to the edge. *)
(***************************************************************************)
EXTENDS Naturals, Sequences

CONSTANTS
    AutoMode,      \* RateMode::Auto, and the text "auto"
    Invalid,   \* text that does not parse, and the parser's Err
    Kilo,      \* 1000
    MaxU64, MaxU16,
    AutoRate   \* transport -> what the auto tuner selects

Transports == {"tcp", "udp", "quic"}

ASSUME RatesAssumption ==
    /\ AutoMode \notin Nat /\ Invalid \notin Nat /\ AutoMode # Invalid
    /\ Kilo \in Nat \ {0} /\ MaxU64 \in Nat /\ MaxU16 \in Nat
    /\ AutoRate \in [Transports -> 1..MaxU64]
    /\ AutoRate["tcp"] > AutoRate["udp"] /\ AutoRate["udp"] > AutoRate["quic"]

Scale == [bps |-> 1, k |-> Kilo, m |-> Kilo * Kilo, g |-> Kilo * Kilo * Kilo,
          t |-> Kilo * Kilo * Kilo * Kilo]
Amounts == [digits : Nat, unit : DOMAIN Scale]

wrapping_mul(a, b) == (a * b) % (MaxU64 + 1)
checked_mul(a, b) == IF a * b > MaxU64 THEN Invalid ELSE a * b

parse_rate_mode(part) ==
    IF part \in {AutoMode, Invalid} THEN part
    ELSE IF part.digits > MaxU64 THEN Invalid
    ELSE LET total == checked_mul(part.digits, Scale[part.unit])
         IN  IF total = 0 THEN Invalid ELSE total

\* A list is refused for one bad part; no part at all is the text "", which is
\* one part that is no number.
parse_rates_list(parts) ==
    LET rates == [i \in DOMAIN parts |-> parse_rate_mode(parts[i])]
    IN  IF \E i \in DOMAIN parts : rates[i] = Invalid THEN Invalid ELSE rates

parse_streams_list(parts) ==
    IF \A i \in DOMAIN parts : parts[i] \in 1..MaxU16 THEN parts ELSE Invalid

resolve_rate(rate, transport) == IF rate = AutoMode THEN AutoRate[transport] ELSE rate

per_stream_rate(rate, streams) ==
    IF rate \div streams = 0 THEN 1 ELSE rate \div streams

\* The rates a RateMode may hold, and what a stream may be told to send.
RateModes == {AutoMode} \cup 1..MaxU64
=============================================================================
