------------------------------ MODULE CliProofs ------------------------------
(***************************************************************************)
(* Theorems about Cli, for every command line and every width of the       *)
(* integers: `ipfusch run` implements Frontend, so what is proved of the   *)
(* display holds of the whole command, and the rate is the one asked for.  *)
(***************************************************************************)
EXTENDS Cli, FrontendProofs, FiniteSetTheorems

-----------------------------------------------------------------------------
(* The run command implements the display                                  *)

\* A step of the program is one of the display or changes nothing of it.
LEMMA StepImplements == [CliNext]_mainVars => [Next]_vars
  <1> SUFFICES ASSUME [CliNext]_mainVars PROVE [Next]_vars
    OBVIOUS
  <1>1. CASE ParseNext
    BY <1>1 DEF ParseNext, UsageError, StartRun, SweepPanics, LibraryCall
  <1>2. CASE RunStep
    BY <1>2 DEF RunStep
  <1>3. CASE LibraryStep
    BY <1>3 DEF LibraryStep
  <1>4. CASE Over \/ UNCHANGED mainVars
    BY <1>4 DEF Over, mainVars
  <1> QED BY <1>1, <1>2, <1>3, <1>4 DEF CliNext

\* Whatever is on the command line, what is shown is what Frontend shows.
THEOREM DisplayImplemented == CliSpec => Spec
  <1>1. CliInit => Init
    BY DEF CliInit
  <1> QED BY <1>1, StepImplements, PTL DEF CliSpec, Spec

\* Intervals are shown once and in order by the whole command, in each of its
\* modes, a benchmark that panics included.
THEOREM RunShowsInOrder == CliSpec => []ShownInOrder
  BY DisplayImplemented, ShownInOrderCorrect, PTL

\* A --jsonl command that ends well has printed every interval.
THEOREM RunJsonlComplete == CliSpec => []JsonlComplete
  BY DisplayImplemented, JsonlCompleteCorrect, PTL

-----------------------------------------------------------------------------
(* Rates                                                                   *)

LEMMA CliConstants ==
    /\ \A c \in RunCases : c \in RunTypes
    /\ Nothing \notin Nat /\ AutoMode \notin Nat /\ Invalid \notin Nat /\ AutoMode # Invalid
    /\ Kilo \in Nat \ {0} /\ MaxU64 \in Nat /\ MaxU16 \in Nat
    /\ AutoRate \in [Transports -> 1..MaxU64]
  BY CliAssumption, RatesAssumption

LEMMA Units == \A u \in DOMAIN Scale : Scale[u] \in Nat
  BY CliConstants DEF Scale

\* The parser gives exactly digits times unit, or nothing.
LEMMA ParsedRate ==
    ASSUME NEW r \in {AutoMode, Invalid} \cup Amounts, parse_rate_mode(r) # Invalid
    PROVE  \/ r = AutoMode /\ parse_rate_mode(r) = AutoMode
           \/ /\ r # AutoMode /\ parse_rate_mode(r) = r.digits * Scale[r.unit]
              /\ parse_rate_mode(r) \in 1..MaxU64
  <1>1. CASE r \in {AutoMode, Invalid}
    BY <1>1 DEF parse_rate_mode
  <1>2. CASE r \notin {AutoMode, Invalid}
    <2>1. r.digits \in Nat /\ r.unit \in DOMAIN Scale
      BY <1>2 DEF Amounts
    <2> DEFINE total == r.digits * Scale[r.unit]
    <2>2. total \in Nat
      BY <2>1, Units
    <2>3. parse_rate_mode(r) = total /\ total # 0 /\ ~(total > MaxU64)
      BY <1>2, CliConstants DEF parse_rate_mode, checked_mul
    <2> QED BY <1>2, <2>2, <2>3, CliConstants
  <1> QED BY <1>1, <1>2

\* The shares of a rate are no more than the rate, but for the last bit.
LEMMA SharesOfRate ==
    ASSUME NEW n \in Nat, NEW rate \in Nat \ {0}, n # 0
    PROVE  Shared(n, rate, per_stream_rate(rate, n))
  <1> DEFINE q == rate \div n
  <1>1. q \in Nat /\ n * q <= rate
    OBVIOUS
  <1> HIDE DEF q
  <1>2. per_stream_rate(rate, n) = IF q = 0 THEN 1 ELSE q
    BY DEF per_stream_rate, q
  <1> QED BY <1>1, <1>2 DEF Shared

\* The rate of a command line that parses: what was asked for, and it can be sent.
LEMMA RateAsked ==
    ASSUME NEW c \in RunCases, parse_rate_mode(c.rate) # Invalid
    PROVE  /\ resolve_rate(parse_rate_mode(c.rate), c.transport) =
                IF c.rate = AutoMode THEN AutoRate[c.transport]
                ELSE c.rate.digits * Scale[c.rate.unit]
           /\ resolve_rate(parse_rate_mode(c.rate), c.transport) \in 1..MaxU64
  <1>1. c.rate \in {AutoMode, Invalid} \cup Amounts /\ c.transport \in Transports
    BY CliConstants DEF RunTypes
  <1>2. CASE c.rate = AutoMode
    <2>1. parse_rate_mode(c.rate) = AutoMode
      BY <1>2 DEF parse_rate_mode
    <2> QED BY <1>1, <1>2, <2>1, CliConstants DEF resolve_rate
  <1>3. CASE c.rate # AutoMode
    <2>1. /\ parse_rate_mode(c.rate) = c.rate.digits * Scale[c.rate.unit]
          /\ parse_rate_mode(c.rate) \in 1..MaxU64
      BY <1>1, <1>3, ParsedRate
    <2>2. parse_rate_mode(c.rate) # AutoMode
      BY <2>1, CliConstants
    <2> QED BY <1>3, <2>1, <2>2 DEF resolve_rate
  <1> QED BY <1>2, <1>3

\* What a run that has started was started with.
RunStarted ==
    /\ command = "run" => typed \in RunCases
    /\ phase = "run" =>
         /\ command = "run" /\ Parses
         /\ LET rate == resolve_rate(parse_rate_mode(typed.rate), typed.transport)
            IN  /\ spec.rate_bps = rate /\ spec.streams = typed.streams
                /\ spec.streams # 0 => spec.per_stream = per_stream_rate(rate, spec.streams)

LEMMA RunStartedHolds == CliSpec => []RunStarted
  <1>1. CliInit => RunStarted
    BY DEF CliInit, RunStarted
  <1>2. RunStarted /\ [CliNext]_mainVars => RunStarted'
    <2> SUFFICES ASSUME RunStarted, [CliNext]_mainVars PROVE RunStarted'
      OBVIOUS
    <2>1. CASE StartRun
      <3>1. command' = "run" /\ typed' = typed /\ typed \in RunCases /\ Parses /\ Parses'
        BY <2>1 DEF StartRun, RunStarted, Parses
      <3>2. LET rate == resolve_rate(parse_rate_mode(typed.rate), typed.transport)
            IN  /\ spec'.rate_bps = rate /\ spec'.streams = typed.streams
                /\ typed.streams # 0 => spec'.per_stream = per_stream_rate(rate, typed.streams)
        BY <2>1 DEF StartRun
      <3> QED BY <3>1, <3>2 DEF RunStarted
    <2>2. CASE UsageError \/ SweepPanics \/ LibraryCall
      BY <2>2 DEF UsageError, SweepPanics, LibraryCall, RunStarted
    <2>3. CASE RunStep \/ LibraryStep \/ Over \/ UNCHANGED mainVars
      BY <2>3 DEF RunStep, LibraryStep, Over, mainVars, cliVars, RunStarted, Parses
    <2> QED BY <2>1, <2>2, <2>3 DEF CliNext, ParseNext
  <1> QED BY <1>1, <1>2, PTL DEF CliSpec

\* `ipfusch run` sends at the rate that was asked for, digits times unit without
\* a wrap, or at the tuner's; and its streams share it without exceeding it: for
\* every text of --rate and --streams.
THEOREM RateHonouredCorrect == CliSpec => []RateHonoured
  <1>1. RunStarted => RateHonoured
    <2> SUFFICES ASSUME RunStarted, phase = "run"
                 PROVE  /\ spec.rate_bps = IF typed.rate = AutoMode THEN AutoRate[typed.transport]
                                           ELSE typed.rate.digits * Scale[typed.rate.unit]
                        /\ spec.rate_bps \in 1..MaxU64
                        /\ Shared(spec.streams, spec.rate_bps, spec.per_stream)
      BY DEF RateHonoured
    <2>1. typed \in RunCases /\ typed.streams \in 0..MaxU16
          /\ parse_rate_mode(typed.rate) # Invalid
      BY DEF RunStarted, Parses
    <2> DEFINE rate == resolve_rate(parse_rate_mode(typed.rate), typed.transport)
    <2>3. /\ rate = IF typed.rate = AutoMode THEN AutoRate[typed.transport]
                    ELSE typed.rate.digits * Scale[typed.rate.unit]
          /\ rate \in 1..MaxU64
      BY <2>1, RateAsked
    <2>4. /\ spec.rate_bps = rate /\ spec.streams = typed.streams
          /\ spec.streams # 0 => spec.per_stream = per_stream_rate(rate, spec.streams)
      BY DEF RunStarted
    <2> HIDE DEF rate
    <2>5. Shared(spec.streams, spec.rate_bps, spec.per_stream)
      <3>1. CASE spec.streams = 0
        BY <3>1 DEF Shared
      <3>2. CASE spec.streams # 0
        <4>1. spec.streams \in Nat /\ rate \in Nat \ {0}
          BY <2>1, <2>3, <2>4, CliConstants
        <4> QED BY <2>4, <3>2, <4>1, SharesOfRate
      <3> QED BY <3>1, <3>2
    <2> QED BY <2>3, <2>4, <2>5
  <1> QED BY <1>1, RunStartedHolds, PTL
-----------------------------------------------------------------------------
(* Places in an order                                                      *)

\* How many of 1..n come before i in the relation A.
CountBefore(A, n, i) == Cardinality({j \in 1..n : <<j, i>> \in A})

StrictOrder(A, n) ==
    /\ \A i \in 1..n : <<i, i>> \notin A
    /\ \A i, j, k \in 1..n : <<i, j>> \in A /\ <<j, k>> \in A => <<i, k>> \in A
    /\ \A i, j \in 1..n : i # j => <<i, j>> \in A \/ <<j, i>> \in A

\* A strict total order gives each element a place of its own: who comes before
\* whom has the lower place, and no place is left over.
LEMMA Places ==
    ASSUME NEW n \in Nat, NEW A, StrictOrder(A, n)
    PROVE  /\ \A i \in 1..n : CountBefore(A, n, i) \in 0..(n - 1)
           /\ \A i, j \in 1..n : <<i, j>> \in A => CountBefore(A, n, i) < CountBefore(A, n, j)
           /\ \A k \in 0..(n - 1) : \E i \in 1..n : CountBefore(A, n, i) = k
  <1> USE DEF StrictOrder
  <1> DEFINE B(i) == {j \in 1..n : <<j, i>> \in A}
  <1>1. IsFiniteSet(1..n) /\ Cardinality(1..n) = n
    BY FS_Interval
  <1>2. \A i \in 1..n : IsFiniteSet(B(i)) /\ Cardinality(B(i)) \in 0..(n - 1)
    <2> TAKE i \in 1..n
    <2>1. B(i) \in SUBSET ((1..n) \ {i})
      OBVIOUS
    <2>2. IsFiniteSet((1..n) \ {i}) /\ Cardinality((1..n) \ {i}) = n - 1
      BY <1>1, FS_RemoveElement
    <2>3. IsFiniteSet(B(i)) /\ Cardinality(B(i)) <= n - 1
      <3> HIDE DEF B
      <3> QED BY <2>1, <2>2, FS_Subset
    <2>4. Cardinality(B(i)) \in Nat
      BY <2>3, FS_CardinalityType
    <2> QED BY <2>3, <2>4
  <1>3. \A i, j \in 1..n : <<i, j>> \in A => Cardinality(B(i)) < Cardinality(B(j))
    <2> SUFFICES ASSUME NEW i \in 1..n, NEW j \in 1..n, <<i, j>> \in A
                 PROVE  Cardinality(B(i)) < Cardinality(B(j))
      OBVIOUS
    <2>1. B(i) \in SUBSET B(j) /\ i \in B(j) /\ i \notin B(i)
      OBVIOUS
    <2>2. IsFiniteSet(B(j)) /\ Cardinality(B(i)) \in Nat /\ Cardinality(B(j)) \in Nat
      BY <1>2
    <2>3. Cardinality(B(i)) <= Cardinality(B(j)) /\ Cardinality(B(i)) # Cardinality(B(j))
      <3> HIDE DEF B
      <3> QED BY <2>1, <2>2, FS_Subset
    <2> QED BY <2>2, <2>3
  <1> DEFINE f == [i \in 1..n |-> Cardinality(B(i))]
  <1>4. f \in Injection(1..n, 0..(n - 1))
    <2>1. f \in [1..n -> 0..(n - 1)]
      BY <1>2
    <2>2. \A i, j \in 1..n : f[i] = f[j] => i = j
      <3> SUFFICES ASSUME NEW i \in 1..n, NEW j \in 1..n, i # j PROVE f[i] # f[j]
        OBVIOUS
      <3>1. <<i, j>> \in A \/ <<j, i>> \in A
        OBVIOUS
      <3>0. f[i] = Cardinality(B(i)) /\ f[j] = Cardinality(B(j))
        OBVIOUS
      <3>3. Cardinality(B(i)) < Cardinality(B(j)) \/ Cardinality(B(j)) < Cardinality(B(i))
        BY <1>3, <3>1, Zenon
      <3>2. f[i] \in Nat /\ f[j] \in Nat
        BY <2>1
      <3> HIDE DEF f
      <3>4. f[i] < f[j] \/ f[j] < f[i]
        BY <3>0, <3>3
      <3> QED BY <3>2, <3>4
    <2> QED BY <2>1, <2>2 DEF Injection, IsInjective
  <1>5. IsFiniteSet(0..(n - 1)) /\ Cardinality(0..(n - 1)) = n
    BY FS_Interval
  <1>6. f \in Surjection(1..n, 0..(n - 1))
    <2> HIDE DEF f
    <2> QED BY <1>1, <1>4, <1>5, FS_Injection
  <1>7. \A k \in 0..(n - 1) : \E i \in 1..n : f[i] = k
    BY <1>6 DEF Surjection
  <1> QED BY <1>2, <1>3, <1>7 DEF CountBefore

-----------------------------------------------------------------------------
(* The statistics of a report                                              *)

LEMMA RankInRange == \A n \in Nat \ {0} : NearestRank(n, 99) \in 1..n
  <1> TAKE n \in Nat \ {0}
  <1> DEFINE q == ((n - 1) * 99 + 50) \div 100
  <1>1. q \in Nat /\ 100 * q <= (n - 1) * 99 + 50
    OBVIOUS
  <1> HIDE DEF q
  <1>2. q <= n - 1
    BY <1>1
  <1> QED BY <1>1, <1>2 DEF NearestRank, q

\* Every rank of a list has a value: the one with so many before it, by value and
\* then by place.
LEMMA RankAttained ==
    ASSUME NEW values \in Seq(Nat), NEW rank \in 1..Len(values)
    PROVE  \E i \in DOMAIN values : AtRank(values, rank, i)
  <1> DEFINE n == Len(values)
             A == {p \in (1..n) \X (1..n) :
                     \/ values[p[1]] < values[p[2]]
                     \/ values[p[1]] = values[p[2]] /\ p[1] < p[2]}
  <1>1. n \in Nat /\ DOMAIN values = 1..n /\ \A i \in 1..n : values[i] \in Nat
    OBVIOUS
  <1>2. \A i, j \in 1..n : <<i, j>> \in A <=>
            values[i] < values[j] \/ (values[i] = values[j] /\ i < j)
    OBVIOUS
  <1> HIDE DEF n, A
  <1>3. \A i \in 1..n : <<i, i>> \notin A
    BY <1>1, <1>2
  <1>4. \A i, j, k \in 1..n : <<i, j>> \in A /\ <<j, k>> \in A => <<i, k>> \in A
    <2> TAKE i \in 1..n, j \in 1..n, k \in 1..n
    <2>1. values[i] \in Nat /\ values[j] \in Nat /\ values[k] \in Nat
      BY <1>1
    <2> QED BY <1>1, <1>2, <2>1
  <1>5. \A i, j \in 1..n : i # j => <<i, j>> \in A \/ <<j, i>> \in A
    <2> TAKE i \in 1..n, j \in 1..n
    <2>1. values[i] \in Nat /\ values[j] \in Nat
      BY <1>1
    <2> QED BY <1>1, <1>2, <2>1
  <1>6. rank \in Nat /\ rank - 1 \in 0..(n - 1)
    BY <1>1 DEF n
  <1>7. StrictOrder(A, n)
    BY <1>3, <1>4, <1>5 DEF StrictOrder
  <1>8. PICK i \in 1..n : CountBefore(A, n, i) = rank - 1
    BY <1>1, <1>6, <1>7, Places
  <1> DEFINE B == {j \in 1..n : <<j, i>> \in A}
             Up(j) == {l \in 1..n : values[l] <= values[j]}
  <1>9. IsFiniteSet(1..n)
    BY <1>1, FS_Interval
  <1>10. /\ IsFiniteSet(B) /\ Cardinality(B) = rank - 1
         /\ \A j \in 1..n : IsFiniteSet(Up(j)) /\ UpTo(values, j) = Cardinality(Up(j))
    <2>1. B \in SUBSET (1..n) /\ \A j \in 1..n : Up(j) \in SUBSET (1..n)
      OBVIOUS
    <2>2. Cardinality(B) = rank - 1
      BY <1>8 DEF CountBefore
    <2>3. \A j \in 1..n : UpTo(values, j) = Cardinality(Up(j))
      BY <1>1 DEF UpTo
    <2> HIDE DEF B, Up
    <2> QED BY <1>9, <2>1, <2>2, <2>3, FS_Subset
  <1>11. UpTo(values, i) >= rank
    <2>1. B \cup {i} \in SUBSET Up(i) /\ i \notin B
      BY <1>1, <1>2, <1>3
    <2>2. IsFiniteSet(B \cup {i}) /\ Cardinality(B \cup {i}) = rank
      <3> HIDE DEF B, Up
      <3>1. IsFiniteSet(B \cup {i}) /\ Cardinality(B \cup {i}) = Cardinality(B) + 1
        BY <1>10, <2>1, FS_AddElement
      <3> QED BY <1>6, <1>10, <3>1
    <2>3. Cardinality(Up(i)) \in Nat /\ Cardinality(B \cup {i}) <= Cardinality(Up(i))
      <3> HIDE DEF B, Up
      <3> QED BY <1>10, <2>1, FS_Subset, FS_CardinalityType
    <2> QED BY <1>10, <2>2, <2>3
  <1>12. \A j \in 1..n : values[j] < values[i] => UpTo(values, j) < rank
    <2> SUFFICES ASSUME NEW j \in 1..n, values[j] < values[i]
                 PROVE  UpTo(values, j) < rank
      OBVIOUS
    <2>1. Up(j) \in SUBSET B
      BY <1>1, <1>2
    <2>2. Cardinality(Up(j)) <= Cardinality(B) /\ Cardinality(Up(j)) \in Nat
      <3> HIDE DEF B, Up
      <3> QED BY <1>10, <2>1, FS_Subset, FS_CardinalityType
    <2> HIDE DEF B, Up
    <2> QED BY <1>6, <1>10, <2>2
  <1> QED BY <1>1, <1>11, <1>12 DEF AtRank

\* The 99th percentile of whole microseconds is one of them, or 0 of none.
LEMMA QuantileType == \A values \in Seq(Nat) : quantile(values, 99) \in Nat
  <1> TAKE values \in Seq(Nat)
  <1>1. CASE values = <<>>
    BY <1>1 DEF quantile
  <1>2. CASE values # <<>>
    <2> DEFINE rank == NearestRank(Len(values), 99)
    <2>1. Len(values) \in Nat \ {0}
      BY <1>2
    <2>2. rank \in 1..Len(values)
      BY <2>1, RankInRange
    <2> HIDE DEF rank
    <2>3. \E i \in DOMAIN values : AtRank(values, rank, i)
      BY <2>2, RankAttained
    <2> DEFINE i == CHOOSE i \in DOMAIN values : AtRank(values, rank, i)
    <2>4. i \in DOMAIN values
      BY <2>3
    <2>5. quantile(values, 99) = values[i]
      BY <1>2 DEF quantile, rank
    <2> QED BY <2>4, <2>5
  <1> QED BY <1>1, <1>2

\* A score is a fraction that can be compared.
Fraction(x) == x.num \in Int /\ x.den \in Nat \ {0}

LEMMA ScoreType ==
    ASSUME NEW objective \in Objectives, NEW o \in Outcomes
    PROVE  Fraction(Scores[objective][o])
  <1>1. /\ o.throughput \in Nat /\ o.latencies \in Seq(Nat)
        /\ o.sent \in Nat /\ o.lost \in Nat
    BY SweepAssumption DEF OutcomeTypes
  <1> DEFINE p99 == quantile(o.latencies, 99)
             loss == loss_pct(o)
  <1>2. p99 \in Nat
    BY <1>1, QuantileType
  <1>3. loss.num \in Nat /\ loss.den \in Nat \ {0}
    BY <1>1 DEF loss_pct
  <1>4. Scores[objective][o] = score_run(objective, o)
    BY DEF Scores
  <1> HIDE DEF p99, loss
  <1>5. CASE objective = "throughput"
    BY <1>1, <1>4, <1>5 DEF score_run, Fraction
  <1>6. CASE objective = "maxefficiency"
    <2>1. Scores[objective][o] = [num |-> o.throughput * loss.den,
                                  den |-> (1 + p99) * loss.den + loss.num]
      BY <1>4, <1>6 DEF score_run, p99, loss
    <2>2. o.throughput * loss.den \in Nat
      BY <1>1, <1>3
    <2>3. (1 + p99) * loss.den \in Nat \ {0}
      BY <1>2, <1>3
    <2> QED BY <1>3, <2>1, <2>2, <2>3 DEF Fraction
  <1>7. CASE objective = "balanced"
    <2>1. Scores[objective][o] =
            [num |-> (100 * o.throughput - p99) * loss.den - 5 * loss.num,
             den |-> 100 * loss.den]
      BY <1>4, <1>7 DEF score_run, p99, loss
    <2>2. (100 * o.throughput - p99) * loss.den \in Int
      BY <1>1, <1>2, <1>3
    <2> QED BY <1>3, <2>1, <2>2 DEF Fraction
  <1> QED BY <1>5, <1>6, <1>7 DEF Objectives

LEMMA GreaterIrreflexive == \A x : Fraction(x) => ~Greater(x, x)
  BY DEF Fraction, Greater

LEMMA Scaled ==
    \A a \in Int, b \in Int, c \in Nat \ {0} :
      (a > b <=> a * c > b * c) /\ (a >= b <=> a * c >= b * c)
  OBVIOUS

\* Greater is an order of the fractions: x > y >= z and x >= y > z give x > z.
LEMMA GreaterTransitive ==
    ASSUME NEW x, NEW y, NEW z, Fraction(x), Fraction(y), Fraction(z)
    PROVE  /\ Greater(x, y) /\ ~Greater(z, y) => Greater(x, z)
           /\ ~Greater(y, x) /\ Greater(y, z) => Greater(x, z)
           /\ ~Greater(y, x) /\ ~Greater(z, y) => ~Greater(z, x)
  <1>1. \A a \in Int, b \in Int, c \in Int, p \in Nat \ {0}, q \in Nat \ {0}, r \in Nat \ {0} :
          /\ (a * q > b * p <=> (a * q) * r > (b * p) * r)
          /\ (b * r > c * q <=> (b * r) * p > (c * q) * p)
          /\ (a * r > c * p <=> (a * r) * q > (c * p) * q)
          /\ (b * p > a * q <=> (b * p) * r > (a * q) * r)
          /\ (c * q > b * r <=> (c * q) * p > (b * r) * p)
          /\ (c * p > a * r <=> (c * p) * q > (a * r) * q)
    <2> TAKE a \in Int, b \in Int, c \in Int, p \in Nat \ {0}, q \in Nat \ {0}, r \in Nat \ {0}
    <2>1. /\ a * q \in Int /\ b * p \in Int /\ b * r \in Int
          /\ c * q \in Int /\ a * r \in Int /\ c * p \in Int
      OBVIOUS
    <2> QED BY <2>1, Scaled
  <1>2. \A a \in Int, b \in Int, c \in Int, p \in Nat \ {0}, q \in Nat \ {0}, r \in Nat \ {0} :
          /\ (a * q) * r = (a * r) * q /\ (a * q) * r \in Int
          /\ (b * p) * r = (b * r) * p /\ (b * p) * r \in Int
          /\ (c * q) * p = (c * p) * q /\ (c * q) * p \in Int
    OBVIOUS
  <1>3. \A a \in Int, b \in Int, c \in Int, p \in Nat \ {0}, q \in Nat \ {0}, r \in Nat \ {0} :
          /\ a * q > b * p /\ ~(c * q > b * r) => a * r > c * p
          /\ ~(b * p > a * q) /\ b * r > c * q => a * r > c * p
          /\ ~(b * p > a * q) /\ ~(c * q > b * r) => ~(c * p > a * r)
    <2> TAKE a \in Int, b \in Int, c \in Int, p \in Nat \ {0}, q \in Nat \ {0}, r \in Nat \ {0}
    <2> DEFINE u == (a * q) * r
               v == (b * p) * r
               w == (c * q) * p
    <2>1. /\ u \in Int /\ v \in Int /\ w \in Int
          /\ u = (a * r) * q /\ v = (b * r) * p /\ w = (c * p) * q
      BY <1>2
    <2>2. /\ (a * q > b * p <=> u > v) /\ (b * p > a * q <=> v > u)
          /\ (b * r > c * q <=> v > w) /\ (c * q > b * r <=> w > v)
          /\ (a * r > c * p <=> u > w) /\ (c * p > a * r <=> w > u)
      BY <1>1, <2>1
    <2> HIDE DEF u, v, w
    <2>3. (u > v /\ ~(w > v) => u > w) /\ (~(v > u) /\ v > w => u > w)
          /\ (~(v > u) /\ ~(w > v) => ~(w > u))
      BY <2>1
    <2> QED BY <2>2, <2>3, Zenon
  <1> DEFINE a == x.num
             b == y.num
             c == z.num
             p == x.den
             q == y.den
             r == z.den
  <1>4. /\ a \in Int /\ b \in Int /\ c \in Int
        /\ p \in Nat \ {0} /\ q \in Nat \ {0} /\ r \in Nat \ {0}
    BY DEF Fraction
  <1>5. /\ Greater(x, y) = (a * q > b * p) /\ Greater(y, x) = (b * p > a * q)
        /\ Greater(y, z) = (b * r > c * q) /\ Greater(z, y) = (c * q > b * r)
        /\ Greater(x, z) = (a * r > c * p) /\ Greater(z, x) = (c * p > a * r)
    BY DEF Greater
  <1> HIDE DEF a, b, c, p, q, r
  <1>6. /\ a * q > b * p /\ ~(c * q > b * r) => a * r > c * p
        /\ ~(b * p > a * q) /\ b * r > c * q => a * r > c * p
        /\ ~(b * p > a * q) /\ ~(c * q > b * r) => ~(c * p > a * r)
    BY <1>3, <1>4
  <1> QED BY <1>5, <1>6, Zenon

-----------------------------------------------------------------------------
(* The ranking                                                             *)

\* Reports of which each has a score that can be compared, in the order they ran.
Scored(rs, n) ==
    /\ DOMAIN rs = 1..n
    /\ \A i \in 1..n : rs[i].point \in Nat /\ Fraction(Score(rs[i]))
    /\ \A i, j \in 1..n : i # j => rs[i].point # rs[j].point

AheadIn(rs, n) == {p \in (1..n) \X (1..n) : Ahead(rs[p[1]], rs[p[2]])}

\* Ahead is a strict total order of the reports of a sweep.
LEMMA AheadOrders ==
    ASSUME NEW rs, NEW n \in Nat, Scored(rs, n)
    PROVE  StrictOrder(AheadIn(rs, n), n)
  <1> DEFINE A == AheadIn(rs, n)
             sc(i) == Score(rs[i])
             pt(i) == rs[i].point
  <1>1. \A i, j \in 1..n : <<i, j>> \in A <=>
            Greater(sc(i), sc(j)) \/ (~Greater(sc(j), sc(i)) /\ pt(i) < pt(j))
    BY DEF AheadIn, Ahead, Before
  <1>2. /\ \A i \in 1..n : pt(i) \in Nat /\ Fraction(sc(i))
        /\ \A i, j \in 1..n : i # j => pt(i) # pt(j)
    BY DEF Scored
  <1> HIDE DEF A, sc, pt
  <1>3. \A i \in 1..n : <<i, i>> \notin A
    BY <1>1, <1>2, GreaterIrreflexive
  <1>4. \A i, j, k \in 1..n : <<i, j>> \in A /\ <<j, k>> \in A => <<i, k>> \in A
    <2> TAKE i \in 1..n, j \in 1..n, k \in 1..n
    <2>1. /\ Greater(sc(i), sc(j)) /\ ~Greater(sc(k), sc(j)) => Greater(sc(i), sc(k))
          /\ ~Greater(sc(j), sc(i)) /\ Greater(sc(j), sc(k)) => Greater(sc(i), sc(k))
          /\ ~Greater(sc(j), sc(i)) /\ ~Greater(sc(k), sc(j)) => ~Greater(sc(k), sc(i))
      BY <1>2, GreaterTransitive
    <2>2. Greater(sc(j), sc(k)) => ~Greater(sc(k), sc(j))
      BY <1>2 DEF Greater, Fraction
    <2>3. pt(i) < pt(j) /\ pt(j) < pt(k) => pt(i) < pt(k)
      BY <1>2
    <2> QED BY <1>1, <2>1, <2>2, <2>3
  <1>5. \A i, j \in 1..n : i # j => <<i, j>> \in A \/ <<j, i>> \in A
    <2> SUFFICES ASSUME NEW i \in 1..n, NEW j \in 1..n, i # j
                 PROVE  <<i, j>> \in A \/ <<j, i>> \in A
      OBVIOUS
    <2>1. pt(i) < pt(j) \/ pt(j) < pt(i)
      BY <1>2
    <2> QED BY <1>1, <2>1
  <1> QED BY <1>3, <1>4, <1>5 DEF StrictOrder, A

\* The ranking has every report, each once, and the better before the worse.
LEMMA RankedIsSorted ==
    ASSUME NEW rs, NEW n \in Nat, Scored(rs, n)
    PROVE  /\ DOMAIN Ranked(rs) = 1..n
           /\ \A k \in 1..n : \E i \in 1..n : Ranked(rs)[k] = rs[i]
           /\ \A i \in 1..n : \E k \in 1..n : Ranked(rs)[k] = rs[i]
           /\ \A k, l \in 1..n : k < l =>
                /\ ~Greater(Score(Ranked(rs)[l]), Score(Ranked(rs)[k]))
                /\ ~Greater(Score(Ranked(rs)[k]), Score(Ranked(rs)[l])) =>
                      Ranked(rs)[k].point < Ranked(rs)[l].point
  <1> DEFINE A == AheadIn(rs, n)
             at(k) == CHOOSE i \in 1..n : Place(rs, i) = k
  <1>1. DOMAIN rs = 1..n
    BY DEF Scored
  <1>2. \A i \in 1..n : Place(rs, i) = 1 + CountBefore(A, n, i)
    <2> TAKE i \in 1..n
    <2>1. {j \in DOMAIN rs : Ahead(rs[j], rs[i])} = {j \in 1..n : <<j, i>> \in A}
      BY <1>1 DEF AheadIn
    <2> QED BY <2>1 DEF Place, CountBefore
  <1>3. /\ \A i \in 1..n : CountBefore(A, n, i) \in 0..(n - 1)
        /\ \A i, j \in 1..n : <<i, j>> \in A => CountBefore(A, n, i) < CountBefore(A, n, j)
        /\ \A k \in 0..(n - 1) : \E i \in 1..n : CountBefore(A, n, i) = k
    <2> HIDE DEF A
    <2>1. StrictOrder(A, n)
      BY AheadOrders DEF A
    <2> QED BY <2>1, Places
  <1>4. \A i, j \in 1..n : i # j => <<i, j>> \in A \/ <<j, i>> \in A
    BY AheadOrders DEF StrictOrder
  <1>5. \A i, j \in 1..n : <<i, j>> \in A => Ahead(rs[i], rs[j])
    BY DEF AheadIn
  <1> HIDE DEF A
  <1>6. \A k \in 1..n : \E i \in 1..n : Place(rs, i) = k
    <2> TAKE k \in 1..n
    <2>1. k - 1 \in 0..(n - 1)
      OBVIOUS
    <2>2. PICK i \in 1..n : CountBefore(A, n, i) = k - 1
      BY <1>3, <2>1
    <2> QED BY <1>2, <2>2
  <1>7. \A k \in 1..n : at(k) \in 1..n /\ Place(rs, at(k)) = k
    BY <1>6
  <1>8. DOMAIN Ranked(rs) = 1..n /\ \A k \in 1..n : Ranked(rs)[k] = rs[at(k)]
    BY <1>1 DEF Ranked
  <1> HIDE DEF at
  <1>9. \A i, j \in 1..n : i # j => Place(rs, i) # Place(rs, j)
    <2> SUFFICES ASSUME NEW i \in 1..n, NEW j \in 1..n, i # j
                 PROVE  Place(rs, i) # Place(rs, j)
      OBVIOUS
    <2>1. CountBefore(A, n, i) < CountBefore(A, n, j) \/ CountBefore(A, n, j) < CountBefore(A, n, i)
      BY <1>3, <1>4
    <2>2. CountBefore(A, n, i) \in Nat /\ CountBefore(A, n, j) \in Nat
      BY <1>3
    <2> QED BY <1>2, <2>1, <2>2
  <1>10. \A i \in 1..n : \E k \in 1..n : Ranked(rs)[k] = rs[i]
    <2> TAKE i \in 1..n
    <2>1. Place(rs, i) \in 1..n
      BY <1>2, <1>3
    <2>2. at(Place(rs, i)) = i
      BY <1>7, <1>9, <2>1
    <2> QED BY <1>8, <2>1, <2>2
  <1>11. ASSUME NEW k \in 1..n, NEW l \in 1..n, k < l
         PROVE  /\ ~Greater(Score(rs[at(l)]), Score(rs[at(k)]))
                /\ ~Greater(Score(rs[at(k)]), Score(rs[at(l)])) =>
                      rs[at(k)].point < rs[at(l)].point
    <2>1. /\ at(k) \in 1..n /\ at(l) \in 1..n
          /\ CountBefore(A, n, at(k)) = k - 1 /\ CountBefore(A, n, at(l)) = l - 1
      BY <1>2, <1>3, <1>7
    <2>2. at(k) # at(l) /\ ~(CountBefore(A, n, at(l)) < CountBefore(A, n, at(k)))
      BY <1>11, <2>1
    <2>3. Ahead(rs[at(k)], rs[at(l)])
      BY <1>3, <1>4, <1>5, <2>1, <2>2
    <2>4. Fraction(Score(rs[at(k)])) /\ Fraction(Score(rs[at(l)]))
      BY <2>1 DEF Scored
    <2>5. Greater(Score(rs[at(k)]), Score(rs[at(l)])) =>
            ~Greater(Score(rs[at(l)]), Score(rs[at(k)]))
      BY <2>4 DEF Fraction, Greater
    <2> QED BY <2>3, <2>5 DEF Ahead, Before
  <1> QED BY <1>7, <1>8, <1>10, <1>11

-----------------------------------------------------------------------------
(* The sweep                                                               *)

\* What each parser gives and the tuner selects is a rate that can be sent.
LEMMA ResolvedInRange ==
    ASSUME NEW r \in RateModes, NEW t \in Transports
    PROVE  resolve_rate(r, t) \in 1..MaxU64
  BY CliConstants DEF RateModes, resolve_rate

LEMMA ShareInRange ==
    ASSUME NEW rate \in 1..MaxU64, NEW n \in Nat \ {0}
    PROVE  per_stream_rate(rate, n) \in 1..MaxU64
  <1> DEFINE q == rate \div n
  <1>1. q \in Nat /\ q <= rate
    BY CliConstants
  <1> HIDE DEF q
  <1>2. per_stream_rate(rate, n) = IF q = 0 THEN 1 ELSE q
    BY DEF per_stream_rate, q
  <1> QED BY <1>1, <1>2, CliConstants

\* The places of the grid are the pairs: each place has one, each pair a place.
LEMMA GridIndex ==
    ASSUME NEW S \in Nat, NEW R \in Nat, NEW n \in Nat, n < S * R
    PROVE  1 + n \div R \in 1..S /\ 1 + (n % R) \in 1..R
  <1>1. R # 0
    <2>1. CASE R = 0
      <3>1. S * R = 0
        BY <2>1
      <3> QED BY <3>1
    <2> QED BY <2>1
  <1> DEFINE q == n \div R
             m == n % R
  <1>2. q \in Nat /\ m \in 0..(R - 1) /\ n = R * q + m
    BY <1>1
  <1> HIDE DEF q, m
  <1>3. q < S
    <2>1. CASE q >= S
      <3>1. R * q >= R * S
        BY <1>2, <2>1
      <3>2. R * S = S * R /\ R * q \in Nat /\ S * R \in Nat
        BY <1>2
      <3> QED BY <1>2, <3>1, <3>2
    <2> QED BY <1>2, <2>1
  <1> QED BY <1>2, <1>3 DEF q, m

LEMMA GridInverse ==
    ASSUME NEW S \in Nat, NEW R \in Nat, NEW i \in 1..S, NEW j \in 1..R
    PROVE  /\ (i - 1) * R + j - 1 \in 0..(S * R - 1)
           /\ ((i - 1) * R + j - 1) \div R = i - 1
           /\ ((i - 1) * R + j - 1) % R = j - 1
  OBVIOUS

Reports == [point : Nat, streams : 0..MaxU16, rate_bps : 1..MaxU64,
            per_stream : 1..MaxU64, outcome : Outcomes]

\* The reports so far are those of the first places of the grid, in order.
InOrder ==
    /\ runs \in Seq(Reports) /\ Len(runs) <= GridSize
    /\ \A k \in 1..Len(runs) :
         /\ GridPoint(k - 1).streams > 0
         /\ \E o \in Outcomes : runs[k] = Report(GridPoint(k - 1), k - 1, o)

\* What a sweep is in each of its phases.
SweepInv ==
    /\ sweep \in {"idle", "running", "ok", "failed", "panicked"}
    /\ sweep = "idle" => cfg = Invalid
    /\ sweep # "idle" => cfg \in SweepConfigs
    /\ sweep # "ok" => top = <<>>
    /\ sweep \in {"idle", "failed", "panicked"} => runs = <<>>
    /\ sweep = "running" => InOrder
    /\ sweep = "ok" => SweepIsWhole /\ Len(runs) <= GridSize /\ Len(top) <= cfg.top

\* What a SweepConfig has, and its grid.
LEMMA ConfigParts ==
    ASSUME cfg \in SweepConfigs
    PROVE  /\ cfg.transport \in Transports /\ cfg.objective \in Objectives
           /\ cfg.streams \in Seq(0..MaxU16) /\ cfg.rates \in Seq(RateModes)
           /\ Len(cfg.streams) \in Nat /\ Len(cfg.rates) \in Nat
           /\ cfg.top \in Nat /\ GridSize \in Nat
  <1>1. cfg \in ConfigTypes
    BY SweepAssumption
  <1>2. /\ cfg.transport \in Transports /\ cfg.objective \in Objectives
        /\ cfg.streams \in Seq(0..MaxU16) /\ cfg.rates \in Seq(RateModes)
        /\ cfg.top \in Nat
    BY <1>1 DEF ConfigTypes
  <1>3. Len(cfg.streams) \in Nat /\ Len(cfg.rates) \in Nat
    BY <1>2
  <1>4. \A a, b \in Nat : a * b \in Nat
    OBVIOUS
  <1>5. GridSize \in Nat
    BY <1>3, <1>4 DEF GridSize
  <1> QED BY <1>2, <1>3, <1>5

\* Each place of the grid has its pair, of the two lists.
LEMMA GridPointType ==
    ASSUME cfg \in SweepConfigs, NEW n \in Nat, n < GridSize
    PROVE  GridPoint(n).streams \in 0..MaxU16 /\ GridPoint(n).rate \in RateModes
  <1>1. /\ 1 + n \div Len(cfg.rates) \in 1..Len(cfg.streams)
        /\ 1 + (n % Len(cfg.rates)) \in 1..Len(cfg.rates)
    BY ConfigParts, GridIndex DEF GridSize
  <1> DEFINE a == 1 + n \div Len(cfg.rates)
             b == 1 + (n % Len(cfg.rates))
  <1>2. GridPoint(n).streams = cfg.streams[a] /\ GridPoint(n).rate = cfg.rates[b]
    BY DEF GridPoint
  <1> HIDE DEF a, b
  <1>3. a \in 1..Len(cfg.streams) /\ b \in 1..Len(cfg.rates)
    BY <1>1 DEF a, b
  <1>4. cfg.streams[a] \in 0..MaxU16
    BY <1>3, ConfigParts, ElementOfSeq
  <1>5. cfg.rates[b] \in RateModes
    BY <1>3, ConfigParts, ElementOfSeq
  <1> QED BY <1>2, <1>4, <1>5

\* A report of a place with streams, whatever was measured.
LEMMA ReportType ==
    ASSUME cfg \in SweepConfigs, NEW n \in Nat, n < GridSize,
           GridPoint(n).streams > 0, NEW o \in Outcomes
    PROVE  /\ Report(GridPoint(n), n, o) \in Reports
           /\ Shared(GridPoint(n).streams,
                     Report(GridPoint(n), n, o).rate_bps, Report(GridPoint(n), n, o).per_stream)
  <1> DEFINE g == GridPoint(n)
             rate == resolve_rate(g.rate, cfg.transport)
  <1>1. g.streams \in 0..MaxU16 /\ g.streams \in Nat \ {0} /\ g.rate \in RateModes
    BY GridPointType, CliConstants
  <1>2. rate \in 1..MaxU64
    <2> HIDE DEF g
    <2> QED BY <1>1, ConfigParts, ResolvedInRange
  <1>3. Report(g, n, o) = [point |-> n, streams |-> g.streams, rate_bps |-> rate,
                           per_stream |-> per_stream_rate(rate, g.streams), outcome |-> o]
    BY DEF Report
  <1> HIDE DEF g, rate
  <1>4. per_stream_rate(rate, g.streams) \in 1..MaxU64
    BY <1>1, <1>2, ShareInRange
  <1>5. Shared(g.streams, rate, per_stream_rate(rate, g.streams))
    <2>1. rate \in Nat \ {0}
      BY <1>2, CliConstants
    <2> QED BY <1>1, <2>1, SharesOfRate
  <1>6. Report(g, n, o) \in Reports
    BY <1>1, <1>2, <1>3, <1>4 DEF Reports
  <1> QED BY <1>3, <1>5, <1>6 DEF g

\* What the reports of a running sweep say, one by one.
LEMMA CollectedReports ==
    ASSUME cfg \in SweepConfigs, InOrder
    PROVE  \A k \in 1..Len(runs) :
             /\ runs[k] \in Reports /\ runs[k].point = k - 1
             /\ Shared(runs[k].streams, runs[k].rate_bps, runs[k].per_stream)
             /\ Fraction(Score(runs[k]))
  <1> TAKE k \in 1..Len(runs)
  <1>1. PICK o \in Outcomes : runs[k] = Report(GridPoint(k - 1), k - 1, o)
    BY DEF InOrder
  <1>2. k - 1 \in Nat /\ k - 1 < GridSize /\ GridPoint(k - 1).streams > 0
    BY ConfigParts DEF InOrder
  <1>3. /\ runs[k] \in Reports
        /\ Shared(GridPoint(k - 1).streams, runs[k].rate_bps, runs[k].per_stream)
    BY <1>1, <1>2, ReportType
  <1>4. /\ runs[k].point = k - 1 /\ runs[k].streams = GridPoint(k - 1).streams
        /\ runs[k].outcome = o
    BY <1>1 DEF Report
  <1>5. Fraction(Score(runs[k]))
    BY <1>4, ConfigParts, ScoreType DEF Score
  <1> QED BY <1>3, <1>4, <1>5

\* The reports of a whole grid have one for each pair of the lists.
LEMMA PairsCovered ==
    ASSUME cfg \in SweepConfigs, InOrder, Len(runs) = GridSize,
           NEW i \in DOMAIN cfg.streams, NEW j \in DOMAIN cfg.rates
    PROVE  \E k \in 1..Len(runs) :
             /\ runs[k].point = (i - 1) * Len(cfg.rates) + j - 1
             /\ runs[k].streams = cfg.streams[i]
             /\ runs[k].rate_bps = resolve_rate(cfg.rates[j], cfg.transport)
  <1> DEFINE n == (i - 1) * Len(cfg.rates) + j - 1
  <1>1. i \in 1..Len(cfg.streams) /\ j \in 1..Len(cfg.rates)
    BY ConfigParts
  <1>2. /\ n \in 0..(GridSize - 1)
        /\ n \div Len(cfg.rates) = i - 1 /\ n % Len(cfg.rates) = j - 1
    BY <1>1, ConfigParts, GridInverse DEF GridSize
  <1> HIDE DEF n
  <1>3. n + 1 \in 1..Len(runs) /\ (n + 1) - 1 = n
    BY <1>2, ConfigParts
  <1>4. PICK o \in Outcomes : runs[n + 1] = Report(GridPoint(n), n, o)
    BY <1>3 DEF InOrder
  <1>5. 1 + n \div Len(cfg.rates) = i /\ 1 + (n % Len(cfg.rates)) = j
    <2>1. i \in Int /\ j \in Int /\ 1 + (i - 1) = i /\ 1 + (j - 1) = j
      BY <1>1, ConfigParts
    <2> QED BY <1>2, <2>1
  <1>6. GridPoint(n).streams = cfg.streams[i] /\ GridPoint(n).rate = cfg.rates[j]
    BY <1>5 DEF GridPoint
  <1>7. /\ runs[n + 1].point = n /\ runs[n + 1].streams = cfg.streams[i]
        /\ runs[n + 1].rate_bps = resolve_rate(cfg.rates[j], cfg.transport)
    BY <1>4, <1>6 DEF Report
  <1> QED BY <1>3, <1>7 DEF n

LEMMA BenchmarkCollects == SweepInv /\ Benchmark => SweepInv'
  <1> SUFFICES ASSUME SweepInv, Benchmark PROVE SweepInv'
    OBVIOUS
  <1>1. /\ sweep = "running" /\ Len(runs) < GridSize /\ GridPoint(Len(runs)).streams > 0
        /\ cfg' = cfg /\ sweep' = sweep /\ top' = top
    BY DEF Benchmark, InGrid
  <1>2. cfg \in SweepConfigs /\ InOrder /\ top = <<>>
    BY <1>1 DEF SweepInv
  <1>3. PICK o \in Outcomes : runs' = Append(runs, Report(GridPoint(Len(runs)), Len(runs), o))
    BY DEF Benchmark
  <1> DEFINE n == Len(runs)
             r == Report(GridPoint(n), n, o)
  <1>4. runs \in Seq(Reports) /\ n \in Nat /\ r \in Reports
    BY <1>1, <1>2, ReportType DEF InOrder
  <1>5. /\ runs' \in Seq(Reports) /\ Len(runs') = n + 1
        /\ runs'[n + 1] = r /\ \A k \in 1..n : runs'[k] = runs[k]
    <2> HIDE DEF r
    <2>1. runs' = Append(runs, r)
      BY <1>3 DEF r
    <2> QED BY <1>4, <2>1
  <1>6. GridSize' = GridSize /\ \A k : GridPoint(k)' = GridPoint(k)
    BY <1>1 DEF GridSize, GridPoint
  <1>7. Len(runs') <= GridSize'
    BY <1>1, <1>2, <1>4, <1>5, <1>6, ConfigParts
  <1>8. \A k \in 1..Len(runs') :
          /\ GridPoint(k - 1)'.streams > 0
          /\ \E p \in Outcomes : runs'[k] = Report(GridPoint(k - 1), k - 1, p)'
    <2> SUFFICES ASSUME NEW k \in 1..Len(runs')
                 PROVE  /\ GridPoint(k - 1)'.streams > 0
                        /\ \E p \in Outcomes : runs'[k] = Report(GridPoint(k - 1), k - 1, p)'
      OBVIOUS
    <2>1. \A p : Report(GridPoint(k - 1), k - 1, p)' = Report(GridPoint(k - 1), k - 1, p)
      BY <1>1, <1>6 DEF Report
    <2>2. CASE k = n + 1
      <3>1. k - 1 = n
        BY <1>4, <2>2
      <3> QED BY <1>1, <1>5, <1>6, <2>1, <2>2, <3>1
    <2>3. CASE k # n + 1
      <3>1. k \in 1..n
        BY <1>4, <1>5, <2>3
      <3> QED BY <1>2, <1>5, <1>6, <2>1, <3>1 DEF InOrder
    <2> QED BY <2>2, <2>3
  <1>9. InOrder'
    BY <1>5, <1>7, <1>8 DEF InOrder
  <1> QED BY <1>1, <1>2, <1>9 DEF SweepInv

LEMMA EndsEmpty ==
    SweepInv /\ (BenchmarkFails \/ BenchmarkPanics) => SweepInv'
  <1> SUFFICES ASSUME SweepInv, BenchmarkFails \/ BenchmarkPanics PROVE SweepInv'
    OBVIOUS
  <1>1. /\ sweep = "running" /\ sweep' \in {"failed", "panicked"} /\ runs' = <<>>
        /\ cfg' = cfg /\ top' = top
    BY DEF BenchmarkFails, BenchmarkPanics, InGrid, EndsWithout
  <1> QED BY <1>1 DEF SweepInv

\* The end of the sweep: what it returns is whole.
LEMMA RankIsWhole == SweepInv /\ Rank => SweepInv'
  <1> SUFFICES ASSUME SweepInv, Rank PROVE SweepInv'
    OBVIOUS
  <1> DEFINE n == Len(runs)
             R == Ranked(runs)
  <1>1. /\ sweep = "running" /\ sweep' = "ok" /\ n = GridSize
        /\ runs' = R /\ cfg' = cfg
        /\ top' = [k \in 1..(IF cfg.top < GridSize THEN cfg.top ELSE GridSize) |->
                     Recommendation(runs'[k])]
    BY DEF Rank
  <1>2. cfg \in SweepConfigs /\ InOrder
    BY <1>1 DEF SweepInv
  <1>3. n \in Nat /\ DOMAIN runs = 1..n
    BY <1>2 DEF InOrder
  <1>4. Scored(runs, n)
    <2>1. \A k \in 1..n : runs[k].point = k - 1 /\ Fraction(Score(runs[k]))
      BY <1>2, CollectedReports
    <2> QED BY <1>3, <2>1 DEF Scored
  <1>5. /\ DOMAIN R = 1..n
        /\ \A k \in 1..n : \E i \in 1..n : R[k] = runs[i]
        /\ \A i \in 1..n : \E k \in 1..n : R[k] = runs[i]
        /\ \A k, l \in 1..n : k < l =>
             /\ ~Greater(Score(R[l]), Score(R[k]))
             /\ ~Greater(Score(R[k]), Score(R[l])) => R[k].point < R[l].point
    BY <1>3, <1>4, RankedIsSorted
  <1>6. R \in Seq(Reports) /\ Len(R) = n
    <2>1. R = [k \in 1..n |-> R[k]]
      BY <1>3 DEF Ranked
    <2>2. \A k \in 1..n : R[k] \in Reports
      BY <1>2, <1>5, CollectedReports
    <2> HIDE DEF n, R
    <2>3. R \in [1..n -> Reports]
      BY <2>1, <2>2
    <2> QED BY <1>3, <2>3
  <1>7. GridSize' = GridSize /\ \A r : Score(r)' = Score(r)
    BY <1>1 DEF GridSize, Score
  <1> HIDE DEF R
  <1>8. WholeGrid'
    <2>1. \A k \in 1..n : Shared(R[k].streams, R[k].rate_bps, R[k].per_stream)
      BY <1>2, <1>5, CollectedReports
    <2>2. ASSUME NEW i \in DOMAIN cfg.streams, NEW j \in DOMAIN cfg.rates
          PROVE  \E k \in 1..n :
                   /\ R[k].point = (i - 1) * Len(cfg.rates) + j - 1
                   /\ R[k].streams = cfg.streams[i]
                   /\ R[k].rate_bps = resolve_rate(cfg.rates[j], cfg.transport)
      <3>1. PICK m \in 1..n :
              /\ runs[m].point = (i - 1) * Len(cfg.rates) + j - 1
              /\ runs[m].streams = cfg.streams[i]
              /\ runs[m].rate_bps = resolve_rate(cfg.rates[j], cfg.transport)
        BY <1>1, <1>2, PairsCovered
      <3>2. PICK k \in 1..n : R[k] = runs[m]
        BY <1>5
      <3> QED BY <3>1, <3>2
    <2>3. Len(runs') = GridSize'
      BY <1>1, <1>6, <1>7
    <2>4. DOMAIN runs' = 1..n /\ runs' = R /\ cfg' = cfg /\ sweep' = "ok"
      BY <1>1, <1>5
    <2>5. \A k \in DOMAIN runs' :
            Shared(runs'[k].streams, runs'[k].rate_bps, runs'[k].per_stream)
      BY <2>1, <2>4
    <2>6. \A i \in DOMAIN cfg'.streams, j \in DOMAIN cfg'.rates :
            \E k \in DOMAIN runs' :
              /\ runs'[k].point = (i - 1) * Len(cfg'.rates) + j - 1
              /\ runs'[k].streams = cfg'.streams[i]
              /\ runs'[k].rate_bps = resolve_rate(cfg'.rates[j], cfg'.transport)
      BY <2>2, <2>4
    <2>7. sweep' \notin {"failed", "panicked"}
      BY <2>4
    <2> HIDE DEF n
    <2> QED BY <2>3, <2>5, <2>6, <2>7 DEF WholeGrid
  <1>9. Len(top') <= cfg.top /\ DOMAIN top' \in SUBSET (1..n)
        /\ \A k \in DOMAIN top' : top'[k] = Recommendation(R[k])
    <2> DEFINE t == IF cfg.top < GridSize THEN cfg.top ELSE GridSize
    <2>1. t \in Nat /\ t <= cfg.top /\ t <= n
      BY <1>1, <1>2, ConfigParts
    <2> HIDE DEF t
    <2>2. top' = [k \in 1..t |-> Recommendation(R[k])]
      BY <1>1 DEF t
    <2>3. Len(top') = t /\ DOMAIN top' = 1..t
      BY <2>1, <2>2
    <2> QED BY <1>3, <2>1, <2>2, <2>3
  <1>10. BestFirst'
    <2>1. \A r : Recommendation(r)' = Recommendation(r)
      BY <1>7 DEF Recommendation
    <2> QED BY <1>1, <1>5, <1>7, <1>9, <2>1 DEF BestFirst
  <1>11. Len(runs') <= GridSize'
    BY <1>1, <1>3, <1>6, <1>7
  <1> QED BY <1>1, <1>2, <1>8, <1>9, <1>10, <1>11 DEF SweepInv, SweepIsWhole

LEMMA CallStarts == SweepInv /\ CallSweep => SweepInv'
  <1> SUFFICES ASSUME SweepInv, CallSweep PROVE SweepInv'
    OBVIOUS
  <1>1. /\ cfg' \in SweepConfigs /\ sweep' = "running" /\ runs' = <<>> /\ top' = <<>>
    BY DEF CallSweep, SweepInv
  <1>2. InOrder'
    <2>1. Len(cfg'.streams) \in Nat /\ Len(cfg'.rates) \in Nat
      <3>1. cfg' \in ConfigTypes
        BY <1>1, SweepAssumption
      <3>2. cfg'.streams \in Seq(0..MaxU16) /\ cfg'.rates \in Seq(RateModes)
        BY <3>1 DEF ConfigTypes
      <3> QED BY <3>2
    <2>2. GridSize' \in Nat
      <3>1. \A a, b \in Nat : a * b \in Nat
        OBVIOUS
      <3> QED BY <2>1, <3>1 DEF GridSize
    <2>3. runs' \in Seq(Reports) /\ Len(runs') = 0
      BY <1>1
    <2> QED BY <2>2, <2>3 DEF InOrder
  <1> QED BY <1>1, <1>2 DEF SweepInv

LEMMA SweepInvHolds == CliSpec => []SweepInv
  <1>1. CliInit => SweepInv
    BY DEF CliInit, SweepInit, SweepInv
  <1>2. SweepInv /\ [CliNext]_mainVars => SweepInv'
    <2> SUFFICES ASSUME SweepInv, [CliNext]_mainVars PROVE SweepInv'
      OBVIOUS
    <2>1. CASE LibraryCall
      BY <2>1, CallStarts DEF LibraryCall
    <2>2. CASE LibraryStep
      BY <2>2, BenchmarkCollects, EndsEmpty, RankIsWhole DEF LibraryStep, SweepNext
    <2>3. CASE UsageError \/ StartRun \/ SweepPanics \/ RunStep \/ Over \/ UNCHANGED mainVars
      <3>1. UNCHANGED sweepVars
        BY <2>3 DEF UsageError, StartRun, SweepPanics, RunStep, Over, mainVars
      <3>2. UNCHANGED <<cfg, sweep, runs, top>>
        BY <3>1 DEF sweepVars
      <3>3. GridSize' = GridSize /\ \A r : Score(r)' = Score(r)
        BY <3>2 DEF GridSize, Score
      <3>4. InOrder' <=> InOrder
        BY <3>2, <3>3 DEF InOrder, GridPoint, Report
      <3>5. WholeGrid' <=> WholeGrid
        BY <3>2, <3>3 DEF WholeGrid
      <3>6. BestFirst' <=> BestFirst
        BY <3>2, <3>3 DEF BestFirst, Recommendation
      <3> QED BY <3>2, <3>3, <3>4, <3>5, <3>6 DEF SweepInv, SweepIsWhole
    <2> QED BY <2>1, <2>2, <2>3 DEF CliNext, ParseNext
  <1> QED BY <1>1, <1>2, PTL DEF CliSpec

\* run_sweep gives the whole grid, the better report before the worse and equal
\* ones in the order they ran, or an error and nothing of it: for every
\* configuration, and whatever its benchmarks measured.
THEOREM SweepIsWholeCorrect == CliSpec => []SweepIsWhole
  <1>1. SweepInv => SweepIsWhole
    <2> SUFFICES ASSUME SweepInv PROVE SweepIsWhole
      OBVIOUS
    <2>1. CASE sweep = "ok"
      BY <2>1 DEF SweepInv
    <2>2. CASE sweep = "running"
      <3>1. cfg \in SweepConfigs /\ InOrder
        BY <2>2 DEF SweepInv
      <3>2. DOMAIN runs = 1..Len(runs)
        BY <3>1 DEF InOrder
      <3>3. \A k \in DOMAIN runs :
              Shared(runs[k].streams, runs[k].rate_bps, runs[k].per_stream)
        BY <3>1, <3>2, CollectedReports
      <3> QED BY <2>2, <3>3 DEF SweepIsWhole, WholeGrid, BestFirst
    <2>3. CASE sweep \in {"idle", "failed", "panicked"}
      <3>1. runs = <<>> /\ top = <<>>
        BY <2>3 DEF SweepInv
      <3>2. DOMAIN runs = {}
        BY <3>1
      <3> QED BY <2>3, <3>1, <3>2 DEF SweepIsWhole, WholeGrid, BestFirst
    <2> QED BY <2>1, <2>2, <2>3 DEF SweepInv
  <1> QED BY <1>1, SweepInvHolds, PTL

-----------------------------------------------------------------------------
(* Types                                                                   *)

\* What was called, with what.
Called ==
    /\ command \in {"run", "sweep", "library"}
    /\ phase \in {"parse", "usage", "panicked", "run", "library"}
    /\ typed \in RunCases \cup SweepCases \cup {Nothing}
    /\ command = "run" => typed \in RunCases
    /\ spec = Nothing \/ spec \in [streams : 0..MaxU16, rate_bps : 1..MaxU64,
                                   per_stream : 1..MaxU64 \cup {Nothing}]

LEMMA CalledHolds == CliSpec => []Called
  <1>1. CliInit => Called
    BY DEF CliInit, Called
  <1>2. Called /\ [CliNext]_mainVars => Called'
    <2> SUFFICES ASSUME Called, [CliNext]_mainVars PROVE Called'
      OBVIOUS
    <2>1. CASE StartRun
      <3> DEFINE rate == resolve_rate(parse_rate_mode(typed.rate), typed.transport)
      <3>1. /\ command = "run" /\ command' = "run" /\ phase' = "run" /\ typed' = typed
            /\ typed \in RunCases /\ Parses
        BY <2>1 DEF StartRun, Called
      <3>2. spec' = [streams |-> typed.streams, rate_bps |-> rate,
                     per_stream |-> IF typed.streams = 0 THEN Nothing
                                    ELSE per_stream_rate(rate, typed.streams)]
        BY <2>1 DEF StartRun
      <3>3. typed.streams \in 0..MaxU16 /\ rate \in 1..MaxU64
        BY <3>1, RateAsked DEF Parses
      <3> HIDE DEF rate
      <3>4. typed.streams # 0 => per_stream_rate(rate, typed.streams) \in 1..MaxU64
        BY <3>3, ShareInRange, CliConstants
      <3>5. spec' \in [streams : 0..MaxU16, rate_bps : 1..MaxU64,
                       per_stream : 1..MaxU64 \cup {Nothing}]
        BY <3>2, <3>3, <3>4
      <3> QED BY <3>1, <3>5 DEF Called
    <2>2. CASE UsageError \/ SweepPanics \/ LibraryCall
      BY <2>2 DEF UsageError, SweepPanics, LibraryCall, Called
    <2>3. CASE RunStep \/ LibraryStep \/ Over \/ UNCHANGED mainVars
      BY <2>3 DEF RunStep, LibraryStep, Over, mainVars, cliVars, Called
    <2> QED BY <2>1, <2>2, <2>3 DEF CliNext, ParseNext
  <1> QED BY <1>1, <1>2, PTL DEF CliSpec

\* Types of the whole command: what is displayed is bounded by its window, the
\* rates fit their integers, and a sweep keeps no more than its grid and its top.
THEOREM CliTypeCorrect == CliSpec => []CliTypeOK
  <1>1. TypeOK /\ Called /\ SweepInv => CliTypeOK
    <2> SUFFICES ASSUME TypeOK, Called, SweepInv PROVE CliTypeOK
      OBVIOUS
    <2>1. /\ sweep \in {"idle", "running", "ok", "failed", "panicked"}
          /\ cfg \in SweepConfigs \cup {Invalid}
      BY DEF SweepInv
    <2>2. ASSUME cfg # Invalid PROVE Len(runs) <= GridSize /\ Len(top) <= cfg.top
      <3>1. cfg \in SweepConfigs
        BY <2>2 DEF SweepInv
      <3>2. GridSize \in Nat /\ cfg.top \in Nat
        BY <3>1, ConfigParts
      <3>3. sweep # "ok" => Len(top) <= cfg.top
        BY <3>2 DEF SweepInv
      <3>4. sweep \in {"idle", "failed", "panicked"} => Len(runs) <= GridSize
        BY <3>2 DEF SweepInv
      <3> QED BY <3>3, <3>4 DEF SweepInv, InOrder
    <2> QED BY <2>1, <2>2 DEF CliTypeOK, Called
  <1> QED BY <1>1, DisplayImplemented, TypeCorrect, CalledHolds, SweepInvHolds, PTL
=============================================================================
