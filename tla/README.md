# A TLA+ model of ipfusch

ipfusch is a network benchmark: a client opens a number of measurement streams
to a server over TCP, UDP or QUIC, numbers packets, waits for their echoes and
reports what was acked, what was lost and how fast. This directory models how
its parts work together, checks the models with TLC on small instances and
proves theorems about them with TLAPS. Paths below are relative to `src/`.

## Inventory

| Part | Code | State it keeps | Operations | Talks to |
|---|---|---|---|---|
| Control handshake | `crates/ipfusch-core/src/protocol.rs`, `client.rs:315-426`, `server.rs:63-111,155-183,234-285`, `ipfusch-net/src/lib.rs:53` | none of its own | Hello, StartSession, Ack; verdict on version and token | every stream and server |
| TCP stream, client | `ipfusch-net/src/client.rs:27-145` | clock, `seq`, `next_send`, `pending`, ack channel of the reader task | send loop, reader task, drain, window wait, flush | TCP connection; engine's event channel |
| UDP stream, client | `client.rs:147-223` | clock, `seq`, `next_send`, the socket's buffer | send, wait for one datagram, report | datagrams; event channel |
| QUIC stream, client | `client.rs:225-313` | the same, and what `read_exact` has taken | write, read with timeout, `wait_idle` | QUIC stream; event channel |
| TCP server | `server.rs:40-139` | permits, the held connection, one task per client | accept, acquire, handshake, echo | connections |
| UDP server | `server.rs:141-202` | `authorized` peers | Hello, echo | one socket |
| QUIC server | `server.rs:204-312` | connections and streams | handshake, echo, end of stream | connections |
| Server front | `server.rs:20-38` | which servers run, on which ports | bind, `try_join!` | the three servers |
| Engine | `crates/ipfusch-engine/src/lib.rs:52-212,267-407` | accumulators, totals, previous totals, last tick, intervals | receive event, timer tick, end of channel, join, report | stream tasks, progress channel |
| Sweep | `ipfusch-engine/src/lib.rs:214-265,476-515` | finished runs | run, score, rank | engine |
| Options and rates | `crates/ipfusch-cli/src/main.rs:18-113,463-533`, `ipfusch-engine/src/lib.rs:63,429-474` | none | parse, resolve, divide | CLI, engine |
| CLI | `crates/ipfusch-cli/src/main.rs` | mode flags, progress bar, printer task | parsing, progress loop, taking the result, output | engine, server, TUI |
| TUI | `crates/ipfusch-tui/src/lib.rs` | paused flag, latest and last 120 intervals | key (pause, export, quit), update, draw | interval channel |
| Harness, launcher, release | `scripts/`, `.github/workflows/` | server processes, tags, assets | rounds, download, build and publish | the binaries |

What is hard, and what must hold of it:

* **TCP stream.** The send loop, the reader task and the server run
  concurrently over bounded buffers, and a packet is entered into `pending`
  only after it was written, so its echo may be there first. Every packet must
  be reported exactly once; the window must hold; both sides must not block
  each other; at the end acks race the drain deadline.
* **UDP and QUIC streams.** Stop-and-wait with a timeout that races late
  answers: what is acked must be right, and what is lost should be lost. UDP
  datagrams are lost, reordered and duplicated, and the server forgets who is
  authorized when it restarts; a QUIC read is cancelled halfway.
* **TCP server.** Permits must neither leak nor multiply however handlers end,
  and clients wait in the loop itself, in the order of their arrival.
* **Server front.** Three servers on neighbouring ports under one `try_join!`:
  which ports they really have, and what the end of one does to the others and
  to the clients in the hands of the accept loop.
* **Engine.** Streams with their own warm-up, one channel, a timer that may be
  late and a loop that ends when the last sender is gone: nothing measured may
  be missing from the report or be in it twice, and intervals must add up.
* **CLI and TUI.** Intervals are taken off a channel by a loop, a timer or
  another task while the runner may end or fail: they must be shown in order,
  and main must end, for every option that parses.
* **Rates and sweep.** A rate must survive its unit, the tuner and the division
  among streams; a ranking must have the whole grid in it or not exist.

The full list of hazards, each at its line, with the properties that cover it
or the reason none does yet, is in `PROJECT.json`.

## Modules

| Module | Models | Uses |
|---|---|---|
| `ControlPlane` | the control messages and the verdicts on them, as operators | |
| `StreamContract` | abstract: what any stream promises the engine | |
| `TcpStream` | one TCP stream, client and server | `ControlPlane`; implements `StreamContract` |
| `TcpStreamProofs` | theorems about `TcpStream` | `TcpStream`, TLAPS |
| `UdpStream` | one UDP stream, the network and a server that may restart | `ControlPlane`; implements `StreamContract` |
| `UdpStreamProofs` | theorems about `UdpStream` | `UdpStream`, TLAPS |
| `QuicStream` | one QUIC stream, client and server task | `ControlPlane`; implements `StreamContract` |
| `QuicStreamProofs` | theorems about `QuicStream` | `QuicStream`, TLAPS |
| `TcpServer` | the accept loop and its permits | |
| `Engine` | `run_benchmark` over streams that keep the contract | |
| `Frontend` | the run command: its four modes, the dashboard, the output | |
| `Server` | `run_server`: ports, binds, `try_join!`, the end of the process | extends `TcpServer`, which it implements |
| `Rates` | the parsers of rates and lists, the tuner, the division, as operators | |
| `Sweep` | `run_sweep`: the grid, its failures, scores and ranking | extends `Rates` |
| `Cli` | the program from its command line to its end | extends `Frontend`, which it implements, and `Sweep` |
| `TcpServerProofs`, `ServerProofs`, `EngineProofs`, `FrontendProofs`, `CliProofs` | theorems about these modules | the module, TLAPS |
| `MC*` | the instances TLC checks, one `.cfg` per run | |

### How state and actions correspond to the code

**Control plane.** A token's SHA-256 is a tagged copy of the token, so equal
digests mean equal tokens. `token_matches`, `validate_ack` and `Accepts` are the
functions of the code; the UDP server, which has no StartSession, uses the first
on its own.

**StreamContract.** `sent` packets, the `outcome` reported of each, and the
task's result. An ack is reported in sending order, a report is final, and a
stream ends well only with nothing open. The three streams map `outcome` from
the `PacketEvent`s they sent.

**TcpStream.** `pc` names the await points of `run_stream_tcp`; between two of
them any other task may run and the clock may tick. `pending`, `nextSend`,
`seq` are the function's locals, `ackCh` the unbounded channel of the reader
task, `c2s` and `s2c` the two directions of the connection, a frame being one
element and the kernel's buffers bounding their length (`PipeCap`, `EchoCap`).
A frame that does not fit blocks its writer whole: that a kernel takes part of a
frame makes no difference to who waits for whom. `Reset` is a broken connection;
it may discard what is in flight, because `ReaderStops` may come before the
echoes that have arrived. The measured time of a packet, its latency and its
payload are left out. The millisecond waits of the loop (2 ms for an answer when
the window is full) are steps without a tick.

**UdpStream.** In-flight datagrams are sets, so any may be lost or overtake
another; `copies` counts those the network has duplicated. The client's socket
buffer `rx` is a FIFO: `recv` prefers a datagram that has arrived to an expired
timeout, as `tokio::time::timeout` polls its future first. An accepting Ack is
26 bytes, shorter than a header, so as an answer to a packet it counts as a loss.
`SrvDies` and `SrvStarts` are the end of `run_udp_server` on a socket error, or
of its process, and the next start; a datagram that meets no server may come
back as an error on the client's connected socket.

**QuicStream.** The echo of a header is two halves, because a byte stream keeps
no message boundaries and the timeout drops `read_exact` with the bytes it has
taken. Two halves out of step fail in `DataHeader::decode`, whose magic stands
in the first. An error drops the connection's handles, which closes it; after a
good run nobody does, and `wait_idle` returns with the idle timeout.

**TcpServer.** `held` is the connection that was accepted and waits for a
permit. `arrived` is a history of arrivals. What a handler does is `TcpStream`;
here it ends after its client has left. `Cut` is the end of the loop, by its own
error (`AcceptFails`) or with the process (`Killed`): no client is left waiting.

**Server.** `task` says of each server whether it was asked for, is bound, runs
or has ended, `at` which port it has. `try_join!` polls its futures in turn and a
bind ends in one poll, so the servers start in the order of the code, while the
accept loop may already serve clients (`Turn`, `Bind`). UDP and QUIC share one
port space, TCP has its own (`Taken`). `Stop` is the return of `run_server` and
with it of main: every future and every spawned handler is dropped. A QUIC
endpoint that is lost makes `endpoint.accept()` return `None`, which is no error
(`QuicEnds`): the other two go on. What the UDP and the QUIC server do with
their clients is `UdpStream` and `QuicStream`.

**Engine.** Streams are what `StreamContract` says, each with a warm-up that
starts when it is connected; `marks[i]` keeps the `measured` flag of each
packet of stream `i` and `open[i]` those not yet reported. `chan` is the event
channel, closed when it is empty and every stream has ended. `acc` has an entry
for each stream that had a measured event, as the `BTreeMap` has. A sum in a
property is the number of what it counts (`Counting`). `Rearm` is
`MissedTickBehavior::Skip`. Bytes are packets times a constant; latencies,
jitter and the histogram are left out.

**Frontend.** The runner is `Engine` seen through the interval channel: it sends
numbered intervals, ends, and by ending closes the channel. `flags` are the
options, `Mode` the branch of `main` they choose; `ui` is where main is: showing,
waiting for the runner (`await`, after the dashboard), writing the `output`, or
`exited`. The dashboard's select is `KeyPause`, `KeyQuit`, `DashTick`, `DashRecv`
and `DashClosed`; the progress loop's is `HumanRecv` and `HumanResult`, its timer
only draws. `shown` is the history of what was displayed or printed, `recent` the
dashboard's `VecDeque`, `snapshot` what the export key last wrote, `out` the
standard output by kind of line.

**Rates.** A text is `auto`, digits with one of the units, or something that is
no number; `parse_rate_mode` and the list parsers say which of them is refused.
The width of the integers and the thousand are constants: `checked_mul` is
compared with the true product. `per_stream_rate` is the division of
`run_benchmark`, which panics for no stream at all.

**Sweep.** One action per step of the two nested loops, in their order; a
benchmark ends in one of some `Outcomes`, fails, or panics, and with it go the
reports made before (`EndsWithout`). Scores are exact fractions instead of
floats, and `point`, the pair's place in the grid, is a history that shows the
sort to be stable. Sorting is by place: a report's place in the ranking is one
more than the number of reports ahead of it (`Place`), a quantile the least value
with so many up to it (`AtRank`); `NearestRank` rounds the rank as the code does.

**Cli.** `phase` is where main is. Clap's checks are `Parses`; its values are
what the parsers return, and the sweep command asks for another type
(`SweepPanics`). `RunStep` is a step of `Frontend`, whose runner cannot end well
or send an interval when it panics on `--streams 0` or `--interval 0s`.
`run_sweep` is called as the library function it is (`LibraryCall`), with any
configuration its types allow, zero streams included, as the command never gets
there.

## Runs

Every property a run checks has a mutant in `PROJECT.json`: a change to the
model a plausible bug would make, for which TLC finds that property violated.

| Run | What it asks | Bounds |
|---|---|---|
| `tcp_paced` | types, the window, warm-up and pacing, no early loss, no packet without authorization, and that the stream implements the contract | 3 packets, a window of 2, buffers of one frame, one tick each of warm-up, run and drain; two tokens or none on either side |
| `tcp_flood` | every packet accounted for, order of answers, nothing dropped, the stream and the server's task end | 5 packets, a window of 4, buffers of one frame, so that both directions fill before the window does |
| `udp_lossy` | right acks, a genuine first loss, authorization across restarts, the contract, termination | 3 packets, 2 ticks of run, a timeout of one, a buffer of 2 datagrams, one duplicate |
| `udp_stale` | (violated) is every reported loss one? | 3 packets, no duplicates |
| `quic_torn` | right acks, one loss is the last ack's end, the contract, termination | 4 packets without pacing, echoes in two pieces |
| `server_permits` | over the whole server: permits conserved, first come first served, every waiting client served; the announced ports, and no half of a server | 4 clients, 2 permits, a backlog of 2; every `--transport`, port 0 and the last three ports |
| `server_idle` | (violated) does an idle client lose its place? | 4 clients, 2 permits, a backlog of 2 |
| `engine_report` | the aggregate, the intervals and the report are what the streams measured; the run ends | 2 streams, 2 packets, 3 ticks, an interval of one |
| `engine_silent` | (violated) has a report a row for each stream? | the same with 2 ticks |
| `frontend_modes` | over the whole command: intervals in order, `--jsonl` complete, the dashboard's memory bounded, rates honoured, main ends; over `run_sweep`: a whole grid, ranked, or nothing | every combination of the three flags, 5 intervals, a dashboard that keeps 2; rates of three bits, units of two, up to 3 streams; grids up to three by two, four outcomes |
| `sweep_cli` | (violated) does the sweep command run? | the same |
| `frontend_jsonl` | (violated) is what `--jsonl` writes JSON? | 2 intervals |

The bounds suffice for the cases that matter: a full window (`tcp_paced`), full
buffers on both sides with room in the window (`tcp_flood`, the other case: a
window no wider than the buffers is full first), an answer that is late by one packet and by two, a packet of the warm-up
next to a measured one, a loss between acks, ticks that are late and skipped,
two clients waiting behind two served ones, a port that saturates and one that
does not, a product that overflows by one bit and by many, more streams than bits
a second, scores that are equal and stay in order. `MaxSeq` (`MaxPackets`) stands for a
client that gets no further before the end of the run; `Horizon` stops the clock
after every deadline of the run, and steps may still come later than any of them.
A tick may happen between any two steps, so timers fire late, never early.

### What the violated runs say

* `udp_stale`: after one echo that misses its timeout, `run_stream_udp` takes
  each echo for the answer to the next packet and reports losses on a network
  that lost nothing, which the report then reads as saturation. In a QUIC
  stream this never ends: `LossIsForever` holds in `quic_torn`.
* `engine_silent`: the integration test expects a row per stream; a stream
  without a measured packet has none.
* `frontend_jsonl`: after the JSON lines of `--jsonl` comes the report as text, on
  the same output.
* `sweep_cli`: the value parsers of `--streams` and `--rates` return a whole list,
  and clap's derive looks in a `Vec` field for single values: `ipfusch sweep`
  panics on every command line it accepts, the default one included. What
  `run_sweep` and its ranking do holds for who calls the library.
* `server_idle`: `--idle-timeout` is parsed and passed on, and read by nobody.

### Fairness

* `TcpStream`: tasks on the runtime are scheduled (client, reader, server), the
  clock runs. Nothing is assumed of a reset. The server's fairness stands for
  TCP delivering on an open connection and for a free permit; the client has no
  deadline on its handshake and no deadline on a write, so without it neither
  ends.
* `UdpStream`: the client and the clock only; its timeouts end every wait.
* `QuicStream`: the client, the clock and quinn's idle timeout, without which a
  good stream would never end: the connection is still held while `wait_idle`
  waits for it to go.
* `TcpServer`: the loop and the handlers are scheduled; for `EventuallyServed`
  the clients leave in the end (`TcpStream`'s `Termination`), for
  `IdleClientDropped` they need not.
* `Server`: the same, while the process runs; the servers are started in turn. No
  failure has to happen.
* `Engine`: the loop, the clock and the stream tasks. The loop's branches are
  chosen at random; as each tick moves the timer beyond `now`, no fairness
  between the branches is needed.
* `Frontend`: the runner ends, which is `Engine`'s `Termination`, and main's task
  is scheduled. Nobody needs to press a key, and the terminal may fail.
* `Cli`: the same, and the steps of main before and of a sweep, whose benchmarks
  end.

## Proofs

Proved for every value of the constants, that is for every window, buffer size,
timing, token, number of packets, streams, clients, permits, ports, intervals,
and width of the integers:

| Module | Theorem | Says |
|---|---|---|
| `TcpStreamProofs` | `TypeCorrect` | `Spec => []TypeOK` |
| | `AccountingCorrect` | `Spec => []Accounting` |
| | `WindowCorrect` | `Spec => []WindowBound` |
| | `LostOnlyAfterDrainCorrect` | `Spec => []LostOnlyAfterDrain` |
| | `AuthorizedCorrect` | `Spec => []DataOnlyIfAuthorized` |
| | `AnswersInOrderCorrect` | `Spec => []AnswersInOrder` |
| | `PacingCorrect` | `Spec => []PacingSchedule` |
| | `WarmupCorrect` | `Spec => []WarmupIsPrefix` |
| | `NothingDroppedCorrect` | `Spec => []NothingDropped` |
| | `ContractImplemented` | `Spec => ImplementsContract` |
| `UdpStreamProofs` | `TypeCorrect` | `Spec => []TypeOK` |
| | `EchoOnlyIfAuthorizedCorrect` | `Spec => []EchoOnlyIfAuthorized` |
| | `ContractImplemented` | `Spec => ImplementsContract` |
| | `AckedIsGoneCorrect` | `Spec => []AckedIsGone` |
| | `FirstLossIsGenuineCorrect` | `Spec => FirstLossIsGenuine` |
| `QuicStreamProofs` | `TypeCorrect` | `Spec => []TypeOK` |
| | `AuthorizedCorrect` | `Spec => [](seq > 0 => Authorized)` |
| | `ContractImplemented` | `Spec => ImplementsContract` |
| | `AcksInStepCorrect` | `Spec => []AcksInStep` |
| `TcpServerProofs` | `TypeCorrect` | `Spec => []TypeOK` |
| | `PermitsConservedCorrect` | `Spec => []PermitsConserved` |
| | `FirstComeFirstServedCorrect` | `Spec => []FirstComeFirstServed` |
| `ServerProofs` | `AcceptLoopImplemented` | `ServerSpec => Spec`, of `TcpServer` |
| | `ServerTypeCorrect` | `ServerSpec => []ServerTypeOK` |
| | `ServerPermitsConserved` | `ServerSpec => []PermitsConserved` |
| | `ServerFirstComeFirstServed` | `ServerSpec => []FirstComeFirstServed` |
| | `AnnouncedPortsCorrect` | `ServerSpec => []AnnouncedPorts` |
| | `NoHalfServerCorrect` | `ServerSpec => []NoHalfServer` |
| `EngineProofs` | `TypeCorrect` | `Spec => []TypeOK` |
| | `IntervalsContiguousCorrect` | `Spec => []IntervalsContiguous` |
| | `NeverReorderedCorrect` | `Spec => []NeverReordered` |
| | `CountedExactlyCorrect` | `Spec => []CountedExactly` |
| | `ReportIsCompleteCorrect` | `Spec => []ReportIsComplete` |
| | `CountsAddUpCorrect` | `Spec => []CountsAddUp` |
| `FrontendProofs` | `TypeCorrect` | `Spec => []TypeOK` |
| | `ShownInOrderCorrect` | `Spec => []ShownInOrder` |
| | `JsonlCompleteCorrect` | `Spec => []JsonlComplete` |
| `CliProofs` | `DisplayImplemented` | `CliSpec => Spec`, of `Frontend` |
| | `RunShowsInOrder` | `CliSpec => []ShownInOrder` |
| | `RunJsonlComplete` | `CliSpec => []JsonlComplete` |
| | `RateHonouredCorrect` | `CliSpec => []RateHonoured` |
| | `CliTypeCorrect` | `CliSpec => []CliTypeOK` |
| | `SweepIsWholeCorrect` | `CliSpec => []SweepIsWhole` |

The assumptions are those the modules name (`ControlAssumption`, `TcpAssumption`,
`UdpAssumption`, `QuicAssumption`, `ServerAssumption`, `PortAssumption`,
`EngineAssumption`, `FrontendAssumption`, `RatesAssumption`, `SweepAssumption`,
`CliAssumption`): numbers are natural,
option texts are of the kinds `RunTypes` lists, a sweep's configurations and
measurements of those `ConfigTypes` and `OutcomeTypes` list, the window's clamp is not empty,
the interval's period is not zero, there are finitely many clients, digests of
different tokens differ, and the values that stand for nothing are not values.

**TCP stream.** None of these invariants but the types is inductive alone. The
accounting needs to know where a packet in hand is (`pc`), the order of the
answers needs the whole line from the client through the server and back in one
invariant, because each queue's order rests on the next one's; that in turn
needs the handshake's frames to be gone before the first packet is sent, and the
authorization needs to know what the Hello in the buffer says. Those conjuncts
make up the inductive invariant. The lemma `StepKinds` sorts the steps of `Next`
by what they do to the packets (nothing, number one, write it, enter it, settle
an ack, give one up, end) and each invariant is shown preserved kind by kind;
the contract follows, as a kind is a step of `StreamContract` or a stutter.
`PacingSchedule` bounds the schedule by the packets; what is inductive is that it
is their number times the delay, and that the last slot has begun (`PaceInv`).
`WarmupIsPrefix` holds because nothing is entered as measured before the end of
the warm-up (`WarmupInv`): a report passes a mark on and makes none. For
`NothingDropped` each step is shown to take an answer out of the line only with
its packet; that needs the order of the line, as a reader that skips an echo
would leave a packet behind.

**UDP stream.** The client reports in order, one packet at a time (`Book`), which
is all the contract needs of it: no step of the network or the server touches the
client's state. The authorization needs to know what every Hello and every
acknowledgement under way says of the tokens (`AuthInv`). `AckedIsGone` and
`FirstLossIsGenuine` rest on one invariant, `OnceInv`: with the handshake counted
as exchange 0, at most one datagram of every exchange is under way as long as
nothing was duplicated, and none of an exchange that was acked, nor of the
handshake once the loop runs. An answer that is lost, delivered or read, and a
request that is served, preserve it exchange by exchange (`Fewer`, `Delivered`,
`Served`).

**QUIC stream.** The contract needs what it needs of UDP: reports in order, one
packet at a time (`Book`). That acks are in step is a statement about the line
from the client through the server and back, in halves of echoes (`LineInv`): there
are a `p`, the halves the client has read and reported, and an `e`, the echoes the
server has completed, such that the halves in its hands and in the stream follow
`p` without a gap up to what the server has echoed, and the frames to the server
follow `e`. As long as every packet was acked `p` is twice their number; after the
first loss it is less and stays less, since a read takes two halves at most and
every read belongs to a new packet. That is why no later packet can be acked.

**TCP server.** Permits are conserved only if a client's state says where it is
(`Places`): a client held twice would take two permits. The
order is proved position by position (`EndsWith`); `SuffixByPosition` carries it
over to the community module's `IsSuffix`.

**Server.** Each step of the whole server is one of the accept loop or leaves it
alone, so its theorems carry over (`AcceptLoopImplemented`); that needs to know
that the loop is up as long as the process runs (`Tasks`). The ports are right
although their sums saturate: at the end of the range UDP and QUIC would have
the same port, so QUIC, which is bound last, is not bound at all (`BoundPlaces`).

**Engine.** Intervals are contiguous because the timer is always armed beyond the
last cut and the last interval ends at it (`TicksInv`), so a cut after the first
is never empty. Acks are in order because on their whole way, from the last one
reported through the channel to the last one counted, they are (`AckOrder`).
`CountedExactly` is inductive as it stands, given the types: a packet is numbered
open, moves to the channel with its report and to the count with `Recv`, and
`QueuedAfterHead` shows by a bijection that renumbering the queue loses none. For
the report, `EndInv` adds that nothing can be sent after the loop has ended.
That the books agree is shown of one book that grows in one place (`BookGrows`),
by one for an event and by the difference for a cut; the difference is exact
because the previous totals are never above the totals (`BooksInv`), so the
saturating subtraction of `build_interval` never saturates.

**Frontend.** The channel holds the latest intervals, everything shown is older,
and until a pause nothing is missing between the two (`Line`, `Whole`). Its list
is the end of what was displayed because dropping the first of a list that is too
long leaves an end of it (`KeepsEnd`).

**Cli.** The program implements `Frontend` step by step. That the rate is honoured
follows from what a started run was started with (`RunStarted`) and two lemmas
about operators: what the parser returns (`ParsedRate`) and what the division
leaves (`SharesOfRate`).

**Sweep.** While it runs, the reports are those of the first places of the grid, in
order (`InOrder`, in `SweepInv`); division and remainder take the places to the
pairs and back (`GridIndex`, `GridInverse`). The ranking rests on one lemma,
`Places`: in a strict total order of 1 to n the number of those before it gives
each element a place of its own and leaves no place over, by the pigeonhole
principle and not by induction. It shows both that a rank of a quantile is always
attained (`RankAttained`) and that `Ranked` has every report once (`RankedIsSorted`).
That `Ahead` is such an order needs that scores are fractions with positive
denominators (`ScoreType`) and that comparing them by cross products is transitive
(`GreaterTransitive`).

Every safety property of the passing runs is proved. Only model-checked is what
must happen eventually: `Termination` of the streams and of the engine,
`ServerReleases`, `EventuallyServed` and `MainEnds`. They rest on fairness, and the
provers decide neither that nor when an action is enabled. What the runs refute is
of course proved of nothing.

## Plan

1. That the streams `Engine` assumes are those of `StreamContract`.
2. The lists `Rates` parses, of which the proofs use single rates only.

## Not modelled

* What the sweep command does with a result (`emit_sweep`, `--output`): it is
  never reached.
* The completion and report commands, which write a generated text or print a
  file; the wording of reports; what the dashboard and the progress bar draw;
  the state of the terminal after an error of the dashboard.
* Jitter and the latency histogram: sums and counts over the latencies the
  model leaves out, which decide nothing. Durations and addresses as texts
  (`humantime`, `SocketAddr`).
* The byte layout of headers and messages, TLS and certificates, UDP fragments
  and the kernel's partial writes: below the model's frames and datagrams.
* The criterion benchmark, the comparison script, the launcher and the release
  workflow: sequential programs around the binary, of processes and downloads.
