# Verification of the Protocol Lab components

The repository packages *executors* (programs that check a server and generate
load against it), *implementations* (the servers), *scenarios* (manifests) and
the scripts that build and release them. What the repository is trusted for is
its evidence: an exit code, a `result.json`, a number of completed operations, a
maximum concurrency. The specifications here say what such evidence means and
check that the concurrent, timed and failing programs that produce it deliver it.

`PROJECT.json` is the machine-readable side of this file: components, runs,
the map from definitions to source lines, mutants, findings, hazards, theorems.

## 1. Inventory

| Part | Source | State and operations | What makes it correct | Status |
|---|---|---|---|---|
| HTTP/2 load engine | `executors/go-http2-executor/source/load.go` | slot channels, scan cursor, `notify`; worker goroutines, start barrier, recorder, sampler | one owner per slot, no lost wake-up, per-connection cap, barrier proves the requested shape, return only when quiet | modelled, **proved** |
| HTTP/2 executor process | same, `main.go` | output directory, stages, exit code | an envelope is earned; exit 0 means complete evidence; artifacts keep their order over crashes | modelled, **proved** |
| HTTP/1 load executor | `executors/go-http1-executor` | two checks, two runs of the external `oha`, its report, files | a result file and exit 0 are earned | modelled, **proved** |
| HTTP/2 WebSocket, multiplexed | `executors/go-http2-websocket-executor` | reader, bounded channels, workers, peak counter | passed means one response per message; ends; errors not masked | modelled, **proved** |
| HTTP/2 WebSocket, single stream | same | stages of an operation, phases | exit 0 is earned; ends unless the peer falls silent | modelled, **proved** |
| HTTP/1 WebSocket pairs | `go-http1-websocket*`, cleartext and TLS, executors and servers | handshake, frames, close, three deadlines | one right frame per frame, clean close, reuse within the server's deadline, ends | modelled, **proved** |
| gRPC pair | `go-grpc-h2-executor`, `go-grpc-h2` | channel, messages both ways, deadline, cancellation | outcome is the one the peer gave, no scenario blocks, ends | modelled, **proved** |
| Raw QUIC load | `executors/quic-go-raw-load` | batches of goroutines, statistics, phases | nothing lost or counted twice, warm-up never reported, process ends | partly (option parsing and metric arithmetic left out), **proved** |
| Raw QUIC stream + `quic-go-raw` server | both `main.go` | two flow-controlled byte streams | success is byte-exact, supported scenarios never block | partly (accept loops left out), **proved** |
| Classic DNS executors + authority | `executors/dns-classic-fixture`, `implementations/go-dns-classic-authority` | UDP socket, TCP connection, message IDs, three phases | own responses only, retries counted, result earned, ends | partly (from the preflight on), **proved** |
| DoT, DoQ, DoH2, DoH3 | `go-dns-dot/doq/doh2/doh3*`, executors and targets | one connection per phase, IDs or streams, resolver flush | own answers only, cold answers only, result earned, ends | modelled, **proved** |
| TLS 1.3 pair | `go-tls13-executor` and target | single-use ticket cache, resumption, record transfers, record parser | ticket used once, records counted exactly, pass earned | modelled, **proved** but for the record parser |
| TLS 1.2, mutual TLS, ChaCha20 pairs | `go-tls12-*`, `go-tls13-mtls-*`, `go-utls-*` | one handshake per operation, server's judgement of the client | pass earned, ends | modelled, **proved** |
| TLS key update, TLS early data | OpenSSL C, rustls | - | - | not modelled |
| WebTransport, MASQUE | `go-webtransport-*`, `go-masque-*` | - | - | not modelled |
| RFC 9220 client, h3spec, curl, xquic wrappers | `executors/aioquic-rfc9220-websocket`, ... | - | - | not modelled |
| Other raw QUIC servers, other WebSocket/gRPC/TLS servers, stateless HTTP servers, third-party packages | `implementations/*` | - | - | not modelled |
| Release selection, build scripts, manifests | `scripts/package/`, `release/`, `scenarios/` | - | - | not modelled |

Section 5 gives the reasons. Executors and servers interact only over the
network. An executor model leaves the peer free: it may answer wrongly, late,
twice or never. Where the repository packages a server for the executor the
model has that server's code as well, and asks the further question whether the
pair agrees (`PackagedPairPasses`, `PackagedGrpcPasses`, `PackagedDnsPasses`,
`PackagedTlsPasses`, `StreamReturns`, `ClassicResultIsEarned`). `H2Executor`
takes from `H2LoadPhase` what a phase can return.

## 2. Modules and code

Mutated operators stand just before the operator they distort; `PROJECT.json`
pairs them with the property they must break.

### The HTTP/2 load engine

`ConnectionScheduler` is `connectionScheduler`: `slots[c]` is the number of
tokens in the channel of connection `c`, `next` and `offset` the cursor,
`notify` the one-place wake-up channel, `call[w]` where a goroutine stands in
`acquire` or `release`. The mutex is held exactly while a scan runs. The scan is
one step per channel, because `release` takes its token outside the mutex and
can fall between any two of them.

`H2LoadPhase` EXTENDS it with `runLoadPhase`: dialling, the sampler goroutine,
the workers, the start barrier (`ready`, `released`), the recorder and the
return. A worker's acquire and release are the scheduler's actions; every other
variable of the phase changes beside them. The peer sends SETTINGS at any time.

`GatedPhase` is what a phase promises: no operation ends before all workers had
one in flight, the phase finishes only when nothing is, a phase that cannot dial
aborts with nothing started. `H2LoadPhase` implements it by the mapping in
`ImplementsGatedPhase`.

### Executors over HTTP

`H2Executor` is the process around the phases (`main`, `runCheck`,
`summarizeChecks`, `runH2CLoad`, `writeExecutorResult`). `disk` is the output
directory, which outlives the process; a write truncates first and may stop half
way; the process may be killed at any step and started again.

`Http1Executor` is `go-http1-executor`: `checked` holds the two checks, `report`
what `oha` (external) printed, whole or cut short, with or without the counts that
`parseOhaJSON` asks for (`listed`), `files` what this run has written. Every write
may fail; `oha` may end, fail, or be stopped by the executor's deadline, in the
warm-up and in the measured run.

`GrpcChannel` is `go-grpc-h2-executor` with `go-grpc-h2`: the twelve scenarios of
`specFor`, as calls over a channel. `up` and `down` are the two directions, each
at most `Window` messages ahead; the transport writes the request while the
executor reads the answer. In the deadline scenario time counts, in steps of
10 ms: the context's 50 ms start when the call is made, the executor looks at the
clock only then (`started`, later by one of `Pauses`), and `latency`, one of
`Times`, is what it measures against its limits; the target holds its answer for
250 ms.

### Raw QUIC

`RawQuicStream` composes the client's `runRequestResponseStream` and
`runDuplexStream` with the server's `handleStream`. Bytes are offsets modulo
`Modulus` (251 in the code), sizes are ranks, the transport cuts reads anywhere
and lets a writer run `Credit` ahead. `RawQuicLoad` is the process: four load
modes, the goroutines of a batch, local statistics and their merging.

### WebSocket

`H2WebSocketSession` is the multi-message diagnostic: `openH2Session`, the reader
goroutine with its bounded channels, `openWebSocket`, one worker per stream, the
compare-and-swap peak, the closers. A WebSocket frame is two units, so DATA frames
can cut it. The peer may send on any stream at any time, before its response HEADERS
and before the stream is opened too: `dispatch` drops what comes for a stream that
is not `registered`, and `readMultiplexedResponseHeaders` drops data ahead of the
HEADERS (`answered` is the history of whose HEADERS the peer has sent).
`H2WebSocketOperation` is the single-stream scenarios: `main`'s checks of the
request with their exit codes (`CheckRequest`), each stage of `runOperation`,
`runFor`, and `main`'s gate. The session's `main` passes the same checks.

`Http1WebSocket` is both HTTP/1 executors with both packaged servers: gate,
preflight, the phases with one connection per operation and with one connection
reused, the closing handshake up to the end of the transport. `opLeft`,
`phaseLeft` and `serverLeft` are the three deadlines, in ticks of 2.5 s.

### DNS

`ClassicDns` composes `Run`, `runPhase`, `exchangeUDP` and `exchangeTCP` with
the authority's `serveUDP` and `handleTCP` over a network that loses,
duplicates, delays and reorders datagrams. `Modulus` is 2^16 in the code. The
server's 30 s deadline is left out: a phase opens a new connection and lasts at
most about 10 s.

`SecureDns` is the four encrypted executors and their targets. `lane` says which
executor, scenario and peer; `link`, `dials` and `fresh` are the connection,
`messageId` the DoT identifier (the others send 0 and have a stream per query),
`toTarget` and `toExecutor` the messages under way, `cold` whether the resolver's
cache has been flushed since the last answer. An HTTP transport dials again by
itself when its connection is gone. The one of DoH2 also repeats a request by itself
(`TransportResends`): on a new connection after the server closed the old one, on
the same one after a refused stream, and httptrace then reports the last connection
it got (`settled` is the number of connections at the first accepted answer,
`masked` says that a repeat hid a later one). A repeat inside quic-go has the effect
of the redial in `WriteQuery`. A foreign DoT peer may answer late, twice, or ahead
of the query with its next ID (`turn` numbers the queries of a connection).

### TLS

`TlsSession` is the four Go executors and their targets: `round` numbers the
connections of one operation (source and resumed, or the record cases), `cache` is
`singleUseSessionCache`, `hello` the server's flight, `verdict` what the server
makes of the client's certificate. In TLS 1.3 the client is done before the server
has judged its last flight, so that judgement is a step of its own; the ticket of a
server that asks for no client certificate comes with its first flight. `task.total`
is the number of operations asked for, negative included. `TlsRecords` is the record
observer: `feed` as a recursive function over bytes that arrive in pieces of any
size, compared with the records as sent.

### Unions for model checking

`MCExecutors`, `MCWebSocketOperations` and `MCNamesAndTls` each put several programs
side by side. The programs share no state: a behaviour of the union is a behaviour
of one of them, with the others in a state where they have stopped (arguments
refused, dial failed). A property of one program holds in the union exactly if it
holds of that program and of that stopped state. `MCConnectionScheduler`,
`MCH2LoadPhase` and `MCH2WebSocketSession` only name the model values of their
instances.

## 3. Runs

| Run | Checks | Distinct states | Bounds |
|---|---|---|---|
| `scheduler` | one owner per token (`SlotsMatchHolders`), no lost wake-up (`WaiterHasWaker`), `AcquireReturns` | 49 136 | 3 workers on 2 slots: one worker always too many, so acquires sleep and wake-ups are dropped; 2 calls each |
| `phase` | recorder, barrier, no sleeping acquire, quiescence, verdict, refinement of `GatedPhase`; a phase hangs only if a worker left before its first operation | 416 718 | 2 connections of 1 stream, 2 workers, 2 operations each, peer limits 0 and 1 |
| `executors` | what a file, an exit code or a count is worth: `ExecutorResultIsEarned`, `EvidenceIsOrdered`, `Http1ResultIsEarned`, `GrpcPassIsEarned`, `PackagedGrpcPasses`, `OutcomeIsExact`, `BatchAddsUp`, `LoadResultIsMeasured`; the gRPC executor, the raw QUIC stream and load end | 302 028 | 2 scenarios and 2 runs over one directory; 1 request of each kind in `oha`'s report; 3 gRPC messages with flow control of 1, 3 channels, a pause of 10 or 20 ms before the clock is read, latencies around 50 and 250 ms; modulus 3, buffer 2, credit 2, up to 6 symbols; 2 connections, 2 streams, 2 batches |
| `ws_groups` | `PassedIsOneToOne` | 1 401 356 | 1 stream, groups of 2 messages, all phases, 3 faults |
| `ws_session` | `SessionReportIsTrue` (types, no masked failure, exact peak), `SessionEnds`, `EchoPeerPasses` | 204 351 | 2 streams, channels of 1, 1 fault anywhere, preflight |
| `ws_operations` | `OperationResultIsEarned`, `AcceptedIsOneToOne`, `PackagedPairPasses`, `EndsUnlessSilent`, `WebSocketExecutorEnds` | 967 596 | 3 operations per phase; 2 rounds, 2 frames under way |
| `names_and_tls` | `ExchangesAreOwn`, `ClassicResultIsEarned`, `SecureResultIsEarned`, `PackagedDnsPasses`, `TlsPassIsEarned`, `PackagedTlsPasses`, `RecordsAreCounted`, and that the three kinds of executor end | 707 029 | 8 classic IDs with 9 exchanges, datagrams up to 3 exchanges late, 2 faults; 4 DoT IDs with 4 queries, 2 answers waiting, 1 repeat by the DoH2 transport; up to 2 TLS operations or a negative count, 4 record cases; 3 records of length 0 to 3 under a limit of 2 |
| `phase_in_flight` | **violated**: an accepted phase had its operations in flight together | - | 1 connection of 2 streams, 1 operation each |
| `ws_operation_timeout` | **violated**: an operation times out | - | 1 operation |
| `grpc_cancellation` | **violated**: a cancelled call was cancelled by the client | - | as `executors` |
| `tls_mutual_auth` | **violated**: mutual authentication is mutual | - | as `names_and_tls` |
| `doh3_reuse` | **violated**: a passed DoH3 result used one connection | - | as `names_and_tls` |

A property named "earned" relates the exit code or result of a program to a
history of what its peer really sent, over all its phases and not only the last
step before the exit. The type invariant of a module, where it has one, is a
conjunct of one of its properties.

### Bounds

Every bound is a named constant in a guard or of an initial state: `MaxCalls`,
`MaxRuns`, `MaxBatches`, `MaxGroups`, `MaxFaults`, `MaxOps`, `MaxRounds`,
`MaxQueued`, `MaxExchanges`, `MaxQueries`, `MaxAnswers`, `MaxResends`, `MaxRecords`,
`StreamMessages`, `ChannelOps`, `Cases`, `Requests`, `MaxLength`, `Pauses`, `Times`.
They are chosen so that the case that is hard happens:

- a worker more than slots, so that acquires wait (`scheduler`); a worker per
  slot, the shape that the engine requires, in `phase`;
- a buffer that is not a multiple of the payload's period, a payload larger than
  flow control lets under way, a request longer than the server's read limit;
- a group of two messages with three faults: a duplicate in one group meets the
  next group, and a loss can hide it again;
- more exchanges than message IDs, so that IDs come round;
- one repeated DoH2 request: enough to pass, and to be refused, over two connections;
- latencies on both sides of each limit of the deadline scenario and of the target's
  hold, with a pause that the lower limit forgives (10 ms) and one that it does not;
- two TLS operations, so that a ticket left over from one could be used by the
  next; more rounds than one on a reused WebSocket connection;
- record lengths at, above and below the parser's limit, and headers cut in two.

Some constants stand for a limit of the real world rather than of the model:
`MaxAge` (no datagram is delayed by half a cycle of message IDs, 32 767
exchanges), `Window` and `Credit` (flow control), `Capacity` (the channel's size
in the code), `IdSpace` (more IDs than answers wait on one connection).

Deadlock checking is off in every configuration because every one of these
programs ends: processes exit, phases return. That they do end is a property of
its own (`AcquireReturns`, `PhaseReturnsOrWorkerMissed`, `SessionEnds`,
`EndsUnlessSilent`, `WebSocketExecutorEnds`, `GrpcExecutorEnds`,
`StreamReturns`, `LoadEnds`, `ExecutorEnds`, `SecureDnsEnds`,
`TlsExecutorEnds`).

### Fairness

- Goroutines that can run do run (Go's scheduler): weak fairness, per goroutine
  where one of them could otherwise starve another, and only on all of them
  together where they have finitely much to do (a batch of `RawQuicLoad`, the
  phases of `H2WebSocketSession`), which assumes less.
- `sync.Mutex` hands over to a starving waiter and a channel serves its blocked
  receivers in turn: strong fairness on `Lock` and `Woken`.
- Time passes: weak fairness on the expiry of those deadlines that the code sets
  (`Expire`, `Tick`, `Clock`, `TlsTimeout`; in `SecureDns` the timers are steps
  of the executor), which is what ends dials, requests and phases.
- A packaged server runs: weak fairness on `Handle`, `TargetAnswers`,
  `TargetStep`, the authority's `ServerStep`, and the raw QUIC transport and
  server (`Progress`). A call timeout is assumed only against a foreign gRPC
  peer: the packaged pair must end without it. `Http1WebSocket` assumes nothing
  even of its packaged servers.
- Nothing is assumed of any other peer, except in `EchoPeerPasses`, which is
  about a peer that answers. The wait for SETTINGS in `openH2Session` has no
  deadline, so `SessionEnds` starts behind it; a record transfer of the TLS
  executor has none either, so `TlsExecutorEnds` excepts it for a foreign peer
  (`Stalled`), as it does a phase with a negative number of operations (`Endless`),
  which has no end whatever the peer does.

### Findings

Five runs show a disagreement between the code and its documents (quotations in
`PROJECT.json`):

1. `phase_in_flight`: the recorder counts an operation as active before it
   waits at the barrier, so the proven "in-flight" shape includes requests that
   were not sent; they need never execute together.
2. `ws_operation_timeout`: the operation timeout is passed to the dial only.
3. `grpc_cancellation`: the executor asks its own context, which it has just
   cancelled, whether the call was cancelled; a call the peer had ended passes.
4. `tls_mutual_auth`: the executor reports a verified client certificate without
   waiting for the server's judgement, which in TLS 1.3 comes later.
5. `doh3_reuse`: reuse is read off the dial count from before the request, so a
   request that dialled again counts as reused.

Further observations, without a run:

- The WebSocket diagnostic counts a worker as active before its first message
  and until it has handed over its result, so the reported concurrency is an
  upper bound (`executors/go-http2-websocket-executor/README.md:15-19`).
- `validateSelection` of the gRPC executor accepts the profile
  `grpc-h2-channel-churn` with ordinary scenarios
  (`scenarios/grpc-h2-performance/load-profiles/grpc-h2-channel-churn.yaml:7`).
- `runRecordCase` of the TLS 1.3 executor reads without a deadline, while its
  profile `tls-smoke.yaml:11` says `operationTimeoutMilliseconds: 5000`.
- The same executor takes a negative `PLAB_TOTAL_OPERATIONS` for `tls-smoke`;
  neither of the two conditions that end its loop is for a negative number
  (`go-tls13-executor/source/main.go:412`).
- `invokeTerminal` of the gRPC executor reads the clock after it has made the 50 ms
  context. A goroutine that loses more than 10 ms between the two finds a call to a
  correct peer too short; `PackagedGrpcPasses` excepts it.
- The WebSocket diagnostic drops data that a peer sends ahead of its response
  HEADERS without reporting it; `PassedIsOneToOne` starts at the HEADERS.
- The DoH2 reuse check sees only the connection that a request got last. A request
  that opened a new connection, was refused there and repeated is taken for a
  reused one; a first request so refused is rejected although its connection is new.
- The DoT executor accepts an answer that was sent ahead of its query, if it has the
  next ID.

## 4. Proofs

Eight modules hold the proofs. Each theorem is for every value of the constants
that satisfies the named assumption of its component. A module with the proofs of
several components has a part for each, which uses nothing of the others.

| Module | Proves | For every | Assumption |
|---|---|---|---|
| `H2LoadProofs` | `SlotAccounting`, `NoLostWakeup`, `PhaseUsesScheduler`, `NeverWaits`; `RecorderConsistent`, `CapHolds`; `BarrierProven`, `ReturnIsQuiescent`, `PhaseIsGated`, `VerdictDependsOnPeer` | number of connections, slots, workers, calls | `SchedulerAssumption`: positive sizes, finitely many workers; `PhaseAssumption`: workers = connections * streams, the shape of every profile that `loadConfigFromEnvironment` accepts |
| `HttpAndTlsProofs` | `ArtifactsStayOrdered`, `ResultIsEarned` | number of runs, set of scenarios | `ExecutorAssumption`: at least one run, finitely many scenarios and at least one, none named like the unset or the unsupported one |
| | `Http1ResultEarned` | number of requests in oha's report | `Http1Assumption`: the report's bound is positive |
| | `TlsPassEarned`, `PackagedTlsAgrees` | number of operations and record cases | `TlsAssumption`: both positive |
| `GrpcAndRawQuicProofs` | `GrpcExitZeroIsEarned`, `PackagedGrpcPairPasses` | number of messages and channels, flow-control window, pauses and latencies | `GrpcAssumption`: the numbers positive, some pause possible |
| | `StreamOutcomeIsExact` | pattern period, buffer, credit, read limit, longest payload | `StreamAssumption`: the first three positive, the other two at least the largest payload of a scenario |
| `RawQuicLoadProofs` | `BatchesAddUp`, `LoadResultMeasured` | set of connections, streams, batches | `LoadAssumption`: finitely many connections and at least one, the others positive |
| `WebSocketProofs` | `WebSocketAcceptanceIsOneToOne`, `PackagedWebSocketPairPasses` | operations of a phase, messages of a foreign peer under way | `WebSocketAssumption`: both positive |
| | `OperationExitZeroIsEarned` | operations of a phase | `OperationAssumption`: positive |
| `H2WebSocketStreamProofs` | `StreamsAreSound` | number of streams, messages, groups, faults; capacity, window | `SessionAssumption`: all positive, faults not negative |
| `H2WebSocketSessionProofs` | `WorkersAreSound`, `SessionReportsAreTrue`, `SessionPassIsOneToOne` | the same | the same |
| `DnsProofs` | `ExchangesOwn`, `ClassicResultEarned` | ID space, lifetime of a stray datagram, number of exchanges and faults | `DnsAssumption`: the ID space is even, a datagram lives for less than half a round of it |
| | `SecureResultEarned`, `PackagedDnsAgrees` | number of queries, excess answers, repeated requests, ID space | `SecureDnsAssumption`: an answer does not wait until its ID comes round again |

The HTTP/2 load engine:

- `SchedulerTypeCorrect`, then `SlotAccounting` by induction with the type
  invariant: each action adds or removes one element of one `Holders(c)`, and
  the cardinality lemmas of the library do the counting. It is what makes
  `release` non-blocking.
- `NoLostWakeup`: `WaiterHasWaker` is inductive only together with what a scan
  knows: a full channel has a holder (`FullHasHolder`, from `SlotAccounting`).
- `PhaseUsesScheduler`: a step of the phase is a step of the scheduler or
  leaves it alone, so the scheduler's theorems hold in the phase.
- `NeverWaits`: with as many workers as slots no acquire sleeps. Invariant: while
  a scan is under way some channel that it has not passed has room. It holds
  because otherwise all channels are full, so there are as many holders as
  workers, and the scanning worker is not a holder (a pigeonhole argument,
  `AllFullCount` and `NotFullCount`). Since only the worker in the mutex takes
  slots, room cannot vanish under a scan.
- `ControlInvariant` ties the three program counters of the phase together
  (`WorkerMatchesCall`, `FirstMatchesCalls`, `BarrierHolds`, `ReturnInv`,
  `ReadyCounts`: the WaitGroup counts the workers that have not arrived). From
  it follow `RecorderConsistent`, `CapHolds` (with `SlotAccounting`),
  `BarrierProven` (when the last worker has arrived all are in flight, and the
  cap leaves each connection exactly its share), `ReturnIsQuiescent`,
  `PhaseTypeCorrect` and `VerdictDependsOnPeer`.
- `PhaseIsGated`: initial states map to initial states, and every step to a step
  of `GatedPhase` or a stutter.

The HTTP executors:

- `ArtifactsStayOrdered` and `ResultIsEarned`: neither is inductive, because
  neither says where `main` stands. `ExecutorInv` adds it. `Done(stage)` is the
  number of artifacts that `main` has completed at a stage; `Progressed` says that
  those are whole and of this run, that the one being written is of this run, and
  that all later ones are of earlier runs; `Knows` says which stages lie behind
  the validation gate and the accepted measurement, and that the validation
  artifacts carry the gate's verdict. Every step is a launch, the end of a run, a
  step that only takes `main` on, the truncation of an artifact or its completion
  (`StepKinds`), with one lemma for each. The order of the eight artifacts enters
  only through the lemma `Order`.

- `Http1ResultEarned`: `Http1Inv` adds what is settled at each point of `main`:
  both checks exact and the gate's documents written behind the gate, oha's files
  behind its run, an acceptable report before the write, and no result file
  before the end. A write that fails half-way leaves a prefix of its files
  (`ArtifactsWritten`).

Classic DNS:

- `ExchangesOwn`: an ID says whose response a datagram is only as long as no old
  datagram carries the current ID. `ClassicInv` therefore keeps, for every
  datagram in flight, how far the current ID is ahead of it (`Ahead`): IDs are
  odd on the socket and go up by two, so after `k` exchanges the ID is `2k` ahead,
  and with a lifetime below half a round that is never 0 modulo the ID space.
  `ModTwo` and its neighbours replace `%` by a case distinction.
- `ClassicResultEarned`: `Tallied` ties the summary to the exchanges made in the
  phase, `Earned` the phases left behind to their being clean, and `Faultless`
  says that without a fault nothing but the pending response is on its way.

Encrypted DNS:

- `SecureResultEarned`: on DoT an answer sent in excess waits in the connection
  and is read in the place of a later one. `Waiting` bounds its age: the answer in
  place `k` of the queue is at most `MaxAnswers + 1 - k` queries old and at most one
  ahead (`InTurn`), so it has the current ID only if it was made for the current
  query. On the other transports the stream is the
  query's own. `Counting` and `Connected` tie the summary and the dials to the
  queries asked.
- `PackagedDnsAgrees`: `Passing` follows query and answer between an executor and
  its target; at most one message is in flight.

TLS:

- `TlsPassEarned`: what comes after the handshake comes after `validateState`, and
  a server resumes only what was offered (`Validated`).
- `PackagedTlsAgrees`: `OnTrack` lists, step by step, what may be in the two
  directions of a connection that is not cut off; `SingleUse` follows the ticket
  from the source connection into the next one. The case that needs it is a
  target that closes right behind its ticket.

Raw QUIC load:

- `BatchesAddUp`: while a batch runs its statistics are incomplete, and no equation
  between the totals holds. `BatchSums` says by how much: the total is the weight
  of the goroutines that have settled plus the number of those between counting
  a request and its outcome, and successes plus failures are the settled
  ones alone. `OwnStats` is the same for the statistics that a goroutine of a
  sequential or churn batch keeps for itself before it merges them. One lemma for
  each kind of goroutine step; the cardinality lemmas of the library do the
  counting.
- `LoadResultMeasured`: `PhaseCounts` says that the phase's statistics are those of
  the batches merged so far and that a warm-up leaves none.

gRPC:

- `GrpcExitZeroIsEarned`: the property speaks of the whole log of a stream, the
  executor sees one event at a time. `ExecutorReads` says what it has read at each
  step (`Reading(n)`: the first `n` events of the log are behind it, the rest is
  in flight), `WellFormed` that headers come first and nothing follows the end of
  a stream, `Counting` ties calls to channels.
- `PackagedGrpcPairPasses`: `PackagedInv` has one part for each kind of handler. In
  the bidirectional one the requests unsent, in flight, taken and answered always
  add up; in the deadline scenario an answer exists only after the target's hold,
  so a call that was judged by an answer has lasted too long, whenever the executor
  began to measure it.

Raw QUIC stream:

- `StreamOutcomeIsExact`: `Carried` says that the server's payload, the bytes in
  flight and the bytes still to be written make up the request, in this order,
  whatever the cuts; `DownInv` the same for the answer, which exists only once the
  whole request was read or given up; `Checked` that what the client let pass is
  the expected payload. `Agree(s, k, w)` (`s` lies in `w` behind position `k`)
  replaces concatenation: each transport step moves a boundary.

WebSocket over HTTP/1:

- `WebSocketAcceptanceIsOneToOne`: `Accounted` says that every frame the peer sent
  in a phase was taken or still waits, and that a defective one still waits, where
  the reads of the closing handshake must meet it. `Tallied` ties the counts of a
  phase to its connections.
- `PackagedWebSocketPairPasses`: `Exchange` lists what may be in flight between the
  two, and `InTime` compares their clocks: the server's one deadline per
  connection is always further away than what the executor's own deadlines leave
  it (`Needs`).

WebSocket over HTTP/2:

- `OperationExitZeroIsEarned`: `OpCounts` says that every operation begun is
  counted or running, and that the completed ones earned it.
- The invariant of the multiplexed session is in `H2WebSocketInvariant`, in two
  parts that are proved one after the other. `WorkInv` is about main, the workers
  and the closers and does not depend on the streams (`WorkersAreSound`);
  `StreamInv` is about the bytes and uses it (`StreamsAreSound`).
- `SessionReportsAreTrue` follows from `WorkInv`. `Maximum`: `peak` is the largest
  value `active` ever had, or a worker that holds that value is about to store it,
  so the compare-and-swap loop loses no maximum; `active` is the number of workers
  inside. `Reported`: an error is held by a goroutine that was not asked yet, or
  by `err`.
- `SessionPassIsOneToOne`: a byte of a stream is on the wire, in the reader's hand,
  in an event of the bounded channel or in the goroutine's buffer, and DATA frames
  cut frames anywhere. `Matched` says that there is one sequence `f` of which these
  are consecutive pieces (`Flows`; `Cut` gives the positions), which begins with `k`
  texts, and that `k` is the surplus of the peer's texts plus the one that a waiting
  worker is owed (`Paired`). What lies before the HEADERS of the stream is cut off
  first (`Headed`): it is dropped on its way, so it counts for nothing, and a stream
  without HEADERS in it holds none of the peer's counted texts (`Headless`). The
  closer reads what follows its last message: only a close with `k = 0` before it
  lets it end well.

Each inductive invariant was also checked by TLC, on the constants of the runs (that
of the session with the one sequence `f` that its pieces determine, because TLC
cannot search all sequences). The proofs also changed the models in places where TLC
had been lenient: `AcceptedIsOneToOne` and `feed` had overlapping CASE guards,
`DataPrefix` chose a length where it need only test one, and `RawQuicStream` did not
say that its bounds admit the largest payload of a scenario.

Only model-checked are:

- all liveness properties (fairness and `ENABLED` are out of the prover's reach);
- `RecordsAreCounted`, which says what a recursion over a sequence computes:
  induction over data is out of reach as well.

## 5. Not modelled

Left out of the modelled programs: the contents of messages, hashes, header
blocks and certificates (each is right or wrong), cryptography, HTTP/2, HTTP/3
and QUIC as such (libraries), latencies, percentiles and other metrics, option
parsing of the raw QUIC load, the identity checks of the classic DNS executor
before its preflight, and failing artifact writes (exit 1 without a result) outside
`H2Executor` and `Http1Executor`.

Left out as a whole:

- *TLS key update and early data*: C and Rust programs whose protocol state
  (key epochs, replay rules) is in OpenSSL and rustls.
- *WebTransport and MASQUE*: one operation at a time over a library, with phases
  and gates of the same form as in the modelled executors.
- *RFC 9220 WebSocket client*: Python; framing and operations are those of the
  modelled WebSocket pairs, over aioquic and nghttpx.
- *h3spec, curl and xquic wrappers*: scripts around external programs; what is
  their own is text processing.
- *Other raw QUIC servers, other WebSocket, gRPC and TLS servers*: handlers on
  libraries that hold the protocol state. The executor models meet them as peers
  that may send anything.
- *HTTP servers with own code, resolver helpers, third-party packages*: a reply
  is a function of the request, or there is only start-up and configuration.
- *Release selection, package builds, manifests*: PowerShell over files with no
  state that outlives a call, pure I/O, and data.
