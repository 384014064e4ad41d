----------------------------- MODULE MCExecutors -----------------------------
(***************************************************************************)
(* The HTTP/2 executor's process (two scenarios, two runs over one         *)
(* directory), the HTTP/1.1 executor, the gRPC executor with its target,   *)
(* the raw QUIC stream (every supported scenario and flag combination, up  *)
(* to one symbol above the server's read limit; the window is smaller than *)
(* most payloads) and the raw QUIC load (two connections of two streams,   *)
(* all modes). They share no state: a behaviour is one of them, with the   *)
(* others where they stop when their arguments are refused or their        *)
(* connection fails.                                                       *)
(***************************************************************************)
EXTENDS H2Executor, Http1Executor, GrpcChannel, RawQuicStream, RawQuicLoad

CONSTANTS c1, c2

TwoConns == {c1, c2}
TwoScenarios == {"http2.core.plaintext", "http2.core.json"}

H2ExecutorAtRest ==
  /\ run = MaxRuns /\ stage = "exited" /\ writing = FALSE
  /\ env = [scenario |-> "", arguments |-> FALSE, validationOnly |-> FALSE, profile |-> FALSE]
  /\ disk = [f \in Files |-> NoFile] /\ dialled = FALSE /\ checks = << >>
  /\ load = "none" /\ measured = NoSummary /\ warmupErr = FALSE
  /\ stdout = "empty" /\ exitCode = "2"

Http1AtRest ==
  /\ job = [scenario |-> "unknown", validationOnly |-> FALSE, arguments |-> FALSE,
            config |-> FALSE, warmup |-> FALSE]
  /\ h1At = "exited" /\ h1Exit = 2 /\ checked = << >> /\ report = noReport
  /\ files = {} /\ warmups = "none" /\ loads = "none"

GrpcAtRest ==
  /\ selection = [scenario |-> "unknown", profile |-> "smoke", exact |-> FALSE]
  /\ target = "packaged" /\ at = "exit" /\ warm = FALSE /\ done = 0 /\ opened = 0
  /\ up = << >> /\ down = << >> /\ unsent = 0 /\ handler = "none" /\ took = 0 /\ read = 0
  /\ elapsed = 0 /\ started = 0 /\ held = 0 /\ latency = 0 /\ failed = "no"
  /\ code = 2 /\ log = << >> /\ cancelled = "no" /\ fault = FALSE

StreamAtRest ==
  /\ opts = CHOOSE o \in FromFlags : TRUE
  /\ client = "done" /\ reader = "none" /\ toSend = << >> /\ req = << >> /\ upFin = FALSE
  /\ resp = << >> /\ downFin = FALSE /\ received = 0
  /\ server = "idle" /\ payload = << >> /\ offset = 0
  /\ cutoff = "deadline" /\ outcome = "timeout"

LoadAtRest ==
  /\ loadOpts = [mode |-> "concurrent", warmup |-> FALSE, failOnErrors |-> FALSE]
  /\ phase = "measured" /\ main = "exited" /\ batches = 0 /\ expired = FALSE
  /\ openConns = {} /\ g = [i \in Goroutines |-> "done"] /\ left = [i \in Goroutines |-> 0]
  /\ local = [i \in Goroutines |-> Zero] /\ batch = Zero
  /\ stats = [Zero EXCEPT !.failed = Cardinality(Conns) * Streams, !.errors = 1]
  /\ err = TRUE /\ document = "none" /\ loadExit = "1"

ProcessesAtRest == H2ExecutorAtRest /\ Http1AtRest
StreamsAtRest == GrpcAtRest /\ StreamAtRest /\ LoadAtRest

Init ==
  \/ ExecutorInit /\ Http1AtRest /\ StreamsAtRest
  \/ H2ExecutorAtRest /\ Http1Init /\ StreamsAtRest
  \/ ProcessesAtRest /\ GrpcInit /\ StreamAtRest /\ LoadAtRest
  \/ ProcessesAtRest /\ GrpcAtRest /\ StreamInit /\ LoadAtRest
  \/ ProcessesAtRest /\ GrpcAtRest /\ StreamAtRest /\ LoadInit

Next ==
  \/ ExecutorNext /\ UNCHANGED << http1Vars, grpcVars, rawVars, loadVars >>
  \/ Http1Next /\ UNCHANGED << execVars, grpcVars, rawVars, loadVars >>
  \/ GrpcNext /\ UNCHANGED << execVars, http1Vars, rawVars, loadVars >>
  \/ StreamNext /\ UNCHANGED << execVars, http1Vars, grpcVars, loadVars >>
  \/ LoadNext /\ UNCHANGED << execVars, http1Vars, grpcVars, rawVars >>

Spec ==
  /\ Init /\ [][Next]_<< execVars, http1Vars, grpcVars, rawVars, loadVars >>
  /\ GrpcFairness /\ StreamFairness /\ LoadFairness
=============================================================================
