----------------------------- MODULE GrpcChannel -----------------------------
(***************************************************************************)
(* go-grpc-h2-executor and its target go-grpc-h2: the twelve scenarios, as *)
(* calls over an HTTP/2 channel. The executor's transport writes the       *)
(* request messages while the executor waits for the response and reads    *)
(* it; flow control limits what is under way in each direction. The peer   *)
(* is the packaged target or an implementation under test that may answer  *)
(* anything. Time is counted, in steps of 10 ms, only where the code       *)
(* compares it: in the deadline scenario.                                  *)
(***************************************************************************)
EXTENDS Integers, Sequences

CONSTANTS StreamMessages,  \* bound: streamMessageCount and the spec's 100
          ChannelOps,      \* bound: the ten operations of executeNewChannel
          Window,          \* messages flow control lets under way
          Pauses,          \* bound: what the executor may lose before a call, in 10 ms
          Times            \* bound: when anything may happen in a call, in 10 ms

ASSUME GrpcAssumption ==
  /\ StreamMessages \in Nat \ {0} /\ ChannelOps \in Nat \ {0} /\ Window \in Nat \ {0}
  /\ Pauses \subseteq Nat /\ Pauses # {} /\ Times \subseteq Nat

identitySpec == [requests |-> 1, responses |-> 1, mode |-> "echo", newChannel |-> FALSE]
streamingSpec(requests, responses) ==
  [identitySpec EXCEPT !.requests = requests, !.responses = responses]
terminalSpec(mode) == [identitySpec EXCEPT !.responses = 0, !.mode = mode]

specFor ==
  [unaryEcho |-> identitySpec, unaryEmpty |-> identitySpec, unaryMetadata |-> identitySpec,
   unaryGzip |-> identitySpec, unaryLarge |-> identitySpec,
   serverStreaming |-> streamingSpec(1, StreamMessages),
   clientStreaming |-> streamingSpec(StreamMessages, 1),
   bidiStreaming |-> streamingSpec(StreamMessages, StreamMessages),
   trailersOnly |-> terminalSpec("trailers-only"),
   deadlineExceeded |-> terminalSpec("deadline-exceeded"),
   clientCancellation |-> terminalSpec("client-cancellation"),
   echoNewChannel |-> [identitySpec EXCEPT !.newChannel = TRUE]]

Profiles == {"smoke", "diagnostic", "churn", "other"}
Smoke == {"unaryEcho", "serverStreaming", "clientStreaming", "bidiStreaming"}
Diagnostic == {"unaryEmpty", "unaryMetadata", "unaryGzip", "unaryLarge"}

(* validateSelection: which profile a scenario may run under. *)
bound(id, profile) ==
  /\ profile # "other"
  /\ profile = "smoke" => id \in Smoke
  /\ specFor[id].mode # "echo" => profile = "diagnostic"
  /\ specFor[id].newChannel => profile = "churn"
  /\ profile = "diagnostic" /\ specFor[id].mode = "echo" => id \in Diagnostic

(* The deadlines of the deadline scenario, in steps of 10 ms. *)
clientDeadline == 5
earliest == 4
latest == 25
targetHoldsShort == 3
targetHolds == 25

NoCode == -1

VARIABLES selection,   \* scenario, profile, and whether the identity variables match
          target,      \* "packaged" or "foreign"
          at,          \* what the executor does or waits for
          warm,        \* the smoke profile's warm-up call is still to come
          done, opened,     \* operations completed, channels opened
          up, down,    \* the stream: to the target and back, in order
          unsent,      \* request messages the transport has yet to write; the end counts as one
          handler,     \* the target's handler: "none", "reading", "holding", "writing", "returned"
          took,        \* messages the handler has read and not answered, or has yet to write
          read,        \* response messages the executor has accepted
          elapsed,     \* 10 ms steps since the call's context was made
          started, held,   \* its value when RoundTrip began, and when the handler began
          latency,     \* the duration of RoundTrip
          failed,      \* how RoundTrip ended without a response: "no", "deadline", "error"
          code,        \* exit code
          log,         \* history: all the target sent on this call
          cancelled,   \* history: what ended the call when the executor cancelled it
          fault        \* history: a connection failed or a timeout passed

grpcVars == << selection, target, at, warm, done, opened, up, down, unsent, handler, took,
               read, elapsed, started, held, latency, failed, code, log, cancelled, fault >>

rpc == specFor[selection.scenario]

GrpcInit ==
  /\ selection \in [scenario : DOMAIN specFor \cup {"unknown"}, profile : Profiles,
                    exact : BOOLEAN]
  /\ target \in {"packaged", "foreign"}
  /\ at = "select" /\ warm = FALSE /\ done = 0 /\ opened = 0
  /\ up = << >> /\ down = << >> /\ unsent = 0 /\ handler = "none" /\ took = 0 /\ read = 0
  /\ elapsed = 0 /\ started = 0 /\ held = 0 /\ latency = 0 /\ failed = "no"
  /\ code = NoCode /\ log = << >> /\ cancelled = "no" /\ fault = FALSE

streamVars == << up, down, unsent, handler, took, read, elapsed, started, held, latency, failed,
                 log >>

(* A new stream: RoundTrip has been called. The context of a terminal call  *)
(* is older than the time taken just before RoundTrip: the executor may     *)
(* lose time in between.                                                    *)
NewStream ==
  /\ at' = "roundtrip"
  /\ started' \in IF rpc.mode = "deadline-exceeded" THEN Pauses ELSE {0}
  /\ up' = << >> /\ down' = << >> /\ unsent' = rpc.requests + 1
  /\ handler' = "reading" /\ took' = 0 /\ read' = 0
  /\ elapsed' = started' /\ held' = 0 /\ latency' = 0 /\ failed' = "no" /\ log' = << >>

ExitWith(c) == at' = "exit" /\ code' = c

(* main: specFor and validateSelection, then the dial. *)
Select ==
  /\ at = "select"
  /\ IF /\ selection.scenario \in DOMAIN specFor /\ selection.exact
        /\ bound(selection.scenario, selection.profile)
     THEN /\ at' = "open" /\ warm' = (selection.profile = "smoke") /\ UNCHANGED code
     ELSE ExitWith(2) /\ UNCHANGED warm
  /\ UNCHANGED << selection, target, done, opened, streamVars, cancelled, fault >>

(* openChannel: TCP, TLS 1.3 with ALPN h2 and the pinned leaf, HTTP/2. *)
OpenChannel ==
  /\ at = "open"
  /\ \/ NewStream /\ opened' = opened + 1 /\ UNCHANGED << code, fault >>
     \/ ExitWith(1) /\ fault' = TRUE /\ UNCHANGED << opened, streamVars >>
  /\ UNCHANGED << selection, target, warm, done, cancelled >>

(* A call is over: the warm-up is followed by the measured call on the same *)
(* channel; executeNewChannel closes the channel and opens the next.        *)
CallOver(passed) ==
  /\ UNCHANGED << selection, target, opened >>
  /\ CASE ~passed -> ExitWith(1) /\ UNCHANGED << warm, done, streamVars >>
       [] passed /\ warm -> NewStream /\ warm' = FALSE /\ UNCHANGED << done, code >>
       [] passed /\ ~warm ->
            /\ done' = done + 1
            /\ IF rpc.newChannel /\ done + 1 < ChannelOps
               THEN at' = "open" /\ UNCHANGED code ELSE ExitWith(0)
            /\ UNCHANGED << warm, streamVars >>

-----------------------------------------------------------------------------
(* The stream and the target. What ends a stream is a Trailers or a Reset;  *)
(* trailers-only is right headers (the status is in them) and no message.   *)

Headers(right) == [type |-> "headers", right |-> right]
Message(right) == [type |-> "message", right |-> right]
Trailers(status) == [type |-> "trailers", status |-> status]
Reset == [type |-> "reset"]

open == at \in {"roundtrip", "judge", "body", "cancel"}
executorVars == << selection, target, at, warm, done, opened, read, elapsed, started, latency,
                   failed, code, cancelled, fault >>

(* The transport writes the next request message, or the end of the stream. *)
WriteRequest ==
  /\ open /\ unsent > 0 /\ Len(up) < Window
  /\ up' = Append(up, IF unsent = 1 THEN "end" ELSE "message") /\ unsent' = unsent - 1
  /\ UNCHANGED << executorVars, down, handler, took, held, log >>

Say(m) == Len(down) < Window /\ down' = Append(down, m) /\ log' = Append(log, m)

(* The bidirectional handler starts its response with the first message it  *)
(* reads, and echoes each message before it reads the next.                 *)
handleBidirectionalStreaming ==
  \/ /\ took = 0 /\ up # << >> /\ Head(up) = "message"
     /\ took' = 1 /\ up' = Tail(up) /\ UNCHANGED << down, log, handler >>
  \/ /\ took = 0 /\ up # << >> /\ Head(up) = "end"
     /\ Say(Trailers("0")) /\ handler' = "returned" /\ UNCHANGED << up, took >>
  \/ /\ took = 1
     /\ IF log = << >> THEN Say(Headers(TRUE)) /\ UNCHANGED took
        ELSE Say(Message(TRUE)) /\ took' = 0
     /\ UNCHANGED << up, handler >>

(* The other streaming handlers and handleRPC read the whole request first. *)
ReadRequest ==
  /\ up # << >> /\ Head(up) = "message" /\ up' = Tail(up)
  /\ UNCHANGED << down, log, handler, took >>

handleStreaming ==
  /\ up # << >> /\ Head(up) = "end"
  /\ Say(Headers(TRUE)) /\ handler' = "writing" /\ took' = rpc.responses /\ UNCHANGED up

handleClientCancellation ==
  /\ rpc.mode = "client-cancellation" /\ up # << >> /\ Head(up) = "end"
  /\ Say(Headers(TRUE)) /\ handler' = "holding" /\ UNCHANGED << up, took >>

handleRPC ==
  /\ rpc.mode # "client-cancellation" /\ up # << >> /\ Head(up) = "end"
  /\ IF rpc.mode = "deadline-exceeded" THEN handler' = "holding" /\ UNCHANGED << down, log >>
     ELSE handler' = "writing" /\ Say(Headers(TRUE))
  /\ took' = rpc.responses /\ UNCHANGED up

(* What is left of a response: its messages, then the trailers. *)
WriteResponse ==
  /\ IF took > 0 THEN Say(Message(TRUE)) /\ took' = took - 1 /\ UNCHANGED handler
     ELSE /\ Say(Trailers(IF rpc.mode = "echo" THEN "0" ELSE "none"))
          /\ handler' = "returned" /\ UNCHANGED took
  /\ UNCHANGED up

streaming == rpc.requests > 1 \/ rpc.responses > 1

Handle ==
  /\ target = "packaged" /\ open /\ handler \in {"reading", "writing"}
  /\ \/ rpc.requests > 1 /\ rpc.responses > 1 /\ handleBidirectionalStreaming
     \/ /\ ~(rpc.requests > 1 /\ rpc.responses > 1)
        /\ \/ handler = "writing" /\ WriteResponse
           \/ handler = "reading" /\ ReadRequest
           \/ handler = "reading" /\ IF streaming THEN handleStreaming
                                      ELSE handleClientCancellation \/ handleRPC
  /\ held' = IF handler' = "holding" THEN elapsed ELSE held
  /\ UNCHANGED << executorVars, unsent >>

(* The deadline handler returns after 250 ms, which answers the call. *)
HandlerWakes ==
  /\ target = "packaged" /\ at = "roundtrip" /\ handler = "holding"
  /\ rpc.mode = "deadline-exceeded" /\ elapsed - held >= targetHolds
  /\ handler' = "returned" /\ Say(Headers(FALSE))
  /\ UNCHANGED << executorVars, up, unsent, took, held >>

(* An implementation under test answers what it likes, until it ends. *)
Ended == \E i \in 1 .. Len(log) : log[i].type \in {"trailers", "reset"}

ForeignAnswers ==
  /\ target = "foreign" /\ open /\ ~Ended /\ Len(log) <= rpc.responses + 2
  /\ \E m \in IF log = << >> THEN {Headers(TRUE), Headers(FALSE), Reset}
              ELSE {Message(TRUE), Message(FALSE), Trailers("0"), Trailers("none"), Reset} : Say(m)
  /\ UNCHANGED << executorVars, up, unsent, handler, took, held >>

ForeignReads ==
  /\ target = "foreign" /\ open /\ up # << >> /\ up' = Tail(up)
  /\ UNCHANGED << executorVars, down, unsent, handler, took, held, log >>

-----------------------------------------------------------------------------
(* The executor's side of a call. *)

callVars == << up, unsent, handler, took, elapsed, started, held, log >>

responseAfterRequest == down # << >> /\ unsent = 0
responseStarted == down # << >>

(* RoundTrip returns with the response headers, or with the stream's error. *)
RoundTrip ==
  /\ at = "roundtrip" /\ responseStarted
  /\ LET m == Head(down) IN
     CASE rpc.mode = "deadline-exceeded" ->
            /\ at' = "judge" /\ latency' = elapsed - started /\ down' = Tail(down)
            /\ failed' = IF m = Reset THEN "error" ELSE "no"
            /\ UNCHANGED << selection, target, warm, done, opened, callVars, read, code >>
       [] rpc.mode # "deadline-exceeded" /\ m = Reset -> CallOver(FALSE)
       [] rpc.mode # "deadline-exceeded" /\ m # Reset ->
            /\ at' = IF rpc.mode = "client-cancellation" THEN "cancel" ELSE "body"
            /\ down' = Tail(down)
            /\ UNCHANGED << selection, target, warm, done, opened, callVars, read, latency,
                            failed, code >>
  /\ UNCHANGED << cancelled, fault >>

(* What invoke finds at the end of the stream: no problem. *)
noProblemsUncounted(m) ==
  m.type = "trailers" /\ log[1].right /\ (rpc.mode = "echo" => m.status = "0")
noProblems(m) ==
  /\ m.type = "trailers" /\ read = rpc.responses /\ log[1].right
  /\ rpc.mode = "echo" => m.status = "0"

(* invoke after RoundTrip, or the trailers-only branch: reads to the end,   *)
(* and looks at the headers only then.                                      *)
ReadBody ==
  /\ at = "body" /\ down # << >>
  /\ LET m == Head(down)
         next == m.type = "message" /\ m.right /\ read < rpc.responses
     IN IF next THEN /\ read' = read + 1 /\ down' = Tail(down)
                     /\ UNCHANGED << selection, target, at, warm, done, opened, callVars,
                                     latency, failed, code >>
        ELSE CallOver(noProblems(m))
  /\ UNCHANGED << cancelled, fault >>

(* The 50 ms context of the deadline scenario ends the call, no sooner. *)
ContextFires ==
  /\ at = "roundtrip" /\ rpc.mode = "deadline-exceeded" /\ elapsed >= clientDeadline
  /\ at' = "judge" /\ failed' = "deadline" /\ latency' = elapsed - started
  /\ UNCHANGED << selection, target, warm, done, opened, callVars, down, read, code, cancelled,
                  fault >>

Judge ==
  /\ at = "judge"
  /\ CallOver(/\ failed = "deadline" \/ elapsed >= clientDeadline
              /\ failed # "no" /\ earliest <= latency /\ latency < latest)
  /\ UNCHANGED << cancelled, fault >>

(* Ten milliseconds after the headers the executor cancels and reads what   *)
(* has arrived by then; how the read ends it does not look at.              *)
CancelCall ==
  /\ at = "cancel"
  /\ \E k \in 0 .. Len(down) :
       /\ CallOver(log[1].right /\ \A i \in 1 .. k : down[i].type # "message")
       /\ cancelled' = IF \E i \in 1 .. k : down[i].type \in {"trailers", "reset"}
                       THEN "peer" ELSE "client"
  /\ UNCHANGED fault

Clock ==
  /\ at \in {"roundtrip", "judge"} /\ rpc.mode = "deadline-exceeded"
  /\ \E t \in Times : t > elapsed /\ elapsed' = t
  /\ UNCHANGED << selection, target, at, warm, done, opened, up, down, unsent, handler, took,
                  read, started, held, latency, failed, code, log, cancelled, fault >>

(* The connection fails or the operation's timeout passes. *)
CallFails ==
  /\ at \in {"roundtrip", "body", "cancel"} /\ fault' = TRUE
  /\ IF rpc.mode = "deadline-exceeded"
     THEN /\ at' = "judge" /\ failed' = "error" /\ latency' = elapsed - started
          /\ UNCHANGED << selection, target, warm, done, opened, callVars, down, read, code >>
     ELSE CallOver(FALSE)
  /\ UNCHANGED cancelled

GrpcExecutorStep == \/ Select \/ OpenChannel \/ RoundTrip \/ ReadBody \/ ContextFires
                    \/ Judge \/ CancelCall \/ WriteRequest

GrpcNext == \/ GrpcExecutorStep \/ Handle \/ HandlerWakes \/ ForeignAnswers \/ ForeignReads
            \/ Clock \/ CallFails

(* The executor, its transport, the packaged handler and the clock run on;  *)
(* every call has a context with a timeout, needed only against a peer      *)
(* that may fall silent: the packaged pair must do without.                 *)
GrpcFairness == /\ WF_grpcVars(GrpcExecutorStep) /\ WF_grpcVars(Handle) /\ WF_grpcVars(Clock)
                /\ WF_grpcVars(target = "foreign" /\ CallFails)

GrpcSpec == GrpcInit /\ [][GrpcNext]_grpcVars /\ GrpcFairness

-----------------------------------------------------------------------------
(* An executor that exits 0 has made the calls of its scenario, each on a   *)
(* channel of its own where the scenario says so; of the last one the peer  *)
(* sent exactly the right headers, the expected messages and the status 0,  *)
(* and nothing after them (invoke, readAndValidateResponseFrames); of a     *)
(* trailers-only call no message; of a packaged deadline call nothing.      *)
GrpcPassIsEarned ==
  code = 0 =>
    /\ ~warm /\ done = opened /\ done = IF rpc.newChannel THEN ChannelOps ELSE 1
    /\ CASE rpc.mode = "echo" ->
              log = << Headers(TRUE) >> \o [i \in 1 .. rpc.responses |-> Message(TRUE)]
                                        \o << Trailers("0") >>
         [] rpc.mode = "trailers-only" ->
              Len(log) = 2 /\ log[1] = Headers(TRUE) /\ log[2].type = "trailers"
         [] rpc.mode = "client-cancellation" -> log[1] = Headers(TRUE)
         [] rpc.mode = "deadline-exceeded" -> target = "packaged" => log = << >>

(* Against the packaged target a selected scenario fails only if a          *)
(* connection or a timeout failed it, or if the executor itself was slow in *)
(* the deadline scenario: it noticed the end of its 50 ms context 200 ms    *)
(* late (invokeTerminal's upper limit), or it lost more than 10 ms between  *)
(* making the context and looking at the clock (its lower limit: the call   *)
(* then seems too short). The target's 250 ms hold leaves no room for its   *)
(* answer to be taken for the outcome.                                      *)
PackagedGrpcPasses ==
  target = "packaged" /\ code = 1 /\ ~fault =>
    /\ rpc.mode = "deadline-exceeded"
    /\ latency >= latest \/ started > clientDeadline - earliest

(* The executor exits: with the packaged target although flow control       *)
(* bounds both directions of a bidirectional stream and without the help of *)
(* a timeout, with any other because of its timeouts.                       *)
GrpcExecutorEnds == <>(at = "exit")

(* client-cancellation.yaml: the client is the initiator and observes       *)
(* CANCELLED. invokeTerminal looks at its own context, which it has just    *)
(* cancelled.                                                               *)
CancellationIsClients ==
  code = 0 /\ rpc.mode = "client-cancellation" => cancelled = "client"
=============================================================================
